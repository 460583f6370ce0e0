-------------------------- MODULE SandcastleProofs --------------------------
(***************************************************************************)
(* Proofs, for any Tasks, Features and backlogs and any number of failing  *)
(* calls, crashes, interrupts and requeues, that the orchestrator closes   *)
(* only published Tasks, never takes work off a published branch, has no   *)
(* incomplete Feature merged, approves work only on its base, keeps        *)
(* checkpoints it can verify, does not forget approved work, publishes     *)
(* only work that is due, implements Delivery, and is never stuck.         *)
(***************************************************************************)
EXTENDS Sandcastle, FiniteSetTheorems, TLAPS

\* A claim is sound for t: the commit it is about exists, an integrated head
\* contains it and is on the local branch, and so does the receipt.
Sound(claim, t) ==
  /\ Approved(claim) => t \in tip[t]
  /\ claim.checkpoint \in {"integrated", "published"} =>
       /\ t \in claim.head /\ claim.expected \subseteq claim.head
       /\ Feature[t] # None => claim.head \subseteq local[Branch(t)]
  /\ claim.receipt # {} => t \in claim.receipt

ClaimsAreSound == \A t \in Tasks : Sound(mem[t], t) /\ Sound(file[t], t)

\* Nothing is integrated locally for a standalone Task.
StandaloneHasNoBranch == \A t \in Tasks \cap Branches : local[t] = {}

\* While a round is under way: a Task is worked on after its blockers closed,
\* and approved with what its base had.
RoundInv ==
  /\ batch # {} => mode \in {"claiming", "working"}
  /\ labelled # None => mode = "claiming"
  /\ mode \in {"authorizing", "promoting", "planning", "claiming"} =>
       approved = {}
  /\ mode = "claiming" =>
       \A t \in Tasks : t \in batch \/ t = labelled => OpenBlockers(t) = {}
  /\ mode = "working" => \A t \in todo : OpenBlockers(t) = {}
  /\ \A t \in approved : t \in tip[t]
  /\ mode \in {"working", "settled"} =>
       \A t \in approved :
         /\ local[Branch(t)] \subseteq tip[t]
         /\ \A u \in backlog.blockers[t] : Branch(u) = Branch(t) => u \in tip[t]

JobModes ==
  {"building", "integrated", "pushing", "opening", "published", "closing"}

\* The group that is being published.
JobInv ==
  mode \in JobModes =>
    /\ job.branch \in Branches
    /\ Group(job.branch) \subseteq job.head
    /\ job.expected \subseteq job.head
    /\ mode = "building" => job.branch \in Features
    /\ mode # "building" /\ job.branch \in Features =>
         job.head \subseteq local[job.branch]
    /\ mode = "opening" => remote[job.branch] = job.head

\* What is closed has landed, locally too.
ClosedIsLanded == \A t \in Tasks : issue[t] = "closed" => LandedLocally(t)

\* After the recovery the file is what the process has in memory; during it,
\* what memory has given up is closed or not labelled as held.
InSync ==
  /\ mode \notin {"off", "recovering"} => file = mem
  /\ mode = "recovering" =>
       \A t \in Tasks : Approved(file[t]) /\ ~Approved(mem[t]) =>
         issue[t] = "closed" \/ label[t] # "in-progress"

\* No process, nothing left to do.
OffIsIdle == mode = "off" => Idle

IInv ==
  /\ TypeOK /\ ClaimsAreSound /\ StandaloneHasNoBranch /\ RoundInv /\ JobInv
  /\ ClosedIsPublished /\ ClosedIsLanded /\ ReadyIsComplete
  /\ InSync /\ OffIsIdle

(***************************************************************************)
(* Types.                                                                  *)
(***************************************************************************)
LEMMA BranchType == \A t \in Tasks : Branch(t) \in Branches
  BY FeatureAssumption DEF Branch, Branches

\* Where main may stand.
Modes == {"off", "recovering", "authorizing", "promoting", "planning",
          "claiming", "working", "settled", "groups", "building",
          "integrated", "pushing", "opening", "published", "closing",
          "stopping", "leaving"}

LEMMA SetLabelType ==
  ASSUME TypeOK, NEW t \in Tasks, NEW l \in Labels, NEW ok, SetLabel(t, l, ok)
  PROVE  label' \in [Tasks -> Labels] /\ faults' \in Nat
  BY DEF TypeOK, SetLabel, Fault

LEMMA SetLabelsType ==
  ASSUME TypeOK, NEW S \in SUBSET Tasks, NEW new \in [Tasks -> Labels],
         SetLabels(S, new)
  PROVE  label' \in [Tasks -> Labels] /\ faults' \in Nat
<1>1. PICK lost \in SUBSET S :
        /\ faults' = faults + Cardinality(lost)
        /\ label' = [t \in Tasks |->
                        IF t \in S \ lost THEN new[t] ELSE label[t]]
  BY DEF SetLabels
<1>2. Cardinality(lost) \in Nat
  BY <1>1, TasksAssumption, FS_Subset, FS_CardinalityType
<1>3. QED
  BY <1>1, <1>2 DEF TypeOK

LEMMA DropType ==
  ASSUME TypeOK, NEW t \in Tasks, Drop(t)
  PROVE  mem' \in [Tasks -> Claim]
  BY DEF TypeOK, Drop, NoClaim, ClaimAt, Claim, Checkpoints

LEMMA CloseLandedType ==
  ASSUME TypeOK, NEW t \in Tasks, CloseLanded(t), clearing \subseteq Tasks
  PROVE  /\ issue' \in [Tasks -> {"open", "closed"}] /\ faults' \in Nat
         /\ blocking' \subseteq Tasks /\ clearing' \subseteq Tasks
  BY DEF TypeOK, CloseLanded, Blockable, Fault

LEMMA FailGroupType ==
  ASSUME TypeOK, FailGroup
  PROVE  /\ failed' \in BOOLEAN /\ pending' \subseteq Branches
         /\ mode' \in {"stopping", "groups"} /\ job' = NoJob
  BY DEF TypeOK, FailGroup

LEMMA JobType ==
  ASSUME NEW b \in Branches \cup {None}, NEW head \in SUBSET Tasks,
         NEW expected \in SUBSET Tasks
  PROVE  [branch |-> b, head |-> head, expected |-> expected]
           \in [branch : Branches \cup {None}, head : SUBSET Tasks,
                expected : SUBSET Tasks]
  OBVIOUS

LEMMA NoJobType ==
  NoJob \in [branch : Branches \cup {None}, head : SUBSET Tasks,
             expected : SUBSET Tasks]
  BY DEF NoJob

LEMMA ClaimType ==
  ASSUME NEW checkpoint \in Checkpoints, NEW head \in SUBSET Tasks,
         NEW expected \in SUBSET Tasks, NEW receipt \in SUBSET Tasks
  PROVE  [checkpoint |-> checkpoint, head |-> head, expected |-> expected,
          receipt |-> receipt] \in Claim
  BY DEF Claim

LEMMA SaveGroupType ==
  ASSUME TypeOK, NEW checkpoint \in Checkpoints, NEW receipt \in SUBSET Tasks,
         SaveGroup(checkpoint, receipt)
  PROVE  mem' \in [Tasks -> Claim] /\ file' = mem'
<1>1. job.head \in SUBSET Tasks /\ job.expected \in SUBSET Tasks
  BY DEF TypeOK
<1>2. [checkpoint |-> checkpoint, head |-> job.head,
       expected |-> job.expected, receipt |-> receipt] \in Claim
  BY <1>1, ClaimType
<1>3. QED
  BY <1>2 DEF TypeOK, SaveGroup, Persist

LEMMA NextType == TypeOK /\ [Next]_vars => TypeOK'
<1> SUFFICES ASSUME TypeOK, [Next]_vars PROVE TypeOK'
  OBVIOUS
<1>1. CASE Start
  BY <1>1, BranchType DEF Start, TypeOK, Claim, Checkpoints, Labels, github,
    disk, chores, process, outside, Recover, CannotRecover, CloseLanded,
    Blockable, SetLabel, Fault, Drop, Persist, NoClaim, ClaimAt, FailGroup,
    NoJob, Gone, Group, NextRound, Held
<1>2. CASE EndRecovery
  <2>1. UNCHANGED <<issue, label, remote, pr, local, tip, mem, cleanup, todo,
    labelled, batch, job, blocking, clearing, failed, aborted, faults, crashes,
    interrupts, requeues, backlog>>
    BY <1>2 DEF EndRecovery, github, disk, chores, process, outside
  <2>2. file' = mem /\ mode' \in Modes /\ resuming' \in BOOLEAN
    BY <1>2 DEF EndRecovery, Modes, TypeOK
  <2>3. approved' \subseteq Tasks /\ pending' \subseteq Branches
    BY <1>2, BranchType DEF EndRecovery, TypeOK
  <2>4. QED
    BY <2>1, <2>2, <2>3 DEF TypeOK, Modes
<1>3. ASSUME NEW t \in Tasks, BlockIssue(t) PROVE TypeOK'
  <2>1. UNCHANGED <<issue, remote, pr, local, tip, mode, cleanup, todo,
    labelled, batch, approved, pending, job, clearing, resuming, failed,
    aborted, crashes, interrupts, requeues, backlog>>
    BY <1>3 DEF BlockIssue, github, disk, chores, process, outside
  <2>2. PICK ok \in BOOLEAN :
          /\ SetLabel(t, "blocked", ok)
          /\ IF ok THEN Drop(t) /\ Persist ELSE UNCHANGED <<mem, file>>
    BY <1>3 DEF BlockIssue
  <2>3. label' \in [Tasks -> Labels] /\ faults' \in Nat
    BY <2>2, SetLabelType DEF Labels
  <2>4. mem' \in [Tasks -> Claim] /\ file' \in [Tasks -> Claim]
    BY <2>2, DropType DEF Persist, TypeOK
  <2>5. blocking' \subseteq Tasks
    BY <1>3 DEF BlockIssue, TypeOK
  <2>6. QED
    BY <2>1, <2>2, <2>3, <2>4, <2>5 DEF TypeOK, Modes
<1>4. ASSUME NEW t \in Tasks, ClearLabel(t) PROVE TypeOK'
  <2>1. UNCHANGED <<issue, remote, pr, local, tip, mode, todo, labelled, batch,
    approved, pending, job, blocking, resuming, failed, aborted, crashes,
    interrupts, requeues, backlog>>
    BY <1>4 DEF ClearLabel, github, disk, chores, process, outside
  <2>2. PICK ok \in BOOLEAN :
          /\ SetLabel(t, "none", ok)
          /\ IF ok THEN Drop(t) /\ Persist /\ UNCHANGED cleanup
                   ELSE cleanup' = cleanup \cup {t} /\ UNCHANGED <<mem, file>>
    BY <1>4 DEF ClearLabel
  <2>3. label' \in [Tasks -> Labels] /\ faults' \in Nat
    BY <2>2, SetLabelType DEF Labels
  <2>4. mem' \in [Tasks -> Claim] /\ file' \in [Tasks -> Claim] /\ cleanup'
    \subseteq Tasks
    BY <2>2, DropType DEF Persist, TypeOK
  <2>5. clearing' \subseteq Tasks
    BY <1>4 DEF ClearLabel, TypeOK
  <2>6. QED
    BY <2>1, <2>2, <2>3, <2>4, <2>5 DEF TypeOK, Modes
<1>5. ASSUME NEW t \in Tasks, RecoverUnread(t) PROVE TypeOK'
  BY <1>5, BranchType DEF RecoverUnread, TypeOK, Claim, Checkpoints, Labels,
    github, disk, chores, process, outside, Recover, CannotRecover,
    CloseLanded, Blockable, SetLabel, Fault, Drop, Persist, NoClaim, ClaimAt,
    FailGroup, NoJob, Gone, Group, NextRound, Held
<1>6. ASSUME NEW t \in Tasks, RecoverClosed(t) PROVE TypeOK'
  <2>1. UNCHANGED <<issue, remote, pr, file, local, tip, mode, cleanup,
    labelled, batch, approved, pending, job, blocking, clearing, resuming,
    aborted, crashes, interrupts, requeues, backlog>>
    BY <1>6 DEF RecoverClosed, Recover, CannotRecover, github, disk, chores,
      process, outside
  <2>2. label' \in [Tasks -> Labels] /\ faults' \in Nat
    BY <1>6, SetLabelType DEF RecoverClosed, Labels, Fault, TypeOK
  <2>3. mem' \in [Tasks -> Claim] /\ failed' \in BOOLEAN
    BY <1>6, DropType DEF RecoverClosed, CannotRecover, TypeOK
  <2>4. todo' \subseteq Tasks
    BY <1>6 DEF RecoverClosed, Recover, TypeOK
  <2>5. QED
    BY <2>1, <2>2, <2>3, <2>4 DEF TypeOK, Modes
<1>7. ASSUME NEW t \in Tasks, RecoverReleased(t) PROVE TypeOK'
  BY <1>7, BranchType DEF RecoverReleased, TypeOK, Claim, Checkpoints, Labels,
    github, disk, chores, process, outside, Recover, CannotRecover,
    CloseLanded, Blockable, SetLabel, Fault, Drop, Persist, NoClaim, ClaimAt,
    FailGroup, NoJob, Gone, Group, NextRound, Held
<1>8. ASSUME NEW t \in Tasks, RecoverPublished(t) PROVE TypeOK'
  BY <1>8, BranchType DEF RecoverPublished, TypeOK, Claim, Checkpoints, Labels,
    github, disk, chores, process, outside, Recover, CannotRecover,
    CloseLanded, Blockable, SetLabel, Fault, Drop, Persist, NoClaim, ClaimAt,
    FailGroup, NoJob, Gone, Group, NextRound, Held
<1>9. ASSUME NEW t \in Tasks, RecoverApproved(t) PROVE TypeOK'
  <2>1. UNCHANGED <<issue, label, remote, pr, file, local, tip, mode, cleanup,
    labelled, batch, approved, pending, job, blocking, clearing, resuming,
    aborted, crashes, interrupts, requeues, backlog>>
    BY <1>9 DEF RecoverApproved, Recover, CannotRecover, github, disk, chores,
      process, outside
  <2>2. Fault("tracker") \/ UNCHANGED faults
    BY <1>9 DEF RecoverApproved
  <2>3. faults' \in Nat
    BY <2>2 DEF Fault, TypeOK
  <2>4. failed' \in {failed, TRUE}
    BY <1>9 DEF RecoverApproved, CannotRecover
  <2>5. todo' \subseteq Tasks
    BY <1>9 DEF RecoverApproved, Recover, TypeOK
  <2>6. mem' \in {mem, [mem EXCEPT ![t] = Demoted(mem[t])]}
    BY <1>9 DEF RecoverApproved, CannotRecover
  <2>7. Demoted(mem[t]) \in Claim
    BY DEF Demoted, TypeOK, Claim, Checkpoints
  <2>8. mem' \in [Tasks -> Claim]
    BY <2>6, <2>7 DEF TypeOK
  <2>9. QED
    BY <2>1, <2>2, <2>3, <2>4, <2>5, <2>6, <2>7, <2>8 DEF TypeOK, Modes
<1>10. ASSUME NEW t \in Tasks, RecoverClaimed(t) PROVE TypeOK'
  <2>1. UNCHANGED <<issue, remote, pr, file, local, tip, mode, cleanup,
    labelled, batch, approved, pending, job, blocking, clearing, resuming,
    aborted, crashes, interrupts, requeues, backlog>>
    BY <1>10 DEF RecoverClaimed, Recover, CannotRecover, github, disk, chores,
      process, outside
  <2>2. label' \in [Tasks -> Labels] /\ faults' \in Nat
    BY <1>10, SetLabelType DEF RecoverClaimed, Labels
  <2>3. mem' \in [Tasks -> Claim] /\ failed' \in BOOLEAN
    BY <1>10, DropType DEF RecoverClaimed, CannotRecover, TypeOK
  <2>4. todo' \subseteq Tasks
    BY <1>10 DEF RecoverClaimed, Recover, TypeOK
  <2>5. QED
    BY <2>1, <2>2, <2>3, <2>4 DEF TypeOK, Modes
<1>11. CASE Authorize
  <2>1. UNCHANGED <<issue, remote, pr, file, local, tip, mem, cleanup, todo,
    labelled, batch, approved, pending, job, blocking, clearing, resuming,
    failed, aborted, crashes, interrupts, requeues, backlog>>
    BY <1>11 DEF Authorize, github, disk, chores, process, outside
  <2>2. label' \in [Tasks -> Labels] /\ faults' \in Nat
  <3> DEFINE S == {t \in Tasks : /\ Feature[t] # None
                                 /\ issue[t] = "open" /\ label[t] = "none"}
             new == [t \in Tasks |-> IF t \in backlog.gated THEN "blocked"
                                     ELSE IF OpenBlockers(t) # {} THEN "queued"
                                     ELSE "implement"]
  <3>1. SetLabels(S, new)
    BY <1>11 DEF Authorize
  <3>2. S \in SUBSET Tasks /\ new \in [Tasks -> Labels]
    BY DEF Labels
  <3> HIDE DEF S, new
  <3>3. QED
    BY <3>1, <3>2, SetLabelsType
  <2>3. mode' = "promoting"
    BY <1>11 DEF Authorize
  <2>4. QED
    BY <2>1, <2>2, <2>3 DEF TypeOK, Modes
<1>12. CASE Promote
  <2>1. UNCHANGED <<issue, remote, pr, file, local, tip, mem, cleanup, todo,
    labelled, batch, approved, pending, job, blocking, clearing, resuming,
    failed, aborted, crashes, interrupts, requeues, backlog>>
    BY <1>12 DEF Promote, github, disk, chores, process, outside
  <2>2. label' \in [Tasks -> Labels] /\ faults' \in Nat
  <3> DEFINE S == {t \in Tasks \ backlog.gated : /\ issue[t] = "open"
                                                /\ label[t] = "queued"
                                                /\ OpenBlockers(t) = {}}
             new == [t \in Tasks |-> "implement"]
  <3>1. SetLabels(S, new)
    BY <1>12 DEF Promote
  <3>2. S \in SUBSET Tasks /\ new \in [Tasks -> Labels]
    BY DEF Labels
  <3> HIDE DEF S, new
  <3>3. QED
    BY <3>1, <3>2, SetLabelsType
  <2>3. mode' = "planning"
    BY <1>12 DEF Promote
  <2>4. QED
    BY <2>1, <2>2, <2>3 DEF TypeOK, Modes
<1>13. CASE Plan
  BY <1>13, BranchType DEF Plan, TypeOK, Claim, Checkpoints, Labels, github,
    disk, chores, process, outside, Recover, CannotRecover, CloseLanded,
    Blockable, SetLabel, Fault, Drop, Persist, NoClaim, ClaimAt, FailGroup,
    NoJob, Gone, Group, NextRound, Held
<1>14. ASSUME NEW t \in Tasks, ClaimIssue(t) PROVE TypeOK'
  <2>1. UNCHANGED <<issue, remote, pr, file, local, tip, mode, mem, cleanup,
    batch, approved, pending, job, blocking, clearing, resuming, failed,
    aborted, crashes, interrupts, requeues, backlog>>
    BY <1>14 DEF ClaimIssue, github, disk, chores, process, outside
  <2>2. label' \in [Tasks -> Labels] /\ faults' \in Nat
    BY <1>14, SetLabelType DEF ClaimIssue, Labels, TypeOK
  <2>3. labelled' \in Tasks \cup {None} /\ todo' \subseteq Tasks
    BY <1>14 DEF ClaimIssue, TypeOK
  <2>4. QED
    BY <2>1, <2>2, <2>3 DEF TypeOK, Modes
<1>15. CASE PersistClaim
  BY <1>15, BranchType DEF PersistClaim, TypeOK, Claim, Checkpoints, Labels,
    github, disk, chores, process, outside, Recover, CannotRecover,
    CloseLanded, Blockable, SetLabel, Fault, Drop, Persist, NoClaim, ClaimAt,
    FailGroup, NoJob, Gone, Group, NextRound, Held
<1>16. CASE RunPipelines
  BY <1>16, BranchType DEF RunPipelines, TypeOK, Claim, Checkpoints, Labels,
    github, disk, chores, process, outside, Recover, CannotRecover,
    CloseLanded, Blockable, SetLabel, Fault, Drop, Persist, NoClaim, ClaimAt,
    FailGroup, NoJob, Gone, Group, NextRound, Held
<1>17. ASSUME NEW t \in Tasks, RunIssuePipeline(t) PROVE TypeOK'
  <2>1. UNCHANGED <<issue, label, remote, pr, file, local, mode, mem, cleanup,
    labelled, batch, pending, job, blocking, clearing, resuming, failed,
    aborted, faults, crashes, interrupts, requeues, backlog>>
    BY <1>17 DEF RunIssuePipeline, github, disk, chores, process, outside
  <2>2. todo' \subseteq Tasks /\ approved' \subseteq Tasks
    BY <1>17 DEF RunIssuePipeline, TypeOK
  <2>3. Base(t) \in SUBSET Tasks
    BY BranchType DEF Base, TypeOK
  <2>4. tip' \in [Tasks -> SUBSET Tasks]
    BY <1>17, <2>3 DEF RunIssuePipeline, TypeOK
  <2>5. QED
    BY <2>1, <2>2, <2>3, <2>4 DEF TypeOK, Modes
<1>18. CASE Settle
  BY <1>18, BranchType DEF Settle, TypeOK, Claim, Checkpoints, Labels, github,
    disk, chores, process, outside, Recover, CannotRecover, CloseLanded,
    Blockable, SetLabel, Fault, Drop, Persist, NoClaim, ClaimAt, FailGroup,
    NoJob, Gone, Group, NextRound, Held
<1>19. CASE Review
  <2>1. UNCHANGED <<issue, label, remote, pr, local, tip, cleanup, todo,
    labelled, batch, approved, job, blocking, clearing, failed, aborted,
    faults, crashes, interrupts, requeues, backlog>>
    BY <1>19 DEF Review, github, disk, chores, process, outside
  <2>2. ClaimAt("reviewed") \in Claim
    BY ClaimType DEF ClaimAt, Checkpoints
  <2>3. mem' \in [Tasks -> Claim] /\ file' \in [Tasks -> Claim]
    BY <1>19, <2>2 DEF Review, Persist, TypeOK
  <2>4. resuming' \in BOOLEAN /\ mode' \in Modes
    BY <1>19 DEF Review, NextRound, Modes
  <2>5. pending' \subseteq Branches
    BY <1>19, BranchType DEF Review, TypeOK
  <2>6. QED
    BY <2>1, <2>2, <2>3, <2>4, <2>5 DEF TypeOK, Modes
<1>20. ASSUME NEW b \in Branches, NextGroup(b) PROVE TypeOK'
  <2>1. UNCHANGED <<issue, label, remote, pr, file, local, tip, mem, cleanup,
    todo, labelled, batch, approved, pending, blocking, clearing, resuming,
    failed, aborted, faults, crashes, interrupts, requeues, backlog>>
    BY <1>20 DEF NextGroup, github, disk, chores, process, outside
  <2>2. PICK t \in Group(b) :
          IF Resumable(b)
            THEN /\ job' = [branch |-> b, head |-> mem[t].head,
                            expected |-> mem[t].expected]
                 /\ mode' = "pushing"
            ELSE /\ job' = [branch |-> b, expected |-> BaseOf(t),
                            head |-> IF Feature[t] = None THEN tip[t]
                                     ELSE BaseOf(t) \cup
                                          UNION {tip[u] : u \in Group(b)}]
                 /\ mode' = IF Feature[t] = None THEN "integrated"
                            ELSE "building"
    BY <1>20 DEF NextGroup
  <2>3. /\ t \in Tasks /\ mem[t].head \in SUBSET Tasks
        /\ mem[t].expected \in SUBSET Tasks /\ tip[t] \in SUBSET Tasks
        /\ BaseOf(t) \in SUBSET Tasks
    BY BranchType DEF Group, BaseOf, Base, TypeOK, Claim
  <2>4. UNION {tip[u] : u \in Group(b)} \in SUBSET Tasks
    BY DEF Group, TypeOK
  <2>5. job' \in [branch : Branches \cup {None}, head : SUBSET Tasks, expected
    : SUBSET Tasks]
    BY <2>2, <2>3, <2>4, JobType
  <2>6. mode' \in Modes
    BY <2>2 DEF Modes
  <2>7. QED
    BY <2>1, <2>2, <2>3, <2>4, <2>5, <2>6 DEF TypeOK, Modes
<1>21. CASE Build
  BY <1>21, BranchType DEF Build, TypeOK, Claim, Checkpoints, Labels, github,
    disk, chores, process, outside, Recover, CannotRecover, CloseLanded,
    Blockable, SetLabel, Fault, Drop, Persist, NoClaim, ClaimAt, FailGroup,
    NoJob, Gone, Group, NextRound, Held
<1>22. CASE BuildFails
  BY <1>22, BranchType DEF BuildFails, TypeOK, Claim, Checkpoints, Labels,
    github, disk, chores, process, outside, Recover, CannotRecover,
    CloseLanded, Blockable, SetLabel, Fault, Drop, Persist, NoClaim, ClaimAt,
    FailGroup, NoJob, Gone, Group, NextRound, Held
<1>23. CASE SaveIntegration
  <2>1. UNCHANGED <<issue, label, remote, pr, local, tip, cleanup, todo,
    labelled, batch, approved, pending, job, blocking, clearing, resuming,
    failed, aborted, faults, crashes, interrupts, requeues, backlog>>
    BY <1>23 DEF SaveIntegration, github, disk, chores, process, outside
  <2>2. mem' \in [Tasks -> Claim] /\ file' = mem'
    BY <1>23, SaveGroupType DEF SaveIntegration, Checkpoints
  <2>3. mode' = "pushing"
    BY <1>23 DEF SaveIntegration
  <2>4. QED
    BY <2>1, <2>2, <2>3 DEF TypeOK, Modes
<1>24. CASE PushTree
  <2>1. UNCHANGED <<issue, label, pr, file, local, tip, mem, cleanup, todo,
    labelled, batch, approved, blocking, clearing, resuming, aborted, faults,
    crashes, interrupts, requeues, backlog>>
    BY <1>24 DEF PushTree, github, disk, chores, process, outside
  <2>2. remote' \in [Branches -> SUBSET Tasks]
    BY <1>24 DEF PushTree, TypeOK
  <2>3. mode' \in Modes /\ failed' \in BOOLEAN /\ pending' \subseteq Branches
    /\ job' \in {job, NoJob}
    BY <1>24, FailGroupType DEF PushTree, Modes, TypeOK
  <2>4. QED
    BY <2>1, <2>2, <2>3, NoJobType DEF TypeOK, Modes
<1>25. CASE OpenPullRequest
  <2>1. UNCHANGED <<issue, label, remote, file, local, tip, mem, cleanup, todo,
    labelled, batch, approved, blocking, clearing, resuming, aborted, faults,
    crashes, interrupts, requeues, backlog>>
    BY <1>25 DEF OpenPullRequest, github, disk, chores, process, outside
  <2>2. pr' \in [Branches -> {"none", "draft", "ready", "merged"}]
    BY <1>25 DEF OpenPullRequest, TypeOK
  <2>3. mode' \in Modes /\ failed' \in BOOLEAN /\ pending' \subseteq Branches
    /\ job' \in {job, NoJob}
    BY <1>25, FailGroupType DEF OpenPullRequest, Modes, TypeOK
  <2>4. QED
    BY <2>1, <2>2, <2>3, NoJobType DEF TypeOK, Modes
<1>26. CASE PublicationFails
  BY <1>26, BranchType DEF PublicationFails, TypeOK, Claim, Checkpoints,
    Labels, github, disk, chores, process, outside, Recover, CannotRecover,
    CloseLanded, Blockable, SetLabel, Fault, Drop, Persist, NoClaim, ClaimAt,
    FailGroup, NoJob, Gone, Group, NextRound, Held
<1>27. CASE SaveReceipt
  <2>1. UNCHANGED <<issue, label, remote, pr, local, tip, cleanup, labelled,
    batch, approved, pending, job, blocking, clearing, resuming, failed,
    aborted, faults, crashes, interrupts, requeues, backlog>>
    BY <1>27 DEF SaveReceipt, github, disk, chores, process, outside
  <2>2. mem' \in [Tasks -> Claim] /\ file' = mem'
    BY <1>27, SaveGroupType DEF SaveReceipt, Checkpoints, TypeOK
  <2>3. mode' = "closing" /\ todo' \subseteq Tasks
    BY <1>27 DEF SaveReceipt, Group, TypeOK
  <2>4. QED
    BY <2>1, <2>2, <2>3 DEF TypeOK, Modes
<1>28. ASSUME NEW t \in Tasks, CloseTask(t) PROVE TypeOK'
  <2>1. UNCHANGED <<label, remote, pr, file, local, tip, mode, mem, cleanup,
    labelled, batch, approved, pending, job, resuming, failed, aborted,
    crashes, interrupts, requeues, backlog>>
    BY <1>28 DEF CloseTask, github, disk, chores, process, outside
  <2>2. todo' \subseteq Tasks
    BY <1>28 DEF CloseTask, TypeOK
  <2>3. issue' \in [Tasks -> {"open", "closed"}] /\ faults' \in Nat /\
    blocking' \subseteq Tasks /\ clearing' \subseteq Tasks
    BY <1>28, CloseLandedType DEF CloseTask, Blockable, Fault, TypeOK
  <2>4. QED
    BY <2>1, <2>2, <2>3 DEF TypeOK, Modes
<1>29. CASE EndGroup
  BY <1>29, BranchType DEF EndGroup, TypeOK, Claim, Checkpoints, Labels,
    github, disk, chores, process, outside, Recover, CannotRecover,
    CloseLanded, Blockable, SetLabel, Fault, Drop, Persist, NoClaim, ClaimAt,
    FailGroup, NoJob, Gone, Group, NextRound, Held
<1>30. CASE EndGroups
  BY <1>30, BranchType DEF EndGroups, TypeOK, Claim, Checkpoints, Labels,
    github, disk, chores, process, outside, Recover, CannotRecover,
    CloseLanded, Blockable, SetLabel, Fault, Drop, Persist, NoClaim, ClaimAt,
    FailGroup, NoJob, Gone, Group, NextRound, Held
<1>31. CASE Stop
  <2>1. UNCHANGED <<issue, label, remote, pr, local, tip, mem, cleanup, todo,
    labelled, batch, approved, pending, job, clearing, resuming, failed,
    aborted, faults, crashes, interrupts, requeues, backlog>>
    BY <1>31 DEF Stop, github, disk, chores, process, outside
  <2>2. file' = mem /\ mode' = "leaving" /\ blocking' \subseteq Tasks
    BY <1>31 DEF Stop, Blockable, Unapproved
  <2>3. QED
    BY <2>1, <2>2 DEF TypeOK, Modes
<1>32. CASE Exit
  BY <1>32, BranchType DEF Exit, TypeOK, Claim, Checkpoints, Labels, github,
    disk, chores, process, outside, Recover, CannotRecover, CloseLanded,
    Blockable, SetLabel, Fault, Drop, Persist, NoClaim, ClaimAt, FailGroup,
    NoJob, Gone, Group, NextRound, Held
<1>33. CASE Crash
  <2>1. UNCHANGED <<issue, label, remote, pr, file, local, tip, faults,
    interrupts, requeues, backlog>>
    BY <1>33 DEF Crash, github, disk, chores, process, outside
  <2>2. crashes' \in Nat
    BY <1>33 DEF Crash, TypeOK
  <2>3. NoClaim \in Claim
    BY ClaimType DEF NoClaim, ClaimAt, Checkpoints
  <2>4. Gone
    BY <1>33 DEF Crash
  <2>5. QED
    BY <2>1, <2>2, <2>3, <2>4, NoJobType DEF TypeOK, Modes, Gone
<1>34. CASE Interrupt
  <2>1. UNCHANGED <<issue, label, remote, pr, local, tip, mode, mem, cleanup,
    todo, labelled, batch, approved, pending, job, clearing, resuming, failed,
    faults, crashes, requeues, backlog>>
    BY <1>34 DEF Interrupt, github, disk, chores, process, outside
  <2>2. interrupts' \in Nat /\ aborted' \in BOOLEAN /\ blocking' \subseteq
    Tasks /\ file' = mem
    BY <1>34 DEF Interrupt, Blockable, Unapproved, TypeOK
  <2>3. QED
    BY <2>1, <2>2 DEF TypeOK, Modes
<1>35. ASSUME NEW t \in Tasks, Requeue(t) PROVE TypeOK'
  BY <1>35, BranchType DEF Requeue, TypeOK, Claim, Checkpoints, Labels, github,
    disk, chores, process, outside, Recover, CannotRecover, CloseLanded,
    Blockable, SetLabel, Fault, Drop, Persist, NoClaim, ClaimAt, FailGroup,
    NoJob, Gone, Group, NextRound, Held
<1>36. ASSUME NEW b \in Branches, Merge(b) PROVE TypeOK'
  BY <1>36, BranchType DEF Merge, TypeOK, Claim, Checkpoints, Labels, github,
    disk, chores, process, outside, Recover, CannotRecover, CloseLanded,
    Blockable, SetLabel, Fault, Drop, Persist, NoClaim, ClaimAt, FailGroup,
    NoJob, Gone, Group, NextRound, Held
<1>37. CASE UNCHANGED vars
  BY <1>37 DEF TypeOK, vars, github, disk, chores, process, outside
<1>38. QED
  BY <1>1, <1>2, <1>3, <1>4, <1>5, <1>6, <1>7, <1>8, <1>9, <1>10, <1>11, <1>12,
    <1>13, <1>14, <1>15, <1>16, <1>17, <1>18, <1>19, <1>20, <1>21, <1>22,
    <1>23, <1>24, <1>25, <1>26, <1>27, <1>28, <1>29, <1>30, <1>31, <1>32,
    <1>33, <1>34, <1>35, <1>36, <1>37 DEF Next, Orchestrate, Publish,
    RecoverClaim

(***************************************************************************)
(* Who moves what.                                                         *)
(***************************************************************************)
LEMMA Moves ==
  ASSUME [Next]_vars
  PROVE  /\ UNCHANGED backlog
         /\ Build \/ UNCHANGED local
         /\ (\E t \in Tasks : RunIssuePipeline(t)) \/ UNCHANGED tip
         /\ PushTree \/ UNCHANGED remote
         /\ (\E t \in Tasks : RecoverPublished(t) \/ CloseTask(t))
              \/ UNCHANGED issue
         /\ OpenPullRequest \/ (\E b \in Branches : Merge(b)) \/ UNCHANGED pr
         /\ file' \in {file, mem, mem'}
         /\ \/ \E t \in Tasks : RunIssuePipeline(t)
            \/ EndRecovery \/ EndGroups \/ Exit \/ Crash \/ UNCHANGED approved
         /\ PersistClaim \/ Settle \/ Exit \/ Crash \/ UNCHANGED batch
         /\ \/ \E t \in Tasks : ClaimIssue(t)
            \/ PersistClaim \/ Exit \/ Crash \/ UNCHANGED labelled
         /\ mode = "working" /\ mode' = "working" => todo' \subseteq todo
         /\ mode \in {"claiming", "working"} =>
              mode' = mode \/ RunPipelines \/ Settle \/ Exit \/ Crash
         /\ mode = "off" => mode' \in {"off", "recovering"}
         /\ mode' = "off" => mode = "off" \/ Exit \/ Crash
         /\ mode' = "recovering" => mode = "recovering" \/ Start
         /\ mode = "recovering" =>
              mode' = "recovering" \/ EndRecovery \/ Exit \/ Crash
         /\ mode = "off" /\ mode' = "off" /\ Idle =>
              UNCHANGED <<blocking, clearing>>
<1> USE DEF Next, Orchestrate, Publish, RecoverClaim, Recover, vars, github,
            disk, chores, process, outside, Persist, SaveGroup, FailGroup, Gone,
            NextRound, Idle
<1> USE DEF Start, EndRecovery, BlockIssue, ClearLabel, RecoverUnread,
            RecoverClosed, RecoverReleased, RecoverPublished, RecoverApproved,
            RecoverClaimed, Authorize, Promote, Plan, ClaimIssue, PersistClaim,
            RunPipelines, RunIssuePipeline, Settle, Review, NextGroup, Build,
            BuildFails, SaveIntegration, PushTree, OpenPullRequest,
            PublicationFails, SaveReceipt, CloseTask, EndGroup, EndGroups, Stop,
            Exit, Crash, Interrupt, Requeue, Merge
<1>1. UNCHANGED backlog
  OBVIOUS
<1>2. Build \/ UNCHANGED local
  OBVIOUS
<1>3. (\E t \in Tasks : RunIssuePipeline(t)) \/ UNCHANGED tip
  OBVIOUS
<1>4. PushTree \/ UNCHANGED remote
  OBVIOUS
<1>5. (\E t \in Tasks : RecoverPublished(t) \/ CloseTask(t))
        \/ UNCHANGED issue
  OBVIOUS
<1>6. OpenPullRequest \/ (\E b \in Branches : Merge(b)) \/ UNCHANGED pr
  OBVIOUS
<1>7. file' \in {file, mem, mem'}
  OBVIOUS
<1>8. \/ \E t \in Tasks : RunIssuePipeline(t)
      \/ EndRecovery \/ EndGroups \/ Exit \/ Crash \/ UNCHANGED approved
  OBVIOUS
<1>9. PersistClaim \/ Settle \/ Exit \/ Crash \/ UNCHANGED batch
  OBVIOUS
<1>10. \/ \E t \in Tasks : ClaimIssue(t)
       \/ PersistClaim \/ Exit \/ Crash \/ UNCHANGED labelled
  OBVIOUS
<1>11. mode = "working" /\ mode' = "working" => todo' \subseteq todo
  OBVIOUS
<1>12. mode \in {"claiming", "working"} =>
         mode' = mode \/ RunPipelines \/ Settle \/ Exit \/ Crash
  OBVIOUS
<1>13. mode = "off" => mode' \in {"off", "recovering"}
  OBVIOUS
<1>14. mode' = "off" => mode = "off" \/ Exit \/ Crash
  OBVIOUS
<1>15. mode' = "recovering" => mode = "recovering" \/ Start
  OBVIOUS
<1>16. mode = "recovering" =>
         mode' = "recovering" \/ EndRecovery \/ Exit \/ Crash
  OBVIOUS
<1>17. mode = "off" /\ mode' = "off" /\ Idle => UNCHANGED <<blocking, clearing>>
  OBVIOUS
<1> HIDE DEF Next, Orchestrate, Publish, RecoverClaim, Recover, vars, github,
            disk, chores, process, outside, Persist, SaveGroup, FailGroup, Gone,
            NextRound, Idle
<1> HIDE DEF Start, EndRecovery, BlockIssue, ClearLabel, RecoverUnread,
            RecoverClosed, RecoverReleased, RecoverPublished, RecoverApproved,
            RecoverClaimed, Authorize, Promote, Plan, ClaimIssue, PersistClaim,
            RunPipelines, RunIssuePipeline, Settle, Review, NextGroup, Build,
            BuildFails, SaveIntegration, PushTree, OpenPullRequest,
            PublicationFails, SaveReceipt, CloseTask, EndGroup, EndGroups, Stop,
            Exit, Crash, Interrupt, Requeue, Merge
<1>18. QED
  BY <1>1, <1>2, <1>3, <1>4, <1>5, <1>6, <1>7, <1>8, <1>9, <1>10, <1>11,
     <1>12, <1>13, <1>14, <1>15, <1>16, <1>17

(***************************************************************************)
(* The trees grow: what a branch holds it keeps.                           *)
(***************************************************************************)
LEMMA LocalGrows ==
  ASSUME TypeOK, JobInv, [Next]_vars
  PROVE  \A b \in Branches : local[b] \subseteq local'[b]
<1>1. CASE Build
  <2>1. /\ local[job.branch] = job.expected /\ job.expected \subseteq job.head
        /\ local' = [local EXCEPT ![job.branch] = job.head]
    BY <1>1 DEF Build, JobInv, JobModes
  <2>2. QED
    BY <2>1 DEF TypeOK
<1>2. QED
  BY <1>1, Moves

LEMMA TipGrows ==
  ASSUME TypeOK, [Next]_vars
  PROVE  \A t \in Tasks : tip[t] \subseteq tip'[t]
<1>1. ASSUME NEW t \in Tasks, RunIssuePipeline(t)
      PROVE  \A u \in Tasks : tip[u] \subseteq tip'[u]
  <2>1. PICK start : /\ tip[t] \subseteq start
                     /\ tip' = tip \/ tip' = [tip EXCEPT ![t] = start \cup {t}]
    BY <1>1 DEF RunIssuePipeline
  <2>2. QED
    BY <2>1 DEF TypeOK
<1>2. QED
  BY <1>1, Moves

LEMMA RemoteGrows ==
  ASSUME TypeOK, JobInv, [Next]_vars
  PROVE  \A b \in Branches : remote[b] \subseteq remote'[b]
<1>1. CASE PushTree
  <2>1. job.expected \subseteq job.head
    BY <1>1 DEF PushTree, JobInv, JobModes
  <2>2. \/ UNCHANGED remote
        \/ /\ remote[job.branch] \in {{}, job.expected, job.head}
           /\ remote' = [remote EXCEPT ![job.branch] = job.head]
    BY <1>1 DEF PushTree, TreeExpected
  <2>3. QED
    BY <2>1, <2>2 DEF TypeOK
<1>2. QED
  BY <1>1, Moves

LEMMA StandaloneStep ==
  ASSUME TypeOK, JobInv, StandaloneHasNoBranch, [Next]_vars
  PROVE  StandaloneHasNoBranch'
<1>1. CASE Build
  <2>1. /\ job.branch \in Features
        /\ local' = [local EXCEPT ![job.branch] = job.head]
    BY <1>1 DEF Build, JobInv, JobModes
  <2>2. QED
    BY <2>1, FeatureAssumption DEF TypeOK, StandaloneHasNoBranch
<1>2. QED
  BY <1>1, Moves DEF StandaloneHasNoBranch

(***************************************************************************)
(* What closes has landed and is published.                                *)
(***************************************************************************)
LEMMA Closing ==
  ASSUME TypeOK, [Next]_vars, NEW t \in Tasks
  PROVE  \/ issue'[t] = issue[t]
         \/ issue'[t] = "closed" /\ Verified(t) /\ LandedLocally(t)
<1>1. ASSUME NEW u \in Tasks, RecoverPublished(u) \/ CloseTask(u)
      PROVE  \/ UNCHANGED issue
             \/ /\ issue' = [issue EXCEPT ![u] = "closed"]
                /\ Verified(u) /\ LandedLocally(u)
  BY <1>1 DEF RecoverPublished, CloseTask, CloseLanded
<1>2. QED
  BY <1>1, Moves DEF TypeOK

LEMMA ClosedStep ==
  ASSUME TypeOK, ClaimsAreSound, JobInv, ClosedIsPublished, ClosedIsLanded,
         [Next]_vars
  PROVE  ClosedIsPublished' /\ ClosedIsLanded'
<1> SUFFICES ASSUME NEW t \in Tasks, issue'[t] = "closed"
             PROVE  /\ t \in remote'[Branch(t)] /\ pr'[Branch(t)] # "none"
                    /\ LandedLocally(t)'
  BY DEF ClosedIsPublished, ClosedIsLanded, Branch
<1>1. Branch(t) \in Branches
  BY BranchType
<1>2. /\ t \in remote[Branch(t)] /\ pr[Branch(t)] # "none"
      /\ LandedLocally(t)
  <2>1. CASE issue[t] = "closed"
    BY <2>1 DEF ClosedIsPublished, ClosedIsLanded
  <2>2. CASE Verified(t) /\ LandedLocally(t)
    BY <2>2 DEF Verified, ClaimsAreSound, Sound
  <2>3. QED
    BY <2>1, <2>2, Closing
<1>3. t \in remote'[Branch(t)]
  BY <1>1, <1>2, RemoteGrows
<1>4. pr'[Branch(t)] # "none"
  <2>1. CASE OpenPullRequest
    BY <2>1, <1>1, <1>2 DEF OpenPullRequest, TypeOK
  <2>2. ASSUME NEW b \in Branches, Merge(b) PROVE pr'[Branch(t)] # "none"
    BY <2>2, <1>1, <1>2 DEF Merge, TypeOK
  <2>3. QED
    BY <2>1, <2>2, <1>2, Moves
<1>5. LandedLocally(t)'
  BY <1>1, <1>2, LocalGrows DEF LandedLocally, Branch
<1>6. QED
  BY <1>3, <1>4, <1>5

(***************************************************************************)
(* What GitHub may merge is complete.                                      *)
(***************************************************************************)
LEMMA ReadyStep ==
  ASSUME TypeOK, JobInv, ClosedIsPublished, ReadyIsComplete, [Next]_vars
  PROVE  ReadyIsComplete'
<1> SUFFICES ASSUME NEW b \in Branches, pr'[b] \in {"ready", "merged"},
                    NEW t \in Tasks, Branch(t) = b
             PROVE  t \in remote'[b]
  BY DEF ReadyIsComplete, Branch
<1>1. t \in remote[b]
  <2>1. CASE pr[b] \in {"ready", "merged"}
    BY <2>1 DEF ReadyIsComplete
  <2>2. CASE OpenPullRequest /\ pr[b] \notin {"ready", "merged"}
    <3>1. b = job.branch /\ Complete(b)
      BY <2>2 DEF OpenPullRequest, TypeOK
    <3>2. remote[b] = job.head /\ Group(b) \subseteq job.head
      BY <2>2, <3>1 DEF OpenPullRequest, JobInv, JobModes
    <3>3. CASE t \in Group(b)
      BY <3>2, <3>3
    <3>4. CASE t \notin Group(b)
      BY <3>1, <3>4 DEF Complete, ClosedIsPublished
    <3>5. QED
      BY <3>3, <3>4
  <2>3. ASSUME NEW c \in Branches, Merge(c) PROVE pr[b] \in {"ready", "merged"}
    BY <2>3 DEF Merge, TypeOK
  <2>4. QED
    BY <2>1, <2>2, <2>3, Moves
<1>2. QED
  BY <1>1, RemoteGrows

(***************************************************************************)
(* The claims, in memory and on disk, stay sound.                          *)
(***************************************************************************)

\* The group's new claim.
JobClaim(checkpoint, receipt) ==
  [checkpoint |-> checkpoint, head |-> job.head, expected |-> job.expected,
   receipt |-> receipt]

\* What becomes of a claim in a step.
LEMMA ClaimMoves ==
  ASSUME TypeOK, [Next]_vars, NEW t \in Tasks
  PROVE  \/ mem'[t] \in {mem[t], file[t], NoClaim, ClaimAt("claimed")}
         \/ mem[t].checkpoint = "published" /\ mem'[t] = Demoted(mem[t])
         \/ t \in approved /\ mem'[t] = ClaimAt("reviewed")
         \/ /\ mode \in {"integrated", "published"}
            /\ t \in Group(job.branch)
            /\ \/ mem'[t] = JobClaim("integrated", {})
               \/ mem'[t] = JobClaim("published", job.head)
<1>1. CASE Start
  BY <1>1 DEF Start
<1>2. ASSUME NEW u \in Tasks,
             \/ BlockIssue(u) \/ ClearLabel(u) \/ RecoverUnread(u)
             \/ RecoverClosed(u) \/ RecoverReleased(u) \/ RecoverPublished(u)
             \/ RecoverClaimed(u)
      PROVE  mem'[t] \in {mem[t], NoClaim}
  <2>1. UNCHANGED mem \/ Drop(u)
    BY <1>2 DEF BlockIssue, ClearLabel, RecoverUnread, RecoverClosed,
                RecoverReleased, RecoverPublished, RecoverClaimed, CannotRecover
  <2>2. QED
    BY <2>1 DEF Drop, TypeOK
<1>3. ASSUME NEW u \in Tasks, RecoverApproved(u)
      PROVE  \/ mem'[t] = mem[t]
             \/ mem[t].checkpoint = "published" /\ mem'[t] = Demoted(mem[t])
  <2>1. \/ UNCHANGED mem
        \/ /\ mem[u].checkpoint = "published"
           /\ mem' = [mem EXCEPT ![u] = Demoted(mem[u])]
    BY <1>3 DEF RecoverApproved, CannotRecover
  <2>2. QED
    BY <2>1 DEF TypeOK
<1>4. CASE PersistClaim
  BY <1>4 DEF PersistClaim, TypeOK
<1>5. CASE Review
  BY <1>5 DEF Review
<1>6. CASE SaveIntegration
  BY <1>6 DEF SaveIntegration, SaveGroup, JobClaim
<1>7. CASE SaveReceipt
  BY <1>7 DEF SaveReceipt, SaveGroup, JobClaim
<1>8. CASE Exit \/ Crash
  BY <1>8 DEF Exit, Crash, Gone
<1>9. \/ Start \/ PersistClaim \/ Review \/ SaveIntegration \/ SaveReceipt
      \/ Exit \/ Crash
      \/ \E u \in Tasks : \/ BlockIssue(u) \/ ClearLabel(u) \/ RecoverUnread(u)
                          \/ RecoverClosed(u) \/ RecoverReleased(u)
                          \/ RecoverPublished(u) \/ RecoverClaimed(u)
                          \/ RecoverApproved(u)
      \/ UNCHANGED mem
  BY DEF Next, Orchestrate, Publish, RecoverClaim, vars, github, disk, chores,
         process, outside, EndRecovery, Authorize, Promote, Plan, ClaimIssue,
         RunPipelines, RunIssuePipeline, Settle, NextGroup, Build, BuildFails,
         PushTree, OpenPullRequest, PublicationFails, CloseTask, EndGroup,
         EndGroups, Stop, Interrupt, Requeue, Merge
<1>10. QED
  BY <1>1, <1>2, <1>3, <1>4, <1>5, <1>6, <1>7, <1>8, <1>9

LEMMA SoundStays ==
  ASSUME TypeOK, JobInv, [Next]_vars, NEW t \in Tasks, NEW claim \in Claim,
         Sound(claim, t)
  PROVE  Sound(claim, t)'
<1>1. Branch(t) \in Branches /\ Branch(t)' = Branch(t)
  BY BranchType DEF Branch
<1>2. tip[t] \subseteq tip'[t] /\ local[Branch(t)] \subseteq local'[Branch(t)]
  BY <1>1, TipGrows, LocalGrows
<1>3. QED
  BY <1>1, <1>2 DEF Sound, Approved

LEMMA ClaimsStep ==
  ASSUME TypeOK, ClaimsAreSound, RoundInv, JobInv, [Next]_vars
  PROVE  ClaimsAreSound'
<1>1. ASSUME NEW t \in Tasks PROVE mem'[t] \in Claim /\ Sound(mem'[t], t)
  <2>0. /\ mem[t] \in Claim /\ file[t] \in Claim /\ mem'[t] \in Claim
        /\ Sound(mem[t], t) /\ Sound(file[t], t)
    BY NextType DEF TypeOK, ClaimsAreSound
  <2>1. CASE mem'[t] \in {mem[t], file[t]}
    BY <2>0, <2>1
  <2>2. CASE mem'[t] \in {NoClaim, ClaimAt("claimed")}
    BY <2>0, <2>2 DEF NoClaim, ClaimAt, Sound, Approved
  <2>3. CASE mem[t].checkpoint = "published" /\ mem'[t] = Demoted(mem[t])
    BY <2>0, <2>3 DEF Demoted, Sound, Approved
  <2>4. CASE t \in approved /\ mem'[t] = ClaimAt("reviewed")
    BY <2>0, <2>4 DEF ClaimAt, Sound, Approved, RoundInv
  <2>5. CASE /\ mode \in {"integrated", "published"}
             /\ t \in Group(job.branch)
             /\ \/ mem'[t] = JobClaim("integrated", {})
                \/ mem'[t] = JobClaim("published", job.head)
    <3>1. t \in tip[t] /\ Branch(t) = job.branch
      BY <2>5 DEF Group, RoundInv
    <3>2. /\ t \in job.head /\ job.expected \subseteq job.head
          /\ job.branch \in Features => job.head \subseteq local[job.branch]
      BY <2>5 DEF JobInv, JobModes
    <3>3. Feature[t] # None => job.branch \in Features
      BY <3>1, FeatureAssumption DEF Branch
    <3>4. QED
      BY <2>0, <2>5, <3>1, <3>2, <3>3 DEF JobClaim, Sound, Approved
  <2>6. QED
    BY <2>0, <2>1, <2>2, <2>3, <2>4, <2>5, ClaimMoves
<1>2. ASSUME NEW t \in Tasks, NEW claim \in Claim,
             claim \in {mem[t], file[t], mem'[t]}
      PROVE  Sound(claim, t)'
  <2>1. Sound(mem[t], t) /\ Sound(file[t], t) /\ Sound(mem'[t], t)
    BY <1>1 DEF ClaimsAreSound
  <2>2. Sound(claim, t)
    BY <1>2, <2>1
  <2>3. QED
    BY <2>2, SoundStays
<1>3. ASSUME NEW t \in Tasks
      PROVE  /\ mem'[t] \in Claim /\ file'[t] \in Claim
             /\ file'[t] \in {file[t], mem[t], mem'[t]}
  BY <1>1, Moves DEF TypeOK
<1>4. QED
  BY <1>2, <1>3 DEF ClaimsAreSound, Sound, Approved

(***************************************************************************)
(* A round: what is worked on has its blockers closed, what is approved    *)
(* has what its base had.                                                  *)
(***************************************************************************)

\* How a step changes the mode: to one where nothing is under way, or by one of
\* the steps below.
LEMMA ModeMoves ==
  ASSUME [Next]_vars
  PROVE  \/ mode' = mode
         \/ mode' \in {"off", "recovering", "groups", "stopping", "leaving"}
         \/ Authorize \/ Promote \/ Plan \/ RunPipelines \/ Settle
         \/ (Review /\ approved = {}) \/ EndGroups
         \/ (\E b \in Branches : NextGroup(b)) \/ Build \/ SaveIntegration
         \/ (PushTree /\ mode' = "opening")
         \/ (OpenPullRequest /\ mode' = "published") \/ SaveReceipt
<1>1. \/ mode' = mode
      \/ mode' \in {"off", "recovering", "groups", "stopping", "leaving"}
      \/ Authorize \/ Promote \/ Plan \/ RunPipelines \/ Settle \/ Review
      \/ EndGroups \/ (\E b \in Branches : NextGroup(b)) \/ Build
      \/ SaveIntegration \/ PushTree \/ OpenPullRequest \/ SaveReceipt
  BY DEF Next, Orchestrate, Publish, RecoverClaim, Recover, vars, github, disk,
         chores, process, outside, FailGroup, Gone,
         Start, EndRecovery, BlockIssue, ClearLabel, RecoverUnread,
         RecoverClosed, RecoverReleased, RecoverPublished, RecoverApproved,
         RecoverClaimed, ClaimIssue, PersistClaim, RunIssuePipeline,
         BuildFails, PublicationFails, CloseTask, EndGroup, Stop, Exit, Crash,
         Interrupt, Requeue, Merge
<1>2. Review => approved = {} \/ mode' = "groups"
  BY DEF Review
<1>3. /\ PushTree => mode' \in {"opening", "stopping", "groups"}
      /\ OpenPullRequest => mode' \in {"published", "stopping", "groups"}
  BY DEF PushTree, OpenPullRequest, FailGroup
<1>4. QED
  BY <1>1, <1>2, <1>3

LEMMA BlockersStayClosed ==
  ASSUME TypeOK, [Next]_vars, NEW t \in Tasks, OpenBlockers(t) = {}
  PROVE  OpenBlockers(t)' = {}
<1>1. backlog.blockers[t] \subseteq Tasks /\ backlog' = backlog
  BY BacklogsAssumption, Moves DEF TypeOK
<1>2. QED
  BY <1>1, Closing DEF OpenBlockers

LEMMA ClaimingStep ==
  ASSUME TypeOK, RoundInv, [Next]_vars
  PROVE  /\ batch' # {} => mode' \in {"claiming", "working"}
         /\ labelled' # None => mode' = "claiming"
<1>1. CASE Exit \/ Crash
  BY <1>1 DEF Exit, Crash, Gone
<1>2. CASE PersistClaim
  BY <1>2 DEF PersistClaim
<1>3. ASSUME NEW t \in Tasks, ClaimIssue(t)
      PROVE  mode = "claiming" /\ mode' = mode /\ UNCHANGED batch
  BY <1>3 DEF ClaimIssue
<1>4. CASE Settle
  BY <1>4 DEF Settle, RoundInv
<1>5. CASE UNCHANGED <<batch, labelled>>
  <2>1. CASE mode \in {"claiming", "working"}
    <3>1. CASE mode' = mode
      BY <1>5, <3>1 DEF RoundInv
    <3>2. CASE RunPipelines
      BY <1>5, <3>2 DEF RunPipelines
    <3>3. QED
      BY <1>1, <1>4, <2>1, <3>1, <3>2, Moves
  <2>2. CASE mode \notin {"claiming", "working"}
    BY <1>5, <2>2 DEF RoundInv
  <2>3. QED
    BY <2>1, <2>2
<1>6. QED
  BY <1>1, <1>2, <1>3, <1>4, <1>5, Moves

LEMMA RoundStep ==
  ASSUME TypeOK, ClaimsAreSound, StandaloneHasNoBranch, RoundInv, JobInv,
         ClosedIsLanded, [Next]_vars
  PROVE  RoundInv'
<1>1. /\ batch' # {} => mode' \in {"claiming", "working"}
      /\ labelled' # None => mode' = "claiming"
  BY ClaimingStep
<1>2. ASSUME mode' \in {"authorizing", "promoting", "planning", "claiming"}
      PROVE  approved' = {}
  <2>1. CASE EndGroups
    BY <2>1 DEF EndGroups
  <2>2. CASE Review /\ approved = {}
    BY <2>2 DEF Review
  <2>3. CASE Authorize \/ Promote \/ Plan
    BY <2>3 DEF Authorize, Promote, Plan, RoundInv
  <2>4. CASE mode' = mode
    <3>1. approved = {}
      BY <1>2, <2>4 DEF RoundInv
    <3>2. ~EndRecovery /\ ~Exit /\ ~Crash
      BY <1>2 DEF EndRecovery, Exit, Crash, Gone
    <3>3. \A t \in Tasks : ~RunIssuePipeline(t)
      BY <1>2, <2>4 DEF RunIssuePipeline
    <3>4. QED
      BY <2>1, <3>1, <3>2, <3>3, Moves
  <2>5. ~RunPipelines \/ mode' \in {"stopping", "working"}
    BY DEF RunPipelines
  <2>6. /\ ~Settle /\ ~Build /\ ~SaveIntegration /\ ~SaveReceipt
        /\ \A b \in Branches : ~NextGroup(b)
    BY <1>2 DEF Settle, Build, SaveIntegration, SaveReceipt, NextGroup
  <2>7. QED
    BY <1>2, <2>1, <2>2, <2>3, <2>4, <2>5, <2>6, ModeMoves
<1>3. ASSUME mode' = "claiming", NEW t \in Tasks, t \in batch' \/ t = labelled'
      PROVE  OpenBlockers(t)' = {}
  <2>1. OpenBlockers(t) = {}
    <3>1. CASE Plan
      BY <1>3, <3>1, FeatureAssumption DEF Plan, RoundInv
    <3>2. CASE mode' = mode
      <4>1. CASE \E u \in Tasks : ClaimIssue(u)
        BY <1>3, <3>2, <4>1, FeatureAssumption DEF ClaimIssue, RoundInv
      <4>2. CASE PersistClaim
        BY <1>3, <3>2, <4>2, FeatureAssumption DEF PersistClaim, RoundInv
      <4>3. CASE UNCHANGED <<batch, labelled>>
        BY <1>3, <3>2, <4>3 DEF RoundInv
      <4>4. ~Settle /\ ~Exit /\ ~Crash
        BY <1>3 DEF Settle, Exit, Crash, Gone
      <4>5. QED
        <5>1. UNCHANGED batch \/ PersistClaim
          BY <4>4, Moves
        <5>2. \/ UNCHANGED labelled \/ PersistClaim
              \/ \E u \in Tasks : ClaimIssue(u)
          BY <4>4, Moves
        <5>3. QED
          BY <4>1, <4>2, <4>3, <5>1, <5>2
    <3>3. mode' = mode \/ Plan
      <4>1. ~Authorize /\ ~Promote /\ ~RunPipelines /\ ~Settle /\ ~EndGroups
        BY <1>3 DEF Authorize, Promote, RunPipelines, Settle, EndGroups,
                    NextRound
      <4>2. /\ ~(Review /\ approved = {}) /\ ~Build /\ ~SaveIntegration
            /\ ~SaveReceipt /\ \A b \in Branches : ~NextGroup(b)
        BY <1>3 DEF Review, NextRound, Build, SaveIntegration, SaveReceipt,
                    NextGroup
      <4>3. QED
        BY <1>3, <4>1, <4>2, ModeMoves
    <3>4. QED
      BY <3>1, <3>2, <3>3
  <2>2. QED
    BY <2>1, BlockersStayClosed
<1>4. ASSUME mode' = "working", mode # "working"
      PROVE  /\ todo' = batch /\ approved' = {}
             /\ \A t \in batch : OpenBlockers(t) = {}
  <2>1. RunPipelines
    <3>1. ~Authorize /\ ~Promote /\ ~Plan /\ ~Settle /\ ~EndGroups
      BY <1>4 DEF Authorize, Promote, Plan, Settle, EndGroups, NextRound
    <3>2. /\ ~(Review /\ approved = {}) /\ ~Build /\ ~SaveIntegration
          /\ ~SaveReceipt /\ \A b \in Branches : ~NextGroup(b)
      BY <1>4 DEF Review, NextRound, Build, SaveIntegration, SaveReceipt,
                  NextGroup
    <3>3. QED
      BY <1>4, <3>1, <3>2, ModeMoves
  <2>2. QED
    BY <2>1 DEF RunPipelines, RoundInv, TypeOK
<1>5. ASSUME mode' = "working", NEW t \in todo' PROVE OpenBlockers(t)' = {}
  <2>1. t \in Tasks /\ OpenBlockers(t) = {}
    <3>1. CASE mode = "working"
      BY <1>5, <3>1, Moves DEF RoundInv, TypeOK
    <3>2. CASE mode # "working"
      BY <1>4, <1>5, <3>2 DEF TypeOK
    <3>3. QED
      BY <3>1, <3>2
  <2>2. QED
    BY <2>1, BlockersStayClosed
<1>6. ASSUME NEW t \in approved' PROVE t \in Tasks /\ t \in tip'[t]
  <2>1. t \in Tasks
    BY <1>6, NextType DEF TypeOK
  <2>2. CASE t \in approved
    BY <2>1, <2>2, TipGrows DEF RoundInv
  <2>3. CASE EndRecovery
    <3>1. UNCHANGED tip /\ (t \in approved \/ Approved(mem[t]))
      BY <1>6, <2>1, <2>3 DEF EndRecovery, disk
    <3>2. QED
      BY <2>1, <2>2, <3>1 DEF ClaimsAreSound, Sound
  <2>4. ASSUME NEW u \in Tasks, RunIssuePipeline(u), t \notin approved
        PROVE  t \in tip'[t]
    BY <1>6, <2>1, <2>4 DEF RunIssuePipeline, TypeOK
  <2>5. CASE EndGroups \/ Exit \/ Crash
    BY <1>6, <2>5 DEF EndGroups, Exit, Crash, Gone
  <2>6. QED
    BY <1>6, <2>1, <2>2, <2>3, <2>4, <2>5, Moves
<1>7. ASSUME mode' \in {"working", "settled"}, NEW t \in approved'
      PROVE  /\ local'[Branch(t)] \subseteq tip'[t]
             /\ \A u \in backlog.blockers[t] :
                  Branch(u) = Branch(t) => u \in tip'[t]
  <2>1. t \in Tasks /\ Branch(t) \in Branches
    BY <1>6, BranchType
  <2>2. ASSUME t \in approved, mode \in {"working", "settled"}, UNCHANGED local
        PROVE  /\ local'[Branch(t)] \subseteq tip'[t]
               /\ \A u \in backlog.blockers[t] :
                    Branch(u) = Branch(t) => u \in tip'[t]
    BY <2>1, <2>2, TipGrows DEF RoundInv
  <2>3. ASSUME RunIssuePipeline(t), t \notin approved
        PROVE  /\ local'[Branch(t)] \subseteq tip'[t]
               /\ \A u \in backlog.blockers[t] :
                    Branch(u) = Branch(t) => u \in tip'[t]
    <3>1. /\ mode = "working" /\ t \in todo /\ UNCHANGED local
          /\ Base(t) \cup {t} \subseteq tip'[t]
      <4>1. mode = "working" /\ t \in todo /\ UNCHANGED local
        BY <2>3 DEF RunIssuePipeline
      <4>2. PICK start :
              /\ start = IF tip[t] \subseteq Base(t) THEN Base(t) ELSE tip[t]
              /\ Aligned(t) /\ tip' = [tip EXCEPT ![t] = start \cup {t}]
        BY <1>7, <2>3 DEF RunIssuePipeline
      <4>3. Base(t) \subseteq start
        BY <4>2 DEF Aligned
      <4>4. QED
        BY <2>1, <4>1, <4>2, <4>3 DEF TypeOK
    <3>2. local[Branch(t)] \subseteq Base(t)
      BY <2>1 DEF Base, Branch, StandaloneHasNoBranch
    <3>3. ASSUME NEW u \in backlog.blockers[t], Branch(u) = Branch(t)
          PROVE  u \in Base(t) \cup {t}
      <4>1. u \in Tasks
        BY <2>1, BacklogsAssumption DEF TypeOK
      <4>2. issue[u] = "closed"
        BY <3>1, <3>3, <4>1 DEF RoundInv, OpenBlockers, TypeOK
      <4>3. LandedLocally(u)
        BY <4>1, <4>2 DEF ClosedIsLanded
      <4>4. CASE Feature[u] = None
        BY <2>1, <3>3, <4>1, <4>4, FeatureAssumption DEF Branch
      <4>5. CASE Feature[u] # None
        BY <2>1, <3>3, <4>1, <4>3, <4>5, FeatureAssumption
           DEF Branch, LandedLocally, Base
      <4>6. QED
        BY <4>4, <4>5
    <3>4. QED
      BY <3>1, <3>2, <3>3
  <2>4. CASE mode = "working" /\ mode' = "working"
    <3>1. ~Build /\ ~EndRecovery /\ ~EndGroups /\ ~Exit /\ ~Crash
      BY <2>4 DEF Build, EndRecovery, EndGroups, Exit, Crash, Gone
    <3>2. UNCHANGED local
      BY <3>1, Moves
    <3>3. t \in approved \/ RunIssuePipeline(t)
      <4>1. ASSUME NEW u \in Tasks, RunIssuePipeline(u), t \notin approved
            PROVE  t = u
        BY <1>7, <4>1 DEF RunIssuePipeline
      <4>2. QED
        BY <1>7, <3>1, <4>1, Moves
    <3>4. QED
      BY <2>2, <2>3, <2>4, <3>2, <3>3
  <2>5. CASE mode # "working" /\ mode' = "working"
    BY <1>4, <1>7, <2>5
  <2>6. CASE mode' = "settled"
    <3>1. Settle \/ mode' = mode
      <4>1. /\ ~Authorize /\ ~Promote /\ ~Plan /\ ~RunPipelines /\ ~EndGroups
            /\ ~(Review /\ approved = {}) /\ ~Build /\ ~SaveIntegration
            /\ ~SaveReceipt /\ \A b \in Branches : ~NextGroup(b)
        BY <2>6 DEF Authorize, Promote, Plan, RunPipelines, EndGroups,
                    NextRound, Review, Build, SaveIntegration, SaveReceipt, NextGroup
      <4>2. QED
        BY <2>6, <4>1, ModeMoves
    <3>2. CASE Settle
      <4>1. mode = "working" /\ UNCHANGED <<approved, local>>
        BY <3>2 DEF Settle, disk
      <4>2. QED
        BY <1>7, <2>2, <4>1
    <3>3. CASE mode' = mode
      <4>1. ~Build /\ ~EndRecovery /\ ~EndGroups /\ ~Exit /\ ~Crash
        BY <2>6, <3>3 DEF Build, EndRecovery, EndGroups, Exit, Crash, Gone
      <4>2. \A u \in Tasks : ~RunIssuePipeline(u)
        BY <2>6, <3>3 DEF RunIssuePipeline
      <4>3. UNCHANGED <<approved, local>>
        BY <4>1, <4>2, Moves
      <4>4. QED
        BY <1>7, <2>2, <2>6, <3>3, <4>3
    <3>4. QED
      BY <3>1, <3>2, <3>3
  <2>7. QED
    BY <1>7, <2>4, <2>5, <2>6
<1>8. QED
  BY <1>1, <1>2, <1>3, <1>5, <1>6, <1>7, Moves DEF RoundInv, Branch

(***************************************************************************)
(* The group that is being published.                                      *)
(***************************************************************************)
LEMMA NextGroupStep ==
  ASSUME TypeOK, ClaimsAreSound, RoundInv, NEW b \in Branches, NextGroup(b)
  PROVE  /\ job'.branch = b
         /\ Group(b) \subseteq job'.head /\ job'.expected \subseteq job'.head
         /\ mode' \in {"building", "integrated", "pushing"}
         /\ mode' = "building" => b \in Features
         /\ mode' # "building" /\ b \in Features => job'.head \subseteq local[b]
<1>1. PICK t \in Group(b) :
        IF Resumable(b)
          THEN /\ job' = [branch |-> b, head |-> mem[t].head,
                          expected |-> mem[t].expected]
               /\ mode' = "pushing"
          ELSE /\ job' = [branch |-> b, expected |-> BaseOf(t),
                          head |-> IF Feature[t] = None THEN tip[t]
                                   ELSE BaseOf(t) \cup
                                        UNION {tip[u] : u \in Group(b)}]
               /\ mode' = IF Feature[t] = None THEN "integrated" ELSE "building"
  BY DEF NextGroup
<1>2. /\ t \in Tasks /\ Branch(t) = b
      /\ \A u \in Group(b) : u \in Tasks /\ u \in approved /\ Branch(u) = b
      /\ \A u \in Group(b) : u \in tip[u]
  BY DEF Group, TypeOK, RoundInv
<1>3. CASE Resumable(b)
  <2>1. \A u \in Group(b) : /\ mem[u].checkpoint = "integrated"
                            /\ mem[u].head = mem[t].head
                            /\ u \in mem[u].head
    BY <1>2, <1>3 DEF Resumable, ClaimsAreSound, Sound
  <2>2. /\ mem[t].expected \subseteq mem[t].head
        /\ Feature[t] # None => mem[t].head \subseteq local[Branch(t)]
    BY <1>2, <2>1 DEF ClaimsAreSound, Sound
  <2>3. b \in Features => Feature[t] # None
    BY <1>2, FeatureAssumption DEF Branch
  <2>4. QED
    BY <1>1, <1>2, <1>3, <2>1, <2>2, <2>3
<1>4. CASE ~Resumable(b) /\ Feature[t] # None
  <2>1. /\ job' = [branch |-> b, expected |-> BaseOf(t),
                   head |-> BaseOf(t) \cup UNION {tip[u] : u \in Group(b)}]
        /\ mode' = "building"
    BY <1>1, <1>4
  <2>2. b \in Features
    BY <1>2, <1>4, FeatureAssumption DEF Branch
  <2>3. QED
    BY <1>2, <2>1, <2>2
<1>5. CASE ~Resumable(b) /\ Feature[t] = None
  <2>1. /\ job' = [branch |-> b, expected |-> BaseOf(t), head |-> tip[t]]
        /\ mode' = "integrated"
    BY <1>1, <1>5
  <2>2. b = t /\ b \notin Features
    BY <1>2, <1>5, FeatureAssumption DEF Branch
  <2>3. Group(b) = {t}
    BY <1>2, <2>2, FeatureAssumption DEF Branch
  <2>4. BaseOf(t) = {}
    BY <1>5, <2>3 DEF Resumable, BaseOf, Base
  <2>5. QED
    BY <1>2, <2>1, <2>2, <2>3, <2>4
<1>6. QED
  BY <1>3, <1>4, <1>5

\* While a group is being published nothing else moves what it stands on.
LEMMA JobFrame ==
  ASSUME [Next]_vars, mode \in JobModes, mode' \in JobModes
  PROVE  /\ UNCHANGED <<job, approved>>
         /\ mode = "building" /\ mode' # mode => Build
         /\ mode' = "opening" /\ mode' # mode => PushTree
         /\ mode' = "building" => mode' = mode
  BY DEF JobModes, Next, Orchestrate, Publish, RecoverClaim, Recover, vars,
         github, disk, chores, process, outside, FailGroup, Gone, NextRound,
         Start, EndRecovery, BlockIssue, ClearLabel, RecoverUnread,
         RecoverClosed, RecoverReleased, RecoverPublished, RecoverApproved,
         RecoverClaimed, Authorize, Promote, Plan, ClaimIssue, PersistClaim,
         RunPipelines, RunIssuePipeline, Settle, Review, NextGroup, BuildFails,
         SaveIntegration, OpenPullRequest, PublicationFails,
         SaveReceipt, CloseTask, EndGroup, EndGroups, Stop, Exit, Crash,
         Interrupt, Requeue, Merge, Build, PushTree

\* A group is taken up by NextGroup only.
LEMMA JobStarts ==
  ASSUME [Next]_vars, mode' \in JobModes
  PROVE  mode \in JobModes \/ \E b \in Branches : NextGroup(b)
<1>1. /\ ~Authorize /\ ~Promote /\ ~Plan /\ ~RunPipelines /\ ~EndGroups
      /\ ~Settle /\ ~(Review /\ approved = {})
  BY DEF JobModes, Authorize, Promote, Plan, RunPipelines, EndGroups,
         NextRound, Settle, Review
<1>2. Build \/ SaveIntegration \/ PushTree \/ OpenPullRequest \/ SaveReceipt
        => mode \in JobModes
  BY DEF JobModes, Build, SaveIntegration, PushTree, OpenPullRequest,
         SaveReceipt
<1>3. QED
  BY <1>1, <1>2, ModeMoves DEF JobModes

LEMMA JobStep ==
  ASSUME TypeOK, ClaimsAreSound, RoundInv, JobInv, [Next]_vars
  PROVE  JobInv'
<1> SUFFICES ASSUME mode' \in JobModes PROVE JobInv'
  BY DEF JobInv, JobModes
<1>1. ASSUME NEW b \in Branches, NextGroup(b) PROVE JobInv'
  <2>1. UNCHANGED <<approved, local>>
    BY <1>1 DEF NextGroup, disk
  <2>2. Group(b)' = Group(b)
    BY <2>1 DEF Group, Branch
  <2>3. job'.branch = b /\ b \in Branches
    BY <1>1, NextGroupStep
  <2>4. QED
    BY <1>1, <2>1, <2>2, <2>3, NextGroupStep DEF JobInv
<1>2. CASE mode \in JobModes
  <2>1. /\ UNCHANGED <<job, approved>>
        /\ mode = "building" /\ mode' # mode => Build
        /\ mode' = "opening" /\ mode' # mode => PushTree
        /\ mode' = "building" => mode' = mode
    BY <1>2, JobFrame
  <2>2. /\ job.branch \in Branches /\ Group(job.branch) \subseteq job.head
        /\ job.expected \subseteq job.head
    BY <1>2 DEF JobInv
  <2>3. Group(job.branch)' = Group(job.branch)
    BY <2>1 DEF Group, Branch
  <2>4. mode' = "building" => job'.branch \in Features
    BY <1>2, <2>1 DEF JobInv
  <2>5. mode' # "building" /\ job.branch \in Features =>
          job.head \subseteq local'[job.branch]
    <3>1. CASE Build
      BY <2>2, <3>1 DEF Build, TypeOK
    <3>2. CASE mode # "building"
      BY <1>2, <2>2, <3>2, LocalGrows DEF JobInv
    <3>3. QED
      BY <2>1, <3>1, <3>2
  <2>6. mode' = "opening" => remote'[job.branch] = job.head
    <3>1. CASE PushTree /\ mode' = "opening"
      BY <2>2, <3>1 DEF PushTree, FailGroup, TypeOK
    <3>2. CASE mode = "opening" /\ mode' = "opening"
      <4>1. ~PushTree
        BY <3>2 DEF PushTree
      <4>2. QED
        BY <1>2, <3>2, <4>1, Moves DEF JobInv
    <3>3. QED
      BY <2>1, <3>1, <3>2
  <2>7. QED
    BY <2>1, <2>2, <2>3, <2>4, <2>5, <2>6 DEF JobInv
<1>3. mode \in JobModes \/ \E b \in Branches : NextGroup(b)
  BY JobStarts
<1>4. QED
  BY <1>1, <1>2, <1>3

(***************************************************************************)
(* The file and the memory.                                                *)
(***************************************************************************)

\* Only the claiming of a Task labels it in-progress.
LEMMA LabelMoves ==
  ASSUME TypeOK, [Next]_vars, mode # "claiming",
         NEW t \in Tasks, label[t] # "in-progress"
  PROVE  label'[t] # "in-progress"
<1>1. ASSUME NEW u \in Tasks, NEW l, NEW ok, SetLabel(u, l, ok),
             l # "in-progress"
      PROVE  label'[t] # "in-progress"
  BY <1>1 DEF SetLabel, TypeOK
<1>2. ASSUME NEW u \in Tasks,
             \/ BlockIssue(u) \/ ClearLabel(u) \/ RecoverClosed(u)
             \/ RecoverClaimed(u) \/ Requeue(u)
      PROVE  label'[t] # "in-progress"
  <2>1. \/ UNCHANGED label
        \/ \E ok : SetLabel(u, "blocked", ok) \/ SetLabel(u, "none", ok)
        \/ label' = [label EXCEPT ![u] = "implement"]
    BY <1>2 DEF BlockIssue, ClearLabel, RecoverClosed, RecoverClaimed, Requeue
  <2>2. QED
    BY <1>1, <2>1 DEF TypeOK
<1>3. CASE Authorize \/ Promote
  BY <1>3 DEF Authorize, Promote, SetLabels
<1>4. \/ Authorize \/ Promote \/ UNCHANGED label
      \/ \E u \in Tasks : \/ BlockIssue(u) \/ ClearLabel(u) \/ RecoverClosed(u)
                          \/ RecoverClaimed(u) \/ Requeue(u)
  BY DEF Next, Orchestrate, Publish, RecoverClaim, Recover, vars,
         github, disk, chores, process, outside,
         Start, EndRecovery, RecoverUnread,
         RecoverReleased, RecoverPublished, RecoverApproved,
         Plan, ClaimIssue, PersistClaim,
         RunPipelines, RunIssuePipeline, Settle, Review, NextGroup, Build,
         BuildFails, SaveIntegration, PushTree, OpenPullRequest,
         PublicationFails, SaveReceipt, CloseTask, EndGroup, EndGroups, Stop,
         Exit, Crash, Interrupt, Merge
<1>5. QED
  BY <1>2, <1>3, <1>4

\* Who changes a claim, in memory or in the file.
LEMMA StoreMoves ==
  ASSUME [Next]_vars
  PROVE  \/ UNCHANGED <<mem, file>>
         \/ Start \/ EndRecovery \/ PersistClaim \/ Review \/ SaveIntegration
         \/ SaveReceipt \/ Stop \/ Interrupt \/ Exit \/ Crash
         \/ \E t \in Tasks : BlockIssue(t) \/ ClearLabel(t) \/ RecoverClaim(t)
  BY DEF Next, Orchestrate, Publish, vars, github, disk, chores, process,
         outside, Authorize, Promote, Plan, ClaimIssue, RunPipelines,
         RunIssuePipeline, Settle, NextGroup, Build, BuildFails, PushTree,
         OpenPullRequest, PublicationFails, CloseTask, EndGroup, EndGroups,
         Requeue, Merge

\* A Task that is given up: blocked for a human, or closed and without label.
LEMMA GiveUp ==
  ASSUME TypeOK, NEW t \in Tasks, BlockIssue(t) \/ ClearLabel(t)
  PROVE  /\ UNCHANGED <<mode, issue>>
         /\ \/ UNCHANGED <<mem, file>>
            \/ /\ Drop(t) /\ file' = mem'
               /\ label'[t] # "in-progress"
<1>1. UNCHANGED <<mode, issue>>
  BY DEF BlockIssue, ClearLabel
<1>2. \/ UNCHANGED <<mem, file>>
      \/ /\ Drop(t) /\ file' = mem'
         /\ SetLabel(t, "blocked", TRUE) \/ SetLabel(t, "none", TRUE)
  BY DEF BlockIssue, ClearLabel, Persist
<1>3. ASSUME NEW l, l # "in-progress", SetLabel(t, l, TRUE)
      PROVE  label'[t] # "in-progress"
  BY <1>3 DEF SetLabel, TypeOK
<1>4. QED
  BY <1>1, <1>2, <1>3

\* What a claim loses while the process recovers.
LEMMA RecoveryStep ==
  ASSUME TypeOK, InSync, [Next]_vars, NEW u \in Tasks, RecoverClaim(u)
  PROVE  /\ mode = "recovering" /\ mode' = mode /\ file' = file
         /\ \A t \in Tasks : Approved(file[t]) /\ ~Approved(mem'[t]) =>
              issue[t] = "closed" \/ label[t] # "in-progress"
<1>1. mode = "recovering" /\ mode' = mode /\ file' = file
  BY DEF RecoverClaim, Recover, disk, RecoverUnread, RecoverClosed,
         RecoverReleased, RecoverPublished, RecoverApproved, RecoverClaimed
<1>2. \/ UNCHANGED mem
      \/ Drop(u) /\ (issue[u] = "closed" \/ label[u] # "in-progress")
      \/ Drop(u) /\ mem[u].checkpoint = "claimed"
      \/ /\ mem[u].checkpoint = "published"
         /\ mem' = [mem EXCEPT ![u] = Demoted(mem[u])]
  BY DEF RecoverClaim, CannotRecover, RecoverUnread, RecoverClosed,
         RecoverReleased, RecoverPublished, RecoverApproved, RecoverClaimed
<1>3. QED
  BY <1>1, <1>2 DEF Drop, Demoted, Approved, InSync, TypeOK

LEMMA InSyncStep ==
  ASSUME TypeOK, RoundInv, InSync, [Next]_vars
  PROVE  InSync'
<1>1. ASSUME NEW t \in Tasks, BlockIssue(t) \/ ClearLabel(t) PROVE InSync'
  <2>1. CASE Drop(t) /\ file' = mem'
    BY <2>1 DEF InSync
  <2>2. CASE UNCHANGED <<mem, file>>
    <3>1. UNCHANGED <<mode, issue>>
      BY <1>1, GiveUp
    <3>2. QED
      BY <2>2, <3>1, LabelMoves DEF InSync, Approved
  <2>3. QED
    BY <1>1, <2>1, <2>2, GiveUp
<1>2. ASSUME NEW t \in Tasks, RecoverClaim(t) PROVE InSync'
  <2>1. /\ mode = "recovering" /\ mode' = mode /\ file' = file
        /\ \A u \in Tasks : Approved(file[u]) /\ ~Approved(mem'[u]) =>
             issue[u] = "closed" \/ label[u] # "in-progress"
    BY <1>2, RecoveryStep
  <2>2. \A u \in Tasks : issue[u] = "closed" => issue'[u] = "closed"
    BY Closing
  <2>3. QED
    BY <2>1, <2>2, LabelMoves DEF InSync, Approved
<1>3. CASE Start
  BY <1>3 DEF Start, disk, InSync
<1>4. CASE \/ EndRecovery \/ PersistClaim \/ SaveIntegration \/ SaveReceipt
           \/ Stop \/ Interrupt
  BY <1>4 DEF EndRecovery, PersistClaim, SaveIntegration, SaveReceipt,
              SaveGroup, Persist, Stop, Interrupt, InSync
<1>5. CASE Review
  <2>1. mode = "settled" /\ mode' # "recovering"
    BY <1>5 DEF Review, NextRound
  <2>2. CASE approved = {}
    <3>1. mem' = mem /\ file' = file
      BY <1>5, <2>2 DEF Review, TypeOK
    <3>2. QED
      BY <2>1, <3>1 DEF InSync
  <2>3. CASE approved # {}
    BY <1>5, <2>1, <2>3 DEF Review, Persist, InSync
  <2>4. QED
    BY <2>2, <2>3
<1>6. CASE Exit \/ Crash
  BY <1>6 DEF Exit, Crash, Gone, InSync
<1>7. CASE UNCHANGED <<mem, file>>
  <2>1. /\ mode = "off" => mode' \in {"off", "recovering"}
        /\ mode' = "recovering" => mode = "recovering" \/ Start
        /\ mode = "recovering" =>
             mode' = "recovering" \/ EndRecovery \/ Exit \/ Crash
    BY Moves
  <2>2. CASE mode \notin {"off", "recovering"} /\ mode' # "recovering"
    BY <1>7, <2>2 DEF InSync
  <2>3. CASE mode = "recovering" /\ mode' = mode
    <3>1. \A u \in Tasks : issue[u] = "closed" => issue'[u] = "closed"
      BY Closing
    <3>2. QED
      BY <1>7, <2>3, <3>1, LabelMoves DEF InSync, Approved
  <2>4. CASE mode' = "off"
    BY <2>4 DEF InSync
  <2>5. QED
    BY <1>3, <1>4, <1>6, <2>1, <2>2, <2>3, <2>4
<1>8. QED
  BY <1>1, <1>2, <1>3, <1>4, <1>5, <1>6, <1>7, StoreMoves

LEMMA OffStep ==
  ASSUME OffIsIdle, [Next]_vars
  PROVE  OffIsIdle'
<1>1. CASE Exit \/ Crash
  BY <1>1 DEF Exit, Crash, Gone, OffIsIdle, Idle
<1>2. CASE mode = "off" /\ mode' = "off"
  BY <1>2, Moves DEF OffIsIdle, Idle
<1>3. CASE mode' # "off"
  BY <1>3 DEF OffIsIdle
<1>4. QED
  BY <1>1, <1>2, <1>3, Moves

\* The file does not forget approved work.
LEMMA KeptStep ==
  ASSUME TypeOK, InSync, OffIsIdle, [Next]_vars, NEW t \in Tasks,
         Approved(file[t]), ~Approved(file'[t])
  PROVE  \/ issue'[t] = "closed"
         \/ label[t] # "in-progress" \/ label'[t] # "in-progress"
         \/ labelled = t
<1>1. issue[t] = "closed" => issue'[t] = "closed"
  BY Closing
<1>2. ~Approved(mem[t]) /\ mode # "off" =>
        issue[t] = "closed" \/ label[t] # "in-progress"
  BY DEF InSync
<1>3. ASSUME NEW u \in Tasks, BlockIssue(u) \/ ClearLabel(u)
      PROVE  (~Approved(mem[t]) /\ mode # "off") \/ label'[t] # "in-progress"
  <2>1. mode # "off"
    BY <1>3 DEF OffIsIdle, Idle, BlockIssue, ClearLabel
  <2>2. file # file'
    OBVIOUS
  <2>3. QED
    BY <1>3, <2>1, <2>2, GiveUp DEF Drop, TypeOK
<1>4. CASE PersistClaim
  BY <1>4 DEF PersistClaim, Persist, InSync, TypeOK
<1>5. CASE Review
  BY <1>5 DEF Review, Persist, InSync, ClaimAt, Approved, TypeOK
<1>6. CASE SaveIntegration \/ SaveReceipt
  BY <1>6 DEF SaveIntegration, SaveReceipt, SaveGroup, Persist, InSync, Approved,
              TypeOK
<1>7. CASE EndRecovery \/ Stop \/ Interrupt
  <2>1. file' = mem /\ mode # "off"
    BY <1>7 DEF EndRecovery, Stop, Interrupt
  <2>2. QED
    BY <1>1, <1>2, <2>1
<1>8. file' # file
  OBVIOUS
<1>9. ~Start /\ ~Exit /\ ~Crash
  BY <1>8 DEF Start, Exit, Crash, disk
<1>10. ASSUME NEW u \in Tasks PROVE ~RecoverClaim(u)
  BY <1>8, <1>10, RecoveryStep
<1>11. QED
  BY <1>1, <1>2, <1>3, <1>4, <1>5, <1>6, <1>7, <1>8, <1>9, <1>10, StoreMoves

(***************************************************************************)
(* The theorems.                                                           *)
(***************************************************************************)
LEMMA InitIInv == Init => IInv
<1> SUFFICES ASSUME Init PROVE IInv
  OBVIOUS
<1>1. TypeOK
  BY FeatureAssumption DEF Init, TypeOK, Labels, NoClaim, ClaimAt, Claim,
                           Checkpoints, NoJob
<1>2. ClaimsAreSound
  BY DEF Init, ClaimsAreSound, Sound, Approved, NoClaim, ClaimAt
<1>3. StandaloneHasNoBranch /\ RoundInv /\ JobInv
  BY DEF Init, StandaloneHasNoBranch, RoundInv, JobInv, JobModes
<1>4. ClosedIsPublished /\ ClosedIsLanded
  BY DEF Init, ClosedIsPublished, ClosedIsLanded
<1>5. ReadyIsComplete
  BY DEF Init, ReadyIsComplete
<1>6. InSync /\ OffIsIdle
  BY DEF Init, InSync, OffIsIdle, Idle
<1>7. QED
  BY <1>1, <1>2, <1>3, <1>4, <1>5, <1>6 DEF IInv

LEMMA NextIInv == IInv /\ [Next]_vars => IInv'
<1> SUFFICES ASSUME IInv, [Next]_vars PROVE IInv'
  OBVIOUS
<1> USE DEF IInv
<1>1. TypeOK'
  BY NextType
<1>2. ClaimsAreSound' /\ StandaloneHasNoBranch'
  BY ClaimsStep, StandaloneStep
<1>3. RoundInv' /\ JobInv'
  BY RoundStep, JobStep
<1>4. ClosedIsPublished' /\ ClosedIsLanded' /\ ReadyIsComplete'
  BY ClosedStep, ReadyStep
<1>5. InSync' /\ OffIsIdle'
  BY InSyncStep, OffStep
<1>6. QED
  BY <1>1, <1>2, <1>3, <1>4, <1>5

\* The inductive invariant, whatever fails and whenever the process is killed
\* or interrupted.
THEOREM InductiveInvariant == Spec => []IInv
  BY InitIInv, NextIInv, PTL DEF Spec

\* Every variable has its type.
THEOREM TypeCorrect == Spec => []TypeOK
<1>1. IInv => TypeOK
  BY DEF IInv
<1>2. QED
  BY <1>1, InductiveInvariant, PTL

\* A Task closes only once a published branch with a pull request contains its
\* commit, also when a recovery closes it.
THEOREM ClosedIsPublishedHolds == Spec => []ClosedIsPublished
<1>1. IInv => ClosedIsPublished
  BY DEF IInv
<1>2. QED
  BY <1>1, InductiveInvariant, PTL

\* What GitHub may merge by itself holds the work of its whole Feature.
THEOREM ReadyIsCompleteHolds == Spec => []ReadyIsComplete
<1>1. IInv => ReadyIsComplete
  BY DEF IInv
<1>2. QED
  BY <1>1, InductiveInvariant, PTL

\* A commit is approved on top of its Feature's head and of the Tasks that
\* blocked it.
THEOREM WorkHoldsBaseHolds == Spec => []WorkHoldsBase
<1>1. IInv => WorkHoldsBase
  BY DEF IInv, RoundInv, WorkHoldsBase
<1>2. QED
  BY <1>1, InductiveInvariant, PTL

\* An integration checkpoint on disk can be verified after any crash.
THEOREM CheckpointIsVerifiableHolds == Spec => []CheckpointIsVerifiable
<1>1. IInv => CheckpointIsVerifiable
  BY DEF IInv, ClaimsAreSound, Sound, CheckpointIsVerifiable
<1>2. QED
  BY <1>1, InductiveInvariant, PTL

\* No publication takes a Task's work off a published branch, whatever stale
\* checkpoint it was resumed from.
RemoteKeepsWork == [][\A b \in Branches : remote[b] \subseteq remote'[b]]_remote

\* No publication takes work off a published branch.
THEOREM RemoteKeepsWorkHolds == Spec => RemoteKeepsWork
<1>1. IInv /\ [Next]_vars =>
        [\A b \in Branches : remote[b] \subseteq remote'[b]]_remote
  BY RemoteGrows DEF IInv
<1>2. QED
  BY <1>1, InductiveInvariant, PTL DEF Spec, RemoteKeepsWork

\* The file does not forget approved work that is not closed, given back to a
\* human or claimed anew.
THEOREM ApprovedWorkIsKeptHolds == Spec => ApprovedWorkIsKept
<1>1. IInv /\ [Next]_vars =>
        [\A t \in Tasks :
           Approved(file[t]) /\ ~Approved(file'[t]) =>
             \/ issue'[t] = "closed"
             \/ label[t] # "in-progress" \/ label'[t] # "in-progress"
             \/ labelled = t]_file
  BY KeptStep DEF IInv
<1>2. QED
  BY <1>1, InductiveInvariant, PTL DEF Spec, ApprovedWorkIsKept

(***************************************************************************)
(* Only work that is due is delivered: the trees hold nothing of another   *)
(* branch, and nothing that is gated or waits for an open Task.            *)
(***************************************************************************)
Due(b) ==
  {t \in Tasks : /\ Branch(t) = b
                 /\ OpenBlockers(t) = {} /\ t \notin backlog.gated}

TreesAreDue ==
  /\ \A b \in Branches : remote[b] \subseteq Due(b) /\ local[b] \subseteq Due(b)
  /\ \A t \in Tasks : tip[t] \subseteq Due(Branch(t))

ClaimIsDue(claim, t) ==
  /\ claim.head \subseteq Due(Branch(t))
  /\ claim.expected \subseteq Due(Branch(t))
  /\ claim.receipt \subseteq Due(Branch(t))

ClaimsAreDue == \A t \in Tasks : ClaimIsDue(mem[t], t) /\ ClaimIsDue(file[t], t)

\* A group that is being published has a Task and brings work that is due.
JobIsDue ==
  mode \in JobModes =>
    /\ Group(job.branch) # {}
    /\ job.head \subseteq Due(job.branch) /\ job.expected \subseteq Due(job.branch)

\* What a round has claimed and works on is not gated.
RoundIsDue ==
  /\ batch \cap backlog.gated = {}
  /\ labelled # None => labelled \notin backlog.gated
  /\ mode = "working" => todo \cap backlog.gated = {}

DueInv == TreesAreDue /\ ClaimsAreDue /\ JobIsDue /\ RoundIsDue

\* What is due stays due: no Task opens again and the backlog does not change.
LEMMA DueGrows ==
  ASSUME TypeOK, [Next]_vars
  PROVE  \A b : Due(b) \subseteq Due(b)'
<1>1. backlog' = backlog
  BY Moves
<1>2. \A t \in Tasks : OpenBlockers(t) = {} => OpenBlockers(t)' = {}
  BY BlockersStayClosed
<1>3. QED
  BY <1>1, <1>2 DEF Due, Branch

LEMMA TreesStep ==
  ASSUME TypeOK, RoundInv, JobInv, TreesAreDue, JobIsDue, RoundIsDue,
         [Next]_vars
  PROVE  TreesAreDue'
<1>1. \A b \in Branches : remote'[b] \subseteq Due(b)
  <2>1. CASE PushTree
    <3>1. UNCHANGED remote \/ remote' = [remote EXCEPT ![job.branch] = job.head]
      BY <2>1 DEF PushTree
    <3>2. job.head \subseteq Due(job.branch)
      BY <2>1 DEF PushTree, JobIsDue, JobModes
    <3>3. QED
      BY <3>1, <3>2 DEF TreesAreDue, TypeOK
  <2>2. QED
    BY <2>1, Moves DEF TreesAreDue
<1>2. \A b \in Branches : local'[b] \subseteq Due(b)
  <2>1. CASE Build
    <3>1. /\ local' = [local EXCEPT ![job.branch] = job.head]
          /\ job.head \subseteq Due(job.branch)
      BY <2>1 DEF Build, JobIsDue, JobModes
    <3>2. QED
      BY <3>1 DEF TreesAreDue, TypeOK
  <2>2. QED
    BY <2>1, Moves DEF TreesAreDue
<1>3. \A t \in Tasks : tip'[t] \subseteq Due(Branch(t))
  <2>1. ASSUME NEW t \in Tasks, RunIssuePipeline(t)
        PROVE  \A u \in Tasks : tip'[u] \subseteq Due(Branch(u))
    <3>1. t \in Due(Branch(t))
      BY <2>1 DEF RunIssuePipeline, RoundInv, RoundIsDue, Due
    <3>2. tip[t] \subseteq Due(Branch(t)) /\ Base(t) \subseteq Due(Branch(t))
      BY BranchType DEF TreesAreDue, Base
    <3>3. PICK start \in {tip[t], Base(t)} :
            tip' = tip \/ tip' = [tip EXCEPT ![t] = start \cup {t}]
      BY <2>1 DEF RunIssuePipeline
    <3>4. QED
      BY <3>1, <3>2, <3>3 DEF TreesAreDue, TypeOK
  <2>2. QED
    BY <2>1, Moves DEF TreesAreDue
<1>4. \A t : Branch(t)' = Branch(t)
  BY DEF Branch
<1>5. QED
  BY <1>1, <1>2, <1>3, <1>4, DueGrows DEF TreesAreDue

LEMMA DueClaimsStep ==
  ASSUME TypeOK, JobInv, ClaimsAreDue, JobIsDue, [Next]_vars
  PROVE  ClaimsAreDue'
<1>1. ASSUME NEW t \in Tasks PROVE ClaimIsDue(mem'[t], t)
  <2>0. ClaimIsDue(mem[t], t) /\ ClaimIsDue(file[t], t)
    BY DEF ClaimsAreDue
  <2>1. CASE mem'[t] \in {mem[t], file[t]}
    BY <2>0, <2>1
  <2>2. CASE mem'[t] \in {NoClaim, ClaimAt("claimed"), ClaimAt("reviewed")}
    BY <2>2 DEF NoClaim, ClaimAt, ClaimIsDue
  <2>3. CASE mem'[t] = Demoted(mem[t])
    BY <2>0, <2>3 DEF Demoted, ClaimIsDue
  <2>4. CASE /\ mode \in {"integrated", "published"}
             /\ t \in Group(job.branch)
             /\ \/ mem'[t] = JobClaim("integrated", {})
                \/ mem'[t] = JobClaim("published", job.head)
    <3>1. /\ Branch(t) = job.branch
          /\ job.head \subseteq Due(job.branch)
          /\ job.expected \subseteq Due(job.branch)
      BY <2>4 DEF Group, JobIsDue, JobModes
    <3>2. QED
      BY <2>4, <3>1 DEF JobClaim, ClaimIsDue
  <2>5. QED
    BY <2>1, <2>2, <2>3, <2>4, ClaimMoves
<1>2. ASSUME NEW t \in Tasks, NEW claim, ClaimIsDue(claim, t)
      PROVE  /\ claim.head \subseteq Due(Branch(t))'
             /\ claim.expected \subseteq Due(Branch(t))'
             /\ claim.receipt \subseteq Due(Branch(t))'
  <2>1. Due(Branch(t)) \subseteq Due(Branch(t))'
    BY DueGrows DEF Branch
  <2>2. QED
    BY <1>2, <2>1 DEF ClaimIsDue
<1>3. \A t \in Tasks : file'[t] \in {file[t], mem[t], mem'[t]}
  BY Moves
<1>4. \A t \in Tasks : ClaimIsDue(mem'[t], t) /\ ClaimIsDue(file'[t], t)
  BY <1>1, <1>3 DEF ClaimsAreDue
<1>5. QED
  BY <1>2, <1>4 DEF ClaimsAreDue, ClaimIsDue

LEMMA NextJobIsDue ==
  ASSUME TypeOK, TreesAreDue, ClaimsAreDue, NEW b \in Branches, NextGroup(b)
  PROVE  /\ Group(b) # {} /\ job'.branch = b
         /\ job'.head \subseteq Due(b) /\ job'.expected \subseteq Due(b)
<1>1. PICK t \in Group(b) :
        IF Resumable(b)
          THEN job' = [branch |-> b, head |-> mem[t].head,
                       expected |-> mem[t].expected]
          ELSE job' = [branch |-> b, expected |-> BaseOf(t),
                       head |-> IF Feature[t] = None THEN tip[t]
                                ELSE BaseOf(t) \cup
                                     UNION {tip[u] : u \in Group(b)}]
  BY DEF NextGroup
<1>2. \A u \in Group(b) : u \in Tasks /\ Branch(u) = b
  BY DEF Group, TypeOK
<1>3. \A u \in Group(b) : tip[u] \subseteq Due(b)
  BY <1>2 DEF TreesAreDue
<1>4. mem[t].head \subseteq Due(b) /\ mem[t].expected \subseteq Due(b)
  BY <1>2 DEF ClaimsAreDue, ClaimIsDue
<1>5. BaseOf(t) \subseteq Due(b)
  BY <1>2, <1>4 DEF TreesAreDue, BaseOf, Base
<1>6. UNION {tip[u] : u \in Group(b)} \subseteq Due(b)
  BY <1>3
<1>7. QED
  BY <1>1, <1>3, <1>4, <1>5, <1>6

LEMMA DueJobStep ==
  ASSUME TypeOK, JobInv, TreesAreDue, ClaimsAreDue, JobIsDue, [Next]_vars
  PROVE  JobIsDue'
<1> SUFFICES ASSUME mode' \in JobModes PROVE JobIsDue'
  BY DEF JobIsDue, JobModes
<1>1. ASSUME NEW b \in Branches, NextGroup(b) PROVE JobIsDue'
  <2>1. Group(b)' = Group(b)
    BY <1>1 DEF NextGroup, Group, Branch
  <2>2. Due(b) \subseteq Due(b)'
    BY DueGrows
  <2>3. QED
    BY <1>1, <2>1, <2>2, NextJobIsDue DEF JobIsDue
<1>2. CASE mode \in JobModes
  <2>1. UNCHANGED <<job, approved>>
    BY <1>2, JobFrame
  <2>2. Group(job.branch)' = Group(job.branch)
    BY <2>1 DEF Group, Branch
  <2>3. Due(job.branch) \subseteq Due(job.branch)'
    BY <2>1, DueGrows
  <2>4. QED
    BY <1>2, <2>1, <2>2, <2>3 DEF JobIsDue
<1>3. mode \in JobModes \/ \E b \in Branches : NextGroup(b)
  BY JobStarts
<1>4. QED
  BY <1>1, <1>2, <1>3

LEMMA RoundDueStep ==
  ASSUME TypeOK, RoundInv, RoundIsDue, [Next]_vars
  PROVE  RoundIsDue'
<1>0. UNCHANGED backlog
  BY Moves
<1>1. CASE Exit \/ Crash
  BY <1>0, <1>1 DEF Exit, Crash, Gone, RoundIsDue
<1>2. batch' \cap backlog.gated = {}
  <2>1. CASE PersistClaim
    BY <2>1 DEF PersistClaim, RoundIsDue
  <2>2. CASE Settle
    BY <2>2 DEF Settle
  <2>3. QED
    BY <1>0, <1>1, <2>1, <2>2, Moves DEF RoundIsDue
<1>3. labelled' # None => labelled' \notin backlog.gated
  <2>1. CASE PersistClaim
    BY <2>1 DEF PersistClaim
  <2>2. ASSUME NEW t \in Tasks, ClaimIssue(t)
        PROVE  labelled' # None => labelled' \notin backlog.gated
    BY <2>2 DEF ClaimIssue, GatesCleared, RoundIsDue
  <2>3. QED
    BY <1>0, <1>1, <2>1, <2>2, Moves DEF RoundIsDue
<1>4. mode' = "working" => todo' \cap backlog.gated = {}
  <2>1. CASE RunPipelines
    BY <2>1 DEF RunPipelines, RoundIsDue
  <2>2. CASE mode = "working" /\ mode' = "working"
    BY <2>2, Moves DEF RoundIsDue
  <2>3. mode' = "working" => mode = "working" \/ RunPipelines
    BY ModeMoves DEF Authorize, Promote, Plan, Settle, Review, NextRound,
                     EndGroups, NextGroup, Build, SaveIntegration, PushTree,
                     OpenPullRequest, SaveReceipt
  <2>4. QED
    BY <2>1, <2>2, <2>3
<1>5. QED
  BY <1>0, <1>2, <1>3, <1>4 DEF RoundIsDue

LEMMA InitDueInv == Init => DueInv
  BY DEF Init, DueInv, TreesAreDue, ClaimsAreDue, ClaimIsDue, NoClaim, ClaimAt,
         JobIsDue, JobModes, RoundIsDue

LEMMA NextDueInv == IInv /\ DueInv /\ [Next]_vars => DueInv'
<1> SUFFICES ASSUME IInv, DueInv, [Next]_vars PROVE DueInv'
  OBVIOUS
<1> USE DEF IInv, DueInv
<1>1. TreesAreDue'
  BY TreesStep
<1>2. ClaimsAreDue'
  BY DueClaimsStep
<1>3. JobIsDue'
  BY DueJobStep
<1>4. RoundIsDue'
  BY RoundDueStep
<1>5. QED
  BY <1>1, <1>2, <1>3, <1>4

\* Whatever fails, only work that is due is on a branch, in a claim or in the
\* group that is being published.
THEOREM OnlyDueWork == Spec => []DueInv
  BY InitDueInv, NextDueInv, InductiveInvariant, PTL DEF Spec

\* What a closed Task tells of its blockers and gates.
BlockersCloseFirst ==
  \A t \in Tasks : issue[t] = "closed" =>
    OpenBlockers(t) = {} /\ t \notin backlog.gated

\* A Task closes after every Task it is blocked by, and never while a gate holds
\* it back.
THEOREM BlockersCloseFirstHolds == Spec => []BlockersCloseFirst
<1>1. IInv /\ DueInv => BlockersCloseFirst
  BY BranchType DEF IInv, DueInv, ClosedIsPublished, TreesAreDue, Due,
                    BlockersCloseFirst
<1>2. QED
  BY <1>1, InductiveInvariant, OnlyDueWork, PTL

(***************************************************************************)
(* The orchestrator implements Delivery.                                   *)
(***************************************************************************)
Work == [b \in Branches |-> {t \in Tasks : Branch(t) = b}]

LEMMA DueIsDue ==
  ASSUME TypeOK
  PROVE  \A b \in Branches : Due(b) = GitHub!Due(b) /\ Due(b) \subseteq Work[b]
<1>1. \A t \in Tasks : backlog.blockers[t] \subseteq Tasks
  BY BacklogsAssumption DEF TypeOK
<1>2. \A t \in Tasks : OpenBlockers(t) = {} <=>
        \A u \in backlog.blockers[t] : issue[u] = "closed"
  BY <1>1 DEF OpenBlockers, TypeOK
<1>3. QED
  BY <1>2 DEF Due, GitHub!Due, Work

\* A merged branch is whole.
LEMMA MergedIsWhole ==
  ASSUME TypeOK, ReadyIsComplete, TreesAreDue
  PROVE  \A b \in Branches : pr[b] = "merged" => remote[b] = Work[b]
  BY DEF ReadyIsComplete, TreesAreDue, Due, Work

LEMMA PublishStep ==
  ASSUME IInv, DueInv, PushTree
  PROVE  UNCHANGED GitHub!vars \/ \E b \in Branches : GitHub!Publish(b)
<1> DEFINE b == job.branch
<1>1. /\ TypeOK /\ JobInv /\ JobIsDue /\ ReadyIsComplete /\ TreesAreDue
      /\ mode = "pushing" /\ UNCHANGED <<issue, pr, backlog>>
  BY DEF IInv, DueInv, PushTree, outside
<1>2. /\ b \in Branches /\ job.expected \subseteq job.head
      /\ job.head \subseteq Due(b)
  BY <1>1 DEF JobInv, JobIsDue, JobModes
<1>3. CASE UNCHANGED remote
  BY <1>1, <1>3 DEF GitHub!vars
<1>4. CASE TreeExpected /\ remote' = [remote EXCEPT ![b] = job.head]
  <2>1. remote[b] \subseteq job.head
    BY <1>2, <1>4 DEF TreeExpected
  <2>2. CASE pr[b] = "merged"
    <3>1. remote[b] = job.head
      BY <1>1, <1>2, <2>1, <2>2, MergedIsWhole, DueIsDue
    <3>2. UNCHANGED remote
      BY <1>1, <1>4, <3>1 DEF TypeOK
    <3>3. QED
      BY <1>3, <3>2
  <2>3. CASE pr[b] # "merged"
    <3>1. job.head \in SUBSET GitHub!Due(b)
      BY <1>1, <1>2, DueIsDue
    <3>2. GitHub!Publish(b)
      BY <1>1, <1>4, <2>1, <2>3, <3>1 DEF GitHub!Publish
    <3>3. QED
      BY <1>2, <3>2
  <2>4. QED
    BY <2>2, <2>3
<1>5. QED
  BY <1>3, <1>4 DEF PushTree

LEMMA OfferStep ==
  ASSUME IInv, DueInv, OpenPullRequest
  PROVE  UNCHANGED GitHub!vars
           \/ \E b \in Branches : GitHub!Open(b) \/ GitHub!MarkReady(b)
<1> DEFINE b == job.branch
<1>1. /\ TypeOK /\ JobInv /\ JobIsDue /\ ClosedIsPublished /\ TreesAreDue
      /\ mode = "opening" /\ UNCHANGED <<issue, remote, backlog>>
  BY DEF IInv, DueInv, OpenPullRequest, outside
<1>2. /\ b \in Branches /\ remote[b] = job.head /\ Group(b) \subseteq remote[b]
      /\ Group(b) # {}
  BY <1>1 DEF JobInv, JobIsDue, JobModes
<1>3. pr[b] \in {"none", "draft", "ready", "merged"}
  BY <1>1, <1>2 DEF TypeOK
<1>4. CASE UNCHANGED pr
  BY <1>1, <1>4 DEF GitHub!vars
<1>5. CASE /\ Complete(b) /\ pr[b] \in {"none", "draft"}
           /\ pr' = [pr EXCEPT ![b] = "ready"]
  <2>1. \A t \in Tasks : Branch(t) = b => t \in remote[b]
    BY <1>1, <1>2, <1>5 DEF Complete, ClosedIsPublished
  <2>2. remote[b] = Work[b]
    <3>1. remote[b] \subseteq Work[b]
      BY <1>1, <1>2, DueIsDue DEF TreesAreDue
    <3>2. Work[b] \subseteq remote[b]
      BY <1>2, <2>1 DEF Work
    <3>3. QED
      BY <3>1, <3>2
  <2>3. GitHub!MarkReady(b)
    BY <1>1, <1>5, <2>2 DEF GitHub!MarkReady, Work
  <2>4. QED
    BY <1>2, <2>3
<1>6. CASE pr[b] = "none" /\ pr' = [pr EXCEPT ![b] = "draft"]
  <2>1. GitHub!Open(b)
    BY <1>1, <1>2, <1>6 DEF GitHub!Open
  <2>2. QED
    BY <1>2, <2>1
<1>7. \/ UNCHANGED pr
      \/ /\ Complete(b) /\ pr[b] \in {"none", "draft"}
         /\ pr' = [pr EXCEPT ![b] = "ready"]
      \/ pr[b] = "none" /\ pr' = [pr EXCEPT ![b] = "draft"]
  BY <1>1, <1>2, <1>3 DEF OpenPullRequest, TypeOK
<1>8. QED
  BY <1>4, <1>5, <1>6, <1>7

LEMMA CloseStep ==
  ASSUME IInv, NEW t \in Tasks, RecoverPublished(t) \/ CloseTask(t)
  PROVE  UNCHANGED GitHub!vars \/ GitHub!Close(t)
<1>1. /\ TypeOK /\ ClaimsAreSound
      /\ UNCHANGED <<remote, pr, backlog>>
  BY DEF IInv, RecoverPublished, CloseTask, Recover
<1>2. \/ UNCHANGED issue
      \/ Verified(t) /\ issue' = [issue EXCEPT ![t] = "closed"]
  BY DEF RecoverPublished, CloseTask, CloseLanded
<1>3. CASE UNCHANGED issue
  BY <1>1, <1>3 DEF GitHub!vars
<1>4. CASE /\ Verified(t) /\ issue[t] = "open"
           /\ issue' = [issue EXCEPT ![t] = "closed"]
  <2>1. Branch(t) \in Branches
    BY BranchType
  <2>2. t \in remote[Branch(t)] /\ pr[Branch(t)] # "none"
    BY <1>1, <1>4 DEF Verified, ClaimsAreSound, Sound
  <2>3. QED
    BY <1>1, <1>4, <2>1, <2>2 DEF GitHub!Close
<1>5. issue[t] = "closed" /\ issue' = [issue EXCEPT ![t] = "closed"] =>
        UNCHANGED issue
  BY <1>1 DEF TypeOK
<1>6. issue[t] \in {"open", "closed"}
  BY <1>1 DEF TypeOK
<1>7. QED
  BY <1>2, <1>3, <1>4, <1>5, <1>6

LEMMA DeliveryStep ==
  ASSUME IInv, DueInv, [Next]_vars
  PROVE  [GitHub!Next]_(GitHub!vars)
<1>1. CASE PushTree
  BY <1>1, PublishStep DEF GitHub!Next
<1>2. CASE OpenPullRequest
  BY <1>2, OfferStep DEF GitHub!Next
<1>3. ASSUME NEW t \in Tasks, RecoverPublished(t) \/ CloseTask(t)
      PROVE  [GitHub!Next]_(GitHub!vars)
  BY <1>3, CloseStep DEF GitHub!Next
<1>4. ASSUME NEW b \in Branches, Merge(b) PROVE GitHub!Merge(b)
  BY <1>4 DEF Merge, GitHub!Merge, outside
<1>5. CASE UNCHANGED <<issue, remote, pr, backlog>>
  BY <1>5 DEF GitHub!vars
<1>6. QED
  BY <1>1, <1>2, <1>3, <1>4, <1>5, Moves DEF GitHub!Next

\* The orchestrator delivers what Delivery says: whatever calls fail and whenever
\* the process is killed, each of its steps is one of Delivery's or changes
\* nothing that Delivery speaks of.
THEOREM KeepsDeliveryHolds == Spec => KeepsDelivery
<1>1. Init => GitHub!Init
  BY DEF Init, GitHub!Init
<1>2. IInv /\ DueInv /\ [Next]_vars => [GitHub!Next]_(GitHub!vars)
  BY DeliveryStep
<1>3. QED
  BY <1>1, <1>2, InductiveInvariant, OnlyDueWork, PTL
     DEF Spec, KeepsDelivery, GitHub!Spec

\* A merged pull request and its branch stay as they are.
MergedIsFinal ==
  [][\A b \in Branches : pr[b] = "merged" =>
       pr'[b] = "merged" /\ remote'[b] = remote[b]]_<<pr, remote>>

\* What GitHub has merged is final: no retry of a publication touches its branch
\* and no later one reopens the pull request.
THEOREM MergedIsFinalHolds == Spec => MergedIsFinal
<1>1. ASSUME TypeOK, GitHub!Next, NEW b \in Branches, pr[b] = "merged"
      PROVE  pr'[b] = "merged" /\ remote'[b] = remote[b]
  <2>1. ASSUME NEW c \in Branches, GitHub!Publish(c)
        PROVE  pr' = pr /\ remote'[b] = remote[b]
    BY <1>1, <2>1 DEF GitHub!Publish, TypeOK
  <2>2. ASSUME NEW c \in Branches,
               GitHub!Open(c) \/ GitHub!MarkReady(c) \/ GitHub!Merge(c)
        PROVE  remote' = remote /\ pr'[b] = pr[b]
    BY <1>1, <2>2 DEF GitHub!Open, GitHub!MarkReady, GitHub!Merge, TypeOK
  <2>3. ASSUME NEW t \in Tasks, GitHub!Close(t)
        PROVE  UNCHANGED <<remote, pr>>
    BY <2>3 DEF GitHub!Close
  <2>4. QED
    BY <1>1, <2>1, <2>2, <2>3 DEF GitHub!Next
<1>2. IInv /\ DueInv /\ [Next]_vars =>
        [\A b \in Branches : pr[b] = "merged" =>
           pr'[b] = "merged" /\ remote'[b] = remote[b]]_<<pr, remote>>
  BY <1>1, DeliveryStep DEF IInv, GitHub!vars
<1>3. QED
  BY <1>2, InductiveInvariant, OnlyDueWork, PTL DEF Spec, MergedIsFinal

(***************************************************************************)
(* The orchestrator is never stuck.  In most modes it can go on whatever   *)
(* the rest of the state is; what has to be shown is that the recovery has *)
(* a rule for every claim and that no group without a Task is pending.     *)
(***************************************************************************)
OnlyRealClaims ==
  \A t \in Tasks : /\ mem[t].checkpoint = "none" => mem[t] = NoClaim
                   /\ file[t].checkpoint = "none" => file[t] = NoClaim

PendingHasWork == \A b \in pending : Group(b) # {}

RecoveryInv ==
  mode = "recovering" =>
    /\ todo \cap (blocking \cup clearing) = {}
    /\ \A t \in todo : mem[t] # NoClaim

ProgressInv == OnlyRealClaims /\ PendingHasWork /\ RecoveryInv

LEMMA RealClaimsStep ==
  ASSUME TypeOK, OnlyRealClaims, [Next]_vars
  PROVE  OnlyRealClaims'
<1>1. ASSUME NEW t \in Tasks, mem'[t].checkpoint = "none"
      PROVE  mem'[t] = NoClaim
  <2>1. CASE mem'[t] \in {mem[t], file[t], NoClaim}
    BY <1>1, <2>1 DEF OnlyRealClaims
  <2>2. CASE mem'[t] \in {ClaimAt("claimed"), ClaimAt("reviewed")}
    BY <1>1, <2>2 DEF ClaimAt
  <2>3. CASE mem'[t] = Demoted(mem[t])
    BY <1>1, <2>3 DEF Demoted
  <2>4. CASE \/ mem'[t] = JobClaim("integrated", {})
             \/ mem'[t] = JobClaim("published", job.head)
    BY <1>1, <2>4 DEF JobClaim
  <2>5. QED
    BY <2>1, <2>2, <2>3, <2>4, ClaimMoves
<1>2. \A t \in Tasks : file'[t] \in {file[t], mem[t], mem'[t]}
  BY Moves
<1>3. QED
  BY <1>1, <1>2 DEF OnlyRealClaims, NoClaim, ClaimAt

\* Where the pending groups come from.
LEMMA PendingMoves ==
  ASSUME [Next]_vars
  PROVE  EndRecovery \/ Review \/ Exit \/ Crash \/ pending' \subseteq pending
  BY DEF Next, Orchestrate, Publish, RecoverClaim, Recover, vars, github, disk,
         chores, process, outside, FailGroup,
         Start, BlockIssue, ClearLabel, RecoverUnread,
         RecoverClosed, RecoverReleased, RecoverPublished, RecoverApproved,
         RecoverClaimed, Authorize, Promote, Plan, ClaimIssue, PersistClaim,
         RunPipelines, RunIssuePipeline, Settle, NextGroup, Build,
         BuildFails, SaveIntegration, PushTree, OpenPullRequest,
         PublicationFails, SaveReceipt, CloseTask, EndGroup, EndGroups, Stop,
         Interrupt, Requeue, Merge

LEMMA PendingStep ==
  ASSUME TypeOK, PendingHasWork, [Next]_vars
  PROVE  PendingHasWork'
<1>0. \A b : Group(b)' = {t \in approved' : Branch(t) = b}
  BY DEF Group, Branch
<1>1. CASE pending' = {Branch(t) : t \in approved'}
  BY <1>0, <1>1 DEF PendingHasWork
<1>2. CASE pending' \subseteq pending /\ approved \subseteq approved'
  BY <1>0, <1>2 DEF PendingHasWork, Group
<1>3. CASE pending' = {}
  BY <1>3 DEF PendingHasWork
<1>4. CASE EndRecovery
  BY <1>1, <1>2, <1>4 DEF EndRecovery
<1>5. CASE Review
  BY <1>1, <1>2, <1>5 DEF Review
<1>6. CASE Exit \/ Crash
  BY <1>3, <1>6 DEF Exit, Crash, Gone
<1>7. CASE EndGroups
  BY <1>3, <1>7 DEF EndGroups
<1>8. ASSUME NEW t \in Tasks, RunIssuePipeline(t)
      PROVE  UNCHANGED pending /\ approved \subseteq approved'
  BY <1>8 DEF RunIssuePipeline
<1>9. QED
  BY <1>2, <1>4, <1>5, <1>6, <1>7, <1>8, Moves, PendingMoves

\* A step of the recovery is about one Task, which it has treated.
LEMMA RecoveryMoves ==
  ASSUME TypeOK, [Next]_vars, mode = "recovering", mode' = "recovering",
         todo \cap (blocking \cup clearing) = {}
  PROVE  /\ todo' \subseteq todo
         /\ todo' \cap (blocking' \cup clearing') = {}
         /\ \A t \in todo' : mem'[t] = mem[t]
<1>1. ASSUME NEW u \in Tasks, RecoverClaim(u)
      PROVE  /\ todo' = todo \ {u}
             /\ UNCHANGED mem \/ mem' = [mem EXCEPT ![u] = mem'[u]]
             /\ blocking' \subseteq blocking \cup {u}
             /\ clearing' \subseteq clearing \cup {u}
  <2>1. todo' = todo \ {u}
    BY <1>1 DEF RecoverClaim, Recover, RecoverUnread, RecoverClosed,
                RecoverReleased, RecoverPublished, RecoverApproved,
                RecoverClaimed
  <2>2. UNCHANGED mem \/ Drop(u) \/ mem' = [mem EXCEPT ![u] = Demoted(mem[u])]
    BY <1>1 DEF RecoverClaim, RecoverUnread, RecoverClosed, RecoverReleased,
                RecoverPublished, RecoverApproved, RecoverClaimed,
                CannotRecover
  <2>3. /\ blocking' \subseteq blocking \cup {u}
        /\ clearing' \subseteq clearing \cup {u}
    BY <1>1 DEF RecoverClaim, RecoverUnread, RecoverClosed, RecoverReleased,
                RecoverPublished, RecoverApproved, RecoverClaimed, chores,
                CloseLanded, Blockable
  <2>4. QED
    BY <2>1, <2>2, <2>3 DEF Drop, TypeOK
<1>2. ASSUME NEW u \in Tasks, BlockIssue(u) \/ ClearLabel(u)
      PROVE  /\ u \in blocking \cup clearing
             /\ UNCHANGED todo
             /\ UNCHANGED mem \/ Drop(u)
             /\ blocking' \subseteq blocking /\ clearing' \subseteq clearing
  BY <1>2 DEF BlockIssue, ClearLabel
<1>3. \/ \E u \in Tasks : RecoverClaim(u) \/ BlockIssue(u) \/ ClearLabel(u)
      \/ UNCHANGED <<todo, mem, blocking, clearing>>
  BY DEF Next, Orchestrate, Publish, vars, github, disk, chores, process,
         outside, Gone, NextRound, FailGroup,
         Start, EndRecovery, Authorize, Promote, Plan, ClaimIssue,
         PersistClaim, RunPipelines, RunIssuePipeline, Settle, Review,
         NextGroup, Build, BuildFails, SaveIntegration, PushTree,
         OpenPullRequest, PublicationFails, SaveReceipt, CloseTask, EndGroup,
         EndGroups, Stop, Exit, Crash, Interrupt, Requeue, Merge
<1>4. ASSUME NEW u \in Tasks, RecoverClaim(u)
      PROVE  /\ todo' \subseteq todo
             /\ todo' \cap (blocking' \cup clearing') = {}
             /\ \A t \in todo' : mem'[t] = mem[t]
  BY <1>1, <1>4 DEF TypeOK
<1>5. ASSUME NEW u \in Tasks, BlockIssue(u) \/ ClearLabel(u)
      PROVE  /\ todo' \subseteq todo
             /\ todo' \cap (blocking' \cup clearing') = {}
             /\ \A t \in todo' : mem'[t] = mem[t]
  BY <1>2, <1>5 DEF Drop, TypeOK
<1>6. QED
  BY <1>3, <1>4, <1>5

LEMMA RecoveryInvStep ==
  ASSUME TypeOK, OffIsIdle, RecoveryInv, [Next]_vars
  PROVE  RecoveryInv'
<1>1. CASE Start
  BY <1>1 DEF Start, OffIsIdle, Idle, Held, chores, RecoveryInv
<1>2. CASE mode = "recovering" /\ mode' = "recovering"
  BY <1>2, RecoveryMoves DEF RecoveryInv
<1>3. QED
  BY <1>1, <1>2, Moves DEF RecoveryInv

LEMMA InitProgressInv == Init => ProgressInv
  BY DEF Init, ProgressInv, OnlyRealClaims, PendingHasWork, RecoveryInv

LEMMA NextProgressInv == IInv /\ ProgressInv /\ [Next]_vars => ProgressInv'
  BY RealClaimsStep, PendingStep, RecoveryInvStep DEF IInv, ProgressInv

\* One of the actions that recover t can be taken without a failing call.
CanRecover(t) ==
  \/ issue[t] = "closed" \/ label[t] # "in-progress"
  \/ Verified(t) /\ LandedLocally(t)
  \/ Approved(mem[t]) \/ mem[t].checkpoint = "claimed"

\* In the two modes where it depends on more than the mode, an action's guard
\* holds.
NeverStuck ==
  Idle =>
    /\ mode = "recovering" => \A t \in todo : CanRecover(t)
    /\ mode = "groups" => \A b \in pending : Group(b) # {}

\* A process always has a next step that needs no call to fail: the recovery
\* has a rule for every claim it finds in the file, whatever was written there
\* and whatever happened to the Task meanwhile, and every group it turns to has
\* a Task to build.
THEOREM NeverStuckHolds == Spec => []NeverStuck
<1>1. Spec => []ProgressInv
  BY InitProgressInv, NextProgressInv, InductiveInvariant, PTL DEF Spec
<1>2. ASSUME TypeOK, ProgressInv, mode = "recovering", NEW t \in todo
      PROVE  CanRecover(t)
  <2>1. t \in Tasks /\ mem[t] \in Claim /\ mem[t].checkpoint # "none"
    BY <1>2 DEF TypeOK, ProgressInv, RecoveryInv, OnlyRealClaims
  <2>2. mem[t].checkpoint \in Checkpoints
    BY <2>1 DEF Claim
  <2>3. QED
    BY <2>1, <2>2 DEF CanRecover, Approved, Checkpoints
<1>3. IInv /\ ProgressInv => NeverStuck
  BY <1>2 DEF IInv, ProgressInv, PendingHasWork, NeverStuck
<1>4. QED
  BY <1>1, <1>3, InductiveInvariant, PTL
=============================================================================
