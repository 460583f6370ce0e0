----------------------------- MODULE Sandcastle -----------------------------
(***************************************************************************)
(* The Sandcastle orchestrator (.sandcastle/main.mts): it claims Tasks on  *)
(* the GitHub tracker, lets agents implement and review them, integrates   *)
(* the approved commits into Feature branches, publishes these and closes  *)
(* the Tasks.  What it must not forget it keeps in run-state.json, one     *)
(* claim per Task with a checkpoint, and reads back when it starts again.  *)
(*                                                                         *)
(* Failures covered: a call to GitHub fails, with or without effect; the   *)
(* build or the publication of a group fails; the process is killed        *)
(* between any two steps, or interrupted by a signal; a human requeues a   *)
(* blocked Task; GitHub merges a ready pull request.  Only one orchestrator*)
(* runs at a time and the target branch does not move.                     *)
(*                                                                         *)
(* A commit, and its tree, is the set of the Tasks whose approved commits  *)
(* it contains, on top of the target: {} is the target itself.             *)
(***************************************************************************)
EXTENDS Naturals, FiniteSets

CONSTANTS
  Tasks,
  Features,
  None,
  Feature,        \* [Tasks -> the parent Feature, or None]
  Backlogs,       \* what may be declared on the tracker: the Tasks each Task is
                  \* blocked by, and those whose gates or environment are not
                  \* ready
  MaxParallel,    \* MAX_PARALLEL_ISSUES
  AutoMerge,      \* whether GitHub may merge a ready pull request
  Faulty,         \* the kinds of calls that may fail
  MaxFaults, MaxCrashes, MaxInterrupts, MaxRequeues    \* bounds of a run of TLC

FaultKinds == {"tracker", "build", "publication"}

ASSUME TasksAssumption == IsFiniteSet(Tasks)
ASSUME FeatureAssumption ==
  /\ None \notin Tasks \cup Features
  /\ Tasks \cap Features = {}
  /\ Feature \in [Tasks -> Features \cup {None}]
ASSUME BacklogsAssumption ==
  Backlogs \subseteq [blockers : [Tasks -> SUBSET Tasks], gated : SUBSET Tasks]
ASSUME FaultyAssumption == Faulty \subseteq FaultKinds

VARIABLES
  \* GitHub.
  issue,       \* [Tasks -> "open" or "closed"]
  label,       \* [Tasks -> the Task's pipeline label]
  remote,      \* [Branches -> tree of the published branch, {} without one]
  pr,          \* [Branches -> state of its pull request]
  \* The local disk.
  file,        \* run-state.json: [Tasks -> claim]
  local,       \* [Branches -> head of the local integration branch]
  tip,         \* [Tasks -> head of the Task's own branch, {} without one]
  \* The orchestrator process.
  mode,        \* where main stands
  mem,         \* activeClaims: [Tasks -> claim]
  cleanup,     \* closedPendingCleanup
  todo,        \* Tasks the current loop has still to treat
  labelled,    \* Task that was labelled in-progress and is not persisted
  batch,       \* the Tasks claimed in this round, until they have settled
  approved,    \* the Tasks to integrate, from the recovery or the reviews
  pending,     \* integration branches whose group is still to be published
  job,         \* the group being published: branch, head, expected tree
  blocking,    \* Tasks blockIssue was called for
  clearing,    \* Tasks that were closed, their label still to be removed
  resuming, failed, aborted,
  \* Bounded counters of what goes wrong or is done by others.
  faults, crashes, interrupts, requeues,
  backlog      \* what is declared on the tracker, which does not change

github  == <<issue, label, remote, pr>>
disk    == <<file, local, tip>>
chores  == <<blocking, clearing>>
process == <<mode, mem, cleanup, todo, labelled, batch, approved, pending,
             job, chores, resuming, failed, aborted>>
outside == <<faults, crashes, interrupts, requeues, backlog>>
vars    == <<github, disk, process, outside>>

Branches == Features \cup {t \in Tasks : Feature[t] = None}
Branch(t) == IF Feature[t] = None THEN t ELSE Feature[t]

Labels == {"none", "implement", "queued", "in-progress", "blocked"}
Checkpoints == {"none", "claimed", "reviewed", "integrated", "published"}
Claim == [checkpoint : Checkpoints, head : SUBSET Tasks,
          expected : SUBSET Tasks, receipt : SUBSET Tasks]

ClaimAt(checkpoint) ==
  [checkpoint |-> checkpoint, head |-> {}, expected |-> {}, receipt |-> {}]
NoClaim == ClaimAt("none")
NoJob == [branch |-> None, head |-> {}, expected |-> {}]

Held(claims) == {t \in Tasks : claims[t] # NoClaim}
Approved(claim) == claim.checkpoint \in {"reviewed", "integrated", "published"}

OpenBlockers(t) == {u \in backlog.blockers[t] : issue[u] = "open"}
Group(b) == {t \in approved : Branch(t) = b}
Idle == blocking = {} /\ clearing = {}

\* blockIssue looks at Tasks it holds a claim of and that are not closed.
Blockable(S) == {t \in S : mem[t] # NoClaim /\ t \notin cleanup}

Fault(kind) ==
  /\ kind \in Faulty
  /\ faults < MaxFaults
  /\ faults' = faults + 1

\* setPipelineLabel: a call that fails may still have had its effect.
SetLabel(t, l, ok) ==
  LET set == [label EXCEPT ![t] = l]
  IN  \/ ok /\ label' = set /\ UNCHANGED faults
      \/ ~ok /\ label' \in {label, set} /\ Fault("tracker")

\* The same call for each Task of S, whose answers are only logged; new gives
\* the labels.
SetLabels(S, new) ==
  \E lost \in SUBSET S :
    /\ lost # {} => "tracker" \in Faulty
    /\ faults + Cardinality(lost) <= MaxFaults
    /\ faults' = faults + Cardinality(lost)
    /\ label' = [t \in Tasks |-> IF t \in S \ lost THEN new[t] ELSE label[t]]

\* verifyPublicationReceipt, when GitHub answers.
Verified(t) ==
  /\ mem[t].receipt # {}
  /\ remote[Branch(t)] = mem[t].receipt
  /\ pr[Branch(t)] # "none"

\* branchLanded on the integration branch; a standalone Task's is its own.
LandedLocally(t) == Feature[t] = None \/ t \in local[Branch(t)]

Persist == file' = mem'

Drop(t) == mem' = [mem EXCEPT ![t] = NoClaim]

Init ==
  /\ issue = [t \in Tasks |-> "open"]
  /\ label = [t \in Tasks |-> IF Feature[t] = None THEN "implement" ELSE "none"]
  /\ remote = [b \in Branches |-> {}]
  /\ pr = [b \in Branches |-> "none"]
  /\ file = [t \in Tasks |-> NoClaim]
  /\ local = [b \in Branches |-> {}]
  /\ tip = [t \in Tasks |-> {}]
  /\ mode = "off"
  /\ mem = [t \in Tasks |-> NoClaim]
  /\ cleanup = {} /\ todo = {} /\ labelled = None /\ batch = {}
  /\ approved = {} /\ pending = {} /\ job = NoJob
  /\ blocking = {} /\ clearing = {}
  /\ resuming = FALSE /\ failed = FALSE /\ aborted = FALSE
  /\ faults = 0 /\ crashes = 0 /\ interrupts = 0 /\ requeues = 0
  /\ backlog \in Backlogs

-----------------------------------------------------------------------------
(***************************************************************************)
(* blockIssue and the tail of closeLandedIssue.  They are called from many *)
(* places, which wait for them: every other action needs Idle.             *)
(***************************************************************************)
BlockIssue(t) ==
  /\ t \in blocking
  /\ blocking' = blocking \ {t}
  /\ \E ok \in BOOLEAN :
       /\ SetLabel(t, "blocked", ok)
       /\ IF ok THEN Drop(t) /\ Persist ELSE UNCHANGED <<mem, file>>
  /\ UNCHANGED <<issue, remote, pr, local, tip, mode, cleanup, todo, labelled,
                 batch, approved, pending, job, clearing, resuming, failed,
                 aborted, crashes, interrupts, requeues, backlog>>

\* Mutant of ClearLabel: the claim of a closed Task is not deleted.
ClearLabelKeepsClaim(t) ==
  /\ t \in clearing
  /\ clearing' = clearing \ {t}
  /\ \E ok \in BOOLEAN : SetLabel(t, "none", ok)
  /\ UNCHANGED <<issue, remote, pr, disk, mode, mem, cleanup, todo, labelled,
                 batch, approved, pending, job, blocking, resuming, failed,
                 aborted, crashes, interrupts, requeues, backlog>>

\* A Task that is closed but keeps its label stays in activeClaims and in the
\* file, and is remembered as closedPendingCleanup until the process ends.
ClearLabel(t) ==
  /\ t \in clearing
  /\ clearing' = clearing \ {t}
  /\ \E ok \in BOOLEAN :
       /\ SetLabel(t, "none", ok)
       /\ IF ok THEN Drop(t) /\ Persist /\ UNCHANGED cleanup
                ELSE cleanup' = cleanup \cup {t} /\ UNCHANGED <<mem, file>>
  /\ UNCHANGED <<issue, remote, pr, local, tip, mode, todo, labelled, batch,
                 approved, pending, job, blocking, resuming, failed, aborted,
                 crashes, interrupts, requeues, backlog>>

\* gh issue close, once the landing and the receipt of t are verified.
CloseLanded(t) ==
  \/ /\ issue' = [issue EXCEPT ![t] = "closed"]
     /\ clearing' = clearing \cup {t}
     /\ UNCHANGED <<blocking, faults>>
  \/ /\ issue' \in {issue, [issue EXCEPT ![t] = "closed"]}
     /\ blocking' = blocking \cup Blockable({t})
     /\ Fault("tracker")
     /\ UNCHANGED clearing

(***************************************************************************)
(* A process starts, reads the file and recovers the interrupted claims.   *)
(***************************************************************************)
Start ==
  /\ mode = "off"
  /\ mode' = "recovering"
  /\ mem' = file
  /\ todo' = Held(file)
  /\ UNCHANGED <<github, disk, cleanup, labelled, batch, approved, pending,
                 job, chores, resuming, failed, aborted, outside>>

\* The frame of the steps that recover one claim.
Recover(t) ==
  /\ mode = "recovering" /\ Idle
  /\ t \in todo
  /\ todo' = todo \ {t}
  /\ UNCHANGED <<remote, pr, disk, mode, cleanup, labelled, batch, approved,
                 pending, job, resuming, aborted, crashes, interrupts, requeues,
                 backlog>>

CannotRecover == failed' = TRUE /\ UNCHANGED mem

\* The Task cannot be read from the tracker.
RecoverUnread(t) ==
  /\ Recover(t)
  /\ Fault("tracker")
  /\ CannotRecover
  /\ UNCHANGED <<issue, label, chores>>

\* A closed Task needs a receipt that is still valid.
RecoverClosed(t) ==
  /\ Recover(t)
  /\ issue[t] = "closed"
  /\ \/ /\ Verified(t)
        /\ \E ok \in BOOLEAN :
             /\ SetLabel(t, "none", ok)
             /\ IF ok THEN Drop(t) /\ UNCHANGED failed ELSE CannotRecover
     \/ /\ ~Verified(t)
        /\ CannotRecover
        /\ UNCHANGED <<label, faults>>
     \/ Fault("tracker") /\ CannotRecover /\ UNCHANGED label
  /\ UNCHANGED <<issue, chores>>

\* A human, or a call whose answer was lost, took the Task from the run.
RecoverReleased(t) ==
  /\ Recover(t)
  /\ issue[t] = "open" /\ label[t] # "in-progress"
  /\ Drop(t)
  /\ UNCHANGED <<issue, label, chores, failed, faults>>

\* Mutant of RecoverPublished: a commit that landed locally is enough.
RecoverLanded(t) ==
  /\ Recover(t)
  /\ issue[t] = "open" /\ label[t] = "in-progress"
  /\ Approved(mem[t]) /\ LandedLocally(t)
  /\ CloseLanded(t)
  /\ UNCHANGED <<label, mem, failed>>

\* A published claim that can be verified is closed.
RecoverPublished(t) ==
  /\ Recover(t)
  /\ issue[t] = "open" /\ label[t] = "in-progress"
  /\ Verified(t) /\ LandedLocally(t)
  /\ CloseLanded(t)
  /\ UNCHANGED <<label, mem, failed>>

Demoted(claim) ==
  [checkpoint |-> "integrated", head |-> claim.head,
   expected |-> claim.expected, receipt |-> {}]

\* Any other claim that was approved resumes from its checkpoint; a published
\* one that could not be verified loses its receipt.
RecoverApproved(t) ==
  /\ Recover(t)
  /\ issue[t] = "open" /\ label[t] = "in-progress"
  /\ Approved(mem[t])
  /\ IF Verified(t) /\ LandedLocally(t) THEN Fault("tracker")
                                        ELSE UNCHANGED faults
  /\ IF mem[t].checkpoint # "reviewed" /\ t \notin mem[t].head
       THEN CannotRecover
       ELSE /\ mem' = IF mem[t].checkpoint = "published"
                        THEN [mem EXCEPT ![t] = Demoted(mem[t])]
                        ELSE mem
            /\ UNCHANGED failed
  /\ UNCHANGED <<issue, label, chores>>

\* Work that was not reviewed is left to a human.
RecoverClaimed(t) ==
  /\ Recover(t)
  /\ issue[t] = "open" /\ label[t] = "in-progress"
  /\ mem[t].checkpoint = "claimed"
  /\ \E ok \in BOOLEAN :
       /\ SetLabel(t, "blocked", ok)
       /\ IF ok THEN Drop(t) /\ UNCHANGED failed ELSE CannotRecover
  /\ UNCHANGED <<issue, chores>>

\* A claim that could not be recovered stops the run.  The claims that have an
\* approved commit are integrated before anything new is planned.
EndRecovery ==
  /\ mode = "recovering" /\ Idle /\ todo = {}
  /\ file' = mem
  /\ IF failed
       THEN mode' = "stopping" /\ UNCHANGED <<approved, pending, resuming>>
       ELSE /\ approved' = {t \in Tasks : Approved(mem[t])}
            /\ pending' = {Branch(t) : t \in approved'}
            /\ resuming' = TRUE
            /\ mode' = "groups"
  /\ UNCHANGED <<github, local, tip, mem, cleanup, todo, labelled, batch, job,
                 chores, failed, aborted, outside>>

-----------------------------------------------------------------------------
(***************************************************************************)
(* A round: authorize, promote, plan, claim, run the pipelines.            *)
(***************************************************************************)

\* authorizeAutopilotTasks: every Feature is opted in.
Authorize ==
  /\ mode = "authorizing" /\ Idle
  /\ SetLabels({t \in Tasks : /\ Feature[t] # None
                              /\ issue[t] = "open" /\ label[t] = "none"},
               [t \in Tasks |-> IF t \in backlog.gated THEN "blocked"
                                ELSE IF OpenBlockers(t) # {} THEN "queued"
                                ELSE "implement"])
  /\ mode' = "promoting"
  /\ UNCHANGED <<issue, remote, pr, disk, mem, cleanup, todo, labelled, batch,
                 approved, pending, job, chores, resuming, failed, aborted,
                 crashes, interrupts, requeues, backlog>>

\* promoteUnblockedQueuedIssues
Promote ==
  /\ mode = "promoting"
  /\ SetLabels({t \in Tasks \ backlog.gated : /\ issue[t] = "open"
                                             /\ label[t] = "queued"
                                             /\ OpenBlockers(t) = {}},
               [t \in Tasks |-> "implement"])
  /\ mode' = "planning"
  /\ UNCHANGED <<issue, remote, pr, disk, mem, cleanup, todo, labelled, batch,
                 approved, pending, job, chores, resuming, failed, aborted,
                 crashes, interrupts, requeues, backlog>>

\* The planner selects among the authorized Tasks, or selects none or fails;
\* the Task and time budgets end the rounds the same way.  A signal makes it fail,
\* or comes when its answer is there, which main then follows.
Plan ==
  /\ mode = "planning" /\ Idle
  /\ \E S \in SUBSET {t \in Tasks : /\ issue[t] = "open"
                                   /\ label[t] = "implement"} :
       /\ Cardinality(S) <= MaxParallel
       /\ todo' = S
       /\ mode' = IF S = {} THEN "stopping" ELSE "claiming"
  /\ UNCHANGED <<github, disk, mem, cleanup, labelled, batch, approved, pending,
                 job, chores, resuming, failed, aborted, outside>>

\* Mutant of GatesCleared: what authorizeAutopilotTasks saw is not read again.
GatesUnread(t) == TRUE

\* The external gates and the environment of t are ready.
GatesCleared(t) == t \notin backlog.gated

\* claimIssue reads the Task again and takes it by its label.
ClaimIssue(t) ==
  /\ mode = "claiming" /\ labelled = None
  /\ t \in todo
  /\ todo' = todo \ {t}
  /\ IF issue[t] = "open" /\ label[t] = "implement" /\ OpenBlockers(t) = {}
       THEN \E ok \in BOOLEAN :
              IF GatesCleared(t)
                THEN /\ SetLabel(t, "in-progress", ok)
                     /\ labelled' = IF ok THEN t ELSE None
                ELSE SetLabel(t, "blocked", ok) /\ UNCHANGED labelled
       ELSE UNCHANGED <<label, labelled, faults>>
  /\ UNCHANGED <<issue, remote, pr, disk, mode, mem, cleanup, batch, approved,
                 pending, job, chores, resuming, failed, aborted, crashes,
                 interrupts, requeues, backlog>>

\* main records the claim after the label is set.
PersistClaim ==
  /\ mode = "claiming" /\ labelled # None
  /\ mem' = [mem EXCEPT ![labelled] = ClaimAt("claimed")]
  /\ Persist
  /\ batch' = batch \cup {labelled}
  /\ labelled' = None
  /\ UNCHANGED <<github, local, tip, mode, cleanup, todo, approved, pending, job,
                 chores, resuming, failed, aborted, outside>>

RunPipelines ==
  /\ mode = "claiming" /\ labelled = None /\ todo = {}
  /\ todo' = batch
  /\ mode' = IF batch = {} THEN "stopping" ELSE "working"
  /\ UNCHANGED <<github, disk, mem, cleanup, labelled, batch, approved, pending,
                 job, chores, resuming, failed, aborted, outside>>

\* prepareIntegrationBase: a Task starts on the head of its integration branch,
\* a standalone Task, and the first of its Feature, on the target.
Base(t) == IF Feature[t] = None THEN {} ELSE local[Branch(t)]

\* Mutant of Aligned: the branch of an earlier attempt is taken as it is.
AlignedAnyhow(t) == TRUE

\* git merge --ff-only: the Task's branch contains its base or is behind it.
Aligned(t) == tip[t] \subseteq Base(t) \/ Base(t) \subseteq tip[t]

\* runIssuePipeline.  Without commits on top of the base nothing is reviewed,
\* and the branch, moved to its base or not, serves the next attempt alike.
\* Commits that are not approved (the implementer did not signal completion, an
\* agent failed, the review blocked them or left a dirty worktree) stay on the
\* branch for the next attempt.
RunIssuePipeline(t) ==
  /\ mode = "working" /\ Idle
  /\ t \in todo
  /\ todo' = todo \ {t}
  /\ LET start == IF tip[t] \subseteq Base(t) THEN Base(t) ELSE tip[t]
     IN  \/ UNCHANGED <<tip, approved>>
         \/ /\ Aligned(t)
            /\ tip' = [tip EXCEPT ![t] = start \cup {t}]
            /\ approved' \in {approved, approved \cup {t}}
  /\ UNCHANGED <<github, file, local, mode, mem, cleanup, labelled, batch,
                 pending, job, chores, resuming, failed, aborted, outside>>

\* All pipelines have settled.  Those that were not approved are blocked.
Settle ==
  /\ mode = "working" /\ Idle /\ todo = {}
  /\ blocking' = Blockable(batch \ approved)
  /\ batch' = {}
  /\ mode' = "settled"
  /\ UNCHANGED <<github, disk, mem, cleanup, todo, labelled, approved, pending,
                 job, clearing, resuming, failed, aborted, outside>>

NextRound == mode' = IF aborted THEN "stopping" ELSE "authorizing"

\* Mutant of Review: writes a checkpoint the schema does not know.
ReviewOldName ==
  /\ mode = "settled" /\ Idle
  /\ mem' = [t \in Tasks |->
              IF t \in approved THEN ClaimAt("approved") ELSE mem[t]]
  /\ Persist
  /\ pending' = {Branch(t) : t \in approved}
  /\ mode' = "groups"
  /\ UNCHANGED <<github, local, tip, cleanup, todo, labelled, batch, approved, job,
                 chores, resuming, failed, aborted, outside>>

\* The reviewed commits are pinned and recorded, also for a Task whose claim a
\* signal gave up meanwhile.
Review ==
  /\ mode = "settled" /\ Idle
  /\ resuming' = FALSE
  /\ mem' = [t \in Tasks |->
              IF t \in approved THEN ClaimAt("reviewed") ELSE mem[t]]
  /\ IF approved = {}
       THEN NextRound /\ UNCHANGED <<file, pending>>
       ELSE /\ Persist
            /\ pending' = {Branch(t) : t \in approved}
            /\ mode' = "groups"
  /\ UNCHANGED <<github, local, tip, cleanup, todo, labelled, batch, approved, job,
                 chores, failed, aborted, outside>>

-----------------------------------------------------------------------------
(***************************************************************************)
(* integrateAndPublishGroup                                                *)
(***************************************************************************)

\* The group failed: a recovery stops at once, a round goes on with the next
\* group and stops after the last.
FailGroup ==
  /\ failed' = TRUE
  /\ job' = NoJob
  /\ IF resuming THEN mode' = "stopping" /\ UNCHANGED pending
                 ELSE mode' = "groups" /\ pending' = pending \ {job.branch}

\* A group whose claims are all integrated alike goes straight to publication.
\* Another one is built on the head of its branch, or on the integrated head of
\* the claim that came first; a standalone Task is published as it is.
BaseOf(t) ==
  IF mem[t].checkpoint = "integrated" THEN mem[t].head
  ELSE Base(t)

\* Mutant of Resumable: every recovered group is built again.
NeverResumable(b) == FALSE

Resumable(b) ==
  \A t, u \in Group(b) :
    /\ mem[t].checkpoint = "integrated"
    /\ mem[t].head = mem[u].head /\ mem[t].expected = mem[u].expected

NextGroup(b) ==
  /\ mode = "groups" /\ Idle
  /\ b \in pending
  /\ \E t \in Group(b) :
       IF Resumable(b)
         THEN /\ job' = [branch |-> b, head |-> mem[t].head,
                         expected |-> mem[t].expected]
              /\ mode' = "pushing"
         ELSE /\ job' = [branch |-> b, expected |-> BaseOf(t),
                         head |-> IF Feature[t] = None THEN tip[t]
                                  ELSE BaseOf(t) \cup
                                       UNION {tip[u] : u \in Group(b)}]
              /\ mode' = IF Feature[t] = None THEN "integrated" ELSE "building"
  /\ UNCHANGED <<github, disk, mem, cleanup, todo, labelled, batch, approved,
                 pending, chores, resuming, failed, aborted, outside>>

\* Mutant of Build: the integration branch is not moved to the new head.
BuildWithoutUpdate ==
  /\ mode = "building" /\ Idle
  /\ local[job.branch] = job.expected
  /\ mode' = "integrated"
  /\ UNCHANGED <<github, disk, mem, cleanup, todo, labelled, batch, approved,
                 pending, job, chores, resuming, failed, aborted, outside>>

\* buildIntegrationBranch, then updateIntegrationBranch: compare and swap.  A
\* signal aborts the merger, not the verification that follows it: a build may
\* succeed after it.
Build ==
  /\ mode = "building" /\ Idle
  /\ local[job.branch] = job.expected
  /\ local' = [local EXCEPT ![job.branch] = job.head]
  /\ mode' = "integrated"
  /\ UNCHANGED <<github, file, tip, mem, cleanup, todo, labelled, batch, approved,
                 pending, job, chores, resuming, failed, aborted, outside>>

BuildFails ==
  /\ mode = "building" /\ Idle
  /\ \/ (aborted \/ local[job.branch] # job.expected) /\ UNCHANGED faults
     \/ Fault("build")
  /\ FailGroup
  /\ UNCHANGED <<github, disk, mem, cleanup, todo, labelled, batch, approved,
                 chores, resuming, aborted, crashes, interrupts, requeues,
                 backlog>>

\* Writes a checkpoint of every claim of the group that is still active.
SaveGroup(checkpoint, receipt) ==
  /\ mem' = [t \in Tasks |->
              IF t \in Group(job.branch) /\ mem[t] # NoClaim
                THEN [checkpoint |-> checkpoint, head |-> job.head,
                      expected |-> job.expected, receipt |-> receipt]
                ELSE mem[t]]
  /\ Persist

SaveIntegration ==
  /\ mode = "integrated" /\ Idle
  /\ SaveGroup("integrated", {})
  /\ mode' = "pushing"
  /\ UNCHANGED <<github, local, tip, cleanup, todo, labelled, batch, approved,
                 pending, job, chores, resuming, failed, aborted, outside>>

\* Mutant of TreeExpected: the remote tree is not looked at.
TreeUnchecked == TRUE

\* publish-via-github-api.sh, first half: an existing branch must have the
\* expected tree, or the new one already.
TreeExpected ==
  remote[job.branch] \in {{}, job.expected, job.head}

PushTree ==
  /\ mode = "pushing"
  /\ IF TreeExpected
       THEN /\ remote' = [remote EXCEPT ![job.branch] = job.head]
            /\ mode' = "opening"
            /\ UNCHANGED <<pending, job, failed>>
       ELSE FailGroup /\ UNCHANGED remote
  /\ UNCHANGED <<issue, label, pr, disk, mem, cleanup, todo, labelled, batch,
                 approved, chores, resuming, aborted, outside>>

\* Mutant of Complete: a queued Task is not remaining work.
CompleteButQueued(b) ==
  \A t \in Tasks \ Group(b) :
    Branch(t) = b => issue[t] = "closed" \/ label[t] = "queued"

\* featureHasRemainingAgentTasks: open Tasks of the Feature besides the group.
Complete(b) ==
  \A t \in Tasks \ Group(b) : Branch(t) = b => issue[t] = "closed"

\* publish-via-github-api.sh, second half: a pull request is created or
\* reused, and made ready when the Feature is complete.
OpenPullRequest ==
  /\ mode = "opening"
  /\ IF pr[job.branch] = "merged"
       THEN FailGroup /\ UNCHANGED pr
       ELSE /\ pr' = [pr EXCEPT ![job.branch] =
                        IF Complete(job.branch) THEN "ready"
                        ELSE IF @ = "none" THEN "draft" ELSE @]
            /\ mode' = "published"
            /\ UNCHANGED <<pending, job, failed>>
  /\ UNCHANGED <<issue, label, remote, disk, mem, cleanup, todo, labelled,
                 batch, approved, chores, resuming, aborted, outside>>

\* The publication fails or times out, after any part of its effect.
PublicationFails ==
  /\ mode \in {"pushing", "opening", "published"}
  /\ Fault("publication")
  /\ FailGroup
  /\ UNCHANGED <<github, disk, mem, cleanup, todo, labelled, batch, approved,
                 chores, resuming, aborted, crashes, interrupts, requeues,
                 backlog>>

SaveReceipt ==
  /\ mode = "published"
  /\ SaveGroup("published", job.head)
  /\ todo' = Group(job.branch)
  /\ mode' = "closing"
  /\ UNCHANGED <<github, local, tip, cleanup, labelled, batch, approved, pending,
                 job, chores, resuming, failed, aborted, outside>>

\* closeLandedIssue for each Task of the group; one that is not proven on the
\* published branch is blocked.
CloseTask(t) ==
  /\ mode = "closing" /\ Idle
  /\ t \in todo
  /\ todo' = todo \ {t}
  /\ \/ /\ LandedLocally(t) /\ Verified(t)
        /\ CloseLanded(t)
     \/ /\ blocking' = Blockable({t})
        /\ IF LandedLocally(t) /\ Verified(t) THEN Fault("tracker")
                                              ELSE UNCHANGED faults
        /\ UNCHANGED <<issue, clearing>>
  /\ UNCHANGED <<label, remote, pr, disk, mode, mem, cleanup, labelled, batch,
                 approved, pending, job, resuming, failed, aborted, crashes,
                 interrupts, requeues, backlog>>

EndGroup ==
  /\ mode = "closing" /\ Idle /\ todo = {}
  /\ pending' = pending \ {job.branch}
  /\ job' = NoJob
  /\ mode' = "groups"
  /\ UNCHANGED <<github, disk, mem, cleanup, todo, labelled, batch, approved,
                 chores, resuming, failed, aborted, outside>>

EndGroups ==
  /\ mode = "groups" /\ Idle /\ pending = {}
  /\ IF failed THEN mode' = "stopping" ELSE NextRound
  /\ approved' = {}
  /\ UNCHANGED <<github, disk, mem, cleanup, todo, labelled, batch, pending,
                 job, chores, resuming, failed, aborted, outside>>

-----------------------------------------------------------------------------
(***************************************************************************)
(* The process stops: stopClaim gives up every claim that is not approved  *)
(* and preserves the others.                                               *)
(***************************************************************************)
Unapproved == {t \in Tasks : mem[t].checkpoint = "claimed"}

\* Mutant of Stop: every claim is given up, the approved ones are forgotten.
StopForgets ==
  /\ mode = "stopping" /\ Idle
  /\ file' = [t \in Tasks |-> NoClaim]
  /\ blocking' = Blockable(Unapproved)
  /\ mode' = "leaving"
  /\ UNCHANGED <<github, local, tip, mem, cleanup, todo, labelled, batch, approved,
                 pending, job, clearing, resuming, failed, aborted, outside>>

Stop ==
  /\ mode = "stopping" /\ Idle
  /\ file' = mem
  /\ blocking' = Blockable(Unapproved)
  /\ mode' = "leaving"
  /\ UNCHANGED <<github, local, tip, mem, cleanup, todo, labelled, batch, approved,
                 pending, job, clearing, resuming, failed, aborted, outside>>

\* What is left of a process that is gone.
Gone ==
  /\ mode' = "off"
  /\ mem' = [t \in Tasks |-> NoClaim]
  /\ cleanup' = {} /\ todo' = {} /\ labelled' = None /\ batch' = {}
  /\ approved' = {} /\ pending' = {} /\ job' = NoJob
  /\ blocking' = {} /\ clearing' = {}
  /\ resuming' = FALSE /\ failed' = FALSE /\ aborted' = FALSE

Exit ==
  /\ mode = "leaving" /\ Idle
  /\ Gone
  /\ UNCHANGED <<github, disk, outside>>

(***************************************************************************)
(* What happens to the orchestrator.                                       *)
(***************************************************************************)
Crash ==
  /\ mode # "off" /\ crashes < MaxCrashes
  /\ crashes' = crashes + 1
  /\ Gone
  /\ UNCHANGED <<github, disk, faults, interrupts, requeues, backlog>>

\* SIGINT or SIGTERM, which Node delivers while main awaits an agent: stopClaim
\* for every claim, while the agents still run.
Interrupt ==
  /\ mode \in {"planning", "working", "building"} /\ Idle /\ ~aborted
  /\ interrupts < MaxInterrupts
  /\ interrupts' = interrupts + 1
  /\ aborted' = TRUE
  /\ blocking' = Blockable(Unapproved)
  /\ file' = mem
  /\ UNCHANGED <<github, local, tip, mode, mem, cleanup, todo, labelled, batch,
                 approved, pending, job, clearing, resuming, failed, faults,
                 crashes, requeues, backlog>>

\* A human decides to have a blocked Task implemented again.
Requeue(t) ==
  /\ issue[t] = "open" /\ label[t] = "blocked"
  /\ requeues < MaxRequeues
  /\ requeues' = requeues + 1
  /\ label' = [label EXCEPT ![t] = "implement"]
  /\ UNCHANGED <<issue, remote, pr, disk, process, faults, crashes, interrupts,
                 backlog>>

\* GitHub squash-merges a ready pull request whose checks have passed.
Merge(b) ==
  /\ AutoMerge /\ pr[b] = "ready"
  /\ pr' = [pr EXCEPT ![b] = "merged"]
  /\ UNCHANGED <<issue, label, remote, disk, process, outside>>

RecoverClaim(t) ==
  \/ RecoverUnread(t) \/ RecoverClosed(t) \/ RecoverReleased(t)
  \/ RecoverPublished(t) \/ RecoverApproved(t) \/ RecoverClaimed(t)

Publish ==
  \/ \E b \in Branches : NextGroup(b)
  \/ Build \/ BuildFails \/ SaveIntegration
  \/ PushTree \/ OpenPullRequest \/ PublicationFails \/ SaveReceipt
  \/ \E t \in Tasks : CloseTask(t)
  \/ EndGroup \/ EndGroups

Orchestrate ==
  \/ Start \/ EndRecovery
  \/ \E t \in Tasks : BlockIssue(t) \/ ClearLabel(t) \/ RecoverClaim(t)
  \/ Authorize \/ Promote \/ Plan
  \/ \E t \in Tasks : ClaimIssue(t)
  \/ PersistClaim \/ RunPipelines
  \/ \E t \in Tasks : RunIssuePipeline(t)
  \/ Settle \/ Review
  \/ Publish
  \/ Stop \/ Exit

Next ==
  \/ Orchestrate
  \/ Crash \/ Interrupt
  \/ \E t \in Tasks : Requeue(t)
  \/ \E b \in Branches : Merge(b)

Spec == Init /\ [][Next]_vars

\* A process that runs goes on, and the orchestrator is started again after it
\* ended.  Nobody has to crash, interrupt, requeue or merge anything.
FairSpec == Spec /\ WF_vars(Orchestrate)

\* What all this delivers: Tasks, published branches and pull requests.
GitHub == INSTANCE Delivery WITH
  Work <- [b \in Branches |-> {t \in Tasks : Branch(t) = b}]

-----------------------------------------------------------------------------
(***************************************************************************)
(* Properties.                                                             *)
(***************************************************************************)

\* Every variable has its type.
TypeOK ==
  /\ issue \in [Tasks -> {"open", "closed"}]
  /\ label \in [Tasks -> Labels]
  /\ remote \in [Branches -> SUBSET Tasks]
  /\ pr \in [Branches -> {"none", "draft", "ready", "merged"}]
  /\ file \in [Tasks -> Claim] /\ mem \in [Tasks -> Claim]
  /\ local \in [Branches -> SUBSET Tasks] /\ tip \in [Tasks -> SUBSET Tasks]
  /\ mode \in {"off", "recovering", "authorizing", "promoting", "planning",
               "claiming", "working", "settled", "groups", "building",
               "integrated", "pushing", "opening", "published", "closing",
               "stopping", "leaving"}
  /\ cleanup \subseteq Tasks /\ todo \subseteq Tasks /\ batch \subseteq Tasks
  /\ labelled \in Tasks \cup {None}
  /\ approved \subseteq Tasks /\ pending \subseteq Branches
  /\ job \in [branch : Branches \cup {None}, head : SUBSET Tasks,
              expected : SUBSET Tasks]
  /\ blocking \subseteq Tasks /\ clearing \subseteq Tasks
  /\ resuming \in BOOLEAN /\ failed \in BOOLEAN /\ aborted \in BOOLEAN
  /\ faults \in Nat /\ crashes \in Nat /\ interrupts \in Nat /\ requeues \in Nat
  /\ backlog \in Backlogs

\* A Task closes only after the branch that is published, under a pull request,
\* contains its approved commit, and it stays there (README.md:131).
ClosedIsPublished ==
  \A t \in Tasks : issue[t] = "closed" =>
    t \in remote[Branch(t)] /\ pr[Branch(t)] # "none"

\* Whatever fails, and whatever stale checkpoint is resumed, the orchestrator
\* delivers what Delivery says: nothing is published for a Task that is gated or
\* waits for an open one, no publication takes work off a branch, and what is
\* made ready, merged or closed was published before.
KeepsDelivery == GitHub!Spec

\* A pull request that GitHub may merge by itself holds the work of every Task
\* of its Feature (README.md:202).
ReadyIsComplete ==
  \A b \in Branches : pr[b] \in {"ready", "merged"} =>
    \A t \in Tasks : Branch(t) = b => t \in remote[b]

\* A commit is approved only on top of everything its Feature had integrated
\* when it was implemented, the work of the Tasks that blocked it included, also
\* when the Task is attempted again after its Feature has moved on.
WorkHoldsBase ==
  mode = "settled" =>
    \A t \in approved :
      /\ {t} \cup local[Branch(t)] \subseteq tip[t]
      /\ \A u \in backlog.blockers[t] : Branch(u) = Branch(t) => u \in tip[t]

\* An integration checkpoint on disk can be verified locally: its head is on
\* the local branch and contains the Task, so recovery never has to refuse it.
CheckpointIsVerifiable ==
  \A t \in Tasks : file[t].checkpoint \in {"integrated", "published"} =>
    /\ t \in file[t].head
    /\ Feature[t] # None => file[t].head \subseteq local[Branch(t)]

\* The file does not forget approved work that is neither closed nor given back
\* to a human, whatever happens to the process (README.md:181).
ApprovedWorkIsKept ==
  [][\A t \in Tasks :
       Approved(file[t]) /\ ~Approved(file'[t]) =>
         \/ issue'[t] = "closed"
         \/ label[t] # "in-progress" \/ label'[t] # "in-progress"
         \/ labelled = t]_file

\* Every Task that was reviewed is closed or given back to a human.
ReviewedWorkIsFinished ==
  \A t \in Tasks :
    Approved(file[t]) ~> issue[t] = "closed" \/ label[t] = "blocked"

\* Every claim is released: no Task stays in the file for ever.
EveryClaimIsReleased ==
  \A t \in Tasks : file[t] # NoClaim ~> file[t] = NoClaim
=============================================================================
