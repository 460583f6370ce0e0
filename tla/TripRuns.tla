------------------------------ MODULE TripRuns ------------------------------
(***************************************************************************)
(* Concurrent `start_run` requests of Trip Planning over PostgreSQL at     *)
(* READ COMMITTED.  A request opens one transaction that accepts a Run,    *)
(* leaves it to execute the Travel Readiness Capability, and opens a       *)
(* second one that commits the Plan Revision and the terminal outcome.     *)
(*                                                                         *)
(* Every SQL statement that reads or writes shared rows is a step of its   *)
(* own.  A write is invisible to other requests until its transaction      *)
(* commits; what others can feel before that, a row lock or a pending      *)
(* entry of a unique index, is a guard of their steps.                     *)
(*                                                                         *)
(* Failures covered: the process serving a request dies, its connection    *)
(* is lost or a statement raises, at any point of the request (Die); the   *)
(* Capability raises (Execute).  The database itself does not fail, and a  *)
(* commit takes effect at once.  One Planner is enough: a Trip owned by    *)
(* another Planner is, for every statement here, a Trip that is not there. *)
(***************************************************************************)
EXTENDS Naturals, FiniteSets

CONSTANTS
  Trips,       \* identifiers of the Trips that may be created
  Requests,    \* start_run requests; each names the Run and the Plan
               \* Revision it would create (both are fresh UUIDs)
  None,        \* no Run, no Plan Revision, no lock holder
  Verdicts,    \* what the Capability may answer in this instance
  Mortal       \* the requests whose process may die

CapabilityVerdicts == {"complete", "refused", "raised"}

ASSUME RequestsAssumption == None \notin Requests
ASSUME VerdictsAssumption == Verdicts \subseteq CapabilityVerdicts
ASSUME MortalAssumption == Mortal \subseteq Requests

VARIABLES
  \* Committed rows.
  trips,       \* table trips
  runs,        \* table runs: terminal_status, "active" when it is NULL
  number,      \* table plan_revisions: revision_number, 0 without a row
  base,        \* table plan_revisions: base_revision_id
  current,     \* trips.current_plan_revision_id
  \* Row locks.
  tripLock,    \* the transaction that holds SELECT trips ... FOR UPDATE
  \* The requests' local state.
  pc,          \* the statement the request is about to send
  target,      \* the Trip it is about
  verdict,     \* capability_outcome
  draft,       \* number and base of the PlanRevisionRecord it built
  answer       \* HTTP status and the Run it names

store   == <<trips, runs, number, base, current>>
request == <<pc, target, verdict, draft, answer>>
vars    == <<store, tripLock, request>>

RunStatuses == {"absent", "active", "Succeeded", "Blocked"}

\* The statements of start_run, in order, and where they stand.
InFirstTransaction  == {"adding", "refused", "added"}
InSecondTransaction == {"reading", "locking", "committing", "recording",
                        "recorded"}
InProgress == InFirstTransaction \cup {"executing"} \cup InSecondTransaction

NoAnswer == [status |-> 0, run |-> None]
NoDraft  == [number |-> 0, base |-> None]

ActiveRuns(t) == {q \in Requests : runs[q] = "active" /\ target[q] = t}

\* An insert or a status update of an active Run that is not committed yet:
\* INSERT ... ON CONFLICT on uq_runs_active_trip waits for its transaction.
ActiveIndexPending(t) ==
  \E q \in Requests : pc[q] \in {"added", "recorded"} /\ target[q] = t

\* The number and base a revision extending Trip t's current one must have.
NextDraft(t) ==
  [number |-> IF current[t] = None THEN 1 ELSE number[current[t]] + 1,
   base   |-> current[t]]

\* The transaction of r ends, in commit or rollback, and frees its locks.
ReleaseLocks(r) ==
  tripLock' = [t \in Trips |-> IF tripLock[t] = r THEN None ELSE tripLock[t]]

Goto(r, step) == pc' = [pc EXCEPT ![r] = step]

Respond(r, status, run) ==
  /\ Goto(r, "done")
  /\ answer' = [answer EXCEPT ![r] = [status |-> status, run |-> run]]

Init ==
  /\ trips = {}
  /\ runs = [r \in Requests |-> "absent"]
  /\ number = [r \in Requests |-> 0]
  /\ base = [r \in Requests |-> None]
  /\ current = [t \in Trips |-> None]
  /\ tripLock = [t \in Trips |-> None]
  /\ pc = [r \in Requests |-> "idle"]
  /\ target \in [Requests -> Trips]
  /\ verdict = [r \in Requests |-> "none"]
  /\ draft = [r \in Requests |-> NoDraft]
  /\ answer = [r \in Requests |-> NoAnswer]

-----------------------------------------------------------------------------
(***************************************************************************)
(* create_trip: the Trip and its single stay are inserted in one           *)
(* transaction.                                                            *)
(***************************************************************************)
CreateTrip(t) ==
  /\ t \notin trips
  /\ trips' = trips \cup {t}
  /\ UNCHANGED <<runs, number, base, current, tripLock, request>>

(***************************************************************************)
(* First transaction of start_run.                                         *)
(***************************************************************************)

\* trips.get; a Trip that is not there is answered 404.
FindTrip(r) ==
  /\ pc[r] = "idle"
  /\ IF target[r] \in trips
       THEN Goto(r, "adding") /\ UNCHANGED answer
       ELSE Respond(r, 404, None)
  /\ UNCHANGED <<store, tripLock, target, verdict, draft>>

\* Mutant of AddRun: the index is not unique, so nothing waits for a pending
\* insert.
AddRunWithoutIndex(r) ==
  /\ pc[r] = "adding"
  /\ Goto(r, IF ActiveRuns(target[r]) = {} THEN "added" ELSE "refused")
  /\ UNCHANGED <<store, tripLock, target, verdict, draft, answer>>

\* Mutant of AddRun: the conflict is not looked at.
AddRunWithoutConflict(r) ==
  /\ pc[r] = "adding"
  /\ ~ActiveIndexPending(target[r])
  /\ Goto(r, "added")
  /\ UNCHANGED <<store, tripLock, target, verdict, draft, answer>>

\* Mutant of AddRun: a busy Trip makes the request wait for its turn.
AddRunQueues(r) ==
  /\ pc[r] = "adding"
  /\ ~ActiveIndexPending(target[r])
  /\ ActiveRuns(target[r]) = {}
  /\ Goto(r, "added")
  /\ UNCHANGED <<store, tripLock, target, verdict, draft, answer>>

\* runs.add, the INSERT ... ON CONFLICT DO NOTHING: it waits for a pending
\* change of the index entry, then inserts or finds the entry taken.
AddRun(r) ==
  /\ pc[r] = "adding"
  /\ ~ActiveIndexPending(target[r])
  /\ Goto(r, IF ActiveRuns(target[r]) = {} THEN "added" ELSE "refused")
  /\ UNCHANGED <<store, tripLock, target, verdict, draft, answer>>

\* runs.add, the SELECT of the active Run to be named in the refusal.  It is
\* a new statement with a new snapshot; scalar_one raises when the Run that
\* won has ended meanwhile, and the request is answered 500.
NameActiveRun(r) ==
  /\ pc[r] = "refused"
  /\ IF ActiveRuns(target[r]) = {}
       THEN Respond(r, 500, None)
       ELSE \E q \in ActiveRuns(target[r]) : Respond(r, 409, q)
  /\ UNCHANGED <<store, tripLock, target, verdict, draft>>

\* The first transaction commits: the Run is accepted.
AcceptRun(r) ==
  /\ pc[r] = "added"
  /\ runs' = [runs EXCEPT ![r] = "active"]
  /\ Goto(r, "executing")
  /\ UNCHANGED <<trips, number, base, current, tripLock, target, verdict,
                 draft, answer>>

\* Mutant of Execute: a refusal is answered without recording it.
ExecuteForgetsRefusal(r) ==
  /\ pc[r] = "executing"
  /\ \E v \in Verdicts :
       /\ verdict' = [verdict EXCEPT ![r] = v]
       /\ \/ v = "complete" /\ Goto(r, "reading") /\ UNCHANGED answer
          \/ v = "refused" /\ Respond(r, 202, r)
          \/ v = "raised" /\ Respond(r, 500, None)
  /\ UNCHANGED <<store, tripLock, target, draft>>

(***************************************************************************)
(* Between the transactions: capability.execute.  A missing Capability, a  *)
(* completion without Evidence and an error of the Capability all raise,   *)
(* and nothing catches it: the request is answered 500.                    *)
(***************************************************************************)
Execute(r) ==
  /\ pc[r] = "executing"
  /\ \E v \in Verdicts :
       /\ verdict' = [verdict EXCEPT ![r] = v]
       /\ \/ v = "complete" /\ Goto(r, "reading") /\ UNCHANGED answer
          \/ v = "refused" /\ Goto(r, "recording") /\ UNCHANGED answer
          \/ v = "raised" /\ Respond(r, 500, None)
  /\ UNCHANGED <<store, tripLock, target, draft>>

(***************************************************************************)
(* Second transaction of start_run.                                        *)
(***************************************************************************)

\* plan_revisions.get_current, without a lock.  The pointer is the only
\* mutable row it reads; the revision the pointer names never changes.
ReadCurrent(r) ==
  /\ pc[r] = "reading"
  /\ draft' = [draft EXCEPT ![r] = NextDraft(target[r])]
  /\ Goto(r, "locking")
  /\ UNCHANGED <<store, tripLock, target, verdict, answer>>

\* plan_revisions.commit, SELECT trips ... FOR UPDATE.
LockTrip(r) ==
  /\ pc[r] = "locking"
  /\ tripLock[target[r]] = None
  /\ tripLock' = [tripLock EXCEPT ![target[r]] = r]
  /\ Goto(r, "committing")
  /\ UNCHANGED <<store, target, verdict, draft, answer>>

\* Mutant of CommitRevision: the revision commits in a transaction of its own,
\* before the outcome.
CommitRevisionAlone(r) ==
  /\ pc[r] = "committing"
  /\ runs[r] = "active" /\ draft[r] = NextDraft(target[r])
  /\ number' = [number EXCEPT ![r] = draft[r].number]
  /\ base' = [base EXCEPT ![r] = draft[r].base]
  /\ current' = [current EXCEPT ![target[r]] = r]
  /\ Goto(r, "recording")
  /\ UNCHANGED <<trips, runs, tripLock, target, verdict, draft, answer>>

\* plan_revisions.commit, the rest: the Run must be active and the draft must
\* extend the revision that is current now, under the lock; then the revision,
\* its claim and the pointer are written.  Otherwise ValueError: roll back.
CommitRevision(r) ==
  /\ pc[r] = "committing"
  /\ IF runs[r] = "active" /\ draft[r] = NextDraft(target[r])
       THEN Goto(r, "recording") /\ UNCHANGED <<tripLock, answer>>
       ELSE Respond(r, 500, None) /\ ReleaseLocks(r)
  /\ UNCHANGED <<store, target, verdict, draft>>

\* runs.record_terminal, UPDATE ... WHERE terminal_status IS NULL; a Run that
\* has its outcome already raises.
RecordTerminal(r) ==
  /\ pc[r] = "recording"
  /\ IF runs[r] = "active"
       THEN Goto(r, "recorded") /\ UNCHANGED <<tripLock, answer>>
       ELSE Respond(r, 500, None) /\ ReleaseLocks(r)
  /\ UNCHANGED <<store, target, verdict, draft>>

\* Mutant of EndRun: the Capability's word for the outcome is stored as it is.
EndRunUnmapped(r) ==
  /\ pc[r] = "recorded"
  /\ runs' = [runs EXCEPT ![r] = verdict[r]]
  /\ ReleaseLocks(r)
  /\ Respond(r, 202, r)
  /\ UNCHANGED <<trips, number, base, current, target, verdict, draft>>

\* Mutant of EndRun: the Trip's pointer is not moved to the new revision.
EndRunKeepsPointer(r) ==
  /\ pc[r] = "recorded"
  /\ IF verdict[r] = "complete"
       THEN /\ runs' = [runs EXCEPT ![r] = "Succeeded"]
            /\ number' = [number EXCEPT ![r] = draft[r].number]
            /\ base' = [base EXCEPT ![r] = draft[r].base]
       ELSE /\ runs' = [runs EXCEPT ![r] = "Blocked"]
            /\ UNCHANGED <<number, base>>
  /\ ReleaseLocks(r)
  /\ Respond(r, 202, r)
  /\ UNCHANGED <<trips, current, target, verdict, draft>>

\* Mutant of EndRun: the pointer is moved, the revision itself is not inserted.
EndRunPointerOnly(r) ==
  /\ pc[r] = "recorded"
  /\ IF verdict[r] = "complete"
       THEN /\ runs' = [runs EXCEPT ![r] = "Succeeded"]
            /\ current' = [current EXCEPT ![target[r]] = r]
       ELSE runs' = [runs EXCEPT ![r] = "Blocked"] /\ UNCHANGED current
  /\ ReleaseLocks(r)
  /\ Respond(r, 202, r)
  /\ UNCHANGED <<trips, number, base, target, verdict, draft>>

\* The second transaction commits: revision, pointer and terminal outcome
\* become visible together.
EndRun(r) ==
  /\ pc[r] = "recorded"
  /\ IF verdict[r] = "complete"
       THEN /\ runs' = [runs EXCEPT ![r] = "Succeeded"]
            /\ number' = [number EXCEPT ![r] = draft[r].number]
            /\ base' = [base EXCEPT ![r] = draft[r].base]
            /\ current' = [current EXCEPT ![target[r]] = r]
       ELSE /\ runs' = [runs EXCEPT ![r] = "Blocked"]
            /\ UNCHANGED <<number, base, current>>
  /\ ReleaseLocks(r)
  /\ Respond(r, 202, r)
  /\ UNCHANGED <<trips, target, verdict, draft>>

(***************************************************************************)
(* The process serving r dies, or the statement it is about to send fails: *)
(* PostgreSQL rolls the open transaction back.  Nothing later looks for    *)
(* the Run of r.                                                           *)
(***************************************************************************)
Die(r) ==
  /\ r \in Mortal
  /\ pc[r] \in InProgress
  /\ ReleaseLocks(r)
  /\ Respond(r, 0, None)
  /\ UNCHANGED <<store, target, verdict, draft>>

Serve(r) ==
  \/ FindTrip(r)
  \/ AddRun(r)
  \/ NameActiveRun(r)
  \/ AcceptRun(r)
  \/ Execute(r)
  \/ ReadCurrent(r)
  \/ LockTrip(r)
  \/ CommitRevision(r)
  \/ RecordTerminal(r)
  \/ EndRun(r)

Next ==
  \/ \E t \in Trips : CreateTrip(t)
  \/ \E r \in Requests : Serve(r) \/ Die(r)

Spec == Init /\ [][Next]_vars

\* A process that is alive keeps serving its request, and PostgreSQL grants a
\* lock that stays free.  A Planner need not create a Trip, a process need not
\* die.
Fairness == \A r \in Requests : WF_vars(Serve(r))

FairSpec == Spec /\ Fairness

-----------------------------------------------------------------------------
(***************************************************************************)
(* The abstract view of this state: the Run working on each Trip, and each *)
(* Trip's revisions in the order of their numbers.                         *)
(***************************************************************************)
Revisions(t) == {r \in Requests : number[r] > 0 /\ target[r] = t}

Promise == INSTANCE PlanHistory WITH
  Runs    <- Requests,
  working <- [t \in Trips |-> IF ActiveRuns(t) = {} THEN None
                              ELSE CHOOSE r \in ActiveRuns(t) : TRUE],
  history <- [t \in Trips |-> [n \in 1..Cardinality(Revisions(t)) |->
                               CHOOSE r \in Revisions(t) : number[r] = n]],
  ended   <- {r \in Requests : runs[r] \in {"Succeeded", "Blocked"}}

(***************************************************************************)
(* Properties.                                                             *)
(***************************************************************************)

\* Every variable has its type.
TypeOK ==
  /\ trips \subseteq Trips
  /\ runs \in [Requests -> RunStatuses]
  /\ number \in [Requests -> Nat]
  /\ base \in [Requests -> Requests \cup {None}]
  /\ current \in [Trips -> Requests \cup {None}]
  /\ tripLock \in [Trips -> Requests \cup {None}]
  /\ pc \in [Requests -> {"idle", "done"} \cup InProgress]
  /\ target \in [Requests -> Trips]
  /\ verdict \in [Requests -> CapabilityVerdicts \cup {"none"}]
  /\ draft \in [Requests -> [number : Nat, base : Requests \cup {None}]]
  /\ answer \in [Requests -> [status : {0, 202, 404, 409, 500},
                              run : Requests \cup {None}]]

\* At most one non-terminal Run per Trip, counting the one whose insert is
\* still pending (uq_runs_active_trip, runs.add).
Claims(r) == runs[r] = "active" \/ pc[r] = "added"

OneActiveRun ==
  \A q, r \in Requests :
    Claims(q) /\ Claims(r) /\ target[q] = target[r] => q = r

\* A Plan Revision exists exactly for the Runs that Succeeded: the revision
\* and the outcome commit in one transaction or not at all.
RevisionIffSucceeded ==
  \A r \in Requests : number[r] > 0 <=> runs[r] = "Succeeded"

\* The revisions of a Trip form one unbranched history: numbers are unique,
\* each revision's base is the revision numbered one less, and the Trip's
\* pointer names the last one.
LinearHistory ==
  \A t \in Trips :
    /\ current[t] = None => Revisions(t) = {}
    /\ current[t] # None => current[t] \in Revisions(t)
    /\ \A r \in Revisions(t) :
         /\ number[r] <= number[current[t]]
         /\ base[r] = None => number[r] = 1
         /\ base[r] # None => /\ base[r] \in Revisions(t)
                              /\ number[r] = number[base[r]] + 1
    /\ \A q, r \in Revisions(t) : number[q] = number[r] => q = r

\* What get_current read without a lock is still current when commit takes the
\* lock and up to the end of the transaction: the check of commit that answers
\* "does not extend the current revision" can never fire.
HasDraft(r) ==
  \/ pc[r] \in {"locking", "committing"}
  \/ pc[r] \in {"recording", "recorded"} /\ verdict[r] = "complete"

DraftIsFresh ==
  \A r \in Requests : HasDraft(r) => draft[r] = NextDraft(target[r])

\* A request that accepted a Run and is still being served finds its Run
\* active at every later statement: no other request ends it, so neither
\* "Run is not active" nor "terminal outcome already recorded" can be raised.
RunStaysActive ==
  \A r \in Requests :
    pc[r] \in {"executing"} \cup InSecondTransaction => runs[r] = "active"

\* The strengthening that makes the properties above inductive: a request that
\* has not committed its first transaction has no Run.
NoRunBeforeAccept ==
  \A r \in Requests :
    pc[r] \in {"idle"} \cup InFirstTransaction => runs[r] = "absent"

IInv ==
  /\ TypeOK
  /\ NoRunBeforeAccept
  /\ RunStaysActive
  /\ OneActiveRun
  /\ RevisionIffSucceeded
  /\ DraftIsFresh
  /\ LinearHistory

\* Requests, statements and locks implement PlanHistory: a Run ends at most
\* once, and only the one Run working on a Trip appends to its history.
KeepsPromise == Promise!Spec

\* Every request that was sent is answered, whatever happens to the others.
EveryRequestAnswered ==
  \A r \in Requests : pc[r] \in InProgress ~> pc[r] = "done"

\* What a request is answered is true of the Runs: 202, its Run has the outcome
\* it was meant to have; 409, the Run that is named was accepted on that Trip;
\* 500, the Capability raised, or the Run that was to be named has ended before
\* it could be read.  No check of the second transaction answers 500.
AnswersAreTrue ==
  \A r \in Requests :
    LET status == answer[r].status
        named == answer[r].run
    IN  /\ status = 202 =>
             /\ named = r
             /\ runs[r] = IF verdict[r] = "complete" THEN "Succeeded"
                                                     ELSE "Blocked"
        /\ status = 409 =>
             /\ runs[r] = "absent"
             /\ runs[named] # "absent" /\ target[named] = target[r]
        /\ status = 500 =>
             \/ verdict[r] = "raised" /\ runs[r] = "active"
             \/ /\ runs[r] = "absent"
                /\ \E q \in Requests : /\ target[q] = target[r]
                                       /\ runs[q] \in {"Succeeded", "Blocked"}

\* An accepted Run reaches a terminal outcome.
EveryRunEnds ==
  \A r \in Requests : runs[r] = "active" ~> runs[r] \in {"Succeeded", "Blocked"}
=============================================================================
