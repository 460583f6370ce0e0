--------------------------- MODULE TripRunsProofs ---------------------------
(***************************************************************************)
(* Proofs, for any set of Trips and of requests, that the requests of      *)
(* TripRuns keep one active Run per Trip and one linear history of         *)
(* revisions, whatever dies and whatever the Capability answers, that they *)
(* implement PlanHistory, that they never wait for each other in a circle, *)
(* and what follows from the fairness of each request.                     *)
(***************************************************************************)
EXTENDS TripRuns, FiniteSetTheorems, Sequences, TLAPS

LEMMA InitIInv == Init => IInv
  BY RequestsAssumption
     DEF Init, IInv, TypeOK, NoRunBeforeAccept, RunStaysActive, OneActiveRun,
         Claims, RevisionIffSucceeded, DraftIsFresh, HasDraft, LinearHistory,
         Revisions, NoAnswer, NoDraft, InProgress, InFirstTransaction,
         InSecondTransaction, RunStatuses

\* Answering keeps the two variables it assigns in their types.
LEMMA RespondType ==
  ASSUME TypeOK, NEW r \in Requests,
         NEW status \in {0, 202, 404, 409, 500},
         NEW run \in Requests \cup {None}, Respond(r, status, run)
  PROVE  /\ pc' \in [Requests -> {"idle", "done"} \cup InProgress]
         /\ answer' \in [Requests -> [status : {0, 202, 404, 409, 500},
                                      run : Requests \cup {None}]]
<1> DEFINE a == [status |-> status, run |-> run]
<1>1. a \in [status : {0, 202, 404, 409, 500}, run : Requests \cup {None}]
  OBVIOUS
<1>2. answer' = [answer EXCEPT ![r] = a] /\ pc' = [pc EXCEPT ![r] = "done"]
  BY DEF Respond, Goto
<1> HIDE DEF a
<1>3. QED
  BY <1>1, <1>2 DEF TypeOK

LEMMA NextTypeOK == TypeOK /\ [Next]_vars => TypeOK'
<1> SUFFICES ASSUME TypeOK, [Next]_vars PROVE TypeOK'
  OBVIOUS
<1> USE DEF TypeOK, InProgress, InFirstTransaction, InSecondTransaction,
            RunStatuses, Goto, Respond, ReleaseLocks, store, request
<1>1. ASSUME NEW t \in Trips, CreateTrip(t) PROVE TypeOK'
  BY <1>1 DEF CreateTrip
<1>2. ASSUME NEW r \in Requests, FindTrip(r) PROVE TypeOK'
  <2>1. CASE target[r] \in trips
    BY <1>2, <2>1 DEF FindTrip
  <2>2. CASE target[r] \notin trips
    BY <1>2, <2>2, RespondType DEF FindTrip
  <2>3. QED
    BY <2>1, <2>2
<1>3. ASSUME NEW r \in Requests, AddRun(r) PROVE TypeOK'
  BY <1>3 DEF AddRun
<1>4. ASSUME NEW r \in Requests, NameActiveRun(r) PROVE TypeOK'
  BY <1>4, RespondType DEF NameActiveRun, ActiveRuns
<1>5. ASSUME NEW r \in Requests, AcceptRun(r) PROVE TypeOK'
  BY <1>5 DEF AcceptRun
<1>6. ASSUME NEW r \in Requests, Execute(r) PROVE TypeOK'
  <2>1. PICK v \in CapabilityVerdicts :
          /\ verdict' = [verdict EXCEPT ![r] = v]
          /\ \/ pc' = [pc EXCEPT ![r] = "reading"] /\ UNCHANGED answer
             \/ pc' = [pc EXCEPT ![r] = "recording"] /\ UNCHANGED answer
             \/ Respond(r, 500, None)
    BY <1>6, VerdictsAssumption DEF Execute
  <2>2. verdict' \in [Requests -> CapabilityVerdicts \cup {"none"}]
    BY <2>1
  <2>3. /\ pc' \in [Requests -> {"idle", "done"} \cup InProgress]
        /\ answer' \in [Requests -> [status : {0, 202, 404, 409, 500},
                                     run : Requests \cup {None}]]
    <3>1. CASE UNCHANGED answer
      BY <2>1, <3>1
    <3>2. CASE Respond(r, 500, None)
      BY <3>2, RespondType
    <3>3. QED
      BY <2>1, <3>1, <3>2
  <2>4. QED
    BY <1>6, <2>2, <2>3 DEF Execute
<1>7. ASSUME NEW r \in Requests, ReadCurrent(r) PROVE TypeOK'
  BY <1>7 DEF ReadCurrent, NextDraft
<1>8. ASSUME NEW r \in Requests, LockTrip(r) PROVE TypeOK'
  BY <1>8 DEF LockTrip
<1>9. ASSUME NEW r \in Requests, CommitRevision(r) PROVE TypeOK'
  BY <1>9 DEF CommitRevision
<1>10. ASSUME NEW r \in Requests, RecordTerminal(r) PROVE TypeOK'
  BY <1>10 DEF RecordTerminal
<1>11. ASSUME NEW r \in Requests, EndRun(r) PROVE TypeOK'
  <2>1. /\ pc' \in [Requests -> {"idle", "done"} \cup InProgress]
        /\ answer' \in [Requests -> [status : {0, 202, 404, 409, 500},
                                     run : Requests \cup {None}]]
    BY <1>11, RespondType DEF EndRun
  <2>2. tripLock' \in [Trips -> Requests \cup {None}]
    BY <1>11 DEF EndRun
  <2>3. /\ draft[r].number \in Nat
        /\ draft[r].base \in Requests \cup {None}
        /\ target[r] \in Trips
    OBVIOUS
  <2>4. runs' \in [Requests -> RunStatuses]
    BY <1>11 DEF EndRun
  <2>5. number' \in [Requests -> Nat]
    BY <1>11, <2>3 DEF EndRun
  <2>6. base' \in [Requests -> Requests \cup {None}]
    BY <1>11, <2>3 DEF EndRun
  <2>7. current' \in [Trips -> Requests \cup {None}]
    BY <1>11, <2>3 DEF EndRun
  <2>8. QED
    BY <1>11, <2>1, <2>2, <2>4, <2>5, <2>6, <2>7 DEF EndRun
<1>12. ASSUME NEW r \in Requests, Die(r) PROVE TypeOK'
  BY <1>12 DEF Die
<1>13. CASE UNCHANGED vars
  BY <1>13 DEF vars
<1>14. QED
  BY <1>1, <1>2, <1>3, <1>4, <1>5, <1>6, <1>7, <1>8, <1>9, <1>10, <1>11,
     <1>12, <1>13 DEF Next, Serve

\* Every variable has its type in every reachable state.
THEOREM TypeCorrect == Spec => []TypeOK
<1>1. Init => TypeOK
  BY InitIInv DEF IInv
<1>2. QED
  BY <1>1, NextTypeOK, PTL DEF Spec
-----------------------------------------------------------------------------
(***************************************************************************)
(* One active Run per Trip.  Only AddRun can create a second claim, and it *)
(* sees every claim there is: a committed one as an active Run, a pending  *)
(* one as a pending index entry.                                           *)
(***************************************************************************)
LifecycleInv == NoRunBeforeAccept /\ RunStaysActive /\ OneActiveRun

LEMMA NextLifecycle == TypeOK /\ LifecycleInv /\ [Next]_vars => LifecycleInv'
<1> SUFFICES ASSUME TypeOK, LifecycleInv, [Next]_vars PROVE LifecycleInv'
  OBVIOUS
<1> USE DEF TypeOK, LifecycleInv, NoRunBeforeAccept, RunStaysActive,
            OneActiveRun, Claims, InFirstTransaction, InSecondTransaction,
            Goto, Respond, store, request
<1>1. ASSUME NEW t \in Trips, CreateTrip(t) PROVE LifecycleInv'
  BY <1>1 DEF CreateTrip
<1>2. ASSUME NEW r \in Requests, FindTrip(r) PROVE LifecycleInv'
  BY <1>2 DEF FindTrip
<1>3. ASSUME NEW r \in Requests, AddRun(r) PROVE LifecycleInv'
  <2>1. CASE ActiveRuns(target[r]) = {}
    <3>1. \A q \in Requests : Claims(q) => target[q] # target[r]
      BY <1>3, <2>1 DEF AddRun, ActiveRuns, ActiveIndexPending
    <3>2. QED
      BY <1>3, <2>1, <3>1 DEF AddRun
  <2>2. CASE ActiveRuns(target[r]) # {}
    BY <1>3, <2>2 DEF AddRun
  <2>3. QED
    BY <2>1, <2>2
<1>4. ASSUME NEW r \in Requests, NameActiveRun(r) PROVE LifecycleInv'
  BY <1>4 DEF NameActiveRun
<1>5. ASSUME NEW r \in Requests, AcceptRun(r) PROVE LifecycleInv'
  BY <1>5 DEF AcceptRun
<1>6. ASSUME NEW r \in Requests, Execute(r) PROVE LifecycleInv'
  BY <1>6 DEF Execute
<1>7. ASSUME NEW r \in Requests, ReadCurrent(r) PROVE LifecycleInv'
  BY <1>7 DEF ReadCurrent
<1>8. ASSUME NEW r \in Requests, LockTrip(r) PROVE LifecycleInv'
  BY <1>8 DEF LockTrip
<1>9. ASSUME NEW r \in Requests, CommitRevision(r) PROVE LifecycleInv'
  BY <1>9 DEF CommitRevision
<1>10. ASSUME NEW r \in Requests, RecordTerminal(r) PROVE LifecycleInv'
  BY <1>10 DEF RecordTerminal
<1>11. ASSUME NEW r \in Requests, EndRun(r) PROVE LifecycleInv'
  BY <1>11 DEF EndRun
<1>12. ASSUME NEW r \in Requests, Die(r) PROVE LifecycleInv'
  BY <1>12 DEF Die
<1>13. CASE UNCHANGED vars
  BY <1>13 DEF vars
<1>14. QED
  BY <1>1, <1>2, <1>3, <1>4, <1>5, <1>6, <1>7, <1>8, <1>9, <1>10, <1>11,
     <1>12, <1>13 DEF Next, Serve

\* At most one Run per Trip is active or about to be committed as active.
THEOREM OneActiveRunHolds == Spec => []OneActiveRun
<1>1. Init => TypeOK /\ LifecycleInv
  BY InitIInv DEF IInv, LifecycleInv
<1>2. TypeOK /\ LifecycleInv /\ [Next]_vars => (TypeOK /\ LifecycleInv)'
  BY NextTypeOK, NextLifecycle
<1>3. TypeOK /\ LifecycleInv => OneActiveRun
  BY DEF LifecycleInv
<1>4. QED
  BY <1>1, <1>2, <1>3, PTL DEF Spec
-----------------------------------------------------------------------------
(***************************************************************************)
(* One linear history per Trip.  Only EndRun writes revisions and the      *)
(* pointer.  The Run it ends is the one active Run of its Trip, so no      *)
(* other request holding a draft is working on that Trip, and its own      *)
(* draft extends the revision that is still current.                       *)
(***************************************************************************)
HistoryInv == RevisionIffSucceeded /\ DraftIsFresh /\ LinearHistory

\* The part of a step that does not touch revisions, pointers or drafts, and
\* lets nobody come to hold a draft.
LEMMA HistoryFrame ==
  ASSUME TypeOK, HistoryInv,
         UNCHANGED <<number, base, current, target, draft>>,
         \A q \in Requests : HasDraft(q)' => HasDraft(q),
         \A q \in Requests : runs'[q] = "Succeeded" <=> runs[q] = "Succeeded"
  PROVE  HistoryInv'
  BY DEF TypeOK, HistoryInv, RevisionIffSucceeded, DraftIsFresh, NextDraft,
         LinearHistory, Revisions

LEMMA EndRunHistory ==
  ASSUME TypeOK, LifecycleInv, HistoryInv, NEW r \in Requests, EndRun(r),
         verdict[r] = "complete"
  PROVE  HistoryInv'
<1> USE DEF TypeOK
<1> PICK t \in Trips : t = target[r]
  OBVIOUS
<1>1. /\ pc[r] = "recorded"
      /\ runs' = [runs EXCEPT ![r] = "Succeeded"]
      /\ number' = [number EXCEPT ![r] = draft[r].number]
      /\ base' = [base EXCEPT ![r] = draft[r].base]
      /\ current' = [current EXCEPT ![t] = r]
      /\ pc' = [pc EXCEPT ![r] = "done"]
      /\ UNCHANGED <<target, verdict, draft>>
  BY DEF EndRun, Respond, Goto
<1>2. /\ runs[r] = "active"
      /\ number[r] = 0
      /\ draft[r] = NextDraft(t)
  BY <1>1 DEF LifecycleInv, RunStaysActive, InSecondTransaction, HistoryInv,
              RevisionIffSucceeded, DraftIsFresh, HasDraft
<1>3. /\ draft[r].number = (IF current[t] = None THEN 1
                                          ELSE number[current[t]] + 1)
      /\ draft[r].base = current[t]
  BY <1>2 DEF NextDraft
<1>4. /\ current[t] # None => current[t] \in Requests
      /\ draft[r].number \in Nat
      /\ draft[r].number > 0
  BY <1>3
<1>5. RevisionIffSucceeded'
  BY <1>1, <1>4 DEF HistoryInv, RevisionIffSucceeded
<1>6. DraftIsFresh'
  <2> SUFFICES ASSUME NEW q \in Requests, HasDraft(q)'
               PROVE  (draft[q] = NextDraft(target[q]))'
    BY DEF DraftIsFresh
  <2>1. q # r /\ HasDraft(q)
    BY <1>1 DEF HasDraft
  <2>2. runs[q] = "active"
    BY <2>1 DEF LifecycleInv, RunStaysActive, HasDraft, InSecondTransaction
  <2>3. target[q] # t
    BY <1>2, <2>1, <2>2 DEF LifecycleInv, OneActiveRun, Claims
  <2>4. current'[target[q]] = current[target[q]]
    BY <1>1, <2>3
  <2>5. current[target[q]] # r
    BY <1>2, RequestsAssumption DEF HistoryInv, LinearHistory, Revisions
  <2>6. number'[current[target[q]]] = number[current[target[q]]]
    BY <1>1, <2>5
  <2>7. draft[q] = NextDraft(target[q])
    BY <2>1 DEF HistoryInv, DraftIsFresh
  <2>8. QED
    BY <1>1, <2>4, <2>6, <2>7 DEF NextDraft
<1>7. LinearHistory'
  <2> SUFFICES ASSUME NEW u \in Trips
      PROVE  /\ current'[u] = None => Revisions(u)' = {}
             /\ current'[u] # None => current'[u] \in Revisions(u)'
             /\ \A q \in Revisions(u)' :
                  /\ number'[q] <= number'[current'[u]]
                  /\ base'[q] = None => number'[q] = 1
                  /\ base'[q] # None =>
                       /\ base'[q] \in Revisions(u)'
                       /\ number'[q] = number'[base'[q]] + 1
             /\ \A p, q \in Revisions(u)' : number'[p] = number'[q] => p = q
    BY DEF LinearHistory
  <2>1. \A q \in Requests : number[q] > 0 => q # r
    BY <1>2
  <2>2. CASE u # t
    <3>1. Revisions(u)' = Revisions(u) /\ r \notin Revisions(u)
      BY <1>1, <2>2 DEF Revisions
    <3>2. /\ current'[u] = current[u]
          /\ \A q \in Revisions(u) : number'[q] = number[q] /\ base'[q] = base[q]
      BY <1>1, <2>2, <3>1 DEF Revisions
    <3>3. QED
      BY <3>1, <3>2 DEF HistoryInv, LinearHistory, Revisions
  <2>3. CASE u = t
    <3>1. Revisions(t)' = Revisions(t) \cup {r} /\ r \notin Revisions(t)
      BY <1>1, <1>2, <1>4 DEF Revisions
    <3>2. /\ \A q \in Revisions(t) : number'[q] = number[q] /\ base'[q] = base[q]
          /\ number'[r] = draft[r].number
          /\ base'[r] = current[t]
          /\ current'[t] = r
      BY <1>1, <1>3, <1>4, <3>1 DEF Revisions
    <3>3. CASE current[t] = None
      BY <1>3, <2>3, <3>1, <3>2, <3>3, RequestsAssumption
         DEF HistoryInv, LinearHistory
    <3>4. CASE current[t] # None
      <4>1. /\ current[t] \in Revisions(t)
            /\ number'[r] = number[current[t]] + 1
            /\ \A q \in Revisions(t) : number[q] \in Nat /\ number[q] < number'[r]
        BY <1>3, <3>2, <3>4 DEF HistoryInv, LinearHistory, Revisions
      <4>2. \A q \in Revisions(t) : base[q] # None => base[q] \in Revisions(t)
        BY DEF HistoryInv, LinearHistory
      <4>3. QED
        BY <1>4, <2>3, <3>1, <3>2, <3>4, <4>1, <4>2, RequestsAssumption
           DEF HistoryInv, LinearHistory
    <3>5. QED
      BY <3>3, <3>4
  <2>4. QED
    BY <2>2, <2>3
<1>8. QED
  BY <1>5, <1>6, <1>7 DEF HistoryInv

LEMMA NextHistory ==
  TypeOK /\ LifecycleInv /\ HistoryInv /\ [Next]_vars => HistoryInv'
<1> SUFFICES ASSUME TypeOK, LifecycleInv, HistoryInv, [Next]_vars
             PROVE  HistoryInv'
  OBVIOUS
<1> USE DEF TypeOK, Goto, Respond, store, request, HasDraft
<1>1. ASSUME NEW t \in Trips, CreateTrip(t) PROVE HistoryInv'
  BY <1>1, HistoryFrame DEF CreateTrip
<1>2. ASSUME NEW r \in Requests, FindTrip(r) PROVE HistoryInv'
  BY <1>2, HistoryFrame DEF FindTrip
<1>3. ASSUME NEW r \in Requests, AddRun(r) PROVE HistoryInv'
  BY <1>3, HistoryFrame DEF AddRun
<1>4. ASSUME NEW r \in Requests, NameActiveRun(r) PROVE HistoryInv'
  BY <1>4, HistoryFrame DEF NameActiveRun
<1>5. ASSUME NEW r \in Requests, AcceptRun(r) PROVE HistoryInv'
  <2>1. runs[r] # "Succeeded"
    BY <1>5 DEF AcceptRun, LifecycleInv, NoRunBeforeAccept, InFirstTransaction
  <2>2. QED
    BY <1>5, <2>1, HistoryFrame DEF AcceptRun
<1>6. ASSUME NEW r \in Requests, Execute(r) PROVE HistoryInv'
  <2>1. \A q \in Requests : HasDraft(q)' => HasDraft(q)
    BY <1>6 DEF Execute
  <2>2. QED
    BY <1>6, <2>1, HistoryFrame DEF Execute
<1>7. ASSUME NEW r \in Requests, ReadCurrent(r) PROVE HistoryInv'
  <2>1. DraftIsFresh'
    BY <1>7 DEF ReadCurrent, HistoryInv, DraftIsFresh, NextDraft
  <2>2. (RevisionIffSucceeded /\ LinearHistory)'
    BY <1>7 DEF ReadCurrent, HistoryInv, RevisionIffSucceeded, LinearHistory,
                Revisions
  <2>3. QED
    BY <2>1, <2>2 DEF HistoryInv
<1>8. ASSUME NEW r \in Requests, LockTrip(r) PROVE HistoryInv'
  BY <1>8, HistoryFrame DEF LockTrip
<1>9. ASSUME NEW r \in Requests, CommitRevision(r) PROVE HistoryInv'
  BY <1>9, HistoryFrame DEF CommitRevision
<1>10. ASSUME NEW r \in Requests, RecordTerminal(r) PROVE HistoryInv'
  BY <1>10, HistoryFrame DEF RecordTerminal
<1>11. ASSUME NEW r \in Requests, EndRun(r) PROVE HistoryInv'
  <2>1. CASE verdict[r] = "complete"
    BY <1>11, <2>1, EndRunHistory
  <2>2. CASE verdict[r] # "complete"
    <3>1. runs[r] # "Succeeded"
      BY <1>11 DEF EndRun, LifecycleInv, RunStaysActive, InSecondTransaction
    <3>2. QED
      BY <1>11, <2>2, <3>1, HistoryFrame DEF EndRun
  <2>3. QED
    BY <2>1, <2>2
<1>12. ASSUME NEW r \in Requests, Die(r) PROVE HistoryInv'
  BY <1>12, HistoryFrame DEF Die
<1>13. CASE UNCHANGED vars
  BY <1>13, HistoryFrame DEF vars
<1>14. QED
  BY <1>1, <1>2, <1>3, <1>4, <1>5, <1>6, <1>7, <1>8, <1>9, <1>10, <1>11,
     <1>12, <1>13 DEF Next, Serve

\* IInv is inductive.
LEMMA NextIInv == IInv /\ [Next]_vars => IInv'
<1>1. IInv <=> TypeOK /\ LifecycleInv /\ HistoryInv
  BY DEF IInv, LifecycleInv, HistoryInv
<1>2. IInv' <=> (TypeOK /\ LifecycleInv /\ HistoryInv)'
  BY DEF IInv, LifecycleInv, HistoryInv
<1>3. QED
  BY <1>1, <1>2, NextTypeOK, NextLifecycle, NextHistory

\* The inductive invariant holds in every reachable state.
THEOREM InductiveInvariant == Spec => []IInv
  BY InitIInv, NextIInv, PTL DEF Spec

\* The revisions of a Trip form one unbranched, gap-free history that ends in
\* the revision the Trip points to.
THEOREM LinearHistoryHolds == Spec => []LinearHistory
  BY InductiveInvariant, PTL DEF IInv

\* A revision exists exactly for the Runs that Succeeded.
THEOREM RevisionIffSucceededHolds == Spec => []RevisionIffSucceeded
  BY InductiveInvariant, PTL DEF IInv

\* The base read without a lock is current until the transaction ends.
THEOREM DraftIsFreshHolds == Spec => []DraftIsFresh
  BY InductiveInvariant, PTL DEF IInv

\* Nobody but its own request ends a Run.
THEOREM RunStaysActiveHolds == Spec => []RunStaysActive
  BY InductiveInvariant, PTL DEF IInv
-----------------------------------------------------------------------------
(***************************************************************************)
(* What requests are answered.  An answer is given once, and what it says  *)
(* of a Run or of a Trip stays true.                                       *)
(***************************************************************************)
Unanswered ==
  \A r \in Requests :
    /\ pc[r] # "done" => answer[r].status = 0
    /\ answer[r].status = 409 => answer[r].run \in Requests

\* A Run that made this request's insert do nothing was accepted.
RefusedByAnother ==
  \A r \in Requests : pc[r] = "refused" =>
    \E q \in Requests : target[q] = target[r] /\ runs[q] # "absent"

AnswersInv == Unanswered /\ RefusedByAnother /\ AnswersAreTrue

\* Runs only move forward: from absent to active to an outcome.
RunsMove ==
  \A q \in Requests :
    /\ runs[q] # "absent" => runs'[q] # "absent"
    /\ runs[q] \in {"Succeeded", "Blocked"} => runs'[q] = runs[q]

LEMMA NextRunsMove == IInv /\ [Next]_vars => RunsMove
<1> SUFFICES ASSUME IInv, [Next]_vars PROVE RunsMove
  OBVIOUS
<1> USE DEF IInv, TypeOK, RunsMove
<1>1. ASSUME NEW r \in Requests, AcceptRun(r) PROVE RunsMove
  BY <1>1 DEF AcceptRun, NoRunBeforeAccept, InFirstTransaction
<1>2. ASSUME NEW r \in Requests, EndRun(r) PROVE RunsMove
  BY <1>2 DEF EndRun, RunStaysActive, InSecondTransaction
<1>3. CASE UNCHANGED runs
  BY <1>3
<1>4. QED
  BY <1>1, <1>2, <1>3
     DEF Next, Serve, CreateTrip, FindTrip, AddRun, NameActiveRun, Execute,
         ReadCurrent, LockTrip, CommitRevision, RecordTerminal, Die, vars, store

\* What a step does to the request it serves; nothing of another request moves.
TrueOf(r) ==
  LET status == answer[r].status
      named == answer[r].run
  IN  /\ status = 202 =>
           /\ named = r
           /\ runs[r] = IF verdict[r] = "complete" THEN "Succeeded"
                                                   ELSE "Blocked"
      /\ status = 409 =>
           /\ runs[r] = "absent"
           /\ runs[named] # "absent" /\ target[named] = target[r]
      /\ status = 500 =>
           \/ verdict[r] = "raised" /\ runs[r] = "active"
           \/ /\ runs[r] = "absent"
              /\ \E q \in Requests : /\ target[q] = target[r]
                                     /\ runs[q] \in {"Succeeded", "Blocked"}

\* A request that the step leaves alone keeps what was true of it.
LEMMA OthersAnswers ==
  ASSUME TypeOK, AnswersInv, RunsMove, NEW q \in Requests,
         UNCHANGED target,
         pc'[q] = pc[q], runs'[q] = runs[q], verdict'[q] = verdict[q],
         answer'[q] = answer[q]
  PROVE  /\ pc'[q] # "done" => answer'[q].status = 0
         /\ answer'[q].status = 409 => answer'[q].run \in Requests
         /\ pc'[q] = "refused" =>
              \E p \in Requests : target'[p] = target'[q] /\ runs'[p] # "absent"
         /\ TrueOf(q)'
<1>1. TrueOf(q)
  BY DEF AnswersInv, AnswersAreTrue, TrueOf
<1>2. /\ pc[q] # "done" => answer[q].status = 0
      /\ answer[q].status = 409 => answer[q].run \in Requests
      /\ pc[q] = "refused" =>
           \E p \in Requests : target[p] = target[q] /\ runs[p] # "absent"
  BY DEF AnswersInv, Unanswered, RefusedByAnother
<1>3. TrueOf(q)'
  BY <1>1, <1>2 DEF RunsMove, TrueOf, TypeOK
<1>4. QED
  BY <1>2, <1>3 DEF RunsMove, TypeOK

LEMMA InitAnswers == Init => AnswersInv
  BY DEF Init, AnswersInv, Unanswered, RefusedByAnother, AnswersAreTrue, NoAnswer

\* The step that serves r: r's own part of the invariant, the rest is framed.
Mine(r) ==
  /\ pc[r] # "done" => answer[r].status = 0
  /\ answer[r].status = 409 => answer[r].run \in Requests
  /\ pc[r] = "refused" =>
       \E p \in Requests : target[p] = target[r] /\ runs[p] # "absent"
  /\ TrueOf(r)

LEMMA AnswersAreMine == AnswersInv <=> \A r \in Requests : Mine(r)
  BY DEF AnswersInv, Unanswered, RefusedByAnother, AnswersAreTrue, Mine, TrueOf

LEMMA OthersMine ==
  ASSUME TypeOK, AnswersInv, RunsMove, NEW r \in Requests, Mine(r)',
         UNCHANGED target,
         \A q \in Requests \ {r} :
           /\ pc'[q] = pc[q] /\ runs'[q] = runs[q]
           /\ verdict'[q] = verdict[q] /\ answer'[q] = answer[q]
  PROVE  AnswersInv'
<1>1. \A q \in Requests \ {r} : Mine(q)'
  BY OthersAnswers DEF Mine
<1>2. \A q \in Requests : Mine(q)'
  BY <1>1
<1>3. QED
  BY <1>2
     DEF AnswersInv, Unanswered, RefusedByAnother, AnswersAreTrue, Mine, TrueOf

\* The answers to r that do not touch the Runs.
LEMMA RespondAnswer ==
  ASSUME TypeOK, NEW r \in Requests, NEW status, NEW run,
         Respond(r, status, run)
  PROVE  /\ pc'[r] = "done"
         /\ answer'[r].status = status /\ answer'[r].run = run
         /\ \A q \in Requests \ {r} :
              pc'[q] = pc[q] /\ answer'[q] = answer[q]
<1> DEFINE a == [status |-> status, run |-> run]
<1>1. answer' = [answer EXCEPT ![r] = a] /\ pc' = [pc EXCEPT ![r] = "done"]
  BY DEF Respond, Goto
<1>2. a.status = status /\ a.run = run
  OBVIOUS
<1> HIDE DEF a
<1>3. QED
  BY <1>1, <1>2 DEF TypeOK

LEMMA NextAnswers == IInv /\ AnswersInv /\ [Next]_vars => AnswersInv'
<1> SUFFICES ASSUME IInv, AnswersInv, [Next]_vars PROVE AnswersInv'
  OBVIOUS
<1>0. RunsMove /\ TypeOK /\ \A q \in Requests : Mine(q)
  BY NextRunsMove, AnswersAreMine DEF IInv
<1>1. ASSUME UNCHANGED <<runs, request>> PROVE AnswersInv'
  BY <1>1 DEF request, AnswersInv, Unanswered, RefusedByAnother, AnswersAreTrue
<1>2. ASSUME NEW r \in Requests,
             pc[r] # "done", pc'[r] \notin {"done", "refused"},
             UNCHANGED <<target, answer>>,
             \A q \in Requests \ {r} :
               /\ pc'[q] = pc[q] /\ runs'[q] = runs[q]
               /\ verdict'[q] = verdict[q]
      PROVE  AnswersInv'
  <2>1. answer'[r].status = 0
    BY <1>0, <1>2 DEF Mine
  <2>2. Mine(r)'
    BY <1>2, <2>1 DEF Mine, TrueOf
  <2>3. QED
    BY <1>0, <1>2, <2>2, OthersMine
<1>3. ASSUME NEW r \in Requests, FindTrip(r) PROVE AnswersInv'
  <2>1. CASE target[r] \in trips
    BY <1>0, <1>2, <1>3, <2>1 DEF FindTrip, Goto, TypeOK, store
  <2>2. CASE target[r] \notin trips
    <3>1. Respond(r, 404, None) /\ UNCHANGED <<runs, target, verdict>>
      BY <1>3, <2>2 DEF FindTrip, store
    <3>2. Mine(r)'
      BY <1>0, <3>1, RespondAnswer DEF Mine, TrueOf
    <3>3. QED
      BY <1>0, <3>1, <3>2, RespondAnswer, OthersMine
  <2>3. QED
    BY <2>1, <2>2
<1>4. ASSUME NEW r \in Requests, AddRun(r) PROVE AnswersInv'
  <2>1. CASE ActiveRuns(target[r]) = {}
    BY <1>0, <1>2, <1>4, <2>1 DEF AddRun, Goto, TypeOK, store
  <2>2. CASE ActiveRuns(target[r]) # {}
    <3>1. /\ pc[r] = "adding" /\ pc' = [pc EXCEPT ![r] = "refused"]
          /\ UNCHANGED <<runs, target, verdict, answer>>
      BY <1>4, <2>2 DEF AddRun, Goto, store
    <3>2. \E p \in Requests : target[p] = target[r] /\ runs[p] # "absent"
      BY <2>2 DEF ActiveRuns
    <3>3. answer[r].status = 0
      BY <1>0, <3>1 DEF Mine
    <3>4. Mine(r)'
      BY <1>0, <3>1, <3>2, <3>3 DEF Mine, TrueOf, TypeOK
    <3>5. QED
      BY <1>0, <3>1, <3>4, OthersMine DEF TypeOK
  <2>3. QED
    BY <2>1, <2>2
<1>5. ASSUME NEW r \in Requests, NameActiveRun(r) PROVE AnswersInv'
  <2>1. /\ pc[r] = "refused" /\ runs[r] = "absent"
        /\ UNCHANGED <<runs, target, verdict>>
    BY <1>5 DEF NameActiveRun, store, IInv, NoRunBeforeAccept,
                InFirstTransaction
  <2>2. CASE ActiveRuns(target[r]) = {}
    <3>1. Respond(r, 500, None)
      BY <1>5, <2>2 DEF NameActiveRun
    <3>2. PICK q \in Requests : target[q] = target[r] /\ runs[q] # "absent"
      BY <1>0, <2>1 DEF Mine
    <3>3. runs[q] \in {"Succeeded", "Blocked"}
      BY <1>0, <2>2, <3>2 DEF ActiveRuns, TypeOK, RunStatuses
    <3>4. Mine(r)'
      BY <1>0, <2>1, <3>1, <3>2, <3>3, RespondAnswer DEF Mine, TrueOf
    <3>5. QED
      BY <1>0, <2>1, <3>1, <3>4, RespondAnswer, OthersMine
  <2>3. CASE ActiveRuns(target[r]) # {}
    <3>1. PICK q \in ActiveRuns(target[r]) : Respond(r, 409, q)
      BY <1>5, <2>3 DEF NameActiveRun
    <3>2. q \in Requests /\ runs[q] = "active" /\ target[q] = target[r]
      BY <3>1 DEF ActiveRuns
    <3>3. Mine(r)'
      BY <1>0, <2>1, <3>1, <3>2, RespondAnswer DEF Mine, TrueOf
    <3>4. QED
      BY <1>0, <2>1, <3>1, <3>3, RespondAnswer, OthersMine
  <2>4. QED
    BY <2>2, <2>3
<1>6. ASSUME NEW r \in Requests, AcceptRun(r) PROVE AnswersInv'
  BY <1>0, <1>2, <1>6 DEF AcceptRun, Goto, TypeOK
<1>7. ASSUME NEW r \in Requests, Execute(r) PROVE AnswersInv'
  <2>1. PICK v \in Verdicts :
          /\ verdict' = [verdict EXCEPT ![r] = v]
          /\ \/ v = "complete" /\ Goto(r, "reading") /\ UNCHANGED answer
             \/ v = "refused" /\ Goto(r, "recording") /\ UNCHANGED answer
             \/ v = "raised" /\ Respond(r, 500, None)
    BY <1>7 DEF Execute
  <2>2. /\ pc[r] = "executing" /\ runs[r] = "active"
        /\ UNCHANGED <<runs, target>>
    BY <1>7 DEF Execute, store, IInv, RunStaysActive
  <2>3. verdict'[r] = v /\ \A q \in Requests \ {r} : verdict'[q] = verdict[q]
    BY <1>0, <2>1 DEF TypeOK
  <2>4. CASE v = "raised" /\ Respond(r, 500, None)
    <3>1. Mine(r)'
      BY <2>2, <2>3, <2>4, <1>0, RespondAnswer DEF Mine, TrueOf
    <3>2. QED
      BY <1>0, <2>2, <2>3, <2>4, <3>1, RespondAnswer, OthersMine
  <2>5. CASE UNCHANGED answer
            /\ \E to \in {"reading", "recording"} : Goto(r, to)
    <3>1. /\ pc'[r] \in {"reading", "recording"}
          /\ \A q \in Requests \ {r} : pc'[q] = pc[q]
      BY <1>0, <2>5 DEF Goto, TypeOK
    <3>2. QED
      BY <1>2, <2>2, <2>3, <2>5, <3>1
  <2>6. QED
    BY <2>1, <2>4, <2>5
<1>8. ASSUME NEW r \in Requests, ReadCurrent(r) PROVE AnswersInv'
  BY <1>0, <1>2, <1>8 DEF ReadCurrent, Goto, TypeOK, store
<1>9. ASSUME NEW r \in Requests, LockTrip(r) PROVE AnswersInv'
  BY <1>0, <1>2, <1>9 DEF LockTrip, Goto, TypeOK, store
<1>10. ASSUME NEW r \in Requests, CommitRevision(r) PROVE AnswersInv'
  <2>1. runs[r] = "active" /\ draft[r] = NextDraft(target[r])
    BY <1>10 DEF CommitRevision, IInv, RunStaysActive, InSecondTransaction,
                 DraftIsFresh, HasDraft
  <2>2. QED
    BY <1>0, <1>2, <1>10, <2>1 DEF CommitRevision, Goto, TypeOK, store
<1>11. ASSUME NEW r \in Requests, RecordTerminal(r) PROVE AnswersInv'
  <2>1. runs[r] = "active"
    BY <1>11 DEF RecordTerminal, IInv, RunStaysActive, InSecondTransaction
  <2>2. QED
    BY <1>0, <1>2, <1>11, <2>1 DEF RecordTerminal, Goto, TypeOK, store
<1>12. ASSUME NEW r \in Requests, EndRun(r) PROVE AnswersInv'
  <2>1. /\ runs'[r] = IF verdict[r] = "complete" THEN "Succeeded" ELSE "Blocked"
        /\ \A q \in Requests \ {r} : runs'[q] = runs[q]
        /\ Respond(r, 202, r) /\ UNCHANGED <<target, verdict>>
    BY <1>0, <1>12 DEF EndRun, TypeOK
  <2>2. Mine(r)'
    BY <1>0, <2>1, RespondAnswer DEF Mine, TrueOf
  <2>3. QED
    BY <1>0, <2>1, <2>2, RespondAnswer, OthersMine
<1>13. ASSUME NEW r \in Requests, Die(r) PROVE AnswersInv'
  <2>1. Respond(r, 0, None) /\ UNCHANGED <<runs, target, verdict>>
    BY <1>13 DEF Die, store
  <2>2. Mine(r)'
    BY <1>0, <2>1, RespondAnswer DEF Mine, TrueOf
  <2>3. QED
    BY <1>0, <2>1, <2>2, RespondAnswer, OthersMine
<1>14. ASSUME NEW t \in Trips, CreateTrip(t) PROVE AnswersInv'
  BY <1>1, <1>14 DEF CreateTrip
<1>15. CASE UNCHANGED vars
  BY <1>1, <1>15 DEF vars, store
<1>16. QED
  BY <1>3, <1>4, <1>5, <1>6, <1>7, <1>8, <1>9, <1>10, <1>11, <1>12, <1>13,
     <1>14, <1>15 DEF Next, Serve

\* Every answer is true when it is given and stays true: 500 says that the
\* Capability raised or that the Run to be named had ended, and no check of the
\* second transaction ever answers it.
THEOREM AnswersAreTrueHolds == Spec => []AnswersAreTrue
<1>1. AnswersInv => AnswersAreTrue
  BY DEF AnswersInv
<1>2. QED
  BY <1>1, InitAnswers, NextAnswers, InductiveInvariant, PTL DEF Spec

-----------------------------------------------------------------------------
(***************************************************************************)
(* Requests, statements and locks implement PlanHistory.  The Run working  *)
(* on a Trip is its one active Run, and its history is what the numbers of *)
(* its revisions, which have no gap, put in order.                         *)
(***************************************************************************)

\* The revisions of a Trip are numbered from 1 to their number.
Counted ==
  \A t \in Trips :
    /\ IsFiniteSet(Revisions(t))
    /\ current[t] # None => number[current[t]] = Cardinality(Revisions(t))
    /\ \A n \in 1..Cardinality(Revisions(t)) :
         \E r \in Revisions(t) : number[r] = n

\* The mapping of Promise, Trip by Trip.
Worker(t) == IF ActiveRuns(t) = {} THEN None
             ELSE CHOOSE r \in ActiveRuns(t) : TRUE
Past(t) == [n \in 1..Cardinality(Revisions(t)) |->
              CHOOSE r \in Revisions(t) : number[r] = n]
Over == {r \in Requests : runs[r] \in {"Succeeded", "Blocked"}}

LEMMA InitCounted == Init => Counted
<1> SUFFICES ASSUME Init, NEW t \in Trips
             PROVE  /\ IsFiniteSet(Revisions(t)) /\ current[t] = None
                    /\ Cardinality(Revisions(t)) = 0
  BY DEF Counted
<1>1. Revisions(t) = {}
  BY DEF Init, Revisions
<1>2. QED
  BY <1>1, FS_EmptySet DEF Init

\* A successful end adds one revision to its Trip, numbered next.
LEMMA EndRunExtends ==
  ASSUME IInv, Counted, NEW r \in Requests, EndRun(r), verdict[r] = "complete"
  PROVE  LET t == target[r]
         IN  /\ t \in Trips
             /\ runs[r] = "active" /\ runs' = [runs EXCEPT ![r] = "Succeeded"]
             /\ target' = target /\ current' = [current EXCEPT ![t] = r]
             /\ r \notin Revisions(t) /\ Revisions(t)' = Revisions(t) \cup {r}
             /\ number'[r] = Cardinality(Revisions(t)) + 1
             /\ Cardinality(Revisions(t)) \in Nat
             /\ \A q \in Revisions(t) : /\ number'[q] = number[q]
                                        /\ number[q] <= Cardinality(Revisions(t))
             /\ \A u \in Trips \ {t} : /\ Revisions(u)' = Revisions(u)
                                       /\ \A q \in Revisions(u) :
                                            number'[q] = number[q]
<1> USE DEF IInv, TypeOK
<1> PICK t \in Trips : t = target[r]
  OBVIOUS
<1>1. /\ pc[r] = "recorded"
      /\ runs' = [runs EXCEPT ![r] = "Succeeded"]
      /\ number' = [number EXCEPT ![r] = draft[r].number]
      /\ current' = [current EXCEPT ![t] = r]
      /\ UNCHANGED target
  BY DEF EndRun
<1>2. runs[r] = "active" /\ number[r] = 0 /\ draft[r] = NextDraft(t)
  BY <1>1 DEF RunStaysActive, InSecondTransaction, RevisionIffSucceeded,
              DraftIsFresh, HasDraft
<1>3. /\ IsFiniteSet(Revisions(t)) /\ Cardinality(Revisions(t)) \in Nat
      /\ current[t] = None => Cardinality(Revisions(t)) = 0
  BY FS_CardinalityType, FS_EmptySet DEF Counted, LinearHistory
<1>4. number'[r] = Cardinality(Revisions(t)) + 1
  <2>1. number'[r] = IF current[t] = None THEN 1 ELSE number[current[t]] + 1
    BY <1>1, <1>2 DEF NextDraft
  <2>2. QED
    BY <1>3, <2>1 DEF Counted
<1>5. \A q \in Revisions(t) : number[q] <= Cardinality(Revisions(t))
  BY DEF Counted, LinearHistory
<1>6. r \notin Revisions(t) /\ Revisions(t)' = Revisions(t) \cup {r}
  BY <1>1, <1>2, <1>3, <1>4 DEF Revisions
<1>7. \A q \in Revisions(t) : number'[q] = number[q]
  BY <1>1, <1>6 DEF Revisions
<1>8. ASSUME NEW u \in Trips \ {t}
      PROVE  /\ Revisions(u)' = Revisions(u)
             /\ \A q \in Revisions(u) : number'[q] = number[q]
  BY <1>1, <1>8 DEF Revisions
<1>9. QED
  BY <1>1, <1>2, <1>3, <1>4, <1>5, <1>6, <1>7, <1>8

\* No other step touches revisions, and no other but AcceptRun what is active.
LEMMA HistoryMoves ==
  ASSUME IInv, [Next]_vars
  PROVE  \/ \E r \in Requests : EndRun(r)
         \/ UNCHANGED <<number, current, target>> /\
            (UNCHANGED runs \/ \E r \in Requests : AcceptRun(r))
  BY DEF Next, Serve, vars, store, request, CreateTrip, FindTrip, AddRun,
         NameActiveRun, AcceptRun, Execute, ReadCurrent, LockTrip,
         CommitRevision, RecordTerminal, Die, Respond, Goto

LEMMA NextCounted == IInv /\ Counted /\ [Next]_vars => Counted'
<1> SUFFICES ASSUME IInv, Counted, [Next]_vars PROVE Counted'
  OBVIOUS
<1>1. CASE UNCHANGED <<number, current, target>>
  BY <1>1 DEF Counted, Revisions
<1>2. ASSUME NEW r \in Requests, EndRun(r), verdict[r] = "complete"
      PROVE  Counted'
  <2> PICK t \in Trips : t = target[r]
    BY DEF IInv, TypeOK
  <2>1. /\ current' = [current EXCEPT ![t] = r]
        /\ r \notin Revisions(t) /\ Revisions(t)' = Revisions(t) \cup {r}
        /\ number'[r] = Cardinality(Revisions(t)) + 1
        /\ Cardinality(Revisions(t)) \in Nat
        /\ \A q \in Revisions(t) : number'[q] = number[q]
        /\ \A u \in Trips \ {t} : /\ Revisions(u)' = Revisions(u)
                                  /\ \A q \in Revisions(u) :
                                       number'[q] = number[q]
    BY <1>2, EndRunExtends
  <2>2. /\ IsFiniteSet(Revisions(t)')
        /\ Cardinality(Revisions(t)') = Cardinality(Revisions(t)) + 1
    BY <2>1, FS_AddElement DEF Counted
  <2>3. ASSUME NEW n \in 1..Cardinality(Revisions(t)')
        PROVE  \E q \in Revisions(t)' : number'[q] = n
    <3>1. CASE n = Cardinality(Revisions(t)) + 1
      BY <2>1, <3>1
    <3>2. CASE n # Cardinality(Revisions(t)) + 1
      <4>1. n \in 1..Cardinality(Revisions(t))
        BY <2>1, <2>2, <3>2
      <4>2. PICK q \in Revisions(t) : number[q] = n
        BY <4>1 DEF Counted
      <4>3. QED
        BY <2>1, <4>2
    <3>3. QED
      BY <3>1, <3>2
  <2>4. ASSUME NEW u \in Trips \ {t}
        PROVE  /\ IsFiniteSet(Revisions(u)')
               /\ current'[u] # None =>
                    number'[current'[u]] = Cardinality(Revisions(u)')
               /\ \A n \in 1..Cardinality(Revisions(u)') :
                    \E q \in Revisions(u)' : number'[q] = n
    <3>1. /\ Revisions(u)' = Revisions(u) /\ current'[u] = current[u]
          /\ \A q \in Revisions(u) : number'[q] = number[q]
      BY <2>1 DEF IInv, TypeOK
    <3>2. current[u] # None => current[u] \in Revisions(u)
      BY DEF IInv, LinearHistory
    <3>3. QED
      BY <3>1, <3>2 DEF Counted
  <2>5. current'[t] = r
    BY <2>1 DEF IInv, TypeOK
  <2>6. QED
    BY <2>1, <2>2, <2>3, <2>4, <2>5 DEF Counted
<1>3. ASSUME NEW r \in Requests, EndRun(r), verdict[r] # "complete"
      PROVE  UNCHANGED <<number, current, target>>
  BY <1>3 DEF EndRun
<1>4. QED
  BY <1>1, <1>2, <1>3, HistoryMoves

\* Promise's variables, under its mapping.
W == [t \in Trips |-> Worker(t)]
H == [t \in Trips |-> Past(t)]

\* Accepting a Run gives an idle Trip its Run.
LEMMA AcceptMaps ==
  ASSUME IInv, NEW r \in Requests, AcceptRun(r)
  PROVE  \E t \in Trips : /\ W[t] = None /\ r \notin Over
                          /\ \A u \in Trips : W[u] # r
                          /\ W' = [W EXCEPT ![t] = r]
                          /\ H' = H /\ Over' = Over
<1> USE DEF IInv, TypeOK
<1> PICK t \in Trips : t = target[r]
  OBVIOUS
<1>1. /\ pc[r] = "added" /\ runs[r] = "absent"
      /\ runs' = [runs EXCEPT ![r] = "active"]
      /\ UNCHANGED <<number, target>>
  BY DEF AcceptRun, NoRunBeforeAccept, InFirstTransaction
<1>2. ActiveRuns(t) = {}
  BY <1>1 DEF ActiveRuns, OneActiveRun, Claims
<1>3. ActiveRuns(t)' = {r}
  BY <1>1, <1>2 DEF ActiveRuns
<1>4. \A u \in Trips \ {t} : ActiveRuns(u)' = ActiveRuns(u)
  BY <1>1 DEF ActiveRuns
<1>5. Over' = Over /\ r \notin Over
  BY <1>1 DEF Over
<1>6. \A u \in Trips : r \notin ActiveRuns(u)
  BY <1>1 DEF ActiveRuns
<1>7. \A u \in Trips : Worker(u) \in ActiveRuns(u) \cup {None}
  BY DEF Worker
<1>8. \A u \in Trips : Worker(u) # r
  BY <1>6, <1>7, RequestsAssumption
<1>9. Worker(t) = None /\ Worker(t)' = r
  BY <1>2, <1>3 DEF Worker
<1>10. ASSUME NEW u \in Trips \ {t} PROVE Worker(u)' = Worker(u)
  <2>1. ActiveRuns(u)' = ActiveRuns(u)
    BY <1>4
  <2>2. (CHOOSE q \in ActiveRuns(u)' : TRUE)
        = (CHOOSE q \in ActiveRuns(u) : TRUE)
    BY <2>1
  <2>3. QED
    BY <2>1, <2>2 DEF Worker
<1>11. W' = [W EXCEPT ![t] = r]
  BY <1>9, <1>10 DEF W
<1>12. H' = H
  BY <1>1 DEF H, Past, Revisions
<1>13. QED
  BY <1>5, <1>8, <1>9, <1>11, <1>12 DEF W

\* The end of a Run takes it from its Trip.
LEMMA EndMaps ==
  ASSUME IInv, NEW r \in Requests, EndRun(r)
  PROVE  LET t == target[r]
         IN  /\ t \in Trips /\ W[t] = r
             /\ W' = [W EXCEPT ![t] = None] /\ Over' = Over \cup {r}
<1> USE DEF IInv, TypeOK
<1> PICK t \in Trips : t = target[r]
  OBVIOUS
<1>1. /\ pc[r] = "recorded" /\ runs[r] = "active" /\ UNCHANGED target
      /\ \E o \in {"Succeeded", "Blocked"} : runs' = [runs EXCEPT ![r] = o]
  BY DEF EndRun, RunStaysActive, InSecondTransaction
<1>2. ActiveRuns(t) = {r}
  BY <1>1 DEF ActiveRuns, OneActiveRun, Claims
<1>3. ActiveRuns(t)' = {}
  BY <1>1, <1>2 DEF ActiveRuns
<1>4. \A u \in Trips \ {t} : ActiveRuns(u)' = ActiveRuns(u)
  BY <1>1 DEF ActiveRuns
<1>5. Over' = Over \cup {r}
  BY <1>1 DEF Over
<1>6. Worker(t) = r /\ Worker(t)' = None
  BY <1>2, <1>3 DEF Worker
<1>7. ASSUME NEW u \in Trips \ {t} PROVE Worker(u)' = Worker(u)
  <2>1. ActiveRuns(u)' = ActiveRuns(u)
    BY <1>4
  <2>2. (CHOOSE q \in ActiveRuns(u)' : TRUE)
        = (CHOOSE q \in ActiveRuns(u) : TRUE)
    BY <2>1
  <2>3. QED
    BY <2>1, <2>2 DEF Worker
<1>8. W' = [W EXCEPT ![t] = None]
  BY <1>6, <1>7 DEF W
<1>9. QED
  BY <1>5, <1>6, <1>8 DEF W

\* A successful end appends its Run to the history of its Trip.
LEMMA SuccessMaps ==
  ASSUME IInv, Counted, NEW r \in Requests, EndRun(r), verdict[r] = "complete"
  PROVE  H' = [H EXCEPT ![target[r]] = Append(@, r)]
<1> PICK t \in Trips : t = target[r]
  BY DEF IInv, TypeOK
<1> DEFINE k == Cardinality(Revisions(t))
<1>1. /\ r \notin Revisions(t) /\ Revisions(t)' = Revisions(t) \cup {r}
      /\ number'[r] = k + 1 /\ k \in Nat
      /\ \A q \in Revisions(t) : number'[q] = number[q] /\ number[q] <= k
      /\ \A u \in Trips \ {t} : /\ Revisions(u)' = Revisions(u)
                                /\ \A q \in Revisions(u) :
                                     number'[q] = number[q]
  BY EndRunExtends
<1>2. Cardinality(Revisions(t)') = k + 1
  <2>1. IsFiniteSet(Revisions(t))
    BY DEF Counted
  <2>2. Cardinality(Revisions(t) \cup {r}) = k + 1
    BY <1>1, <2>1, FS_AddElement
  <2>3. QED
    BY <1>1, <2>2
<1>3. \A u \in Trips \ {t} : Past(u)' = Past(u)
  <2> TAKE u \in Trips \ {t}
  <2> DEFINE old(n) == CHOOSE q \in Revisions(u) : number[q] = n
             new(n) == CHOOSE q \in Revisions(u) : number'[q] = n
  <2>1. \A n : new(n) = old(n)
    BY <1>1
  <2>2. Past(u) = [n \in 1..Cardinality(Revisions(u)) |-> old(n)]
    BY DEF Past
  <2>3. Past(u)' = [n \in 1..Cardinality(Revisions(u)) |-> new(n)]
    BY <1>1 DEF Past
  <2> HIDE DEF old, new
  <2>4. QED
    BY <2>1, <2>2, <2>3
<1>4. Past(t)' = Append(Past(t), r)
  <2>1. Past(t)' = [n \in 1..(k + 1) |->
                      CHOOSE q \in Revisions(t) \cup {r} : number'[q] = n]
    BY <1>1, <1>2 DEF Past
  <2>2. (CHOOSE q \in Revisions(t) \cup {r} : number'[q] = k + 1) = r
    <3>1. \A q \in Revisions(t) \cup {r} : number'[q] = k + 1 => q = r
      BY <1>1 DEF IInv, TypeOK, Revisions
    <3>2. QED
      BY <1>1, <3>1
  <2>3. ASSUME NEW n \in 1..k
        PROVE  (CHOOSE q \in Revisions(t) \cup {r} : number'[q] = n)
               = (CHOOSE q \in Revisions(t) : number[q] = n)
    <3>1. PICK q \in Revisions(t) : number[q] = n
      BY DEF Counted
    <3>2. \A p \in Revisions(t) : number[p] = n => p = q
      BY <3>1 DEF IInv, LinearHistory
    <3>3. \A p \in Revisions(t) \cup {r} : number'[p] = n => p = q
      BY <1>1, <3>2
    <3>4. number'[q] = n
      BY <1>1, <3>1
    <3>5. (CHOOSE p \in Revisions(t) : number[p] = n) = q
      BY <3>1, <3>2
    <3>6. (CHOOSE p \in Revisions(t) \cup {r} : number'[p] = n) = q
      BY <3>1, <3>3, <3>4
    <3>7. QED
      BY <3>5, <3>6
  <2>4. Past(t) = [n \in 1..k |-> CHOOSE q \in Revisions(t) : number[q] = n]
    BY DEF Past
  <2> DEFINE F(n) == CHOOSE q \in Revisions(t) : number[q] = n
             G(n) == CHOOSE q \in Revisions(t) \cup {r} : number'[q] = n
  <2>5. /\ Past(t)' = [n \in 1..(k + 1) |-> G(n)]
        /\ Past(t) = [n \in 1..k |-> F(n)]
        /\ G(k + 1) = r /\ \A n \in 1..k : G(n) = F(n)
        /\ k \in Nat
    BY <1>1, <2>1, <2>2, <2>3, <2>4
  <2> HIDE DEF F, G, k
  <2>6. Len(Past(t)) = k
    BY <2>5
  <2>7. Append(Past(t), r) = [n \in 1..(k + 1) |->
                                IF n = k + 1 THEN r ELSE Past(t)[n]]
    BY <2>5, <2>6
  <2>8. ASSUME NEW n \in 1..(k + 1)
        PROVE  G(n) = IF n = k + 1 THEN r ELSE Past(t)[n]
    BY <2>5
  <2>9. QED
    BY <2>5, <2>7, <2>8
<1>5. QED
  BY <1>3, <1>4 DEF H

LEMMA StepMaps ==
  IInv /\ Counted /\ [Next]_vars => [Promise!Next]_(Promise!vars)
<1> SUFFICES ASSUME IInv, Counted, [Next]_vars
             PROVE  [Promise!Next]_(Promise!vars)
  OBVIOUS
<1> USE DEF W, H, Worker, Past, Over, Promise!Next, Promise!vars
<1>1. CASE UNCHANGED <<number, current, target, runs>>
  BY <1>1 DEF ActiveRuns, Revisions
<1>2. ASSUME NEW r \in Requests, AcceptRun(r)
      PROVE  Promise!Next
  BY <1>2, AcceptMaps DEF Promise!Accept
<1>3. ASSUME NEW r \in Requests, EndRun(r), verdict[r] = "complete"
      PROVE  Promise!Next
  <2> PICK t \in Trips : t = target[r]
    BY DEF IInv, TypeOK
  <2>1. W[t] = r /\ W' = [W EXCEPT ![t] = None] /\ Over' = Over \cup {r}
    BY <1>3, EndMaps
  <2>2. Promise!End(t, r)
    BY <2>1 DEF Promise!End
  <2>3. H' = [H EXCEPT ![t] = Append(@, r)]
    BY <1>3, SuccessMaps
  <2>4. Promise!Succeed(t, r)
    BY <2>2, <2>3 DEF Promise!Succeed
  <2>5. QED
    BY <2>4
<1>4. ASSUME NEW r \in Requests, EndRun(r), verdict[r] # "complete"
      PROVE  Promise!Next
  <2>1. UNCHANGED <<number, target>>
    BY <1>4 DEF EndRun
  <2>2. H' = H
    BY <2>1 DEF Revisions
  <2>3. QED
    BY <1>4, <2>2, EndMaps DEF Promise!Block, Promise!End
<1>5. QED
  BY <1>1, <1>2, <1>3, <1>4, HistoryMoves

\* Every behaviour of the requests over PostgreSQL is one PlanHistory allows.
THEOREM KeepsPromiseHolds == Spec => KeepsPromise
<1>1. Init => Promise!Init
  <2> SUFFICES ASSUME Init PROVE Promise!Init
    OBVIOUS
  <2>1. \A t \in Trips : ActiveRuns(t) = {} /\ Revisions(t) = {}
    BY DEF Init, ActiveRuns, Revisions
  <2>2. {r \in Requests : runs[r] \in {"Succeeded", "Blocked"}} = {}
    BY DEF Init
  <2>3. Cardinality({}) = 0
    BY FS_EmptySet
  <2>4. \A t \in Trips : [n \in 1..Cardinality(Revisions(t)) |->
                            CHOOSE r \in Revisions(t) : number[r] = n] = <<>>
    BY <2>1, <2>3
  <2>5. QED
    BY <2>1, <2>2, <2>4 DEF Promise!Init
<1>2. Spec => []Counted
  <2>1. Init => Counted
    BY InitCounted
  <2>2. IInv /\ Counted /\ [Next]_vars => Counted'
    BY NextCounted
  <2>3. QED
    BY <2>1, <2>2, InductiveInvariant, PTL DEF Spec
<1>3. IInv /\ Counted /\ [Next]_vars => [Promise!Next]_(Promise!vars)
  BY StepMaps
<1>4. QED
  BY <1>1, <1>2, <1>3, InductiveInvariant, PTL
     DEF Spec, KeepsPromise, Promise!Spec

-----------------------------------------------------------------------------
(***************************************************************************)
(* Row locks and waiting.  A lock belongs to an open transaction that has  *)
(* an active Run, and there is one such Run per Trip.                      *)
(***************************************************************************)
InLock(r) ==
  \/ pc[r] = "committing"
  \/ pc[r] \in {"recording", "recorded"} /\ verdict[r] = "complete"

\* The Trip's row is locked exactly while a request commits a revision of it:
\* every end of the transaction, a refusal or a death included, frees it.
LocksFollow ==
  \A t \in Trips, r \in Requests :
    tripLock[t] = r <=> target[r] = t /\ InLock(r)

LockInv ==
  /\ LocksFollow
  /\ \A r \in Requests :
       pc[r] \in {"reading", "locking", "committing"} => verdict[r] = "complete"

LEMMA InitLocks == Init => LockInv
  BY RequestsAssumption DEF Init, LockInv, LocksFollow, InLock

LEMMA NextLocks == TypeOK /\ LockInv /\ [Next]_vars => LockInv'
<1> SUFFICES ASSUME TypeOK, LockInv, [Next]_vars PROVE LockInv'
  OBVIOUS
<1> USE DEF TypeOK, LockInv, LocksFollow, InLock, Goto, Respond, store, request
<1>1. ASSUME NEW t \in Trips, CreateTrip(t) PROVE LockInv'
  BY <1>1 DEF CreateTrip
<1>2. ASSUME NEW r \in Requests, FindTrip(r) PROVE LockInv'
  BY <1>2 DEF FindTrip
<1>3. ASSUME NEW r \in Requests, AddRun(r) PROVE LockInv'
  BY <1>3 DEF AddRun
<1>4. ASSUME NEW r \in Requests, NameActiveRun(r) PROVE LockInv'
  BY <1>4 DEF NameActiveRun
<1>5. ASSUME NEW r \in Requests, AcceptRun(r) PROVE LockInv'
  BY <1>5 DEF AcceptRun
<1>6. ASSUME NEW r \in Requests, Execute(r) PROVE LockInv'
  BY <1>6 DEF Execute
<1>7. ASSUME NEW r \in Requests, ReadCurrent(r) PROVE LockInv'
  BY <1>7 DEF ReadCurrent
<1>8. ASSUME NEW r \in Requests, LockTrip(r) PROVE LockInv'
  BY <1>8, RequestsAssumption DEF LockTrip
<1>9. ASSUME NEW r \in Requests, CommitRevision(r) PROVE LockInv'
  BY <1>9, RequestsAssumption DEF CommitRevision, ReleaseLocks
<1>10. ASSUME NEW r \in Requests, RecordTerminal(r) PROVE LockInv'
  BY <1>10, RequestsAssumption DEF RecordTerminal, ReleaseLocks
<1>11. ASSUME NEW r \in Requests, EndRun(r) PROVE LockInv'
  BY <1>11, RequestsAssumption DEF EndRun, ReleaseLocks
<1>12. ASSUME NEW r \in Requests, Die(r) PROVE LockInv'
  BY <1>12, RequestsAssumption DEF Die, ReleaseLocks
<1>13. CASE UNCHANGED vars
  BY <1>13 DEF vars
<1>14. QED
  BY <1>1, <1>2, <1>3, <1>4, <1>5, <1>6, <1>7, <1>8, <1>9, <1>10, <1>11,
     <1>12, <1>13 DEF Next, Serve

LEMMA LockInvariant == Spec => [](IInv /\ LockInv)
  BY InitLocks, NextLocks, InductiveInvariant, PTL DEF Spec, IInv

\* No lock outlives its transaction, and none is held outside of one.
THEOREM LocksFollowHolds == Spec => []LocksFollow
  BY LockInvariant, PTL DEF LockInv

\* The request can send its next statement and get an answer to it.
CanServe(r) ==
  /\ pc[r] # "done"
  /\ pc[r] = "adding" => ~ActiveIndexPending(target[r])
  /\ pc[r] = "locking" => tripLock[target[r]] = None

\* SELECT ... FOR UPDATE finds the row free: nobody else who would lock it has
\* a Run that is active on the Trip.
LEMMA RowIsFree ==
  ASSUME IInv, LockInv, NEW r \in Requests, pc[r] = "locking"
  PROVE  tripLock[target[r]] = None
<1>1. SUFFICES ASSUME NEW q \in Requests, tripLock[target[r]] = q PROVE FALSE
  BY DEF IInv, TypeOK
<1>2. target[q] = target[r] /\ InLock(q)
  BY <1>1 DEF LockInv, LocksFollow, IInv, TypeOK
<1>3. Claims(q) /\ Claims(r)
  BY <1>2 DEF InLock, Claims, IInv, RunStaysActive, InSecondTransaction
<1>4. q = r
  BY <1>2, <1>3 DEF IInv, OneActiveRun
<1>5. QED
  BY <1>2, <1>4 DEF InLock

\* Nobody waits for one who waits: only the insert of a Run waits, and only for
\* a request of the same Trip that can send its commit.
WaitsAreShort ==
  \A r \in Requests : pc[r] # "done" /\ ~CanServe(r) =>
    /\ pc[r] = "adding"
    /\ \E q \in Requests \ {r} :
         /\ target[q] = target[r]
         /\ pc[q] \in {"added", "recorded"}
         /\ CanServe(q)

\* There is no deadlock among requests, nor a chain of waits.
THEOREM WaitsAreShortHolds == Spec => []WaitsAreShort
<1>1. IInv /\ LockInv => WaitsAreShort
  BY RowIsFree DEF WaitsAreShort, CanServe, ActiveIndexPending
<1>2. QED
  BY <1>1, LockInvariant, PTL

-----------------------------------------------------------------------------
(***************************************************************************)
(* Answers come.  ENABLED has no proof rule here: what it is for Serve is  *)
(* a premise, Serve(r) can step wherever CanServe(r) holds.                *)
(***************************************************************************)
ServeEnabled ==
  \A r \in Requests : [](CanServe(r) => ENABLED <<Serve(r)>>_vars)

\* The places of a request in order: it never goes back.
Follows ==
  [idle       |-> {"adding", "done"},
   adding     |-> {"added", "refused", "done"},
   refused    |-> {"done"},
   added      |-> {"executing", "done"},
   executing  |-> {"reading", "recording", "done"},
   reading    |-> {"locking", "done"},
   locking    |-> {"committing", "done"},
   committing |-> {"recording", "done"},
   recording  |-> {"recorded", "done"},
   recorded   |-> {"done"},
   done       |-> {}]

LEMMA ServeMoves ==
  ASSUME TypeOK, NEW r \in Requests, Serve(r) \/ Die(r)
  PROVE  /\ pc'[r] \in Follows[pc[r]]
         /\ \A q \in Requests \ {r} : pc'[q] = pc[q]
<1> USE DEF TypeOK, Follows, Goto, Respond
<1>1. CASE FindTrip(r) \/ AddRun(r) \/ NameActiveRun(r) \/ AcceptRun(r)
  BY <1>1 DEF FindTrip, AddRun, NameActiveRun, AcceptRun
<1>2. CASE Execute(r)
  BY <1>2 DEF Execute
<1>3. CASE ReadCurrent(r) \/ LockTrip(r) \/ CommitRevision(r)
           \/ RecordTerminal(r) \/ EndRun(r)
  BY <1>3 DEF ReadCurrent, LockTrip, CommitRevision, RecordTerminal, EndRun
<1>4. CASE Die(r)
  BY <1>4 DEF Die, InProgress, InFirstTransaction, InSecondTransaction
<1>5. QED
  BY <1>1, <1>2, <1>3, <1>4 DEF Serve

LEMMA NextMoves ==
  ASSUME TypeOK, [Next]_vars, NEW r \in Requests
  PROVE  pc'[r] = pc[r] \/ pc'[r] \in Follows[pc[r]]
<1>1. CASE \E q \in Requests : Serve(q) \/ Die(q)
  BY <1>1, ServeMoves
<1>2. CASE \E t \in Trips : CreateTrip(t)
  BY <1>2 DEF CreateTrip, request
<1>3. CASE UNCHANGED vars
  BY <1>3 DEF vars, request
<1>4. QED
  BY <1>1, <1>2, <1>3 DEF Next

\* What the next three theorems say of one request, from its own fairness and,
\* for the last one, the end of what its insert waits for.
At(r, step)    == pc[r] = step
Accepted(r)    == pc[r] \in InProgress \ {"adding"}
Sent(r)        == pc[r] \in InProgress
Blocks(r)      == pc[r] \in {"added", "recorded"}
InsertFree(r)  == ~ActiveIndexPending(target[r])
Answered(r)    == pc[r] = "done"

LEMMA RequestProgress ==
  ASSUME NEW r \in Requests
  PROVE  Spec /\ WF_vars(Serve(r))
              /\ [](CanServe(r) => ENABLED <<Serve(r)>>_vars)
           => /\ Accepted(r) ~> Answered(r)
              /\ <>[]~Blocks(r)
              /\ <>[]InsertFree(r) => (Sent(r) ~> Answered(r))
<1> DEFINE I  == IInv /\ LockInv
           Id == At(r, "idle")
           Ad == At(r, "adding")
           Rf == At(r, "refused")
           Dd == At(r, "added")
           Ex == At(r, "executing")
           Rd == At(r, "reading")
           Lk == At(r, "locking")
           Cm == At(r, "committing")
           Rc == At(r, "recording")
           Re == At(r, "recorded")
<1>1. Spec => []I
  BY LockInvariant
<1>2. I => /\ Sent(r) <=> Ad \/ Accepted(r)
           /\ Accepted(r) <=> Rf \/ Dd \/ Ex \/ Rd \/ Lk \/ Cm \/ Rc \/ Re
           /\ Blocks(r) <=> Dd \/ Re
           /\ Id \/ Sent(r) \/ Answered(r)
           /\ ~(Id /\ Sent(r)) /\ ~(Id /\ Answered(r)) /\ ~(Sent(r) /\ Answered(r))
           /\ ~(Ad /\ Accepted(r))
  BY DEF IInv, TypeOK, At, Sent, Accepted, Blocks, Answered, InProgress,
         InFirstTransaction, InSecondTransaction
<1>3. I => /\ Accepted(r) => CanServe(r)
           /\ Ad /\ InsertFree(r) => CanServe(r)
  BY RowIsFree DEF CanServe, At, Accepted, InsertFree, InProgress,
         InFirstTransaction, InSecondTransaction
<1>4. I /\ [Next]_vars =>
        /\ Id => Id' \/ Ad' \/ Answered(r)'
        /\ Ad => Ad' \/ Dd' \/ Rf' \/ Answered(r)'
        /\ Rf => Rf' \/ Answered(r)'
        /\ Dd => Dd' \/ Ex' \/ Answered(r)'
        /\ Ex => Ex' \/ Rd' \/ Rc' \/ Answered(r)'
        /\ Rd => Rd' \/ Lk' \/ Answered(r)'
        /\ Lk => Lk' \/ Cm' \/ Answered(r)'
        /\ Cm => Cm' \/ Rc' \/ Answered(r)'
        /\ Rc => Rc' \/ Re' \/ Answered(r)'
        /\ Re => Re' \/ Answered(r)'
        /\ Answered(r) => Answered(r)'
  BY NextMoves DEF IInv, At, Answered, Follows
<1>5. I /\ <<Serve(r)>>_vars =>
        /\ ~Answered(r)
        /\ Ad => Dd' \/ Rf' \/ Answered(r)'
        /\ Rf => Answered(r)'
        /\ Dd => Ex' \/ Answered(r)'
        /\ Ex => Rd' \/ Rc' \/ Answered(r)'
        /\ Rd => Lk' \/ Answered(r)'
        /\ Lk => Cm' \/ Answered(r)'
        /\ Cm => Rc' \/ Answered(r)'
        /\ Rc => Re' \/ Answered(r)'
        /\ Re => Answered(r)'
  BY ServeMoves DEF IInv, At, Answered, Follows
<1> HIDE DEF I, Id, Ad, Rf, Dd, Ex, Rd, Lk, Cm, Rc, Re
<1> DEFINE F == WF_vars(Serve(r)) /\ [](CanServe(r) => ENABLED <<Serve(r)>>_vars)
<1>6. Spec /\ F => (Accepted(r) ~> Answered(r))
  BY <1>1, <1>2, <1>3, <1>4, <1>5, PTL DEF Spec
<1>7. Spec /\ F => <>[]~Blocks(r)
  BY <1>1, <1>2, <1>4, <1>6, PTL DEF Spec
<1>8. Spec /\ F /\ <>[]InsertFree(r) => (Sent(r) ~> Answered(r))
  BY <1>1, <1>2, <1>3, <1>4, <1>5, <1>6, PTL DEF Spec
<1>9. QED
  BY <1>6, <1>7, <1>8, PTL

\* What every request owes to its own fairness, for all of them at once.
LEMMA AllProgress ==
  FairSpec /\ ServeEnabled =>
    /\ \A r \in Requests : Accepted(r) ~> Answered(r)
    /\ \A r \in Requests : <>[]~Blocks(r)
    /\ \A r \in Requests : <>[]InsertFree(r) => (Sent(r) ~> Answered(r))
<1> DEFINE Fair(r)    == WF_vars(Serve(r))
           Enabled(r) == [](CanServe(r) => ENABLED <<Serve(r)>>_vars)
           A(r)       == Accepted(r) ~> Answered(r)
           B(r)       == <>[]~Blocks(r)
           C(r)       == <>[]InsertFree(r) => (Sent(r) ~> Answered(r))
<1>1. ASSUME NEW r \in Requests
      PROVE  Spec /\ Fair(r) /\ Enabled(r) => A(r) /\ B(r) /\ C(r)
  BY RequestProgress, PTL
<1>2. FairSpec /\ ServeEnabled =>
        /\ Spec
        /\ \A r \in Requests : Fair(r)
        /\ \A r \in Requests : Enabled(r)
  BY PTL DEF FairSpec, Fairness, ServeEnabled
<1>3. /\ (\A r \in Requests : A(r)) => \A r \in Requests : Accepted(r) ~> Answered(r)
      /\ (\A r \in Requests : B(r)) => \A r \in Requests : <>[]~Blocks(r)
      /\ (\A r \in Requests : C(r)) =>
           \A r \in Requests : <>[]InsertFree(r) => (Sent(r) ~> Answered(r))
  BY PTL
<1> HIDE DEF Fair, Enabled, A, B, C
<1>4. /\ Spec
      /\ \A r \in Requests : Fair(r)
      /\ \A r \in Requests : Enabled(r)
      => /\ \A r \in Requests : A(r)
         /\ \A r \in Requests : B(r)
         /\ \A r \in Requests : C(r)
  BY <1>1
<1>5. QED
  BY <1>2, <1>3, <1>4, PTL

\* A request whose Run was accepted, or refused, is answered, if its process
\* does not die, whatever the others do: nothing it still has to do can wait for
\* them.
THEOREM AcceptedIsAnswered ==
  FairSpec /\ ServeEnabled => \A r \in Requests : Accepted(r) ~> Answered(r)
  BY AllProgress, PTL

\* No request keeps the index entry of its Trip pending for ever.
THEOREM NobodyBlocksForever ==
  FairSpec /\ ServeEnabled => \A r \in Requests : <>[]~Blocks(r)
  BY AllProgress, PTL

\* Every request is answered unless its insert is overtaken for ever.
THEOREM AnsweredUnlessOvertaken ==
  FairSpec /\ ServeEnabled /\ (\A r \in Requests : <>[]InsertFree(r))
    => EveryRequestAnswered
<1> DEFINE D(r) == <>[]InsertFree(r)
           E(r) == Sent(r) ~> Answered(r)
           C(r) == D(r) => E(r)
<1>1. FairSpec /\ ServeEnabled => \A r \in Requests : C(r)
  BY AllProgress, PTL
<1>2. (\A r \in Requests : <>[]InsertFree(r)) => \A r \in Requests : D(r)
  BY PTL
<1>3. (\A r \in Requests : E(r)) => EveryRequestAnswered
  BY PTL DEF EveryRequestAnswered, Sent, Answered
<1>4. (\A r \in Requests : C(r)) /\ (\A r \in Requests : D(r))
        => \A r \in Requests : E(r)
  <2> HIDE DEF D, E
  <2>1. QED
    OBVIOUS
<1>5. QED
  BY <1>1, <1>2, <1>3, <1>4, PTL

\* Without deaths and errors of the Capability, an active Run is being served.
NothingFails == Mortal = {} /\ "raised" \notin Verdicts

ActiveIsServed ==
  \A r \in Requests :
    runs[r] = "active" => pc[r] \in {"executing"} \cup InSecondTransaction

LEMMA NextActiveIsServed ==
  NothingFails /\ IInv /\ ActiveIsServed /\ [Next]_vars => ActiveIsServed'
<1> SUFFICES ASSUME NothingFails, IInv, ActiveIsServed, [Next]_vars
             PROVE  ActiveIsServed'
  OBVIOUS
<1> USE DEF IInv, TypeOK, ActiveIsServed, InSecondTransaction, Goto, store
<1>1. ASSUME NEW r \in Requests, FindTrip(r) \/ AddRun(r) \/ NameActiveRun(r)
      PROVE  ActiveIsServed'
  BY <1>1 DEF FindTrip, AddRun, NameActiveRun, Respond
<1>2. ASSUME NEW r \in Requests, AcceptRun(r) PROVE ActiveIsServed'
  BY <1>2 DEF AcceptRun
<1>3. ASSUME NEW r \in Requests, Execute(r) PROVE ActiveIsServed'
  BY <1>3 DEF Execute, NothingFails
<1>4. ASSUME NEW r \in Requests, ReadCurrent(r) \/ LockTrip(r)
      PROVE  ActiveIsServed'
  BY <1>4 DEF ReadCurrent, LockTrip
<1>5. ASSUME NEW r \in Requests, CommitRevision(r) PROVE ActiveIsServed'
  BY <1>5 DEF CommitRevision, RunStaysActive, DraftIsFresh, HasDraft
<1>6. ASSUME NEW r \in Requests, RecordTerminal(r) PROVE ActiveIsServed'
  BY <1>6 DEF RecordTerminal, RunStaysActive
<1>7. ASSUME NEW r \in Requests, EndRun(r) PROVE ActiveIsServed'
  BY <1>7 DEF EndRun, Respond
<1>8. ASSUME NEW r \in Requests, Die(r) PROVE FALSE
  BY <1>8 DEF Die, NothingFails
<1>9. ASSUME NEW t \in Trips, CreateTrip(t) PROVE ActiveIsServed'
  BY <1>9 DEF CreateTrip, request
<1>10. CASE UNCHANGED vars
  BY <1>10 DEF vars, request
<1>11. QED
  BY <1>1, <1>2, <1>3, <1>4, <1>5, <1>6, <1>7, <1>8, <1>9, <1>10
     DEF Next, Serve

\* Only a failure leaves a Run active for ever, such as the death of a process
\* in TripRunsCrash.cfg: where no process dies and the Capability does not
\* raise, every Run ends.
THEOREM EveryRunEndsWithoutFailures ==
  NothingFails /\ FairSpec /\ ServeEnabled => EveryRunEnds
<1> DEFINE Active(r)   == runs[r] = "active"
           Ended(r)    == runs[r] \in {"Succeeded", "Blocked"}
           Ends(r)     == Active(r) ~> Ended(r)
           Progress(r) == Accepted(r) ~> Answered(r)
<1>1. SUFFICES ASSUME NothingFails
               PROVE  FairSpec /\ ServeEnabled => EveryRunEnds
  OBVIOUS
<1>2. Init => ActiveIsServed
  BY DEF Init, ActiveIsServed
<1>3. IInv /\ ActiveIsServed /\ [Next]_vars => ActiveIsServed'
  BY <1>1, NextActiveIsServed
<1>4. Spec => [](IInv /\ ActiveIsServed)
  BY <1>2, <1>3, InductiveInvariant, PTL DEF Spec
<1>5. FairSpec /\ ServeEnabled => Spec /\ \A r \in Requests : Progress(r)
  BY AllProgress, PTL DEF FairSpec
<1>6. ASSUME NEW r \in Requests PROVE Spec /\ Progress(r) => Ends(r)
  <2>1. IInv /\ ActiveIsServed =>
          /\ Active(r) => Accepted(r)
          /\ ~(Active(r) /\ Answered(r))
    BY DEF ActiveIsServed, Accepted, Answered, InProgress, InSecondTransaction
  <2>2. IInv /\ [Next]_vars /\ Active(r) => Active(r)' \/ Ended(r)'
    <3>1. IInv /\ [Next]_vars => runs'[r] \in RunStatuses
      BY NextIInv DEF IInv, TypeOK
    <3>2. QED
      BY <3>1, NextRunsMove DEF RunsMove, RunStatuses
  <2> HIDE DEF Active, Ended
  <2>3. QED
    BY <1>4, <2>1, <2>2, PTL DEF Spec
<1>7. (\A r \in Requests : Ends(r)) => EveryRunEnds
  BY PTL DEF EveryRunEnds
<1>8. Spec /\ (\A r \in Requests : Progress(r)) => \A r \in Requests : Ends(r)
  <2> HIDE DEF Progress, Ends
  <2>1. QED
    BY <1>6
<1>9. QED
  BY <1>5, <1>7, <1>8, PTL
=============================================================================
