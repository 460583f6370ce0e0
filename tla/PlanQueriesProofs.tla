-------------------------- MODULE PlanQueriesProofs --------------------------
(***************************************************************************)
(* Proofs, for any number of Trips, requests and clients, that the two     *)
(* statements of get_current_plan_revision find a revision although they   *)
(* have two snapshots, and that reads never go back.                       *)
(***************************************************************************)
EXTENDS PlanQueries, TripRunsProofs

ClientTypeOK ==
  /\ asking \in [Clients -> Trips \cup {None}]
  /\ pointer \in [Clients -> Requests \cup {None}]
  /\ floor \in [Clients -> Nat] /\ got \in [Clients -> Nat]
  /\ known \in [Clients -> [Trips -> Nat]]

\* What a client knows of a Trip is there, and the pointer is at it or after it.
KnownIsPast ==
  \A c \in Clients, t \in Trips :
    known[c][t] > 0 => current[t] # None /\ known[c][t] <= number[current[t]]

\* A client between the two statements is about to find what the pointer named,
\* which is no older than what it knew when it started to ask.
PointerIsNew ==
  \A c \in Clients : asking[c] # None =>
    pointer[c] \in Revisions(asking[c]) /\ floor[c] <= number[pointer[c]]

QueryInv ==
  /\ IInv /\ ClientTypeOK /\ KnownIsPast /\ PointerIsNew /\ ReadsNeverGoBack

LEMMA InitQueryInv == QueryInit => QueryInv
  BY InitIInv
     DEF QueryInit, QueryInv, ClientTypeOK, KnownIsPast, PointerIsNew,
         ReadsNeverGoBack

\* Revisions are immutable and pointers move forward, whatever step the
\* requests take.
LEMMA HistoryGrows ==
  ASSUME IInv, [Next]_vars
  PROVE  /\ \A r \in Requests : number[r] > 0 => number'[r] = number[r]
         /\ target' = target
         /\ \A t \in Trips : current[t] # None =>
              current'[t] # None /\ number[current[t]] <= number'[current'[t]]
<1> USE DEF IInv, TypeOK
<1>1. target' = target
  BY DEF Next, Serve, CreateTrip, FindTrip, AddRun, NameActiveRun, AcceptRun,
         Execute, ReadCurrent, LockTrip, CommitRevision, RecordTerminal, EndRun,
         Die, vars, request
<1>2. \A r \in Requests : number[r] > 0 => number'[r] = number[r]
  <2>1. ASSUME NEW r \in Requests, EndRun(r)
        PROVE  \A q \in Requests : number[q] > 0 => number'[q] = number[q]
    <3>1. number[r] = 0
      BY <2>1 DEF EndRun, RunStaysActive, InSecondTransaction,
                  RevisionIffSucceeded
    <3>2. QED
      BY <2>1, <3>1 DEF EndRun
  <2>2. CASE UNCHANGED number
    BY <2>2
  <2>3. QED
    BY <2>1, <2>2
       DEF Next, Serve, CreateTrip, FindTrip, AddRun, NameActiveRun, AcceptRun,
           Execute, ReadCurrent, LockTrip, CommitRevision, RecordTerminal, Die,
           vars, store
<1>3. ASSUME NEW t \in Trips, current[t] # None
      PROVE  current'[t] # None /\ number[current[t]] <= number'[current'[t]]
  <2>1. current[t] \in Revisions(t)
    BY <1>3 DEF LinearHistory
  <2>2. current[t] \in Requests /\ number'[current[t]] = number[current[t]]
        /\ current[t] \in Revisions(t)'
    BY <1>1, <1>2, <2>1 DEF Revisions
  <2>3. LinearHistory'
    BY NextIInv
  <2>4. QED
    BY <2>2, <2>3 DEF LinearHistory
<1>4. QED
  BY <1>1, <1>2, <1>3

LEMMA NextQueryInv == QueryInv /\ [QueryNext]_queryVars => QueryInv'
<1> SUFFICES ASSUME QueryInv, [QueryNext]_queryVars PROVE QueryInv'
  OBVIOUS
<1>1. ASSUME [Next]_vars, UNCHANGED client PROVE QueryInv'
  <2>1. IInv' /\ TypeOK'
    BY <1>1, NextIInv DEF QueryInv, IInv
  <2>2. ClientTypeOK' /\ ReadsNeverGoBack'
    BY <1>1 DEF client, QueryInv, ClientTypeOK, ReadsNeverGoBack
  <2>3. KnownIsPast'
    <3> SUFFICES ASSUME NEW c \in Clients, NEW t \in Trips, known[c][t] > 0
                 PROVE  /\ current'[t] # None
                        /\ known[c][t] <= number'[current'[t]]
      BY <1>1 DEF KnownIsPast, client
    <3>1. current[t] # None /\ known[c][t] <= number[current[t]]
      BY DEF QueryInv, KnownIsPast
    <3>2. current'[t] # None /\ number[current[t]] <= number'[current'[t]]
      BY <1>1, <3>1, HistoryGrows DEF QueryInv
    <3>3. /\ number[current[t]] \in Nat /\ number'[current'[t]] \in Nat
          /\ known[c][t] \in Nat
      BY <2>1, <3>1, <3>2 DEF QueryInv, IInv, TypeOK, ClientTypeOK
    <3>4. QED
      BY <3>1, <3>2, <3>3
  <2>4. PointerIsNew'
    BY <1>1, HistoryGrows DEF client, QueryInv, PointerIsNew, Revisions
  <2>5. QED
    BY <2>1, <2>2, <2>3, <2>4 DEF QueryInv
<1>2. ASSUME UNCHANGED vars, NEW c \in Clients, Query(c) PROVE QueryInv'
  <2>1. IInv'
    BY <1>2, NextIInv DEF QueryInv
  <2>2. ASSUME NEW n \in Nat, NEW t \in Trips, Learn(c, t, n),
               n > 0 => current[t] # None /\ n <= number[current[t]]
        PROVE  /\ known' \in [Clients -> [Trips -> Nat]]
               /\ KnownIsPast'
    <3>1. known[c][t] \in Nat
      BY DEF QueryInv, ClientTypeOK
    <3>2. AtLeast(known[c][t], n) \in {known[c][t], n}
      BY DEF AtLeast
    <3>3. known' \in [Clients -> [Trips -> Nat]]
      BY <2>2, <3>1, <3>2 DEF Learn, QueryInv, ClientTypeOK
    <3>4. \A d \in Clients, u \in Trips :
            known'[d][u] = known[d][u] \/ (d = c /\ u = t /\ known'[d][u] = n)
      BY <2>2, <3>2 DEF Learn, QueryInv, ClientTypeOK
    <3>5. UNCHANGED <<current, number>>
      BY <1>2 DEF vars, store
    <3>6. KnownIsPast'
      BY <2>2, <3>4, <3>5 DEF QueryInv, KnownIsPast
    <3>7. QED
      BY <3>3, <3>6
  <2>3. ASSUME NEW r \in Requests, GetRun(c, r) PROVE QueryInv'
    <3>1. r \in Revisions(target[r]) /\ target[r] \in Trips
          /\ number[r] \in Nat
      BY <2>3 DEF GetRun, QueryInv, IInv, TypeOK, RevisionIffSucceeded, Revisions
    <3>2. current[target[r]] # None /\ number[r] <= number[current[target[r]]]
      BY <3>1 DEF QueryInv, IInv, LinearHistory
    <3>3. known' \in [Clients -> [Trips -> Nat]] /\ KnownIsPast'
      BY <2>2, <2>3, <3>1, <3>2 DEF GetRun
    <3>4. QED
      BY <1>2, <2>1, <2>3, <3>3
         DEF GetRun, QueryInv, ClientTypeOK, PointerIsNew, ReadsNeverGoBack,
             Revisions, vars, store, request
  <2>4. ASSUME NEW t \in Trips, ReadPointer(c, t) PROVE QueryInv'
    <3>1. /\ asking[c] = None /\ floor' = [floor EXCEPT ![c] = known[c][t]]
          /\ UNCHANGED <<known, number, current, target>>
      BY <1>2, <2>4 DEF ReadPointer, vars, store, request
    <3>2. known[c][t] \in Nat
      BY DEF QueryInv, ClientTypeOK
    <3>3. KnownIsPast'
      BY <3>1 DEF QueryInv, KnownIsPast
    <3>4. CASE current[t] = None
      <4>1. got' = [got EXCEPT ![c] = 0] /\ UNCHANGED <<asking, pointer>>
        BY <2>4, <3>4 DEF ReadPointer
      <4>2. known[c][t] = 0
        BY <3>2, <3>4 DEF QueryInv, KnownIsPast
      <4>3. ClientTypeOK'
        BY <3>1, <3>2, <4>1 DEF QueryInv, ClientTypeOK
      <4>4. PointerIsNew' /\ ReadsNeverGoBack'
        BY <3>1, <4>1, <4>2
           DEF QueryInv, ClientTypeOK, PointerIsNew, ReadsNeverGoBack, Revisions
      <4>5. QED
        BY <2>1, <3>3, <4>3, <4>4 DEF QueryInv
    <3>5. CASE current[t] # None
      <4>1. /\ asking' = [asking EXCEPT ![c] = t]
            /\ pointer' = [pointer EXCEPT ![c] = current[t]]
            /\ UNCHANGED got
        BY <2>4, <3>5 DEF ReadPointer
      <4>2. current[t] \in Revisions(t) /\ current[t] \in Requests
            /\ number[current[t]] \in Nat
        BY <3>5 DEF QueryInv, IInv, TypeOK, LinearHistory
      <4>3. known[c][t] <= number[current[t]]
        BY <3>2, <4>2 DEF QueryInv, KnownIsPast
      <4>4. ClientTypeOK'
        BY <3>1, <3>2, <4>1, <4>2 DEF QueryInv, ClientTypeOK
      <4>5. PointerIsNew'
        BY <3>1, <4>1, <4>2, <4>3
           DEF QueryInv, ClientTypeOK, PointerIsNew, Revisions
      <4>6. ReadsNeverGoBack'
        BY <3>1, <4>1, TripsAssumption
           DEF QueryInv, ClientTypeOK, ReadsNeverGoBack
      <4>7. QED
        BY <2>1, <3>3, <4>4, <4>5, <4>6 DEF QueryInv
    <3>6. QED
      BY <3>4, <3>5
  <2>5. ASSUME ReadRevision(c) PROVE QueryInv'
    <3> DEFINE t == asking[c]
               n == number[pointer[c]]
    <3>1. t \in Trips /\ pointer[c] \in Revisions(t) /\ floor[c] <= n
          /\ target[pointer[c]] = t /\ n \in Nat
      BY <2>5
         DEF ReadRevision, QueryInv, PointerIsNew, ClientTypeOK, Revisions,
             IInv, TypeOK
    <3>2. /\ got' = [got EXCEPT ![c] = n] /\ Learn(c, t, n)
          /\ asking' = [asking EXCEPT ![c] = None]
          /\ pointer' = [pointer EXCEPT ![c] = None]
          /\ UNCHANGED <<floor, number, target>>
      BY <1>2, <2>5, <3>1 DEF ReadRevision, vars, store, request
    <3>3. current[t] # None /\ n <= number[current[t]]
      BY <3>1 DEF QueryInv, IInv, LinearHistory
    <3> HIDE DEF t, n
    <3>4. known' \in [Clients -> [Trips -> Nat]] /\ KnownIsPast'
      BY <2>2, <3>1, <3>2, <3>3
    <3>5. ClientTypeOK'
      BY <3>1, <3>2, <3>4 DEF QueryInv, ClientTypeOK
    <3>6. PointerIsNew' /\ ReadsNeverGoBack'
      BY <3>1, <3>2
         DEF QueryInv, ClientTypeOK, PointerIsNew, ReadsNeverGoBack, Revisions
    <3>7. QED
      BY <2>1, <3>4, <3>5, <3>6 DEF QueryInv
  <2>6. QED
    BY <1>2, <2>3, <2>4, <2>5 DEF Query
<1>3. QED
  BY <1>1, <1>2 DEF QueryNext, queryVars

-----------------------------------------------------------------------------
\* The invariant of requests and clients together.
THEOREM QueryInvariant == QuerySpec => []QueryInv
  BY InitQueryInv, NextQueryInv, PTL DEF QuerySpec

\* A client never reads an older revision than one it has seen.
THEOREM ReadsNeverGoBackHolds == QuerySpec => []ReadsNeverGoBack
<1>1. QueryInv => ReadsNeverGoBack
  BY DEF QueryInv
<1>2. QED
  BY <1>1, QueryInvariant, PTL

\* The second statement always finds the revision the first one named.
THEOREM PointerResolvesHolds == QuerySpec => []PointerResolves
<1>1. QueryInv => PointerResolves
  BY DEF QueryInv, PointerIsNew, PointerResolves
<1>2. QED
  BY <1>1, QueryInvariant, PTL
=============================================================================
