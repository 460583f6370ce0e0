----------------------------- MODULE PlanHistory -----------------------------
(***************************************************************************)
(* What Trip Planning promises about Runs and Plan Revisions, without      *)
(* requests, statements or locks: a Trip is worked on by one Run at a      *)
(* time, a Run ends at most once, and only the Run that is working on a    *)
(* Trip extends its history, by one revision, when it succeeds.            *)
(***************************************************************************)
EXTENDS Naturals, Sequences

CONSTANTS Trips, Runs, None

VARIABLES
  working,     \* [Trips -> the Run working on the Trip, or None]
  history,     \* [Trips -> the Runs whose revisions make up its history]
  ended        \* the Runs that have a terminal outcome

vars == <<working, history, ended>>

Init ==
  /\ working = [t \in Trips |-> None]
  /\ history = [t \in Trips |-> <<>>]
  /\ ended = {}

Accept(t, r) ==
  /\ working[t] = None
  /\ r \notin ended
  /\ \A u \in Trips : working[u] # r
  /\ working' = [working EXCEPT ![t] = r]
  /\ UNCHANGED <<history, ended>>

End(t, r) ==
  /\ working[t] = r
  /\ working' = [working EXCEPT ![t] = None]
  /\ ended' = ended \cup {r}

Succeed(t, r) ==
  /\ End(t, r)
  /\ history' = [history EXCEPT ![t] = Append(@, r)]

Block(t, r) ==
  /\ End(t, r)
  /\ UNCHANGED history

Next ==
  \E t \in Trips, r \in Runs : Accept(t, r) \/ Succeed(t, r) \/ Block(t, r)

Spec == Init /\ [][Next]_vars
=============================================================================
