----------------------------- MODULE PlanQueries -----------------------------
(***************************************************************************)
(* The queries a client (the BFF on behalf of a browser tab) sends while   *)
(* requests of TripRuns are being served: GET run, and GET plan-revision,  *)
(* which is two statements with two snapshots, the Trip's pointer and then *)
(* the revision it names (the claims of a revision are immutable with it). *)
(***************************************************************************)
EXTENDS TripRuns

CONSTANTS Clients

ASSUME TripsAssumption == None \notin Trips

VARIABLES
  asking,      \* the Trip whose current revision a client is reading
  pointer,     \* the revision its first statement returned
  floor,       \* revision number the client knew of when it started to ask
  known,       \* largest revision number each client knows per Trip
  got          \* revision number its last answer held, 0 for "not found"

client == <<asking, pointer, floor, known, got>>
queryVars == <<vars, client>>

AtLeast(m, n) == IF m < n THEN n ELSE m

QueryInit ==
  /\ Init
  /\ asking = [c \in Clients |-> None]
  /\ pointer = [c \in Clients |-> None]
  /\ floor = [c \in Clients |-> 0]
  /\ known = [c \in Clients |-> [t \in Trips |-> 0]]
  /\ got = [c \in Clients |-> 0]

Learn(c, t, n) == known' = [known EXCEPT ![c][t] = AtLeast(@, n)]

\* get_run: a client that sees Succeeded knows that the Run's revision exists.
GetRun(c, r) ==
  /\ asking[c] = None
  /\ runs[r] = "Succeeded"
  /\ Learn(c, target[r], number[r])
  /\ UNCHANGED <<asking, pointer, floor, got>>

\* get_current_plan_revision, first statement; a NULL pointer is answered 404.
ReadPointer(c, t) ==
  /\ asking[c] = None
  /\ t \in trips
  /\ floor' = [floor EXCEPT ![c] = known[c][t]]
  /\ IF current[t] = None
       THEN got' = [got EXCEPT ![c] = 0] /\ UNCHANGED <<asking, pointer>>
       ELSE /\ asking' = [asking EXCEPT ![c] = t]
            /\ pointer' = [pointer EXCEPT ![c] = current[t]]
            /\ UNCHANGED got
  /\ UNCHANGED known

\* get_current_plan_revision, second statement: the revision of that Trip
\* with that identifier, if there is one.
ReadRevision(c) ==
  /\ asking[c] # None
  /\ LET n == IF target[pointer[c]] = asking[c] THEN number[pointer[c]] ELSE 0
     IN  /\ got' = [got EXCEPT ![c] = n]
         /\ Learn(c, asking[c], n)
  /\ asking' = [asking EXCEPT ![c] = None]
  /\ pointer' = [pointer EXCEPT ![c] = None]
  /\ UNCHANGED floor

Query(c) ==
  \/ \E r \in Requests : GetRun(c, r)
  \/ \E t \in Trips : ReadPointer(c, t)
  \/ ReadRevision(c)

QueryNext ==
  \/ Next /\ UNCHANGED client
  \/ UNCHANGED vars /\ \E c \in Clients : Query(c)

QuerySpec == QueryInit /\ [][QueryNext]_queryVars

\* Requests are served while queries are asked.
FairQuerySpec == QuerySpec /\ Fairness

-----------------------------------------------------------------------------
\* Reads follow writes and never go back: a client that has seen a Run
\* Succeeded, or a revision, is never answered later with an older revision
\* or with "no current revision".
ReadsNeverGoBack == \A c \in Clients : asking[c] = None => got[c] >= floor[c]

\* The row the pointer named is there when the second statement looks for it,
\* and is part of the history the pointer's Trip has by then.
PointerResolves ==
  \A c \in Clients :
    asking[c] # None => pointer[c] \in Revisions(asking[c])
=============================================================================
