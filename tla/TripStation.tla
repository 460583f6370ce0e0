----------------------------- MODULE TripStation -----------------------------
(***************************************************************************)
(* The planner's page (trip-station.tsx) and the BFF routes it calls.  The *)
(* page keeps what its requests brought: the Trips, one Run and one Plan   *)
(* Revision per Trip, one error.  Its load, its creations and its clicks   *)
(* on "Start Run" are asynchronous functions that run at the same time, so *)
(* answers arrive in any order.  A request is served in one step (behind   *)
(* it is PlanHistory, which TripRuns implements) and its answer arrives in *)
(* another.  Other tabs start Runs as well, and the page can be reloaded   *)
(* while its requests are on their way.                                    *)
(*                                                                         *)
(* A route answers that the session is gone (401), that the backend cannot *)
(* be reached (503, also when it has done its work), or what the backend   *)
(* says; to the page all that is not "ok" is the same.  A Run is named by  *)
(* the click that starts it, a Plan Revision by its number.                *)
(***************************************************************************)
EXTENDS Naturals, SequencesExt

CONSTANTS
  Trips,
  Clicks,        \* clicks on "Start Run", here and in other tabs
  None,
  MaxFaults, MaxReloads       \* bounds of a run of TLC

ASSUME TripsAssumption == IsFiniteSet(Trips)

ASSUME BoundsAssumption == MaxFaults \in Nat /\ MaxReloads \in Nat

ASSUME IdentifiersAssumption ==
  None \notin Trips \cup Clicks /\ Trips \cap Clicks = {}

VARIABLES
  \* The server.
  stored,        \* the Trips that exist, in the order list_trips gives them
  working, history, ended,      \* see PlanHistory
  \* The page.
  token,         \* whether csrfToken is set
  error,
  trips,         \* a sequence, as it is drawn
  runs,          \* [Trips -> the Run whose status is drawn, or None]
  planRevisions, \* [Trips -> number of the revision drawn, 0 for none]
  \* The functions that are waiting for an answer.
  load,          \* where load() stands
  list,          \* the Trips its first answer held
  read,          \* [Trips -> where its read of the Trip's revision stands]
  pc,            \* where each creation (named by its Trip) and click stands
  trip,          \* [Clicks -> the Trip it is for]
  got,           \* the revision number the last answer held, 0 for null
  waiting,       \* creations and clicks whose answers still find this page
  hasty,         \* history: a click while another, or the load, was waiting
  faults, reloads

server == <<working, history, ended>>
page == <<token, error, trips, runs, planRevisions>>
loading == <<load, list, read>>
calls == <<pc, trip, got, waiting>>
vars == <<stored, server, page, loading, calls, hasty, faults, reloads>>

Server == INSTANCE PlanHistory WITH Runs <- Clicks

Errors == {"", "sign in", "create", "start", "status", "revision"}

Current(t) == Len(history[t])
Succeeded(c) == Contains(history[trip[c]], c)
Number(c) == CHOOSE n \in 1..Len(history[trip[c]]) : history[trip[c]][n] = c

Init ==
  /\ \E S \in SUBSET Trips : stored \in SetToSeqs(S)
  /\ Server!Init
  /\ token = FALSE /\ error = ""
  /\ trips = <<>>
  /\ runs = [t \in Trips |-> None]
  /\ planRevisions = [t \in Trips |-> 0]
  /\ load = "listing" /\ list = <<>>
  /\ read = [t \in Trips |-> "none"]
  /\ waiting = {} /\ hasty = FALSE
  /\ pc = [x \in Trips \cup Clicks |->
             IF Contains(stored, x) THEN "done" ELSE "idle"]
  /\ trip = [c \in Clicks |-> None]
  /\ got = [x \in Trips \cup Clicks |-> 0]
  /\ faults = 0 /\ reloads = 0

Fault ==
  /\ faults < MaxFaults
  /\ faults' = faults + 1

Goto(x, step) == pc' = [pc EXCEPT ![x] = step]

-----------------------------------------------------------------------------
(***************************************************************************)
(* load(): the session and the list together, then every Trip's revision.  *)
(***************************************************************************)
ServeList ==
  /\ load = "listing"
  /\ \/ load' = "listed" /\ list' = stored /\ UNCHANGED faults
     \/ load' = "refused" /\ Fault /\ UNCHANGED list
  /\ UNCHANGED <<stored, server, page, read, calls, hasty, reloads>>

\* setCsrfToken and setTrips in one go; then the revisions are asked for.
ArriveList ==
  /\ load = "listed"
  /\ token' = TRUE
  /\ trips' = list
  /\ read' = [t \in Trips |-> IF Contains(list, t) THEN "asked" ELSE "none"]
  /\ load' = "reading"
  /\ UNCHANGED <<stored, server, error, runs, planRevisions, list, calls,
                 hasty, faults, reloads>>

ArriveNoList ==
  /\ load = "refused"
  /\ error' = "sign in"
  /\ load' = "done"
  /\ UNCHANGED <<stored, server, token, trips, runs, planRevisions, list, read,
                 calls, hasty, faults, reloads>>

\* One of the revisions the load asked for; a Trip without one is a 404.
ServeRead(t) ==
  /\ load = "reading" /\ read[t] = "asked"
  /\ read' = [read EXCEPT ![t] = "answered"]
  /\ \/ got' = [got EXCEPT ![t] = Current(t)] /\ UNCHANGED faults
     \/ got' = [got EXCEPT ![t] = 0] /\ Fault
  /\ UNCHANGED <<stored, server, page, load, list, pc, trip, waiting, hasty,
                 reloads>>

\* Mutant of ArriveReads: the answers without a revision are not filtered out.
ArriveReadsUnfiltered ==
  /\ load = "reading"
  /\ \A t \in Trips : read[t] # "asked"
  /\ planRevisions' =
       [t \in Trips |-> IF got[t] = 0 THEN None ELSE got[t]]
  /\ read' = [t \in Trips |-> "none"]
  /\ load' = "done"
  /\ UNCHANGED <<stored, server, token, error, trips, runs, list, calls, hasty,
                 faults, reloads>>

\* All have answered: they replace the whole map.
ArriveReads ==
  /\ load = "reading"
  /\ \A t \in Trips : read[t] # "asked"
  /\ planRevisions' =
       [t \in Trips |-> IF read[t] = "answered" THEN got[t] ELSE 0]
  /\ read' = [t \in Trips |-> "none"]
  /\ load' = "done"
  /\ UNCHANGED <<stored, server, token, error, trips, runs, list, calls, hasty,
                 faults, reloads>>

\* A fetch of the load rejects: nothing catches it.
RejectLoad ==
  /\ load \in {"listing", "reading"}
  /\ Fault
  /\ load' = "done"
  /\ read' = [t \in Trips |-> "none"]
  /\ UNCHANGED <<stored, server, page, list, calls, hasty, reloads>>

Load ==
  \/ ServeList \/ ArriveList \/ ArriveNoList \/ ArriveReads \/ RejectLoad
  \/ \E t \in Trips : ServeRead(t)

-----------------------------------------------------------------------------
(***************************************************************************)
(* create(), for the Trip t it will be answered with.                      *)
(***************************************************************************)

\* Mutant of Create: the button is not disabled.
CreateWithoutToken(t) ==
  /\ pc[t] = "idle"
  /\ error' = ""
  /\ Goto(t, "creating")
  /\ waiting' = waiting \cup {t}
  /\ UNCHANGED <<stored, server, token, trips, runs, planRevisions, loading,
                 trip, got, hasty, faults, reloads>>

Create(t) ==
  /\ token
  /\ pc[t] = "idle"
  /\ error' = ""
  /\ Goto(t, "creating")
  /\ waiting' = waiting \cup {t}
  /\ UNCHANGED <<stored, server, token, trips, runs, planRevisions, loading,
                 trip, got, hasty, faults, reloads>>

ServeCreate(t) ==
  /\ pc[t] = "creating"
  /\ stored' = Append(stored, t)
  /\ Goto(t, "created")
  /\ UNCHANGED <<server, page, loading, trip, got, waiting, hasty, faults,
                 reloads>>

ArriveCreate(t) ==
  /\ t \in waiting
  /\ waiting' = waiting \ {t}
  /\ \/ pc[t] = "created" /\ trips' = Append(trips, t) /\ UNCHANGED error
     \/ pc[t] = "refused" /\ error' = "create" /\ UNCHANGED trips
  /\ Goto(t, "done")
  /\ UNCHANGED <<stored, server, token, runs, planRevisions, loading, trip, got,
                 hasty, faults, reloads>>

-----------------------------------------------------------------------------
(***************************************************************************)
(* startRun(trip): POST runs, GET run, and GET plan-revision if the Run    *)
(* has succeeded.                                                          *)
(***************************************************************************)
Click(c, t) ==
  /\ token /\ Contains(trips, t)
  /\ pc[c] = "idle"
  /\ error' = ""
  /\ trip' = [trip EXCEPT ![c] = t]
  /\ Goto(c, "starting")
  /\ hasty' = (hasty \/ load # "done" \/ waiting \cap Clicks # {})
  /\ waiting' = waiting \cup {c}
  /\ UNCHANGED <<stored, server, token, trips, runs, planRevisions, loading,
                 got, faults, reloads>>

\* Another tab starts a Run.
ClickElsewhere(c, t) ==
  /\ Contains(stored, t)
  /\ pc[c] = "idle"
  /\ trip' = [trip EXCEPT ![c] = t]
  /\ Goto(c, "starting")
  /\ UNCHANGED <<stored, server, page, loading, got, waiting, hasty, faults,
                 reloads>>

\* The backend accepts the Run, or refuses a busy Trip (409).
ServeStart(c) ==
  /\ pc[c] = "starting"
  /\ \/ Server!Accept(trip[c], c) /\ Goto(c, "running")
     \/ /\ working[trip[c]] # None
        /\ Goto(c, "refused")
        /\ UNCHANGED server
  /\ UNCHANGED <<stored, page, loading, trip, got, waiting, hasty, faults,
                 reloads>>

\* The Run ends, within the request if that is still there.
EndRun(c) ==
  /\ trip[c] # None
  /\ Server!Succeed(trip[c], c) \/ Server!Block(trip[c], c)
  /\ pc' = [pc EXCEPT ![c] = IF @ = "running" THEN "accepted" ELSE @]
  /\ UNCHANGED <<stored, page, loading, trip, got, waiting, hasty, faults,
                 reloads>>

ArriveStart(c) ==
  /\ c \in waiting
  /\ \/ /\ pc[c] = "accepted"
        /\ Goto(c, "observing")
        /\ UNCHANGED <<error, waiting>>
     \/ /\ pc[c] = "refused"
        /\ error' = "start"
        /\ Goto(c, "done")
        /\ waiting' = waiting \ {c}
  /\ UNCHANGED <<stored, server, token, trips, runs, planRevisions, loading,
                 trip, got, hasty, faults, reloads>>

ServeRun(c) ==
  /\ pc[c] = "observing"
  /\ Goto(c, "observed")
  /\ UNCHANGED <<stored, server, page, loading, trip, got, waiting, hasty,
                 faults, reloads>>

ArriveRun(c) ==
  /\ c \in waiting
  /\ \/ /\ pc[c] = "observed"
        /\ runs' = [runs EXCEPT ![trip[c]] = c]
        /\ IF Succeeded(c)
             THEN Goto(c, "asking") /\ UNCHANGED waiting
             ELSE Goto(c, "done") /\ waiting' = waiting \ {c}
        /\ UNCHANGED error
     \/ /\ pc[c] = "unread"
        /\ error' = "status"
        /\ Goto(c, "done")
        /\ waiting' = waiting \ {c}
        /\ UNCHANGED runs
  /\ UNCHANGED <<stored, server, token, trips, planRevisions, loading, trip,
                 got, hasty, faults, reloads>>

\* Mutant of ServeRevision: the answer comes from the browser's cache, if the
\* load has put one there.
ServeCachedRevision(c) ==
  /\ pc[c] = "asking"
  /\ got' = [got EXCEPT ![c] = IF got[trip[c]] # 0 THEN got[trip[c]]
                                                 ELSE Current(trip[c])]
  /\ Goto(c, "answered")
  /\ UNCHANGED <<stored, server, page, loading, trip, waiting, hasty, faults,
                 reloads>>

ServeRevision(c) ==
  /\ pc[c] = "asking"
  /\ got' = [got EXCEPT ![c] = Current(trip[c])]
  /\ Goto(c, "answered")
  /\ UNCHANGED <<stored, server, page, loading, trip, waiting, hasty, faults,
                 reloads>>

\* Mutant of ArriveRevision: the revision replaces those of other Trips too.
ArriveOnlyRevision(c) ==
  /\ c \in waiting
  /\ pc[c] = "answered"
  /\ planRevisions' =
       [t \in Trips |-> IF t = trip[c] THEN got[c] ELSE 0]
  /\ Goto(c, "done")
  /\ waiting' = waiting \ {c}
  /\ UNCHANGED <<stored, server, token, error, trips, runs, loading, trip, got,
                 hasty, faults, reloads>>

ArriveRevision(c) ==
  /\ c \in waiting
  /\ pc[c] = "answered"
  /\ IF got[c] = 0
       THEN error' = "revision" /\ UNCHANGED planRevisions
       ELSE /\ planRevisions' = [planRevisions EXCEPT ![trip[c]] = got[c]]
            /\ UNCHANGED error
  /\ Goto(c, "done")
  /\ waiting' = waiting \ {c}
  /\ UNCHANGED <<stored, server, token, trips, runs, loading, trip, got, hasty,
                 faults, reloads>>

-----------------------------------------------------------------------------
\* The answer to a creation or a click is not "ok": the session is gone, or the
\* backend is not reached, or it is and its answer is lost.
Fail(x) ==
  /\ Fault
  /\ \/ /\ pc[x] \in {"creating", "created", "starting", "running", "accepted"}
        /\ Goto(x, "refused")
        /\ UNCHANGED got
     \/ /\ pc[x] \in {"observing", "observed"}
        /\ Goto(x, "unread")
        /\ UNCHANGED got
     \/ /\ pc[x] \in {"asking", "answered"}
        /\ Goto(x, "answered")
        /\ got' = [got EXCEPT ![x] = 0]
  /\ UNCHANGED <<stored, server, page, loading, trip, waiting, hasty, reloads>>

\* A fetch rejects: nothing catches it, and the page says nothing.
Reject(x) ==
  /\ Fault
  /\ x \in waiting
  /\ waiting' = waiting \ {x}
  /\ UNCHANGED <<stored, server, page, loading, pc, trip, got, hasty, reloads>>

Reload ==
  /\ reloads < MaxReloads
  /\ reloads' = reloads + 1
  /\ token' = FALSE /\ error' = ""
  /\ trips' = <<>>
  /\ runs' = [t \in Trips |-> None]
  /\ planRevisions' = [t \in Trips |-> 0]
  /\ load' = "listing" /\ list' = <<>>
  /\ read' = [t \in Trips |-> "none"]
  /\ waiting' = {} /\ hasty' = FALSE
  /\ UNCHANGED <<stored, server, pc, trip, got, faults>>

CreateTrip(t) == Create(t) \/ ServeCreate(t) \/ ArriveCreate(t)

StartRun(c) ==
  \/ \E t \in Trips : Click(c, t) \/ ClickElsewhere(c, t)
  \/ ServeStart(c) \/ EndRun(c) \/ ArriveStart(c)
  \/ ServeRun(c) \/ ArriveRun(c)
  \/ ServeRevision(c) \/ ArriveRevision(c)

Next ==
  \/ Load
  \/ \E t \in Trips : CreateTrip(t)
  \/ \E c \in Clicks : StartRun(c)
  \/ \E x \in Trips \cup Clicks : Fail(x) \/ Reject(x)
  \/ Reload

Spec == Init /\ [][Next]_vars

-----------------------------------------------------------------------------
(***************************************************************************)
(* Properties.                                                             *)
(***************************************************************************)

\* Every variable has its type.
TypeOK ==
  /\ ToSet(stored) \subseteq Trips /\ ToSet(trips) \subseteq Trips
  /\ ToSet(list) \subseteq Trips
  /\ working \in [Trips -> Clicks \cup {None}]
  /\ \A t \in Trips : ToSet(history[t]) \subseteq Clicks
  /\ ended \subseteq Clicks
  /\ token \in BOOLEAN /\ error \in Errors /\ hasty \in BOOLEAN
  /\ runs \in [Trips -> Clicks \cup {None}]
  /\ planRevisions \in [Trips -> Nat]
  /\ load \in {"listing", "listed", "refused", "reading", "done"}
  /\ read \in [Trips -> {"none", "asked", "answered"}]
  /\ pc \in [Trips \cup Clicks ->
               {"idle", "creating", "created", "starting", "running",
                "accepted", "refused", "observing", "observed", "unread",
                "asking", "answered", "done"}]
  /\ trip \in [Clicks -> Trips \cup {None}]
  /\ got \in [Trips \cup Clicks -> Nat]
  /\ waiting \subseteq Trips \cup Clicks
  /\ faults \in 0..MaxFaults /\ reloads \in 0..MaxReloads

\* A Trip that is drawn stays, and is drawn once, until the page is reloaded:
\* the list of the load replaces what is there and a creation adds to it, but
\* no creation can be sent before the list is there (csrfToken is set with it).
KeepsItsTrips ==
  [][\/ reloads' # reloads
     \/ trips = <<>> /\ IsInjective(trips')
     \/ \E t \in Trips \ ToSet(trips) : trips' = Append(trips, t)]_trips

\* The revision fetched after a Run succeeded is that Run's or a later one,
\* whatever other tabs do meanwhile: a Run is answered once it has ended, and
\* the current revision never goes back.
ReportedRunIsShown ==
  [][\A c \in Clicks :
       pc[c] = "answered" /\ pc'[c] = "done" /\ got[c] # 0
         => planRevisions'[trip[c]] >= Number(c)]_pc

\* The page says that the revision of a Run that has succeeded is missing only
\* if a request has failed.
NoRevisionMeansFault == error = "revision" => faults > 0

Fetched(c) == c # None /\ Succeeded(c) /\ pc[c] = "done" /\ got[c] # 0

\* Beside the status of a Run that has succeeded, whose revision has been
\* fetched, the page draws that revision or a later one.
SucceededIsShown ==
  \A t \in Trips : Fetched(runs[t]) => planRevisions[t] >= Number(runs[t])

\* So it is for a Planner who clicks only when the page has nothing to wait
\* for, and the page does not complain of a missing revision unless a request
\* has failed; whatever fails and whatever other tabs do.
PageIsTruthful ==
  /\ ~hasty => SucceededIsShown
  /\ NoRevisionMeansFault
=============================================================================
