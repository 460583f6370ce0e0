------------------------- MODULE TripStationProofs -------------------------
(***************************************************************************)
(* Proofs, for any number of Trips and clicks, that the page is truthful   *)
(* to a Planner who clicks only when it has nothing to wait for, whatever  *)
(* fails, whatever other tabs do and however often the page is reloaded;   *)
(* and that every Trip is drawn once.                                      *)
(***************************************************************************)
EXTENDS TripStation, FiniteSetTheorems, TLAPS

Steps == {"idle", "creating", "created", "starting", "running", "accepted",
          "refused", "observing", "observed", "unread", "asking", "answered",
          "done"}

\* What the argument needs of TypeOK.
Typed ==
  /\ working \in [Trips -> Clicks \cup {None}]
  /\ history \in [Trips -> Seq(Clicks)]
  /\ ended \subseteq Clicks
  /\ runs \in [Trips -> Clicks \cup {None}]
  /\ planRevisions \in [Trips -> Nat]
  /\ pc \in [Trips \cup Clicks -> Steps]
  /\ trip \in [Clicks -> Trips \cup {None}]
  /\ got \in [Trips \cup Clicks -> Nat]
  /\ waiting \subseteq Trips \cup Clicks
  /\ faults \in Nat /\ hasty \in BOOLEAN

\* A Run works on the Trip it was started for until it ends, and only Runs
\* that have ended are in a history, each of them once.
ServerInv ==
  \A t \in Trips :
    /\ working[t] # None => /\ working[t] \notin ended
                            /\ trip[working[t]] = t
                            /\ pc[working[t]] # "idle"
    /\ \A n \in 1..Len(history[t]) : history[t][n] \in ended
    /\ \A m, n \in 1..Len(history[t]) : history[t][m] = history[t][n] => m = n

\* A click that was answered has a Run that has ended; it asks for a revision
\* only if the Run has succeeded, and is answered with no older one.
ClickOK(c) ==
  /\ pc[c] # "idle" => trip[c] \in Trips
  /\ pc[c] \in {"accepted", "observing", "observed", "unread", "asking",
                "answered"}
       => c \in ended
  /\ pc[c] \in {"asking", "answered"} => Succeeded(c)
  /\ pc[c] = "answered" => \/ got[c] = 0 /\ faults > 0
                           \/ got[c] >= Number(c)

ClickInv == \A c \in Clicks : ClickOK(c)

\* What is drawn of Runs was brought by clicks for these Trips.
DrawnOK(t) ==
  runs[t] # None => /\ runs[t] \in ended /\ trip[runs[t]] = t
                    /\ pc[runs[t]] \in {"asking", "answered", "done"}

DrawnInv == \A t \in Trips : DrawnOK(t)

\* A Planner in no hurry waits for the load and for one click at a time, and
\* the click that asks for a revision is the one whose Run is drawn.
PatientInv ==
  ~hasty =>
    /\ load # "done" => /\ waiting \cap Clicks = {}
                        /\ \A t \in Trips : runs[t] = None
    /\ \A c, d \in waiting \cap Clicks : c = d
    /\ \A c \in waiting \cap Clicks :
         pc[c] \in {"asking", "answered"} => runs[trip[c]] = c
    /\ SucceededIsShown

PageInv == /\ Typed /\ ServerInv /\ ClickInv /\ DrawnInv /\ PatientInv
           /\ NoRevisionMeansFault

-----------------------------------------------------------------------------
\* The number of a revision is its place in the history.
LEMMA NumberIsPlace ==
  ASSUME NEW c \in Clicks, Succeeded(c)
  PROVE  /\ Number(c) \in 1..Len(history[trip[c]])
         /\ history[trip[c]][Number(c)] = c
  BY DEF Succeeded, Number, Contains

\* Click c's Run succeeded before the step if and only if it has after it, and
\* its revision keeps its number.
Kept(c) == /\ Succeeded(c)' <=> Succeeded(c)
           /\ Succeeded(c) => Number(c)' = Number(c)

LEMMA UnchangedKept ==
  ASSUME NEW c \in Clicks, history' = history, trip'[c] = trip[c]
  PROVE  Kept(c)
  BY DEF Kept, Succeeded, Number, Contains

LEMMA EndKept ==
  ASSUME PageInv, NEW r \in Clicks, EndRun(r), NEW c \in Clicks, c # r,
         trip[c] \in Trips
  PROVE  Kept(c)
<1> USE DEF PageInv, Typed
<1> DEFINE t == trip[c]
           h == history[t]
<1>1. trip' = trip /\ h \in Seq(Clicks)
  BY DEF EndRun
<1>2. history'[t] = h \/ history'[t] = Append(h, r)
  BY DEF EndRun, Server!Succeed, Server!Block
<1>3. CASE history'[t] = h
  BY <1>1, <1>3 DEF Kept, Succeeded, Number, Contains
<1>4. CASE history'[t] = Append(h, r)
  <2>1. Len(Append(h, r)) = Len(h) + 1 /\ Len(h) \in Nat
    BY <1>1
  <2>2. \A n \in 1..Len(h) : Append(h, r)[n] = h[n]
    BY <1>1
  <2>3. Append(h, r)[Len(h) + 1] = r
    BY <1>1
  <2>4. \A n : n \in 1..(Len(h) + 1) /\ Append(h, r)[n] = c
               <=> n \in 1..Len(h) /\ h[n] = c
    BY <2>1, <2>2, <2>3
  <2>5. Succeeded(c) <=> \E n \in 1..Len(h) : h[n] = c
    BY DEF Succeeded, Contains
  <2>6. Succeeded(c)' <=> \E n \in 1..Len(history'[t]) : history'[t][n] = c
    BY <1>1 DEF Succeeded, Contains
  <2>7. Succeeded(c)' <=> Succeeded(c)
    BY <1>4, <2>1, <2>4, <2>5, <2>6 DEF Succeeded, Contains
  <2>8. Number(c) = CHOOSE n \in 1..Len(h) : h[n] = c
    BY DEF Number
  <2>9. Number(c)' = CHOOSE n \in 1..Len(history'[t]) : history'[t][n] = c
    BY <1>1 DEF Number
  <2>10. Number(c)' = Number(c)
    BY <1>4, <2>1, <2>4, <2>8, <2>9
  <2>11. QED
    BY <2>7, <2>10 DEF Kept
<1>5. QED
  BY <1>2, <1>3, <1>4

-----------------------------------------------------------------------------
(***************************************************************************)
(* What a step leaves alone.                                               *)
(***************************************************************************)

\* Click c is where it was, and what it was answered is as true as it was.
Still(c) ==
  /\ pc'[c] = pc[c] /\ trip'[c] = trip[c] /\ got'[c] = got[c]
  /\ c \in ended => c \in ended'
  /\ trip[c] \in Trips => Kept(c)

LEMMA GotoType ==
  ASSUME Typed, NEW x \in Trips \cup Clicks, NEW step \in Steps, Goto(x, step)
  PROVE  /\ pc' \in [Trips \cup Clicks -> Steps]
         /\ pc'[x] = step
         /\ \A k \in (Trips \cup Clicks) \ {x} : pc'[k] = pc[k]
  BY DEF Typed, Goto

LEMMA FaultsGrow ==
  ASSUME PageInv, UNCHANGED faults \/ Fault
  PROVE  faults' \in Nat /\ faults' >= faults /\ (Fault => faults' > 0)
  BY DEF PageInv, Typed, Fault

LEMMA GotType ==
  ASSUME Typed, NEW x \in Trips \cup Clicks, NEW n \in Nat,
         got' = [got EXCEPT ![x] = n]
  PROVE  /\ got' \in [Trips \cup Clicks -> Nat]
         /\ got'[x] = n
         /\ \A k \in (Trips \cup Clicks) \ {x} : got'[k] = got[k]
  BY DEF Typed

\* A step that moves no click but c.
LEMMA OneMoves ==
  ASSUME PageInv, Typed', NEW c, \A k \in Clicks \ {c} : Still(k),
         faults' >= faults, c \in Clicks => ClickOK(c)',
         \A t \in Trips : IF runs'[t] = c THEN DrawnOK(t)'
                          ELSE runs'[t] \in {runs[t], None}
  PROVE  ClickInv' /\ DrawnInv'
<1>1. ASSUME NEW k \in Clicks, k # c PROVE ClickOK(k)'
  BY <1>1 DEF PageInv, Typed, ClickInv, ClickOK, Still, Kept
<1>2. ASSUME NEW t \in Trips, runs'[t] # c PROVE DrawnOK(t)'
  BY <1>2 DEF PageInv, Typed, DrawnInv, DrawnOK, Still
<1>3. QED
  BY <1>1, <1>2 DEF ClickInv, DrawnInv

LEMMA ServerFrame ==
  ASSUME PageInv, Typed', UNCHANGED server,
         \A k \in Clicks : pc[k] # "idle" =>
           pc'[k] # "idle" /\ trip'[k] = trip[k]
  PROVE  ServerInv'
  BY DEF PageInv, Typed, ServerInv, server

\* A step that draws nothing new and moves no click.
LEMMA PatientFrame ==
  ASSUME PageInv, hasty' = hasty, load' # "done" => load # "done",
         waiting' \cap Clicks \subseteq waiting, \A k \in Clicks : Still(k),
         UNCHANGED <<runs, planRevisions>>
  PROVE  PatientInv'
<1>1. ASSUME ~hasty, NEW t \in Trips, Fetched(runs[t])'
      PROVE  (planRevisions[t] >= Number(runs[t]))'
  BY <1>1 DEF PageInv, Typed, PatientInv, SucceededIsShown, Fetched, Still, Kept,
            DrawnInv, DrawnOK
<1>2. QED
  BY <1>1 DEF PageInv, PatientInv, SucceededIsShown, Still

\* A step that moves click c, draws nothing new and fetches no revision.
LEMMA PatientMoves ==
  ASSUME PageInv, NEW c \in Clicks, UNCHANGED <<hasty, load, runs, planRevisions>>,
         waiting' \subseteq waiting, \A k \in Clicks \ {c} : Still(k),
         pc'[c] # "done" \/ \A t \in Trips : runs[t] # c,
         pc'[c] \in {"asking", "answered"} =>
           pc[c] \in {"asking", "answered"} /\ trip'[c] = trip[c]
  PROVE  PatientInv'
<1>1. ASSUME ~hasty, NEW t \in Trips, Fetched(runs[t])'
      PROVE  (planRevisions[t] >= Number(runs[t]))'
  <2>1. runs[t] \in Clicks /\ trip[runs[t]] = t /\ pc'[runs[t]] = "done"
    BY <1>1 DEF PageInv, Typed, Fetched, DrawnInv, DrawnOK
  <2>2. Still(runs[t])
    BY <2>1
  <2>3. QED
    BY <1>1, <2>1, <2>2
       DEF PageInv, PatientInv, SucceededIsShown, Fetched, Still, Kept
<1>2. QED
  BY <1>1 DEF PageInv, PatientInv, SucceededIsShown, Still

\* The server and the clicks are as they were.
Quiet ==
  /\ UNCHANGED <<server, trip, runs>> /\ faults' >= faults
  /\ \A k \in Clicks : pc'[k] = pc[k] /\ got'[k] = got[k]

LEMMA QuietStep ==
  ASSUME PageInv, Typed', Quiet
  PROVE  /\ ServerInv' /\ ClickInv' /\ DrawnInv'
         /\ \A k \in Clicks : Still(k)
<1>1. \A k \in Clicks : Still(k)
  BY UnchangedKept DEF Quiet, Still, server
<1>2. None \notin Clicks
  BY IdentifiersAssumption
<1>3. ClickInv' /\ DrawnInv'
  <2>1. \A t \in Trips : runs'[t] = None => DrawnOK(t)'
    BY DEF DrawnOK
  <2>2. QED
    BY <1>1, <1>2, <2>1, OneMoves DEF Quiet
<1>4. ServerInv'
  BY ServerFrame DEF Quiet
<1>5. QED
  BY <1>1, <1>3, <1>4

\* A quiet step that draws nothing new.
LEMMA QuietPatient ==
  ASSUME PageInv, Typed', Quiet, UNCHANGED <<hasty, planRevisions>>,
         load' # "done" => load # "done",
         waiting' \cap Clicks \subseteq waiting
  PROVE  PatientInv'
<1>1. \A k \in Clicks : Still(k)
  BY QuietStep
<1>2. UNCHANGED <<runs, planRevisions>>
  BY DEF Quiet
<1>3. QED
  BY <1>1, <1>2, PatientFrame

-----------------------------------------------------------------------------
(***************************************************************************)
(* One lemma for each kind of step.                                        *)
(***************************************************************************)

\* The load and the creations, whose answers hold no Run, and a fetch that
\* rejects.
LEMMA LoadAndCreate ==
  ASSUME PageInv,
         \/ Load \/ \E t \in Trips : CreateTrip(t)
         \/ \E x \in Trips \cup Clicks : Reject(x)
         \/ \E t \in Trips : Fail(t)
         \/ UNCHANGED vars
  PROVE  PageInv'
<1> USE IdentifiersAssumption
    DEF server, page, loading, calls, Goto, Fault, Current
<1>1. ASSUME ServeList PROVE PageInv'
  <2>1. Typed' /\ Quiet
    BY <1>1 DEF ServeList, PageInv, Typed, Quiet
  <2>2. PatientInv'
    BY <1>1, <2>1, QuietPatient DEF ServeList
  <2>3. NoRevisionMeansFault'
    BY <1>1 DEF ServeList, PageInv, Typed, NoRevisionMeansFault
  <2>4. QED
    BY <2>1, <2>2, <2>3, QuietStep DEF PageInv
<1>2. ASSUME ArriveList PROVE PageInv'
  <2>1. Typed' /\ Quiet
    BY <1>2 DEF ArriveList, PageInv, Typed, Quiet
  <2>2. PatientInv'
    BY <1>2, <2>1, QuietPatient DEF ArriveList
  <2>3. NoRevisionMeansFault'
    BY <1>2 DEF ArriveList, PageInv, Typed, NoRevisionMeansFault
  <2>4. QED
    BY <2>1, <2>2, <2>3, QuietStep DEF PageInv
<1>3. ASSUME ArriveNoList PROVE PageInv'
  <2>1. Typed' /\ Quiet
    <3>1. Typed'
      BY <1>3 DEF ArriveNoList, PageInv, Typed
    <3>2. faults' >= faults
      BY <1>3, FaultsGrow DEF ArriveNoList
    <3>3. QED
      BY <1>3, <3>1, <3>2 DEF ArriveNoList, Quiet
  <2>2. PatientInv'
    BY <1>3, <2>1, QuietPatient DEF ArriveNoList
  <2>3. NoRevisionMeansFault'
    BY <1>3 DEF ArriveNoList, PageInv, Typed, NoRevisionMeansFault
  <2>4. QED
    BY <2>1, <2>2, <2>3, QuietStep DEF PageInv
<1>4. ASSUME RejectLoad PROVE PageInv'
  <2>1. Typed' /\ Quiet
    BY <1>4 DEF RejectLoad, PageInv, Typed, Quiet
  <2>2. PatientInv'
    BY <1>4, <2>1, QuietPatient DEF RejectLoad
  <2>3. NoRevisionMeansFault'
    BY <1>4 DEF RejectLoad, PageInv, Typed, NoRevisionMeansFault
  <2>4. QED
    BY <2>1, <2>2, <2>3, QuietStep DEF PageInv
<1>5. ASSUME NEW t \in Trips, ServeRead(t) PROVE PageInv'
  <2>1. Typed' /\ Quiet
    <3>1. Len(history[t]) \in Nat
      BY DEF PageInv, Typed
    <3>2. /\ got' \in [Trips \cup Clicks -> Nat]
          /\ \A k \in Clicks : got'[k] = got[k]
      BY <1>5, <3>1, GotType DEF ServeRead, PageInv
    <3>3. Typed'
      BY <1>5, <3>2 DEF ServeRead, PageInv, Typed
    <3>4. QED
      BY <1>5, <3>2, <3>3 DEF ServeRead, PageInv, Typed, Quiet
  <2>2. PatientInv'
    BY <1>5, <2>1, QuietPatient DEF ServeRead
  <2>3. NoRevisionMeansFault'
    BY <1>5 DEF ServeRead, PageInv, Typed, NoRevisionMeansFault
  <2>4. QED
    BY <2>1, <2>2, <2>3, QuietStep DEF PageInv
<1>6. ASSUME NEW t \in Trips, Create(t) PROVE PageInv'
  <2>1. Typed' /\ Quiet
    <3>1. pc' \in [Trips \cup Clicks -> Steps]
      BY <1>6, GotoType DEF Create, PageInv, Steps
    <3>2. Typed'
      BY <1>6, <3>1 DEF Create, PageInv, Typed
    <3>3. faults' >= faults
      BY <1>6, FaultsGrow DEF Create
    <3>4. QED
      BY <1>6, <3>2, <3>3 DEF Create, PageInv, Typed, Quiet
  <2>2. PatientInv'
    BY <1>6, <2>1, QuietPatient DEF Create
  <2>3. NoRevisionMeansFault'
    BY <1>6 DEF Create, PageInv, Typed, NoRevisionMeansFault
  <2>4. QED
    BY <2>1, <2>2, <2>3, QuietStep DEF PageInv
<1>7. ASSUME NEW t \in Trips, ServeCreate(t) PROVE PageInv'
  <2>1. Typed' /\ Quiet
    <3>1. pc' \in [Trips \cup Clicks -> Steps]
      BY <1>7, GotoType DEF ServeCreate, PageInv, Steps
    <3>2. Typed'
      BY <1>7, <3>1 DEF ServeCreate, PageInv, Typed
    <3>3. QED
      BY <1>7, <3>2 DEF ServeCreate, PageInv, Typed, Quiet
  <2>2. PatientInv'
    BY <1>7, <2>1, QuietPatient DEF ServeCreate
  <2>3. NoRevisionMeansFault'
    BY <1>7 DEF ServeCreate, PageInv, Typed, NoRevisionMeansFault
  <2>4. QED
    BY <2>1, <2>2, <2>3, QuietStep DEF PageInv
<1>8. ASSUME NEW t \in Trips, ArriveCreate(t) PROVE PageInv'
  <2>1. Typed' /\ Quiet
    <3>1. pc' \in [Trips \cup Clicks -> Steps]
      BY <1>8, GotoType DEF ArriveCreate, PageInv, Steps
    <3>2. Typed'
      BY <1>8, <3>1 DEF ArriveCreate, PageInv, Typed
    <3>3. QED
      BY <1>8, <3>2 DEF ArriveCreate, PageInv, Typed, Quiet
  <2>2. PatientInv'
    BY <1>8, <2>1, QuietPatient DEF ArriveCreate
  <2>3. NoRevisionMeansFault'
    BY <1>8 DEF ArriveCreate, PageInv, Typed, NoRevisionMeansFault
  <2>4. QED
    BY <2>1, <2>2, <2>3, QuietStep DEF PageInv
<1>9. ASSUME NEW x \in Trips \cup Clicks, Reject(x) PROVE PageInv'
  <2>1. Typed' /\ Quiet
    BY <1>9 DEF Reject, PageInv, Typed, Quiet
  <2>2. PatientInv'
    BY <1>9, <2>1, QuietPatient DEF Reject
  <2>3. NoRevisionMeansFault'
    BY <1>9 DEF Reject, PageInv, Typed, NoRevisionMeansFault
  <2>4. QED
    BY <2>1, <2>2, <2>3, QuietStep DEF PageInv
<1>10. ASSUME NEW t \in Trips, Fail(t) PROVE PageInv'
  <2>1. Typed' /\ Quiet
    <3>1. pc' \in [Trips \cup Clicks -> Steps]
      BY <1>10, GotoType DEF Fail, PageInv, Steps
    <3>2. got' \in [Trips \cup Clicks -> Nat]
      BY <1>10, GotType DEF Fail, PageInv, Typed
    <3>3. Typed'
      BY <1>10, <3>1, <3>2 DEF Fail, PageInv, Typed
    <3>4. \A k \in Clicks : pc'[k] = pc[k] /\ got'[k] = got[k]
      BY <1>10 DEF Fail, PageInv, Typed
    <3>5. QED
      BY <1>10, <3>3, <3>4 DEF Fail, PageInv, Typed, Quiet
  <2>2. PatientInv'
    BY <1>10, <2>1, QuietPatient DEF Fail
  <2>3. NoRevisionMeansFault'
    BY <1>10 DEF Fail, PageInv, Typed, NoRevisionMeansFault
  <2>4. QED
    BY <2>1, <2>2, <2>3, QuietStep DEF PageInv
<1>11. ASSUME UNCHANGED vars PROVE PageInv'
  <2>1. Typed' /\ Quiet
    BY <1>11 DEF vars, PageInv, Typed, Quiet
  <2>2. PatientInv'
    BY <1>11, <2>1, QuietPatient DEF vars
  <2>3. NoRevisionMeansFault'
    BY <1>11 DEF vars, PageInv, Typed, NoRevisionMeansFault
  <2>4. QED
    BY <2>1, <2>2, <2>3, QuietStep DEF PageInv
<1>12. ASSUME ArriveReads PROVE PageInv'
  <2>1. Typed' /\ Quiet
    BY <1>12 DEF ArriveReads, PageInv, Typed, Quiet
  <2>2. PatientInv'
    BY <1>12 DEF ArriveReads, PageInv, Typed, PatientInv, SucceededIsShown,
                 Fetched
  <2>3. NoRevisionMeansFault'
    BY <1>12 DEF ArriveReads, PageInv, NoRevisionMeansFault
  <2>4. QED
    BY <2>1, <2>2, <2>3, QuietStep DEF PageInv
<1>13. QED
  BY <1>1, <1>2, <1>3, <1>4, <1>5, <1>6, <1>7, <1>8, <1>9, <1>10, <1>11,
     <1>12 DEF Load, CreateTrip

\* A click starts: its request is sent, from this page or another tab.
LEMMA Starts ==
  ASSUME PageInv, NEW c \in Clicks, NEW t \in Trips,
         Click(c, t) \/ ClickElsewhere(c, t)
  PROVE  PageInv'
<1>1. /\ pc[c] = "idle" /\ Goto(c, "starting") /\ UNCHANGED <<server, got>>
      /\ trip' = [trip EXCEPT ![c] = t] /\ UNCHANGED <<runs, planRevisions, load>>
      /\ UNCHANGED faults /\ (error' = "" \/ UNCHANGED error)
  BY DEF Click, ClickElsewhere, page, loading
<1>2. /\ pc' \in [Trips \cup Clicks -> Steps] /\ pc'[c] = "starting"
      /\ \A k \in (Trips \cup Clicks) \ {c} : pc'[k] = pc[k]
  BY <1>1, GotoType DEF PageInv, Steps
<1>3. waiting' \subseteq Trips \cup Clicks /\ hasty' \in BOOLEAN
  BY DEF Click, ClickElsewhere, PageInv, Typed
<1>4. /\ trip' \in [Clicks -> Trips \cup {None}] /\ trip'[c] = t
      /\ \A k \in Clicks \ {c} : trip'[k] = trip[k]
  BY <1>1 DEF PageInv, Typed
<1>5. Typed'
  BY <1>1, <1>2, <1>3, <1>4 DEF PageInv, Typed, server
<1>6. \A k \in Clicks \ {c} : Still(k)
  BY <1>1, <1>2, <1>4, UnchangedKept DEF Still, server
<1>7. ServerInv'
  BY <1>1, <1>2, <1>4, <1>5, ServerFrame
<1>8. ClickOK(c)' /\ \A u \in Trips : runs[u] # c
  BY <1>1, <1>2, <1>4, IdentifiersAssumption
     DEF ClickOK, PageInv, DrawnInv, DrawnOK
<1>9. ClickInv' /\ DrawnInv'
  <2>1. faults' >= faults
    BY <1>1, FaultsGrow
  <2>2. QED
    BY <1>1, <1>5, <1>6, <1>8, <2>1, OneMoves
<1>10. PatientInv'
  <2>1. CASE ClickElsewhere(c, t)
    <3>1. UNCHANGED <<hasty, waiting>>
      BY <2>1 DEF ClickElsewhere
    <3>2. QED
      BY <1>1, <1>2, <1>6, <3>1, PatientMoves
  <2>2. CASE Click(c, t) /\ ~hasty'
    <3>1. /\ ~hasty /\ load = "done" /\ waiting' \cap Clicks = {c}
      BY <2>2 DEF Click, PageInv, Typed
    <3>2. ASSUME NEW u \in Trips, Fetched(runs[u])'
          PROVE  (planRevisions[u] >= Number(runs[u]))'
      <4>1. /\ runs'[u] = runs[u] /\ runs[u] \in Clicks \ {c}
            /\ trip[runs[u]] = u /\ planRevisions'[u] = planRevisions[u]
        BY <1>1, <1>8, <3>2 DEF PageInv, Typed, Fetched, DrawnInv, DrawnOK
      <4>2. Still(runs[u])
        BY <1>6, <4>1
      <4>3. QED
        BY <3>1, <3>2, <4>1, <4>2
           DEF PageInv, PatientInv, SucceededIsShown, Fetched, Still, Kept
    <3>3. QED
      BY <1>1, <1>2, <3>1, <3>2 DEF PatientInv, SucceededIsShown
  <2>3. QED
    BY <2>1, <2>2 DEF PatientInv
<1>11. NoRevisionMeansFault'
  BY <1>1 DEF PageInv, NoRevisionMeansFault
<1>12. QED
  BY <1>5, <1>7, <1>9, <1>10, <1>11 DEF PageInv

\* The backend accepts a Run or refuses a busy Trip.
LEMMA Accepts ==
  ASSUME PageInv, NEW c \in Clicks, ServeStart(c)
  PROVE  PageInv'
<1>1. /\ pc[c] = "starting"
      /\ \E step \in {"running", "refused"} : Goto(c, step)
      /\ UNCHANGED <<history, ended, page, loading, trip, got, waiting, hasty, faults>>
  BY DEF ServeStart, Server!Accept, server
<1>2. /\ pc' \in [Trips \cup Clicks -> Steps] /\ pc'[c] \in {"running", "refused"}
      /\ \A k \in (Trips \cup Clicks) \ {c} : pc'[k] = pc[k]
  BY <1>1, GotoType DEF PageInv, Steps
<1>3. trip[c] \in Trips
  BY <1>1 DEF PageInv, ClickInv, ClickOK
<1>4. \/ working' = working
      \/ /\ working' = [working EXCEPT ![trip[c]] = c]
         /\ c \notin ended /\ pc'[c] # "idle"
  BY <1>2 DEF ServeStart, Server!Accept, server
<1>5. Typed'
  BY <1>1, <1>2, <1>3, <1>4 DEF PageInv, Typed, page
<1>6. \A k \in Clicks \ {c} : Still(k)
  BY <1>1, <1>2, UnchangedKept DEF Still
<1>7. ServerInv'
  BY <1>1, <1>2, <1>3, <1>4, <1>5 DEF PageInv, Typed, ServerInv
<1>8. ClickOK(c)' /\ \A u \in Trips : runs[u] # c
  BY <1>1, <1>2, <1>3, IdentifiersAssumption
     DEF ClickOK, PageInv, DrawnInv, DrawnOK
<1>9. ClickInv' /\ DrawnInv'
  <2>1. faults' >= faults
    BY <1>1, FaultsGrow
  <2>2. QED
    BY <1>1, <1>5, <1>6, <1>8, <2>1, OneMoves DEF page
<1>10. PatientInv'
  BY <1>1, <1>2, <1>6, PatientMoves DEF page, loading
<1>11. NoRevisionMeansFault'
  BY <1>1 DEF PageInv, NoRevisionMeansFault, page
<1>12. QED
  BY <1>5, <1>7, <1>9, <1>10, <1>11 DEF PageInv

\* A Run ends: its Trip is free, and its history has one more entry or not.
LEMMA Ends ==
  ASSUME PageInv, NEW c \in Clicks, EndRun(c)
  PROVE  PageInv'
<1> DEFINE t == trip[c]
<1>1. /\ t \in Trips /\ working[t] = c /\ working' = [working EXCEPT ![t] = None]
      /\ ended' = ended \cup {c}
      /\ history' = history \/ history' = [history EXCEPT ![t] = Append(@, c)]
      /\ \E step \in {pc[c], "accepted"} :
           Goto(c, step) /\ (pc[c] = "running" <=> step = "accepted")
      /\ UNCHANGED <<page, loading, trip, got, waiting, hasty, faults>>
  <2>1. c # None /\ t # None /\ t \in Trips \cup {None}
    BY IdentifiersAssumption DEF EndRun, PageInv, Typed
  <2>2. pc[c] = "accepted" => c \in ended
    BY DEF PageInv, ClickInv, ClickOK
  <2>3. t \in Trips
    BY <2>1
  <2>4. working[t] = c
    BY DEF EndRun, Server!Succeed, Server!Block, Server!End
  <2>5. c \notin ended
    BY <2>1, <2>3, <2>4 DEF PageInv, ServerInv
  <2>6. \E step \in {pc[c], "accepted"} :
          Goto(c, step) /\ (pc[c] = "running" <=> step = "accepted")
    BY <2>2, <2>5 DEF EndRun, Goto
  <2>7. QED
    BY <2>3, <2>4, <2>6
       DEF EndRun, Server!Succeed, Server!Block, Server!End
<1> HIDE DEF t
<1>2. c \notin ended /\ trip[c] = t /\ c # None
  BY <1>1, IdentifiersAssumption DEF PageInv, ServerInv, t
<1>3. pc[c] \notin {"idle", "accepted", "observing", "observed", "unread",
                    "asking", "answered"}
  BY <1>1, <1>2 DEF PageInv, ServerInv, ClickInv, ClickOK
<1>4. /\ pc' \in [Trips \cup Clicks -> Steps]
      /\ pc'[c] = IF pc[c] = "running" THEN "accepted" ELSE pc[c]
      /\ \A k \in (Trips \cup Clicks) \ {c} : pc'[k] = pc[k]
  <2>1. pc[c] \in Steps /\ "accepted" \in Steps
    BY DEF PageInv, Typed, Steps
  <2>2. PICK step \in {pc[c], "accepted"} :
          Goto(c, step) /\ (pc[c] = "running" <=> step = "accepted")
    BY <1>1
  <2>3. step \in Steps
    BY <2>1, <2>2
  <2>4. QED
    BY <1>3, <2>2, <2>3, GotoType DEF PageInv
<1>5. history' \in [Trips -> Seq(Clicks)]
  <2>1. history[t] \in Seq(Clicks) /\ Append(history[t], c) \in Seq(Clicks)
    BY <1>1 DEF PageInv, Typed
  <2>2. QED
    BY <1>1, <2>1 DEF PageInv, Typed
<1>6. Typed'
  BY <1>1, <1>4, <1>5 DEF PageInv, Typed, page
<1>7. \A k \in Clicks \ {c} : Still(k)
  BY <1>1, <1>4, EndKept DEF Still
<1>8. ServerInv'
  <2>1. ASSUME NEW u \in Trips \ {t}
        PROVE  /\ working'[u] = working[u] /\ history'[u] = history[u]
               /\ working[u] # c
    BY <1>1, <1>2 DEF PageInv, Typed, ServerInv
  <2>2. ASSUME NEW u \in Trips \ {t}, working[u] # None
        PROVE  /\ working[u] \notin ended' /\ trip'[working[u]] = u
               /\ pc'[working[u]] # "idle"
    BY <1>1, <1>4, <2>1, <2>2 DEF PageInv, Typed, ServerInv
  <2>3. working'[t] = None
    BY <1>1 DEF PageInv, Typed
  <2>4. /\ \A n \in 1..Len(history'[t]) : history'[t][n] \in ended'
        /\ \A m, n \in 1..Len(history'[t]) :
             history'[t][m] = history'[t][n] => m = n
    <3> DEFINE h == history[t]
    <3>1. /\ \A n \in 1..Len(h) : h[n] \in ended
          /\ \A m, n \in 1..Len(h) : h[m] = h[n] => m = n
      BY <1>1 DEF PageInv, ServerInv
    <3>2. CASE history' = history
      BY <1>1, <3>1, <3>2
    <3>3. CASE history' = [history EXCEPT ![t] = Append(@, c)]
      <4>1. h \in Seq(Clicks) /\ history'[t] = Append(h, c)
        BY <1>1, <3>3 DEF PageInv, Typed
      <4> HIDE DEF h
      <4>2. /\ Len(Append(h, c)) = Len(h) + 1 /\ Len(h) \in Nat
            /\ Append(h, c)[Len(h) + 1] = c
            /\ \A n \in 1..Len(h) : Append(h, c)[n] = h[n]
        BY <4>1
      <4>3. \A n \in 1..Len(h) : h[n] # c
        BY <1>2, <3>1
      <4>4. QED
        BY <1>1, <3>1, <4>1, <4>2, <4>3
    <3>4. QED
      BY <1>1, <3>2, <3>3
  <2>5. ASSUME NEW u \in Trips \ {t}
        PROVE  /\ \A n \in 1..Len(history'[u]) : history'[u][n] \in ended'
               /\ \A m, n \in 1..Len(history'[u]) :
                    history'[u][m] = history'[u][n] => m = n
    BY <1>1, <2>1 DEF PageInv, ServerInv
  <2>6. QED
    BY <2>1, <2>2, <2>3, <2>4, <2>5 DEF ServerInv
<1>9. ClickOK(c)' /\ \A u \in Trips : runs[u] # c
  BY <1>1, <1>2, <1>3, <1>4 DEF ClickOK, PageInv, DrawnInv, DrawnOK
<1>10. ClickInv' /\ DrawnInv'
  <2>1. faults' >= faults
    BY <1>1, FaultsGrow
  <2>2. QED
    BY <1>1, <1>6, <1>7, <1>9, <2>1, OneMoves DEF page
<1>11. PatientInv'
  BY <1>1, <1>3, <1>4, <1>7, <1>9, PatientMoves DEF page, loading
<1>12. NoRevisionMeansFault'
  BY <1>1 DEF PageInv, NoRevisionMeansFault, page
<1>13. QED
  BY <1>6, <1>8, <1>10, <1>11, <1>12 DEF PageInv

\* An answer to a click that waits, or the lack of one: no Run is drawn and no
\* revision.
LEMMA Answers ==
  ASSUME PageInv, NEW c \in Clicks,
         ArriveStart(c) \/ ServeRun(c) \/ ServeRevision(c) \/ Fail(c)
  PROVE  PageInv'
<1>1. /\ UNCHANGED <<server, trip, hasty, runs, planRevisions, load>>
      /\ waiting' \subseteq waiting
      /\ error' \in {error, "start"}
      /\ UNCHANGED faults \/ Fault
  BY DEF ArriveStart, ServeRun, ServeRevision, Fail, page, loading
<1>2. \/ /\ pc[c] = "accepted" /\ Goto(c, "observing") /\ UNCHANGED got
      \/ /\ pc[c] = "refused" /\ Goto(c, "done") /\ UNCHANGED got
      \/ /\ pc[c] = "observing" /\ Goto(c, "observed") /\ UNCHANGED got
      \/ /\ pc[c] = "asking" /\ Goto(c, "answered")
         /\ got' = [got EXCEPT ![c] = Current(trip[c])]
      \/ /\ pc[c] \in {"creating", "created", "starting", "running", "accepted"}
         /\ Goto(c, "refused") /\ UNCHANGED got
      \/ /\ pc[c] \in {"observing", "observed"} /\ Goto(c, "unread")
         /\ UNCHANGED got
      \/ /\ pc[c] \in {"asking", "answered"} /\ Goto(c, "answered") /\ Fault
         /\ got' = [got EXCEPT ![c] = 0]
  BY DEF ArriveStart, ServeRun, ServeRevision, Fail
<1>3. trip[c] \in Trips
  BY <1>2 DEF PageInv, ClickInv, ClickOK
<1>4. Current(trip[c]) \in Nat
  BY <1>3 DEF PageInv, Typed, Current
<1>5. /\ pc' \in [Trips \cup Clicks -> Steps]
      /\ \A k \in (Trips \cup Clicks) \ {c} : pc'[k] = pc[k]
  BY <1>2, GotoType DEF PageInv, Steps
<1>6. /\ got' \in [Trips \cup Clicks -> Nat]
      /\ \A k \in (Trips \cup Clicks) \ {c} : got'[k] = got[k]
  BY <1>2, <1>4, GotType DEF PageInv, Typed
<1>7. Typed'
  BY <1>1, <1>5, <1>6, FaultsGrow DEF PageInv, Typed, server
<1>8. \A k \in Clicks : trip'[k] = trip[k] /\ history' = history /\ Kept(k)
  BY <1>1, UnchangedKept DEF server
<1>9. \A k \in Clicks \ {c} : Still(k)
  BY <1>1, <1>5, <1>6, <1>8 DEF Still, server
<1>10. ClickOK(c)'
  <2>1. /\ pc'[c] # "idle"
        /\ pc'[c] \in {"observing", "observed", "unread", "answered"} =>
             pc[c] \in {"accepted", "observing", "observed", "unread", "asking",
                        "answered"}
        /\ pc'[c] \notin {"accepted", "asking"}
        /\ pc'[c] = "answered" => pc[c] \in {"asking", "answered"}
    BY <1>2 DEF PageInv, Typed, Goto
  <2>2. ended' = ended
    BY <1>1 DEF server
  <2>3. pc'[c] = "answered" => Succeeded(c)'
    BY <1>8, <2>1 DEF PageInv, ClickInv, ClickOK, Kept
  <2>4. ASSUME pc'[c] = "answered"
        PROVE  (got'[c] = 0 /\ faults' > 0) \/ got'[c] = Current(trip[c])
    BY <1>2, <2>4, FaultsGrow DEF PageInv, Typed, Goto
  <2>5. ASSUME pc'[c] = "answered" PROVE Current(trip[c]) >= Number(c)'
    <3>1. Number(c)' \in 1..Len(history[trip[c]])
      BY <1>8, <2>1, <2>5, NumberIsPlace DEF PageInv, ClickInv, ClickOK, Kept
    <3>2. QED
      BY <1>4, <3>1 DEF Current
  <2>6. QED
    BY <1>3, <1>8, <2>1, <2>2, <2>3, <2>4, <2>5
       DEF ClickOK, PageInv, ClickInv
<1>11. \A u \in Trips : runs'[u] = c => DrawnOK(u)'
  BY <1>1, <1>2, <1>8 DEF PageInv, Typed, DrawnInv, DrawnOK, server, Goto
<1>12. ClickInv' /\ DrawnInv'
  BY <1>1, <1>7, <1>9, <1>10, <1>11, FaultsGrow, OneMoves
<1>13. ServerInv'
  BY <1>1, <1>2, <1>5, <1>7, ServerFrame DEF PageInv, Typed, Goto
<1>14. PatientInv'
  <2>1. pc'[c] = "done" => pc[c] = "refused"
    BY <1>2 DEF PageInv, Typed, Goto
  <2>2. pc[c] = "refused" => \A t \in Trips : runs[t] # c
    BY IdentifiersAssumption DEF PageInv, DrawnInv, DrawnOK
  <2>3. pc'[c] \in {"asking", "answered"} => pc[c] \in {"asking", "answered"}
    BY <1>2 DEF PageInv, Typed, Goto
  <2>4. QED
    BY <1>1, <1>8, <1>9, <2>1, <2>2, <2>3, PatientMoves
<1>15. NoRevisionMeansFault'
  BY <1>1, FaultsGrow DEF PageInv, Typed, NoRevisionMeansFault
<1>16. QED
  BY <1>7, <1>12, <1>13, <1>14, <1>15 DEF PageInv

\* The status of the Run arrives, or the message that it could not be read.
LEMMA StatusArrives ==
  ASSUME PageInv, NEW c \in Clicks, ArriveRun(c)
  PROVE  PageInv'
<1> DEFINE t == trip[c]
<1>1. /\ UNCHANGED <<server, trip, got, hasty, planRevisions, load, faults>>
      /\ c \in waiting /\ error' \in {error, "status"}
      /\ pc[c] \in {"observed", "unread"}
      /\ \E step \in {"asking", "done"} :
           /\ Goto(c, step)
           /\ step = "asking" => Succeeded(c) /\ pc[c] = "observed"
                                 /\ waiting' = waiting
           /\ step = "done" => /\ pc[c] = "observed" => ~Succeeded(c)
                               /\ waiting' = waiting \ {c}
      /\ IF pc[c] = "observed" THEN runs' = [runs EXCEPT ![t] = c]
                               ELSE runs' = runs
  BY DEF ArriveRun, loading
<1>2. t \in Trips /\ c \in ended /\ c # None
  BY <1>1, IdentifiersAssumption DEF PageInv, ClickInv, ClickOK
<1>3. /\ pc' \in [Trips \cup Clicks -> Steps]
      /\ \A k \in (Trips \cup Clicks) \ {c} : pc'[k] = pc[k]
      /\ \/ /\ pc'[c] = "asking" /\ pc[c] = "observed" /\ Succeeded(c)
            /\ waiting' = waiting
         \/ /\ pc'[c] = "done" /\ (pc[c] = "observed" => ~Succeeded(c))
            /\ waiting' = waiting \ {c}
  BY <1>1, GotoType DEF PageInv, Steps
<1>4. Typed'
  BY <1>1, <1>2, <1>3 DEF PageInv, Typed, server
<1>5. \A k \in Clicks : Kept(k)
  BY <1>1, UnchangedKept DEF server
<1>6. \A k \in Clicks \ {c} : Still(k)
  BY <1>1, <1>3, <1>5 DEF Still, server
<1>7. ClickOK(c)'
  BY <1>1, <1>2, <1>3, <1>5 DEF ClickOK, Kept, server
<1>8. \A u \in Trips : runs[u] # c
  BY <1>1, <1>2 DEF PageInv, DrawnInv, DrawnOK
<1>9. ASSUME NEW u \in Trips, runs'[u] = c PROVE DrawnOK(u)' /\ u = t
  BY <1>1, <1>2, <1>3, <1>8, <1>9 DEF PageInv, Typed, DrawnOK, server
<1>10. \A u \in Trips : runs'[u] # c => runs'[u] = runs[u]
  BY <1>1, <1>2 DEF PageInv, Typed
<1>11. ClickInv' /\ DrawnInv'
  <2>1. faults' >= faults
    BY <1>1, FaultsGrow
  <2>2. QED
    BY <1>4, <1>6, <1>7, <1>9, <1>10, <2>1, OneMoves
<1>12. ServerInv'
  BY <1>1, <1>3, <1>4, ServerFrame
<1>13. PatientInv'
  <2> SUFFICES ASSUME ~hasty' PROVE PatientInv'
    BY DEF PatientInv
  <2>1. ~hasty /\ load' = "done" /\ waiting \cap Clicks = {c}
    BY <1>1 DEF PageInv, PatientInv
  <2>2. \A k \in waiting' \cap Clicks :
          k = c /\ (pc'[k] \in {"asking", "answered"} => runs'[trip'[k]] = k)
    BY <1>1, <1>2, <1>3, <2>1 DEF PageInv, Typed
  <2>3. ASSUME NEW u \in Trips, Fetched(runs[u])'
        PROVE  (planRevisions[u] >= Number(runs[u]))'
    <3>1. runs'[u] # c
      <4>1. ASSUME runs'[u] = c PROVE FALSE
        <5>1. pc[c] = "observed" /\ pc'[c] = "done"
          BY <1>1, <1>8, <2>3, <4>1 DEF Fetched
        <5>2. ~Succeeded(c)'
          BY <1>3, <1>5, <5>1 DEF Kept
        <5>3. QED
          BY <2>3, <4>1, <5>2 DEF Fetched
      <4>2. QED
        BY <4>1
    <3>2. /\ runs'[u] = runs[u] /\ runs[u] \in Clicks \ {c}
          /\ trip[runs[u]] = u
      BY <1>10, <2>3, <3>1 DEF PageInv, Typed, Fetched, DrawnInv, DrawnOK
    <3>3. Still(runs[u])
      BY <1>6, <3>2
    <3>4. QED
      BY <1>1, <2>1, <2>3, <3>2, <3>3
         DEF PageInv, PatientInv, SucceededIsShown, Fetched, Still, Kept
  <2>4. QED
    BY <2>1, <2>2, <2>3 DEF PatientInv, SucceededIsShown
<1>14. NoRevisionMeansFault'
  BY <1>1 DEF PageInv, NoRevisionMeansFault
<1>15. QED
  BY <1>4, <1>11, <1>12, <1>13, <1>14 DEF PageInv

\* The revision arrives: it is that of the click's Run or a later one, unless
\* a request has failed.
LEMMA RevisionArrives ==
  ASSUME PageInv, NEW c \in Clicks, ArriveRevision(c)
  PROVE  PageInv'
<1> DEFINE t == trip[c]
<1>1. /\ UNCHANGED <<server, trip, got, hasty, runs, load, faults>>
      /\ c \in waiting /\ waiting' = waiting \ {c}
      /\ pc[c] = "answered" /\ Goto(c, "done")
      /\ IF got[c] = 0
           THEN error' = "revision" /\ planRevisions' = planRevisions
           ELSE /\ planRevisions' = [planRevisions EXCEPT ![t] = got[c]]
                /\ error' = error
  BY DEF ArriveRevision, loading
<1>2. t \in Trips /\ c \in ended /\ Succeeded(c)
  BY <1>1 DEF PageInv, ClickInv, ClickOK
<1>3. (got[c] = 0 /\ faults > 0) \/ got[c] >= Number(c)
  BY <1>1 DEF PageInv, ClickInv, ClickOK
<1>4. Number(c) \in Nat /\ Number(c) > 0 /\ got[c] \in Nat
  <2>1. Len(history[t]) \in Nat
    BY <1>2 DEF PageInv, Typed
  <2>2. QED
    BY <1>2, <2>1, NumberIsPlace DEF PageInv, Typed
<1>5. /\ pc' \in [Trips \cup Clicks -> Steps] /\ pc'[c] = "done"
      /\ \A k \in (Trips \cup Clicks) \ {c} : pc'[k] = pc[k]
  BY <1>1, GotoType DEF PageInv, Steps
<1>6. Typed'
  BY <1>1, <1>2, <1>5 DEF PageInv, Typed, server
<1>7. \A k \in Clicks : Kept(k)
  BY <1>1, UnchangedKept DEF server
<1>8. \A k \in Clicks \ {c} : Still(k)
  BY <1>1, <1>5, <1>7 DEF Still, server
<1>9. ClickOK(c)' /\ \A u \in Trips : runs'[u] = c => DrawnOK(u)'
  BY <1>1, <1>2, <1>5 DEF ClickOK, DrawnOK, PageInv, DrawnInv, server
<1>10. ClickInv' /\ DrawnInv'
  <2>1. faults' >= faults
    BY <1>1, FaultsGrow
  <2>2. QED
    BY <1>1, <1>6, <1>8, <1>9, <2>1, OneMoves
<1>11. ServerInv'
  BY <1>1, <1>5, <1>6, ServerFrame
<1>12. PatientInv'
  <2> SUFFICES ASSUME ~hasty' PROVE PatientInv'
    BY DEF PatientInv
  <2>1. ~hasty /\ load' = "done" /\ waiting \cap Clicks = {c} /\ runs[t] = c
    BY <1>1 DEF PageInv, PatientInv
  <2>2. waiting' \cap Clicks = {}
    BY <1>1, <2>1
  <2>3. ASSUME NEW u \in Trips, Fetched(runs[u])'
        PROVE  (planRevisions[u] >= Number(runs[u]))'
    <3>1. CASE u = t
      <4>1. got[c] # 0 /\ got[c] >= Number(c)
        BY <1>1, <1>3, <1>4, <2>1, <2>3, <3>1 DEF Fetched
      <4>2. planRevisions'[t] = got[c] /\ runs'[t] = c
        BY <1>1, <1>2, <2>1, <4>1 DEF PageInv, Typed
      <4>3. Number(c)' = Number(c)
        BY <1>2, <1>7 DEF Kept
      <4>4. QED
        BY <3>1, <4>1, <4>2, <4>3
    <3>2. CASE u # t
      <4>1. /\ runs'[u] = runs[u] /\ runs[u] \in Clicks
            /\ trip[runs[u]] = u /\ planRevisions'[u] = planRevisions[u]
        BY <1>1, <1>2, <2>3, <3>2
           DEF PageInv, Typed, Fetched, DrawnInv, DrawnOK
      <4>2. Still(runs[u])
        BY <1>8, <3>2, <4>1
      <4>3. QED
        BY <1>1, <2>1, <2>3, <4>1, <4>2
           DEF PageInv, PatientInv, SucceededIsShown, Fetched, Still, Kept
    <3>3. QED
      BY <3>1, <3>2
  <2>4. QED
    BY <2>1, <2>2, <2>3 DEF PatientInv, SucceededIsShown
<1>13. NoRevisionMeansFault'
  BY <1>1, <1>3, <1>4 DEF PageInv, NoRevisionMeansFault
<1>14. QED
  BY <1>6, <1>10, <1>11, <1>12, <1>13 DEF PageInv

\* The page starts anew; what it had asked for finds another page.
LEMMA Reloads ==
  ASSUME PageInv, Reload
  PROVE  PageInv'
<1>1. /\ UNCHANGED <<server, trip, pc, got, faults>>
      /\ runs' = [t \in Trips |-> None] /\ planRevisions' = [t \in Trips |-> 0]
      /\ waiting' = {} /\ hasty' = FALSE /\ error' = ""
  BY DEF Reload
<1>2. Typed'
  BY <1>1 DEF PageInv, Typed, server
<1>3. \A k \in Clicks : Still(k)
  BY <1>1, UnchangedKept DEF Still, server
<1>4. ServerInv'
  BY <1>1, <1>2, ServerFrame
<1>5. ClickInv' /\ DrawnInv'
  <2>1. faults' >= faults
    BY <1>1, FaultsGrow
  <2>2. \A t \in Trips : runs'[t] = None /\ DrawnOK(t)'
    BY <1>1 DEF DrawnOK
  <2>3. None \notin Clicks
    BY IdentifiersAssumption
  <2>4. QED
    BY <1>2, <1>3, <2>1, <2>2, <2>3, OneMoves
<1>6. PatientInv'
  BY <1>1 DEF PatientInv, SucceededIsShown, Fetched
<1>7. NoRevisionMeansFault'
  BY <1>1 DEF NoRevisionMeansFault
<1>8. QED
  BY <1>2, <1>4, <1>5, <1>6, <1>7 DEF PageInv

LEMMA LenOfFunction ==
  ASSUME NEW n \in Nat, NEW S, NEW s \in [1..n -> S]
  PROVE  Len(s) = n
  OBVIOUS

LEMMA SeqOfFunction ==
  ASSUME NEW n \in Nat, NEW T, NEW S \in SUBSET T, NEW s \in [1..n -> S]
  PROVE  s \in Seq(T)
  OBVIOUS

LEMMA EmptyHistory == <<>> \in Seq(Clicks) /\ 1..Len(<<>>) = {}
  OBVIOUS

LEMMA InitPageInv == Init => PageInv
<1> SUFFICES ASSUME Init PROVE PageInv
  OBVIOUS
<1> USE IdentifiersAssumption DEF Init, Server!Init
<1>1. \A c \in Clicks : pc[c] = "idle"
  <2>1. PICK S \in SUBSET Trips : stored \in SetToSeqs(S)
    OBVIOUS
  <2>2. Cardinality(S) \in Nat
    BY <2>1, TripsAssumption, FS_Subset, FS_CardinalityType
  <2>3. stored \in [1..Cardinality(S) -> S]
    BY <2>1 DEF SetToSeqs
  <2>4. Len(stored) = Cardinality(S)
    BY <2>2, <2>3, LenOfFunction
  <2>5. \A i \in 1..Len(stored) : stored[i] \in Trips
    BY <2>3, <2>4
  <2>6. \A c \in Clicks : ~Contains(stored, c)
    BY <2>5 DEF Contains
  <2>7. QED
    BY <2>6
<1>2. Typed
  <2>1. pc \in [Trips \cup Clicks -> Steps]
    BY DEF Steps
  <2>2. history \in [Trips -> Seq(Clicks)]
    BY EmptyHistory
  <2>3. QED
    BY <2>1, <2>2 DEF Typed
<1>3. ServerInv
  <2>1. \A t \in Trips : working[t] = None /\ 1..Len(history[t]) = {}
    BY EmptyHistory
  <2>2. QED
    BY <2>1 DEF ServerInv
<1>4. ClickInv /\ DrawnInv
  BY <1>1 DEF ClickInv, ClickOK, DrawnInv, DrawnOK
<1>5. PatientInv /\ NoRevisionMeansFault
  BY DEF PatientInv, SucceededIsShown, Fetched, NoRevisionMeansFault
<1>6. QED
  BY <1>2, <1>3, <1>4, <1>5 DEF PageInv

LEMMA NextPageInv == PageInv /\ [Next]_vars => PageInv'
<1> SUFFICES ASSUME PageInv, [Next]_vars PROVE PageInv'
  OBVIOUS
<1>1. ASSUME NEW c \in Clicks, StartRun(c) PROVE PageInv'
  BY <1>1, Starts, Accepts, Ends, Answers, StatusArrives, RevisionArrives
     DEF StartRun
<1>2. QED
  BY <1>1, LoadAndCreate, Answers, Reloads DEF Next

\* Whatever fails, whatever other tabs do and however often the page is
\* reloaded: a Planner who clicks only when the page has nothing to wait for
\* sees, beside a Run that succeeded, its revision or a later one, and the page
\* complains of a missing revision only after a failure.
THEOREM PageIsTruthfulHolds == Spec => []PageIsTruthful
<1>1. PageInv => PageIsTruthful
  BY DEF PageInv, PatientInv, PageIsTruthful
<1>2. QED
  BY <1>1, InitPageInv, NextPageInv, PTL DEF Spec

\* No Run's revision is reported but by the arrival of an answer that holds it.
LEMMA OnlyArrivalsReport ==
  ASSUME PageInv, [Next]_vars, NEW c \in Clicks,
         pc[c] = "answered", pc'[c] = "done"
  PROVE  ArriveRevision(c)
<1> USE IdentifiersAssumption DEF PageInv, Typed, Goto
<1>1. pc'[c] # pc[c]
  OBVIOUS
<1>2. ASSUME Load \/ Reload \/ UNCHANGED vars PROVE FALSE
  BY <1>1, <1>2 DEF Load, Reload, vars, calls, ServeList, ArriveList,
       ArriveNoList, ArriveReads, RejectLoad, ServeRead
<1>3. ASSUME NEW t \in Trips, CreateTrip(t) PROVE FALSE
  BY <1>1, <1>3 DEF CreateTrip, Create, ServeCreate, ArriveCreate
<1>4. ASSUME NEW x \in Trips \cup Clicks, Fail(x) \/ Reject(x) PROVE FALSE
  BY <1>1, <1>4 DEF Fail, Reject
<1>5. ASSUME NEW k \in Clicks, StartRun(k) PROVE ArriveRevision(c)
  <2>1. CASE \E t \in Trips : Click(k, t) \/ ClickElsewhere(k, t)
    BY <1>1, <2>1 DEF Click, ClickElsewhere
  <2>2. CASE ServeStart(k) \/ EndRun(k)
    BY <1>1, <2>2 DEF ServeStart, EndRun
  <2>3. CASE ArriveStart(k) \/ ServeRun(k)
    BY <1>1, <2>3 DEF ArriveStart, ServeRun
  <2>4. CASE ArriveRun(k) \/ ServeRevision(k)
    BY <1>1, <2>4 DEF ArriveRun, ServeRevision
  <2>5. CASE ArriveRevision(k)
    BY <1>1, <2>5 DEF ArriveRevision
  <2>6. QED
    BY <1>5, <2>1, <2>2, <2>3, <2>4, <2>5 DEF StartRun
<1>6. QED
  BY <1>2, <1>3, <1>4, <1>5 DEF Next

\* The revision that is fetched after a Run has succeeded and drawn is that of
\* the Run or a later one, also for a Planner in a hurry.
THEOREM ReportedRunIsShownHolds == Spec => ReportedRunIsShown
<1>1. ASSUME PageInv, [Next]_vars, NEW c \in Clicks, pc[c] = "answered",
             pc'[c] = "done", got[c] # 0
      PROVE  planRevisions'[trip[c]] >= Number(c)
  <2>1. planRevisions' = [planRevisions EXCEPT ![trip[c]] = got[c]]
    BY <1>1, OnlyArrivalsReport DEF ArriveRevision
  <2>2. got[c] >= Number(c) /\ trip[c] \in Trips
    BY <1>1 DEF PageInv, ClickInv, ClickOK
  <2>3. QED
    BY <1>1, <2>1, <2>2 DEF PageInv, Typed
<1>2. PageInv /\ [Next]_vars =>
        [\A c \in Clicks :
           pc[c] = "answered" /\ pc'[c] = "done" /\ got[c] # 0
             => planRevisions'[trip[c]] >= Number(c)]_pc
  BY <1>1
<1>3. QED
  BY <1>2, InitPageInv, NextPageInv, PTL DEF Spec, ReportedRunIsShown

-----------------------------------------------------------------------------
(***************************************************************************)
(* The list of Trips.                                                      *)
(***************************************************************************)
Lists ==
  /\ stored \in Seq(Trips) /\ list \in Seq(Trips) /\ trips \in Seq(Trips)
  /\ token \in BOOLEAN /\ error \in Errors
  /\ load \in {"listing", "listed", "refused", "reading", "done"}
  /\ read \in [Trips -> {"none", "asked", "answered"}]
  /\ faults \in 0..MaxFaults /\ reloads \in 0..MaxReloads

\* A Trip is stored and drawn once: no creation is sent before the list is
\* there, and what a creation waits for is not in the list.
Once ==
  /\ IsInjective(stored) /\ IsInjective(list)
  /\ load \in {"listing", "listed", "refused"} => ~token
  /\ ~token => trips = <<>> /\ waiting \cap Trips = {}
  /\ \A t \in Trips :
       /\ pc[t] \in {"idle", "creating"} => t \notin ToSet(stored)
       /\ pc[t] = "idle" => t \notin ToSet(list) \cup ToSet(trips)
       /\ t \in waiting => t \notin ToSet(trips) /\ pc[t] # "idle"

ListInv == PageInv /\ Lists /\ Once

LEMMA AppendOnce ==
  ASSUME NEW s \in Seq(Trips), NEW t \in Trips
  PROVE  /\ Append(s, t) \in Seq(Trips)
         /\ ToSet(Append(s, t)) = ToSet(s) \cup {t}
         /\ IsInjective(s) /\ t \notin ToSet(s) => IsInjective(Append(s, t))
<1>1. /\ Append(s, t) \in Seq(Trips) /\ DOMAIN s = 1..Len(s) /\ Len(s) \in Nat
      /\ DOMAIN Append(s, t) = 1..(Len(s) + 1)
      /\ Append(s, t)[Len(s) + 1] = t
      /\ \A n \in 1..Len(s) : Append(s, t)[n] = s[n]
  OBVIOUS
<1>2. ToSet(Append(s, t)) = ToSet(s) \cup {t}
  <2>1. ASSUME NEW x PROVE x \in ToSet(Append(s, t)) <=> x \in ToSet(s) \cup {t}
    BY <1>1 DEF ToSet
  <2>2. QED
    BY <2>1
<1>3. ASSUME IsInjective(s), t \notin ToSet(s) PROVE IsInjective(Append(s, t))
  BY <1>1, <1>3 DEF IsInjective, ToSet
<1>4. QED
  BY <1>1, <1>2, <1>3

\* A step that leaves the lists alone.
LEMMA ListsFrame ==
  ASSUME ListInv, UNCHANGED <<stored, list, trips, token>>, error' \in Errors,
         read' \in [Trips -> {"none", "asked", "answered"}],
         load' = load \/ (load' \in {"reading", "done"} /\ load # "listed"),
         faults' = faults \/ Fault, reloads' = reloads,
         waiting' \cap Trips \subseteq waiting,
         \A t \in Trips : \/ pc'[t] = pc[t]
                          \/ pc'[t] \notin {"idle", "creating"}
  PROVE  Lists' /\ Once'
<1>1. Lists'
  BY BoundsAssumption DEF ListInv, Lists, Fault
<1>2. Once'
  <2>1. /\ load' \in {"listing", "listed", "refused"} => ~token'
        /\ ~token' => trips' = <<>> /\ waiting' \cap Trips = {}
    BY DEF ListInv, Once
  <2>2. ASSUME NEW t \in Trips
        PROVE  /\ pc'[t] \in {"idle", "creating"} => t \notin ToSet(stored')
               /\ pc'[t] = "idle" => t \notin ToSet(list') \cup ToSet(trips')
               /\ t \in waiting' => t \notin ToSet(trips') /\ pc'[t] # "idle"
    BY <2>2 DEF ListInv, Once
  <2>3. QED
    BY <2>1, <2>2 DEF ListInv, Once
<1>3. QED
  BY <1>1, <1>2

\* Clicks leave the lists alone.
LEMMA ClicksKeepLists ==
  ASSUME ListInv, NEW c \in Clicks, StartRun(c) \/ Fail(c) \/ Reject(c)
  PROVE  Lists' /\ Once'
<1>1. UNCHANGED <<stored, list, trips, token, read, load, reloads>>
  BY DEF StartRun, Click, ClickElsewhere, ServeStart, EndRun, ArriveStart,
         ServeRun, ArriveRun, ServeRevision, ArriveRevision, Fail, Reject,
         page, loading
<1>2. faults' = faults \/ Fault
  BY DEF StartRun, Click, ClickElsewhere, ServeStart, EndRun, ArriveStart,
         ServeRun, ArriveRun, ServeRevision, ArriveRevision, Fail, Reject
<1>3. error' \in Errors
  BY DEF StartRun, Click, ClickElsewhere, ServeStart, EndRun, ArriveStart,
         ServeRun, ArriveRun, ServeRevision, ArriveRevision, Fail, Reject,
         page, Errors, ListInv, Lists
<1>4. waiting' \cap Trips \subseteq waiting
  BY IdentifiersAssumption
     DEF StartRun, Click, ClickElsewhere, ServeStart, EndRun, ArriveStart,
         ServeRun, ArriveRun, ServeRevision, ArriveRevision, Fail, Reject,
         calls
<1>5. \A t \in Trips : pc'[t] = pc[t]
  <2>1. pc' = [pc EXCEPT ![c] = pc'[c]]
    BY DEF StartRun, Click, ClickElsewhere, ServeStart, EndRun, ArriveStart,
           ServeRun, ArriveRun, ServeRevision, ArriveRevision, Fail, Reject,
           Goto, ListInv, PageInv, Typed
  <2>2. QED
    BY <2>1, IdentifiersAssumption DEF ListInv, PageInv, Typed
<1>6. QED
  BY <1>1, <1>2, <1>3, <1>4, <1>5, ListsFrame DEF ListInv, Lists

LEMMA ReloadCounts ==
  ASSUME ListInv, Reload
  PROVE  reloads' \in 0..MaxReloads /\ reloads' # reloads
<1>1. reloads \in 0..MaxReloads
  BY DEF ListInv, Lists
<1>2. reloads < MaxReloads /\ reloads' = reloads + 1
  BY DEF Reload
<1>3. QED
  BY <1>1, <1>2, BoundsAssumption

LEMMA NextListInv == ListInv /\ [Next]_vars => ListInv'
<1> SUFFICES ASSUME ListInv, [Next]_vars PROVE Lists' /\ Once'
  BY NextPageInv DEF ListInv
<1> USE DEF page, loading, calls
<1>1. CASE ServeList
  <2>1. CASE load' = "refused" /\ Fault /\ UNCHANGED list
    BY <1>1, <2>1, BoundsAssumption
       DEF ServeList, Fault, ListInv, Lists, Once
  <2>2. CASE load' = "listed" /\ list' = stored /\ UNCHANGED faults
    BY <1>1, <2>2 DEF ServeList, ListInv, Lists, Once
  <2>3. QED
    BY <1>1, <2>1, <2>2 DEF ServeList
<1>2. CASE ArriveList
  <2>1. Lists'
    BY <1>2 DEF ArriveList, ListInv, Lists
  <2>2. Once'
    BY <1>2 DEF ArriveList, ListInv, Lists, Once
  <2>3. QED
    BY <2>1, <2>2
<1>3. CASE ArriveNoList \/ ArriveReads \/ RejectLoad
  <2>1. error' \in Errors /\ read' \in [Trips -> {"none", "asked", "answered"}]
    BY <1>3 DEF ArriveNoList, ArriveReads, RejectLoad, Errors, ListInv, Lists
  <2>2. QED
    BY <1>3, <2>1, ListsFrame DEF ArriveNoList, ArriveReads, RejectLoad
<1>4. ASSUME NEW t \in Trips, ServeRead(t) PROVE Lists' /\ Once'
  <2>1. read' \in [Trips -> {"none", "asked", "answered"}]
    BY <1>4 DEF ServeRead, ListInv, Lists
  <2>2. QED
    BY <1>4, <2>1, ListsFrame DEF ServeRead, ListInv, Lists
<1>5. ASSUME NEW t \in Trips, Create(t) PROVE Lists' /\ Once'
  <2>1. /\ pc'[t] = "creating" /\ waiting' = waiting \cup {t}
        /\ \A u \in Trips \ {t} : pc'[u] = pc[u]
        /\ token /\ pc[t] = "idle" /\ error' = ""
        /\ UNCHANGED <<stored, list, trips, token, read, load, faults, reloads>>
    BY <1>5 DEF Create, Goto, ListInv, PageInv, Typed
  <2>2. Lists'
    BY <2>1 DEF ListInv, Lists, Errors
  <2>3. Once'
    BY <2>1 DEF ListInv, Once
  <2>4. QED
    BY <2>2, <2>3
<1>6. ASSUME NEW t \in Trips, ServeCreate(t) PROVE Lists' /\ Once'
  <2>1. /\ pc'[t] = "created" /\ pc[t] = "creating"
        /\ \A u \in Trips \ {t} : pc'[u] = pc[u]
        /\ stored' = Append(stored, t)
        /\ UNCHANGED <<list, trips, token, read, load, faults, reloads, error,
                       waiting>>
    BY <1>6 DEF ServeCreate, Goto, ListInv, PageInv, Typed
  <2>2. /\ stored' \in Seq(Trips) /\ IsInjective(stored')
        /\ ToSet(stored') = ToSet(stored) \cup {t}
    BY <2>1, AppendOnce DEF ListInv, Lists, Once
  <2>3. Lists'
    BY <2>1, <2>2 DEF ListInv, Lists
  <2>4. Once'
    BY <2>1, <2>2 DEF ListInv, Once
  <2>5. QED
    BY <2>3, <2>4
<1>7. ASSUME NEW t \in Trips, ArriveCreate(t) PROVE Lists' /\ Once'
  <2>1. /\ pc'[t] = "done" /\ t \in waiting /\ waiting' = waiting \ {t}
        /\ \A u \in Trips \ {t} : pc'[u] = pc[u]
        /\ trips' \in {trips, Append(trips, t)} /\ error' \in {error, "create"}
        /\ UNCHANGED <<stored, list, token, read, load, faults, reloads>>
    BY <1>7 DEF ArriveCreate, Goto, ListInv, PageInv, Typed
  <2>2. /\ trips' \in Seq(Trips) /\ ToSet(trips') \subseteq ToSet(trips) \cup {t}
    <3>1. trips \in Seq(Trips)
      BY DEF ListInv, Lists
    <3>2. /\ Append(trips, t) \in Seq(Trips)
          /\ ToSet(Append(trips, t)) = ToSet(trips) \cup {t}
      BY <3>1, AppendOnce
    <3>3. CASE trips' = trips
      BY <3>1, <3>3
    <3>4. CASE trips' = Append(trips, t)
      BY <3>2, <3>4
    <3>5. QED
      BY <2>1, <3>3, <3>4
  <2>3. Lists'
    BY <2>1, <2>2 DEF ListInv, Lists, Errors
  <2>4. token
    BY <2>1 DEF ListInv, Once, Lists
  <2>5. Once'
    BY <2>1, <2>2, <2>4 DEF ListInv, Once
  <2>6. QED
    BY <2>3, <2>5
<1>8. ASSUME NEW t \in Trips, Fail(t) \/ Reject(t) PROVE Lists' /\ Once'
  <2>1. \A u \in Trips : pc'[u] = pc[u] \/ pc'[u] \notin {"idle", "creating"}
    BY <1>8 DEF Fail, Reject, Goto, ListInv, PageInv, Typed
  <2>2. waiting' \cap Trips \subseteq waiting
    BY <1>8 DEF Fail, Reject
  <2>3. QED
    BY <1>8, <2>1, <2>2, ListsFrame DEF Fail, Reject, ListInv, Lists
<1>9. CASE Reload
  <2>1. Lists'
    <3>1. reloads' \in 0..MaxReloads /\ <<>> \in Seq(Trips)
      BY <1>9, ReloadCounts
    <3>2. /\ trips' = <<>> /\ list' = <<>> /\ token' = FALSE /\ error' = ""
          /\ load' = "listing" /\ read' = [t \in Trips |-> "none"]
          /\ UNCHANGED <<stored, faults>>
      BY <1>9 DEF Reload
    <3>3. QED
      BY <3>1, <3>2 DEF ListInv, Lists, Errors
  <2>2. ToSet(<<>>) = {} /\ IsInjective(<<>>)
    BY DEF ToSet, IsInjective
  <2>3. Once'
    BY <1>9, <2>2 DEF Reload, ListInv, Once
  <2>4. QED
    BY <2>1, <2>3
<1>10. CASE UNCHANGED vars
  BY <1>10, ListsFrame DEF vars, ListInv, Lists
<1>11. QED
  BY <1>1, <1>2, <1>3, <1>4, <1>5, <1>6, <1>7, <1>8, <1>9, <1>10,
     ClicksKeepLists DEF Next, Load, CreateTrip

LEMMA InitListInv == Init => ListInv
<1> SUFFICES ASSUME Init PROVE Lists /\ Once
  BY InitPageInv DEF ListInv
<1> PICK S \in SUBSET Trips : stored \in SetToSeqs(S)
  BY DEF Init
<1>1. Cardinality(S) \in Nat
  BY TripsAssumption, FS_Subset, FS_CardinalityType
<1>2. /\ stored \in [1..Cardinality(S) -> S] /\ IsInjective(stored)
  BY DEF SetToSeqs, IsInjective
<1>3. Len(stored) = Cardinality(S) /\ stored \in Seq(Trips)
  BY <1>1, <1>2, LenOfFunction, SeqOfFunction
<1>4. ToSet(<<>>) = {} /\ IsInjective(<<>>) /\ <<>> \in Seq(Trips)
  BY DEF ToSet, IsInjective
<1>5. Lists
  <2>1. /\ trips = <<>> /\ list = <<>> /\ token = FALSE /\ error = ""
        /\ load = "listing" /\ read = [t \in Trips |-> "none"]
        /\ faults = 0 /\ reloads = 0
    BY DEF Init
  <2>2. 0 \in 0..MaxFaults /\ 0 \in 0..MaxReloads
    BY BoundsAssumption
  <2>3. QED
    BY <1>3, <1>4, <2>1, <2>2 DEF Lists, Errors
<1>6. \A t \in Trips : pc[t] \in {"idle", "creating"} => t \notin ToSet(stored)
  BY <1>2, <1>3 DEF Init, Contains, ToSet
<1>7. Once
  BY <1>2, <1>4, <1>6 DEF Init, Once
<1>8. QED
  BY <1>5, <1>7

\* Every variable of the page and of the server keeps its type.
THEOREM TypeCorrect == Spec => []TypeOK
<1>1. ASSUME NEW s \in Seq(Trips) PROVE ToSet(s) \subseteq Trips
  BY DEF ToSet
<1>2. ASSUME NEW s \in Seq(Clicks) PROVE ToSet(s) \subseteq Clicks
  BY DEF ToSet
<1>3. ListInv => TypeOK
  BY <1>1, <1>2 DEF ListInv, PageInv, Typed, Steps, Lists, TypeOK
<1>4. QED
  BY <1>3, InitListInv, NextListInv, PTL DEF Spec

\* The Trips that are drawn stay until the page is reloaded, each drawn once: a
\* creation cannot be answered before the list of the load is drawn.
THEOREM KeepsItsTripsHolds == Spec => KeepsItsTrips
<1> DEFINE Keeps == \/ reloads' # reloads
                    \/ trips = <<>> /\ IsInjective(trips')
                    \/ \E t \in Trips \ ToSet(trips) : trips' = Append(trips, t)
<1>1. ASSUME ListInv, [Next]_vars, trips' # trips PROVE Keeps
  <2>1. CASE Reload
    BY <1>1, <2>1, ReloadCounts
  <2>2. CASE ArriveList
    BY <1>1, <2>2 DEF ArriveList, ListInv, Once
  <2>3. ASSUME NEW t \in Trips, ArriveCreate(t) PROVE Keeps
    BY <1>1, <2>3 DEF ArriveCreate, ListInv, Once
  <2>4. Reload \/ ArriveList \/ \E t \in Trips : ArriveCreate(t)
    BY <1>1
       DEF Next, vars, page, Load, ServeList, ArriveNoList, ArriveReads,
           RejectLoad, ServeRead, CreateTrip, Create, ServeCreate, StartRun,
           Click, ClickElsewhere, ServeStart, EndRun, ArriveStart, ServeRun,
           ArriveRun, ServeRevision, ArriveRevision, Fail, Reject
  <2>5. QED
    BY <2>1, <2>2, <2>3, <2>4
<1>2. ListInv /\ [Next]_vars => [Keeps]_trips
  BY <1>1
<1>3. QED
  BY <1>2, InitListInv, NextListInv, PTL DEF Spec, KeepsItsTrips

-----------------------------------------------------------------------------
\* What the page calls is PlanHistory, which the requests of TripRuns
\* implement: no call of the page, its failures and reloads included, does more
\* to the server than to have a Run accepted.
THEOREM ServerHolds == Spec => Server!Spec
<1>1. Init => Server!Init
  BY DEF Init
<1>2. PageInv /\ [Next]_vars => [Server!Next]_Server!vars
  <2> SUFFICES ASSUME PageInv, [Next]_vars PROVE Server!Next \/ UNCHANGED server
    BY DEF Server!vars, server
  <2>1. ASSUME NEW c \in Clicks, ServeStart(c)
        PROVE  Server!Next \/ UNCHANGED server
    <3>1. trip[c] \in Trips
      BY <2>1 DEF ServeStart, PageInv, ClickInv, ClickOK
    <3>2. QED
      BY <2>1, <3>1 DEF ServeStart, Server!Next
  <2>2. ASSUME NEW c \in Clicks, EndRun(c)
        PROVE  Server!Next \/ UNCHANGED server
    BY <2>2 DEF EndRun, Server!Next, PageInv, Typed
  <2>3. QED
    BY <2>1, <2>2
       DEF Next, vars, Load, ServeList, ArriveList, ArriveNoList, ServeRead,
           ArriveReads, RejectLoad, CreateTrip, Create, ServeCreate,
           ArriveCreate, StartRun, Click, ClickElsewhere, ArriveStart,
           ServeRun, ArriveRun, ServeRevision, ArriveRevision, Fail, Reject,
           Reload
<1>3. QED
  BY <1>1, <1>2, InitPageInv, NextPageInv, PTL DEF Spec, Server!Spec
=============================================================================
