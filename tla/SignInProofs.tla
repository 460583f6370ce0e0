---------------------------- MODULE SignInProofs ----------------------------
(***************************************************************************)
(* Proofs, for any number of attempts and callbacks, any lifetime and any  *)
(* failures and restarts, that sessions are solicited, that a callback     *)
(* that is refused costs the browser nothing, that an attempt nobody       *)
(* disturbs is not refused, and that a process makes one discovery.        *)
(***************************************************************************)
EXTENDS SignIn, TLAPS

Issued == live \cup revoked

\* A callback that has redeemed its code and may issue, or has issued, a session.
Winner(r) == pc[r] \in {"resolving", "creating"} \/ r \in Issued

\* An attempt is named by a URL once its tab has come back, and for good.
Returned ==
  /\ \A r \in Callbacks : url[r] # None => pc[url[r]] = "returned"
  /\ \A a \in Attempts : tab[a] # None => pc[a] = "returned"

\* Where a callback stands says what it has been through.
PlaceOf(r) ==
  /\ pc[r] = "idle" => url[r] = None
  /\ pc[r] # "idle" => url[r] # None
  /\ r \in Issued => pc[r] \notin {"idle", "sent", "exchanging", "resolving"}
  /\ pc[r] \in {"exchanging", "resolving", "creating"} =>
       /\ brought[r] = url[r]
       /\ url[r] \notin denied
       /\ opened[r] <= sealed[url[r]] + Lifetime
Places == \A r \in Callbacks : PlaceOf(r)

\* A code is redeemed by one callback, which was in time.
WinnersAreSolicited ==
  \A r \in Callbacks : Winner(r) =>
    /\ url[r] \in redeemed \ denied
    /\ opened[r] <= sealed[url[r]] + Lifetime
    /\ \A q \in Callbacks : Winner(q) /\ url[q] = url[r] => q = r

\* A session is known to the browser, and so can be revoked, only after the
\* answer that brought it.
KnownIsSignedIn ==
  \A r \in Callbacks :
    \/ session = r \/ r \in revoked
    \/ \E q \in Callbacks : previous[q] = r
    => pc[r] = "signed in"

\* While nobody has disturbed an attempt, the cookie is its own, and so is the
\* one callback that carries it.
Undisturbed ==
  /\ \A a \in Attempts \ disturbed : pc[a] = "away" => transaction = a
  /\ \A r \in Callbacks :
       url[r] \notin disturbed =>
         /\ brought[r] = url[r]
         /\ \A q \in Callbacks : url[q] = url[r] /\ url[r] # None => q = r

\* A code that is redeemed was redeemed by a callback that has come further.
RedeemedByCallback ==
  \A a \in redeemed : \E r \in Callbacks :
    url[r] = a /\ pc[r] \notin {"idle", "sent", "exchanging"}

\* A discovery that failed is a fault, and one that has not begun is none.
RuntimeInv ==
  /\ runtime = "failed" => faults > 0
  /\ runtime = "none" => discoveries = 0
  /\ OneDiscovery

IInv ==
  /\ TypeOK /\ Returned /\ Places /\ WinnersAreSolicited /\ KnownIsSignedIn
  /\ HeldSessionIsLive /\ Undisturbed /\ RedeemedByCallback
  /\ UndisturbedSucceeds /\ RuntimeInv

LEMMA InitIInv == Init => IInv
<1> SUFFICES ASSUME Init PROVE IInv
  OBVIOUS
<1> USE AttemptsAssumption, SessionsAssumption, BoundsAssumption DEF Init
<1>1. TypeOK
  BY DEF TypeOK, Sessions, Steps
<1>2. Returned /\ Places /\ WinnersAreSolicited
  BY DEF Returned, Places, PlaceOf, WinnersAreSolicited, Winner, Issued
<1>3. KnownIsSignedIn /\ HeldSessionIsLive
  BY DEF KnownIsSignedIn, HeldSessionIsLive
<1>4. Undisturbed /\ RedeemedByCallback /\ UndisturbedSucceeds /\ RuntimeInv
  BY DEF Undisturbed, RedeemedByCallback, UndisturbedSucceeds, RuntimeInv,
         OneDiscovery
<1>5. QED
  BY <1>1, <1>2, <1>3, <1>4 DEF IInv
-----------------------------------------------------------------------------
\* A step that moves x.
LEMMA MovePc ==
  ASSUME TypeOK, NEW x \in Attempts \cup Callbacks, NEW step \in Steps,
         Goto(x, step)
  PROVE  /\ pc' \in [Attempts \cup Callbacks -> Steps]
         /\ pc'[x] = step
         /\ \A y \in (Attempts \cup Callbacks) \ {x} : pc'[y] = pc[y]
  BY DEF TypeOK, Goto

LEMMA FaultCounts ==
  /\ IInv => faults \in Nat /\ faults \in 0..MaxFaults
  /\ IInv /\ Fault => faults' \in 0..MaxFaults /\ faults' > 0
  BY BoundsAssumption DEF IInv, TypeOK, Fault

\* Time and the discovery: nothing else moves.
LEMMA RuntimeIInv == IInv /\ (Tick \/ Discover \/ Discovered) => IInv'
<1> SUFFICES ASSUME IInv, Tick \/ Discover \/ Discovered PROVE IInv'
  OBVIOUS
<1>1. UNCHANGED <<redeemed, denied, live, revoked, transaction, session, tab, pc,
                  sealed, url, brought, previous, opened, since, disturbed,
                  restarts>>
  BY DEF Tick, Discover, Discovered, process, store, browser, request
<1>2. /\ clock' \in 1..MaxTime
      /\ runtime' \in {"none", "loading", "ready", "failed"}
      /\ discoveries' \in Nat
      /\ faults' \in 0..MaxFaults /\ faults' >= faults
      /\ RuntimeInv'
  BY BoundsAssumption
     DEF IInv, TypeOK, RuntimeInv, OneDiscovery, Tick, Discover, Discovered,
         Fault, process
<1>3. TypeOK'
  BY <1>1, <1>2 DEF IInv, TypeOK
<1>4. Returned' /\ Places' /\ WinnersAreSolicited' /\ KnownIsSignedIn'
  BY <1>1 DEF IInv, Returned, Places, PlaceOf, WinnersAreSolicited, Winner,
              Issued, KnownIsSignedIn
<1>5. HeldSessionIsLive' /\ Undisturbed' /\ RedeemedByCallback'
  BY <1>1 DEF IInv, HeldSessionIsLive, Undisturbed, RedeemedByCallback
<1>6. UndisturbedSucceeds'
  BY <1>1, <1>2 DEF IInv, TypeOK, UndisturbedSucceeds
<1>7. QED
  BY <1>2, <1>3, <1>4, <1>5, <1>6 DEF IInv
-----------------------------------------------------------------------------
(***************************************************************************)
(* GET sign-in.  No URL names an attempt whose tab has not come back.      *)
(***************************************************************************)
LEMMA NotNamed ==
  ASSUME IInv, NEW a \in Attempts, pc[a] # "returned"
  PROVE  \A r \in Callbacks : url[r] # a
  BY AttemptsAssumption DEF IInv, Returned

\* An attempt moves before its tab has come back.
LEMMA AttemptIInv ==
  ASSUME IInv, NEW a \in Attempts, NEW step \in Steps, Goto(a, step),
         pc[a] # "returned", step # "away",
         sealed' \in [Attempts -> 0..MaxTime],
         \A b \in Attempts \ {a} : sealed'[b] = sealed[b],
         since' \in [Attempts -> 0..MaxFaults],
         faults' \in 0..MaxFaults, faults' >= faults,
         UNCHANGED <<clock, runtime, discoveries, redeemed, denied, live, revoked,
                     transaction, session, tab, url, brought, previous, opened,
                     disturbed, restarts>>
  PROVE  IInv'
<1>1. /\ pc' \in [Attempts \cup Callbacks -> Steps]
      /\ pc'[a] = step
      /\ \A y \in (Attempts \cup Callbacks) \ {a} : pc'[y] = pc[y]
  BY MovePc DEF IInv
<1>2. \A r \in Callbacks : url[r] # a /\ pc'[r] = pc[r]
  BY <1>1, NotNamed, AttemptsAssumption
<1>3. TypeOK'
  BY <1>1 DEF IInv, TypeOK
<1>4. \A r \in Callbacks : url[r] \in (Attempts \ {a}) \cup {None}
  BY <1>2 DEF IInv, TypeOK
<1>5. Returned'
  <2>1. \A r \in Callbacks : url[r] # None => pc'[url[r]] = "returned"
    BY <1>1, <1>4 DEF IInv, Returned
  <2>2. \A b \in Attempts : tab[b] # None => pc'[b] = "returned"
    BY <1>1 DEF IInv, Returned
  <2>3. QED
    BY <2>1, <2>2 DEF Returned
<1>6. \A r \in Callbacks : url[r] # None => sealed'[url[r]] = sealed[url[r]]
  BY <1>4
<1>7. Places'
  BY <1>2, <1>6 DEF IInv, Places, PlaceOf, Issued
<1>8. WinnersAreSolicited'
  BY <1>2, <1>6, AttemptsAssumption
     DEF IInv, TypeOK, WinnersAreSolicited, Winner, Issued
<1>9. KnownIsSignedIn' /\ HeldSessionIsLive' /\ RedeemedByCallback'
  BY <1>2 DEF IInv, KnownIsSignedIn, HeldSessionIsLive, RedeemedByCallback
<1>10. Undisturbed'
  BY <1>1 DEF IInv, Undisturbed
<1>11. UndisturbedSucceeds'
  <2>1. \A r \in Callbacks : pc[r] # "idle" => url[r] # None
    BY DEF IInv, Places, PlaceOf
  <2>2. QED
    BY <1>2, <1>6, <2>1 DEF IInv, TypeOK, UndisturbedSucceeds
<1>12. RuntimeInv'
  BY DEF IInv, TypeOK, RuntimeInv, OneDiscovery
<1>13. QED
  BY <1>3, <1>5, <1>7, <1>8, <1>9, <1>10, <1>11, <1>12 DEF IInv

LEMMA SignInIInv == ASSUME IInv, NEW a \in Attempts, SignIn(a) PROVE IInv'
<1>1. CASE SendSignIn(a)
  <2>1. /\ pc[a] = "idle" /\ Goto(a, "sent") /\ "sent" \in Steps
        /\ since' \in [Attempts -> 0..MaxFaults] /\ faults' = faults
        /\ UNCHANGED <<clock, runtime, discoveries, redeemed, denied, live,
                       revoked, transaction, session, tab, url, brought, previous,
                       opened, sealed, disturbed, restarts>>
    BY <1>1 DEF SendSignIn, process, store, browser, IInv, TypeOK, Steps
  <2>2. sealed \in [Attempts -> 0..MaxTime] /\ faults \in 0..MaxFaults
    BY DEF IInv, TypeOK
  <2>3. QED
    BY <2>1, <2>2, AttemptIInv
<1>2. CASE Begin(a)
  <2>1. PICK step \in {"redirected", "refused"} : Goto(a, step)
    BY <1>2 DEF Begin
  <2>2. /\ pc[a] = "sent" /\ step \in Steps
        /\ sealed' = [sealed EXCEPT ![a] = clock] \/ sealed' = sealed
        /\ UNCHANGED <<clock, runtime, discoveries, redeemed, denied, live,
                       revoked, transaction, session, tab, url, brought, previous,
                       opened, since, disturbed, faults, restarts>>
    BY <1>2 DEF Begin, process, store, browser, Steps
  <2>3. /\ sealed' \in [Attempts -> 0..MaxTime]
        /\ \A b \in Attempts \ {a} : sealed'[b] = sealed[b]
    BY <2>2, BoundsAssumption DEF IInv, TypeOK
  <2>4. since \in [Attempts -> 0..MaxFaults] /\ faults \in 0..MaxFaults
    BY DEF IInv, TypeOK
  <2>5. QED
    BY <2>1, <2>2, <2>3, <2>4, AttemptIInv
<1>3. CASE ArriveBegin(a)
  <2>1. /\ pc[a] = "redirected" /\ Goto(a, "away") /\ "away" \in Steps
        /\ transaction' = a
        /\ disturbed' = disturbed \cup ({transaction} \ {None})
        /\ UNCHANGED <<clock, runtime, discoveries, redeemed, denied, live,
                       revoked, session, tab, url, brought, previous, opened,
                       sealed, since, faults, restarts>>
    BY <1>3 DEF ArriveBegin, process, store, request, Steps
  <2>2. /\ pc' \in [Attempts \cup Callbacks -> Steps]
        /\ pc'[a] = "away"
        /\ \A y \in (Attempts \cup Callbacks) \ {a} : pc'[y] = pc[y]
    BY <2>1, MovePc DEF IInv
  <2>3. \A r \in Callbacks : url[r] # a /\ pc'[r] = pc[r]
    BY <2>1, <2>2, NotNamed, AttemptsAssumption
  <2>4. TypeOK'
    BY <2>1, <2>2 DEF IInv, TypeOK
  <2>5. \A r \in Callbacks : url[r] \in (Attempts \ {a}) \cup {None}
    BY <2>3 DEF IInv, TypeOK
  <2>6. Returned' /\ Places' /\ WinnersAreSolicited'
    BY <2>1, <2>2, <2>3, <2>5
       DEF IInv, Returned, Places, PlaceOf, WinnersAreSolicited, Winner, Issued
  <2>7. KnownIsSignedIn' /\ HeldSessionIsLive' /\ RedeemedByCallback'
    BY <2>1, <2>3 DEF IInv, KnownIsSignedIn, HeldSessionIsLive,
                      RedeemedByCallback
  <2>8. Undisturbed'
    BY <2>1, <2>2, AttemptsAssumption DEF IInv, TypeOK, Undisturbed
  <2>9. UndisturbedSucceeds' /\ RuntimeInv'
    BY <2>1, <2>3 DEF IInv, UndisturbedSucceeds, RuntimeInv, OneDiscovery
  <2>10. QED
    BY <2>4, <2>6, <2>7, <2>8, <2>9 DEF IInv
<1>4. QED
  BY <1>1, <1>2, <1>3 DEF SignIn
-----------------------------------------------------------------------------
(***************************************************************************)
(* The tab comes back to the callback.                                     *)
(***************************************************************************)

\* What a first request and a reload have in common; Return brings an attempt
\* that no URL names yet, Reload disturbs one that some URL names.
LEMMA SendIInv ==
  ASSUME IInv, NEW a \in Attempts, NEW r \in Callbacks, SendCallback(a, r),
         \/ /\ pc[a] = "away"
            /\ denied' \in {denied, denied \cup {a}}
            /\ disturbed' = disturbed
         \/ /\ pc[a] = "returned"
            /\ denied' = denied
            /\ disturbed' = disturbed \cup {a}
  PROVE  IInv'
<1>1. /\ pc[r] = "idle"
      /\ tab' = [tab EXCEPT ![a] = r]
      /\ url' = [url EXCEPT ![r] = a]
      /\ brought' = [brought EXCEPT ![r] = transaction]
      /\ pc' = [pc EXCEPT ![a] = "returned", ![r] = "sent"]
      /\ UNCHANGED <<clock, runtime, discoveries, redeemed, live, revoked,
                     transaction, session, sealed, opened, since, faults,
                     restarts>>
  BY DEF SendCallback, process
<1>2. PICK s \in {session, None} : previous' = [previous EXCEPT ![r] = s]
  BY DEF SendCallback
<1>3. /\ pc' \in [Attempts \cup Callbacks -> Steps]
      /\ pc'[a] = "returned" /\ pc'[r] = "sent" /\ a # r
      /\ \A y \in (Attempts \cup Callbacks) \ {a, r} : pc'[y] = pc[y]
  BY <1>1, AttemptsAssumption DEF IInv, TypeOK, Steps
<1>4. /\ url'[r] = a /\ brought'[r] = transaction /\ previous'[r] = s
      /\ \A q \in Callbacks \ {r} :
           /\ url'[q] = url[q] /\ brought'[q] = brought[q]
           /\ previous'[q] = previous[q] /\ pc'[q] = pc[q]
  BY <1>1, <1>2, <1>3, AttemptsAssumption DEF IInv, TypeOK
<1>5. url[r] = None /\ r \notin Issued
  BY <1>1 DEF IInv, Places, PlaceOf
<1>6. \A q \in Callbacks : pc[a] = "away" => url[q] # a
  BY NotNamed
<1>7. denied \subseteq denied' /\ denied' \subseteq Attempts
  BY DEF IInv, TypeOK
<1>8. TypeOK'
  <2>1. s \in Sessions \cup {None}
    BY DEF IInv, TypeOK
  <2>2. /\ url' \in [Callbacks -> Attempts \cup {None}]
        /\ brought' \in [Callbacks -> Attempts \cup {None}]
        /\ previous' \in [Callbacks -> Sessions \cup {None}]
        /\ tab' \in [Attempts -> Callbacks \cup {None}]
    BY <1>1, <1>2, <2>1 DEF IInv, TypeOK
  <2>3. disturbed' \subseteq Attempts
    BY DEF IInv, TypeOK
  <2>4. QED
    BY <1>1, <1>3, <1>7, <2>2, <2>3 DEF IInv, TypeOK
<1>9. Returned'
  <2>1. ASSUME NEW q \in Callbacks, url'[q] # None PROVE pc'[url'[q]] = "returned"
    <3>1. CASE q = r
      BY <1>3, <1>4, <3>1
    <3>2. CASE q # r
      <4>1. pc[url[q]] = "returned" /\ url[q] \in Attempts
        BY <1>4, <2>1, <3>2 DEF IInv, TypeOK, Returned
      <4>2. QED
        BY <1>3, <1>4, <3>2, <4>1, AttemptsAssumption
    <3>3. QED
      BY <3>1, <3>2
  <2>2. ASSUME NEW b \in Attempts, tab'[b] # None PROVE pc'[b] = "returned"
    BY <1>1, <1>3, <2>2, AttemptsAssumption DEF IInv, TypeOK, Returned
  <2>3. QED
    BY <2>1, <2>2 DEF Returned
<1>10. Places'
  BY <1>1, <1>3, <1>4, <1>5, <1>6, AttemptsAssumption
     DEF IInv, Places, PlaceOf, Issued
<1>11. WinnersAreSolicited'
  <2>1. \A q \in Callbacks : Winner(q)' => Winner(q) /\ q # r
    BY <1>1, <1>3, <1>4, <1>5 DEF Winner, Issued
  <2>2. QED
    BY <1>1, <1>4, <1>6, <2>1 DEF IInv, WinnersAreSolicited
<1>12. KnownIsSignedIn'
  <2>1. SUFFICES ASSUME NEW q \in Callbacks,
                        \/ session = q \/ q \in revoked
                        \/ \E p \in Callbacks : previous'[p] = q
                 PROVE  pc'[q] = "signed in"
    BY <1>1 DEF KnownIsSignedIn
  <2>2. CASE session = q \/ q \in revoked \/ \E p \in Callbacks : previous[p] = q
    <3>1. pc[q] = "signed in"
      BY <2>2 DEF IInv, KnownIsSignedIn
    <3>2. QED
      BY <1>1, <1>4, <3>1
  <2>3. CASE s = q
    BY <2>2, <2>3, SessionsAssumption
  <2>4. QED
    BY <1>4, <2>1, <2>2, <2>3
<1>13. HeldSessionIsLive'
  <2>1. SUFFICES ASSUME session \in revoked PROVE HeldSessionIsLive'
    BY <1>1 DEF HeldSessionIsLive
  <2>2. PICK q \in Callbacks :
          /\ previous[q] = session /\ brought[q] = url[q]
          /\ url[q] \in redeemed /\ pc[q] # "signed in"
    BY <2>1 DEF IInv, HeldSessionIsLive
  <2>3. q # r
    BY <1>5, <2>2, AttemptsAssumption DEF IInv, TypeOK
  <2>4. /\ url'[q] = url[q] /\ brought'[q] = brought[q]
        /\ previous'[q] = previous[q] /\ pc'[q] = pc[q]
    BY <1>4, <2>3
  <2>5. redeemed' = redeemed /\ session' = session
    BY <1>1
  <2>6. QED
    BY <2>2, <2>4, <2>5 DEF HeldSessionIsLive
<1>14. Undisturbed'
  <2>1. \A b \in Attempts \ disturbed' : pc'[b] = "away" => transaction' = b
    BY <1>1, <1>3, AttemptsAssumption DEF IInv, Undisturbed
  <2>2. ASSUME a \notin disturbed' PROVE transaction = a /\ pc[a] = "away"
    BY <2>2 DEF IInv, Undisturbed
  <2>3. ASSUME NEW q \in Callbacks, url'[q] \notin disturbed'
        PROVE  /\ brought'[q] = url'[q]
               /\ \A p \in Callbacks : url'[p] = url'[q] /\ url'[q] # None => p = q
    <3>1. CASE q = r
      BY <1>4, <1>6, <2>2, <2>3, <3>1
    <3>2. CASE q # r
      BY <1>4, <1>6, <2>2, <2>3, <3>2 DEF IInv, Undisturbed
    <3>3. QED
      BY <3>1, <3>2
  <2>4. QED
    BY <2>1, <2>3 DEF Undisturbed
<1>15. RedeemedByCallback'
  BY <1>1, <1>3, <1>4, <1>5, AttemptsAssumption
     DEF IInv, TypeOK, RedeemedByCallback
<1>16. UndisturbedSucceeds' /\ RuntimeInv'
  BY <1>1, <1>3, <1>4, <1>7
     DEF IInv, UndisturbedSucceeds, RuntimeInv, OneDiscovery
<1>17. QED
  BY <1>8, <1>9, <1>10, <1>11, <1>12, <1>13, <1>14, <1>15, <1>16 DEF IInv

LEMMA ReturnIInv ==
  ASSUME IInv, NEW a \in Attempts, NEW r \in Callbacks,
         Return(a, r) \/ Reload(a, r)
  PROVE  IInv'
  BY SendIInv DEF Return, Reload, IInv, Returned
-----------------------------------------------------------------------------
(***************************************************************************)
(* GET callback.  A callback moves; its URL and what it brought stay.      *)
(***************************************************************************)
LEMMA CallbackIInv ==
  ASSUME IInv, NEW r \in Callbacks, NEW step \in Steps, Goto(r, step),
         UNCHANGED <<clock, runtime, discoveries, denied, transaction, session,
                     tab, sealed, url, brought, previous, since, disturbed,
                     restarts>>,
         pc[r] \notin {"idle", "signed in"},
         step \notin {"idle", "sent", "signed in"},
         step = "exchanging" => pc[r] = "sent",
         step = "resolving" => pc[r] = "exchanging" /\ url[r] \notin redeemed
                               /\ url[r] \in redeemed',
         step = "creating" => pc[r] = "resolving",
         \* the time at which the cookie was opened
         opened' \in [Callbacks -> 0..MaxTime],
         \A q \in Callbacks : opened'[q] # opened[q] => q = r /\ pc[r] = "sent",
         step \in {"exchanging", "resolving", "creating"} =>
           /\ brought[r] = url[r] /\ url[r] \notin denied
           /\ opened'[r] <= sealed[url[r]] + Lifetime,
         \* the code that is redeemed
         redeemed' \in {redeemed, redeemed \cup {url[r]}},
         redeemed' # redeemed => pc[r] = "exchanging",
         \* the sessions that are revoked or issued
         \/ UNCHANGED <<live, revoked>>
         \/ /\ pc[r] = "resolving" /\ step = "creating"
            /\ live' = live \ {previous[r]}
            /\ revoked' = revoked \cup (live \cap {previous[r]})
         \/ /\ pc[r] = "creating"
            /\ live' = live \cup {r} /\ UNCHANGED revoked,
         \* why it failed
         faults' \in 0..MaxFaults, faults > 0 => faults' > 0,
         step \in {"failed", "told"} =>
           \/ faults' > 0 \/ url[r] \in disturbed \cup denied
           \/ opened'[r] > sealed[url[r]] + Lifetime
  PROVE  IInv'
<1>1. /\ pc' \in [Attempts \cup Callbacks -> Steps]
      /\ pc'[r] = step
      /\ \A y \in (Attempts \cup Callbacks) \ {r} : pc'[y] = pc[y]
  BY MovePc DEF IInv
<1>2. \A a \in Attempts : pc'[a] = pc[a]
  BY <1>1, AttemptsAssumption
<1>3. url[r] \in Attempts
  BY DEF IInv, TypeOK, Places, PlaceOf
<1>4. /\ r \in Issued => pc[r] \notin {"sent", "exchanging", "resolving"}
      /\ \A q \in Callbacks \ {r} : q \in Issued' => q \in Issued
      /\ r \in Issued' => r \in Issued \/ pc[r] = "creating"
  BY DEF IInv, Places, PlaceOf, Issued
<1>5. TypeOK'
  BY <1>1, <1>3 DEF IInv, TypeOK, Sessions
<1>6. Returned'
  BY <1>2 DEF IInv, TypeOK, Returned
<1>7. Places'
  <2>1. PlaceOf(r)'
    BY <1>1, <1>3, <1>4, AttemptsAssumption DEF IInv, PlaceOf
  <2>2. ASSUME NEW q \in Callbacks, q # r PROVE PlaceOf(q)'
    BY <1>1, <1>4, <2>2 DEF IInv, Places, PlaceOf
  <2>3. QED
    BY <2>1, <2>2 DEF Places
<1>8. WinnersAreSolicited'
  <2>1. \A q \in Callbacks \ {r} : Winner(q)' => Winner(q)
    BY <1>1, <1>4 DEF Winner
  <2>2. Winner(r)' => (Winner(r) /\ pc[r] # "sent") \/ step = "resolving"
    BY <1>1, <1>4 DEF Winner
  <2>3. \A q \in Callbacks : Winner(q)' => opened'[q] <= sealed[url[q]] + Lifetime
    BY <2>1, <2>2 DEF IInv, WinnersAreSolicited
  <2>4. \A q \in Callbacks : Winner(q)' => url[q] \in redeemed' \ denied
    BY <2>1, <2>2 DEF IInv, WinnersAreSolicited
  <2>5. ASSUME NEW p \in Callbacks, NEW q \in Callbacks,
               Winner(p)', Winner(q)', url[p] = url[q]
        PROVE  p = q
    BY <2>1, <2>2, <2>5 DEF IInv, WinnersAreSolicited
  <2>6. QED
    BY <2>3, <2>4, <2>5 DEF WinnersAreSolicited
<1>9. KnownIsSignedIn'
  <2>1. \A q \in Callbacks : pc[q] = "signed in" => pc'[q] = "signed in"
    BY <1>1
  <2>2. \A q \in revoked' : q \in revoked \/ previous[r] = q
    OBVIOUS
  <2>3. QED
    BY <2>1, <2>2 DEF IInv, KnownIsSignedIn
<1>10. HeldSessionIsLive'
  <2>1. CASE session \in revoked
    <3>1. PICK q \in Callbacks :
            /\ previous[q] = session /\ brought[q] = url[q]
            /\ url[q] \in redeemed /\ pc[q] # "signed in"
      BY <2>1 DEF IInv, HeldSessionIsLive
    <3>2. pc'[q] # "signed in"
      BY <1>1, <3>1
    <3>3. url[q] \in redeemed'
      BY <3>1
    <3>4. QED
      BY <3>1, <3>2, <3>3 DEF HeldSessionIsLive
  <2>2. CASE session \in revoked' \ revoked
    <3>1. previous[r] = session /\ pc[r] = "resolving" /\ step = "creating"
      BY <2>2
    <3>2. url[r] \in redeemed' /\ brought[r] = url[r]
      BY <3>1 DEF IInv, WinnersAreSolicited, Winner
    <3>3. QED
      BY <1>1, <3>1, <3>2 DEF HeldSessionIsLive
  <2>3. QED
    BY <2>1, <2>2 DEF HeldSessionIsLive
<1>11. Undisturbed'
  BY <1>2 DEF IInv, Undisturbed
<1>12. RedeemedByCallback'
  <2>1. ASSUME NEW a \in redeemed
        PROVE  \E q \in Callbacks :
                 url[q] = a /\ pc'[q] \notin {"idle", "sent", "exchanging"}
    <3>1. PICK q \in Callbacks :
            url[q] = a /\ pc[q] \notin {"idle", "sent", "exchanging"}
      BY DEF IInv, RedeemedByCallback
    <3>2. QED
      BY <1>1, <3>1
  <2>2. redeemed' # redeemed =>
          pc'[r] \notin {"idle", "sent", "exchanging"} /\ redeemed' = redeemed \cup {url[r]}
    BY <1>1
  <2>3. QED
    BY <2>1, <2>2 DEF RedeemedByCallback
<1>13. UndisturbedSucceeds'
  <2>1. ASSUME NEW q \in Callbacks, q # r,
               pc'[q] \in {"failed", "told"}, url[q] \notin disturbed \cup denied
        PROVE  faults' > 0 \/ opened'[q] > sealed[url[q]] + Lifetime
    <3>1. faults > 0 \/ opened[q] > sealed[url[q]] + Lifetime
      BY <1>1, <2>1 DEF IInv, UndisturbedSucceeds
    <3>2. opened'[q] = opened[q]
      BY <2>1
    <3>3. QED
      BY <3>1, <3>2
  <2>2. QED
    BY <1>1, <2>1 DEF UndisturbedSucceeds
<1>14. RuntimeInv'
  BY DEF IInv, RuntimeInv, OneDiscovery
<1>15. QED
  BY <1>5, <1>6, <1>7, <1>8, <1>9, <1>10, <1>11, <1>12, <1>13, <1>14 DEF IInv

LEMMA OpenIInv == ASSUME IInv, NEW r \in Callbacks, Open(r) PROVE IInv'
<1> DEFINE step == IF runtime = "ready" /\ Usable(r) THEN "exchanging" ELSE "failed"
<1>1. /\ pc[r] = "sent" /\ runtime \in {"ready", "failed"}
      /\ opened' = [opened EXCEPT ![r] = clock]
      /\ Goto(r, step)
      /\ UNCHANGED <<clock, runtime, discoveries, redeemed, denied, live, revoked,
                     transaction, session, tab, sealed, url, brought, previous,
                     since, disturbed, faults, restarts>>
  BY DEF Open, process, store, browser
<1>2. /\ opened' \in [Callbacks -> 0..MaxTime] /\ opened'[r] = clock
      /\ \A q \in Callbacks : opened'[q] = opened[q] \/ q = r
  BY <1>1, BoundsAssumption DEF IInv, TypeOK
<1>3. faults' \in 0..MaxFaults /\ (faults > 0 => faults' > 0) /\ url[r] # None
  BY <1>1 DEF IInv, TypeOK, Places, PlaceOf
<1>4. CASE runtime = "ready" /\ Usable(r)
  <2>1. step = "exchanging" /\ "exchanging" \in Steps
    BY <1>4 DEF Steps
  <2>2. /\ brought[r] = url[r] /\ url[r] \notin denied
        /\ opened'[r] <= sealed[url[r]] + Lifetime
    BY <1>2, <1>4 DEF Usable
  <2>3. QED
    BY <1>1, <1>2, <1>3, <2>1, <2>2, CallbackIInv
<1>5. CASE ~(runtime = "ready" /\ Usable(r))
  <2>1. step = "failed" /\ "failed" \in Steps
    BY <1>5 DEF Steps
  <2>2. CASE runtime = "failed"
    BY <1>1, <1>2, <1>3, <2>1, <2>2, CallbackIInv DEF IInv, RuntimeInv
  <2>3. CASE ~Usable(r)
    <3>1. url[r] \notin disturbed => brought[r] = url[r]
      BY DEF IInv, Undisturbed
    <3>2. /\ sealed[url[r]] \in Nat /\ clock \in Nat /\ Lifetime \in Nat
      BY <1>3, LifetimeAssumption, BoundsAssumption DEF IInv, TypeOK
    <3>3. \/ url[r] \in disturbed \cup denied
          \/ opened'[r] > sealed[url[r]] + Lifetime
      BY <1>2, <1>3, <2>3, <3>1, <3>2 DEF Usable
    <3>4. QED
      BY <1>1, <1>2, <1>3, <2>1, <3>3, CallbackIInv
  <2>4. QED
    BY <1>1, <1>5, <2>2, <2>3
<1>6. QED
  BY <1>4, <1>5

LEMMA ExchangeIInv == ASSUME IInv, NEW r \in Callbacks, Exchange(r) PROVE IInv'
<1>1. /\ pc[r] = "exchanging"
      /\ UNCHANGED <<clock, runtime, discoveries, denied, live, revoked,
                     transaction, session, tab, sealed, url, brought, previous,
                     opened, since, disturbed, restarts>>
  BY DEF Exchange, process, browser, request
<1>2. /\ brought[r] = url[r] /\ url[r] \notin denied
      /\ opened'[r] <= sealed[url[r]] + Lifetime
      /\ opened' \in [Callbacks -> 0..MaxTime]
      /\ \A q \in Callbacks : opened'[q] = opened[q]
  BY <1>1 DEF IInv, Places, PlaceOf, TypeOK
<1>3. /\ redeemed' \in {redeemed, redeemed \cup {url[r]}}
      /\ faults' \in 0..MaxFaults /\ (faults > 0 => faults' > 0)
  BY FaultCounts DEF Exchange
<1>4. CASE url[r] \notin redeemed /\ Goto(r, "resolving") /\ UNCHANGED faults
  <2>1. pc'[r] = "resolving" /\ "resolving" \in Steps
    BY <1>4 DEF IInv, TypeOK, Goto, Steps
  <2>2. url[r] \in redeemed'
    BY <2>1 DEF Exchange
  <2>3. QED
    BY <1>1, <1>2, <1>3, <1>4, <2>1, <2>2, CallbackIInv
<1>5. CASE url[r] \in redeemed /\ Goto(r, "failed") /\ UNCHANGED faults
  <2>1. PICK q \in Callbacks :
          url[q] = url[r] /\ pc[q] \notin {"idle", "sent", "exchanging"}
    BY <1>5 DEF IInv, RedeemedByCallback
  <2>2. url[r] # None
    BY <1>1 DEF IInv, Places, PlaceOf
  <2>3. url[r] \in disturbed
    BY <1>1, <2>1, <2>2 DEF IInv, Undisturbed
  <2>4. "failed" \in Steps
    BY DEF Steps
  <2>5. QED
    BY <1>1, <1>2, <1>3, <1>5, <2>3, <2>4, CallbackIInv
<1>6. CASE Goto(r, "failed") /\ Fault
  <2>1. faults' > 0
    BY <1>6, FaultCounts
  <2>2. "failed" \in Steps
    BY DEF Steps
  <2>3. QED
    BY <1>1, <1>2, <1>3, <1>6, <2>1, <2>2, CallbackIInv
<1>7. QED
  BY <1>4, <1>5, <1>6 DEF Exchange

LEMMA ResolveIInv == ASSUME IInv, NEW r \in Callbacks, Resolve(r) PROVE IInv'
<1>1. /\ pc[r] = "resolving"
      /\ UNCHANGED <<clock, runtime, discoveries, redeemed, denied, transaction,
                     session, tab, sealed, url, brought, previous, opened, since,
                     disturbed, restarts>>
  BY DEF Resolve, process, browser, request
<1>2. /\ brought[r] = url[r] /\ url[r] \notin denied
      /\ opened'[r] <= sealed[url[r]] + Lifetime
      /\ opened' \in [Callbacks -> 0..MaxTime]
  BY <1>1 DEF IInv, Places, PlaceOf, TypeOK
<1>3. CASE /\ Goto(r, "creating") /\ UNCHANGED faults
           /\ live' = live \ {previous[r]}
           /\ revoked' = revoked \cup (live \cap {previous[r]})
  <2>1. "creating" \in Steps /\ faults' \in 0..MaxFaults
    BY <1>3, FaultCounts DEF Steps
  <2>2. QED
    BY <1>1, <1>2, <1>3, <2>1, CallbackIInv
<1>4. CASE Goto(r, "failed") /\ Fault /\ UNCHANGED <<live, revoked>>
  <2>1. "failed" \in Steps /\ faults' \in 0..MaxFaults /\ faults' > 0
    BY <1>4, FaultCounts DEF Steps
  <2>2. QED
    BY <1>1, <1>2, <1>4, <2>1, CallbackIInv
<1>5. QED
  BY <1>3, <1>4 DEF Resolve

LEMMA CreateIInv == ASSUME IInv, NEW r \in Callbacks, Create(r) PROVE IInv'
<1>1. /\ pc[r] = "creating"
      /\ UNCHANGED <<clock, runtime, discoveries, redeemed, denied, revoked,
                     transaction, session, tab, sealed, url, brought, previous,
                     opened, since, disturbed, restarts>>
      /\ opened' \in [Callbacks -> 0..MaxTime]
  BY DEF Create, process, browser, request, IInv, TypeOK
<1>2. CASE live' = live \cup {r} /\ Goto(r, "established") /\ UNCHANGED faults
  <2>1. "established" \in Steps /\ faults' \in 0..MaxFaults
    BY <1>2, FaultCounts DEF Steps
  <2>2. QED
    BY <1>1, <1>2, <2>1, CallbackIInv
<1>3. CASE live' \in {live, live \cup {r}} /\ Goto(r, "failed") /\ Fault
  <2>1. "failed" \in Steps /\ faults' \in 0..MaxFaults /\ faults' > 0
    BY <1>3, FaultCounts DEF Steps
  <2>2. QED
    BY <1>1, <1>3, <2>1, CallbackIInv
<1>4. QED
  BY <1>2, <1>3 DEF Create

\* The answer reaches the tab that waits for it.  The cookie it clears is that of
\* its own attempt, which is over, or that of another, which is disturbed.
LEMMA ArriveIInv ==
  ASSUME IInv, NEW r \in Callbacks, ArriveCallback(r) PROVE IInv'
<1> DEFINE done == IF pc[r] = "established" THEN "signed in" ELSE "told"
<1>1. /\ pc[r] \in {"established", "failed"}
      /\ Goto(r, done)
      /\ transaction' = None
      /\ session' = IF pc[r] = "established" THEN r ELSE session
      /\ tab' = [tab EXCEPT ![url[r]] = None]
      /\ disturbed' = disturbed \cup ({transaction} \ {None, url[r]})
      /\ UNCHANGED <<clock, runtime, discoveries, redeemed, denied, live, revoked,
                     sealed, url, brought, previous, opened, since, faults,
                     restarts>>
  BY DEF ArriveCallback, process, store, request
<1>2. /\ pc' \in [Attempts \cup Callbacks -> Steps]
      /\ pc'[r] = done /\ done \in {"signed in", "told"}
      /\ \A y \in (Attempts \cup Callbacks) \ {r} : pc'[y] = pc[y]
  BY <1>1, MovePc DEF IInv, Steps
<1>3. \A a \in Attempts : pc'[a] = pc[a]
  BY <1>2, AttemptsAssumption
<1>4. url[r] \in Attempts /\ pc[url[r]] = "returned"
  BY <1>1 DEF IInv, TypeOK, Places, PlaceOf, Returned
<1>5. TypeOK'
  BY <1>1, <1>2 DEF IInv, TypeOK, Sessions
<1>6. Returned'
  BY <1>1, <1>3, <1>4 DEF IInv, TypeOK, Returned
<1>7. Places' /\ WinnersAreSolicited'
  BY <1>1, <1>2 DEF IInv, Places, PlaceOf, WinnersAreSolicited, Winner, Issued
<1>8. \A q \in Callbacks : pc[q] = "signed in" => pc'[q] = "signed in"
  BY <1>1, <1>2
<1>9. KnownIsSignedIn'
  <2>1. pc[r] = "established" => pc'[r] = "signed in"
    BY <1>2
  <2>2. QED
    BY <1>1, <1>8, <2>1 DEF IInv, KnownIsSignedIn
<1>10. HeldSessionIsLive'
  <2>1. CASE pc[r] = "established"
    <3>1. r \notin revoked
      BY <2>1 DEF IInv, KnownIsSignedIn
    <3>2. session' = r /\ revoked' = revoked
      BY <1>1, <2>1
    <3>3. QED
      BY <3>1, <3>2 DEF HeldSessionIsLive
  <2>2. CASE pc[r] = "failed"
    <3>1. session' = session /\ done = "told"
      BY <1>1, <2>2
    <3>2. ASSUME NEW q \in Callbacks, pc[q] # "signed in"
          PROVE  pc'[q] # "signed in"
      BY <1>2, <3>1, <3>2
    <3>3. QED
      BY <1>1, <3>1, <3>2 DEF IInv, HeldSessionIsLive
  <2>3. QED
    BY <1>1, <2>1, <2>2
<1>11. Undisturbed'
  BY <1>1, <1>3, <1>4, AttemptsAssumption DEF IInv, Undisturbed
<1>12. RedeemedByCallback'
  <2>1. ASSUME NEW a \in redeemed
        PROVE  \E q \in Callbacks :
                 url[q] = a /\ pc'[q] \notin {"idle", "sent", "exchanging"}
    <3>1. PICK q \in Callbacks :
            url[q] = a /\ pc[q] \notin {"idle", "sent", "exchanging"}
      BY DEF IInv, RedeemedByCallback
    <3>2. QED
      BY <1>2, <3>1
  <2>2. QED
    BY <1>1, <2>1 DEF RedeemedByCallback
<1>13. UndisturbedSucceeds' /\ RuntimeInv'
  BY <1>1, <1>2 DEF IInv, UndisturbedSucceeds, RuntimeInv, OneDiscovery
<1>14. QED
  BY <1>5, <1>6, <1>7, <1>9, <1>10, <1>11, <1>12, <1>13 DEF IInv
-----------------------------------------------------------------------------
(***************************************************************************)
(* What goes wrong.                                                        *)
(***************************************************************************)
LEMMA LoseIInv ==
  ASSUME IInv, NEW x \in Attempts \cup Callbacks, Lose(x) PROVE IInv'
<1>1. /\ pc[x] \in {"redirected", "refused", "established", "failed"}
      /\ Goto(x, "lost") /\ "lost" \in Steps
      /\ UNCHANGED <<clock, runtime, discoveries, redeemed, denied, live, revoked,
                     transaction, session, tab, sealed, url, brought, previous,
                     opened, since, disturbed, restarts>>
  BY DEF Lose, process, store, browser, request, Steps
<1>2. faults' \in 0..MaxFaults /\ faults' > 0 /\ faults' >= faults
  BY FaultCounts DEF Lose, Fault
<1>3. /\ sealed' \in [Attempts -> 0..MaxTime]
      /\ since' \in [Attempts -> 0..MaxFaults]
      /\ opened' \in [Callbacks -> 0..MaxTime]
  BY <1>1 DEF IInv, TypeOK
<1>4. CASE x \in Attempts
  BY <1>1, <1>2, <1>3, <1>4, AttemptIInv
<1>5. CASE x \in Callbacks
  BY <1>1, <1>2, <1>3, <1>5, CallbackIInv
<1>6. QED
  BY <1>4, <1>5

LEMMA RestartIInv == ASSUME IInv, Restart PROVE IInv'
<1>1. /\ runtime' = "none" /\ discoveries' = 0
      /\ restarts' \in 0..MaxRestarts
      /\ UNCHANGED <<clock, redeemed, denied, live, revoked, transaction, session,
                     tab, sealed, url, brought, previous, opened, since, disturbed,
                     faults>>
  BY BoundsAssumption DEF Restart, store, browser, request, IInv, TypeOK
<1>2. /\ pc' \in [Attempts \cup Callbacks -> Steps]
      /\ \A x \in Attempts \cup Callbacks :
           \/ pc'[x] = pc[x]
           \/ /\ pc'[x] = "lost"
              /\ pc[x] \in {"sent", "redirected", "refused", "exchanging",
                            "resolving", "creating", "established", "failed"}
  BY DEF Restart, IInv, TypeOK, Steps
<1>3. TypeOK'
  BY <1>1, <1>2 DEF IInv, TypeOK
<1>4. Returned'
  BY <1>1, <1>2 DEF IInv, TypeOK, Returned
<1>5. Places'
  BY <1>1, <1>2 DEF IInv, Places, PlaceOf, Issued
<1>6. WinnersAreSolicited'
  BY <1>1, <1>2 DEF IInv, WinnersAreSolicited, Winner, Issued
<1>7. KnownIsSignedIn' /\ HeldSessionIsLive'
  BY <1>1, <1>2 DEF IInv, KnownIsSignedIn, HeldSessionIsLive
<1>8. Undisturbed'
  BY <1>1, <1>2 DEF IInv, Undisturbed
<1>9. RedeemedByCallback'
  BY <1>1, <1>2 DEF IInv, RedeemedByCallback
<1>10. UndisturbedSucceeds' /\ RuntimeInv'
  BY <1>1, <1>2 DEF IInv, UndisturbedSucceeds, RuntimeInv, OneDiscovery
<1>11. QED
  BY <1>3, <1>4, <1>5, <1>6, <1>7, <1>8, <1>9, <1>10 DEF IInv

LEMMA NextIInv == IInv /\ [Next]_vars => IInv'
<1>1. ASSUME IInv, UNCHANGED vars PROVE IInv'
  <2>1. UNCHANGED <<clock, runtime, discoveries, redeemed, denied, live, revoked,
                    transaction, session, tab, pc, sealed, url, brought, previous,
                    opened, since, disturbed, faults, restarts>>
    BY <1>1 DEF vars, process, store, browser, request
  <2>2. TypeOK' /\ Returned' /\ Places' /\ WinnersAreSolicited'
    BY <1>1, <2>1 DEF IInv, TypeOK, Returned, Places, PlaceOf,
                      WinnersAreSolicited, Winner, Issued
  <2>3. KnownIsSignedIn' /\ HeldSessionIsLive' /\ Undisturbed'
    BY <1>1, <2>1 DEF IInv, KnownIsSignedIn, HeldSessionIsLive, Undisturbed
  <2>4. RedeemedByCallback' /\ UndisturbedSucceeds' /\ RuntimeInv'
    BY <1>1, <2>1 DEF IInv, RedeemedByCallback, UndisturbedSucceeds, RuntimeInv,
                      OneDiscovery
  <2>5. QED
    BY <2>2, <2>3, <2>4 DEF IInv
<1>2. QED
  BY <1>1, RuntimeIInv, SignInIInv, ReturnIInv, OpenIInv, ExchangeIInv,
     ResolveIInv, CreateIInv, ArriveIInv, LoseIInv, RestartIInv DEF Next, Callback
-----------------------------------------------------------------------------
\* The invariant that carries the properties below.
THEOREM InductiveInvariant == Spec => []IInv
  BY InitIInv, NextIInv, PTL DEF Spec

\* Every variable keeps its type, for any number of attempts and callbacks.
THEOREM TypeCorrect == Spec => []TypeOK
  BY InductiveInvariant, PTL DEF IInv

\* A session comes of an attempt of this browser, confirmed in time, and an
\* attempt makes at most one, however tabs overlap and reload.
THEOREM SessionIsSolicitedHolds == Spec => []SessionIsSolicited
<1>1. IInv => SessionIsSolicited
  BY DEF IInv, WinnersAreSolicited, Winner, Issued, SessionIsSolicited
<1>2. QED
  BY <1>1, InductiveInvariant, PTL

\* A callback that is refused costs the browser nothing: the session it holds
\* is revoked only by a callback whose code was redeemed.
THEOREM HeldSessionIsLiveHolds == Spec => []HeldSessionIsLive
  BY InductiveInvariant, PTL DEF IInv

\* An attempt in time, undisturbed, is refused only if a request has failed;
\* restarts of the process and attempts that were given up do not matter.
THEOREM UndisturbedSucceedsHolds == Spec => []UndisturbedSucceeds
  BY InductiveInvariant, PTL DEF IInv

\* A process discovers the provider's metadata at most once.
THEOREM OneDiscoveryHolds == Spec => []OneDiscovery
<1>1. IInv => OneDiscovery
  BY DEF IInv, RuntimeInv
<1>2. QED
  BY <1>1, InductiveInvariant, PTL
=============================================================================
