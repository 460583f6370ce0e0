------------------------------- MODULE SignIn -------------------------------
(***************************************************************************)
(* Sign-in through the identity provider (oidc.ts, oidc-transaction.ts,    *)
(* oidc-flow.ts, oidc-runtime.ts).  An attempt is a GET sign-in of a tab:  *)
(* its code verifier, nonce and state are sealed into the one transaction  *)
(* cookie of the browser, and its tab goes to the provider.  The provider  *)
(* sends the tab back to the callback, which opens the cookie, redeems the *)
(* code and issues an application session.  The tabs of the browser run at *)
(* the same time and share both cookies; a tab that waits for its callback *)
(* can be reloaded; the web process can be restarted.                      *)
(*                                                                         *)
(* A random value is the identity of its attempt: a state, a code, a nonce *)
(* or a verifier matches those of the same attempt.  A session is named by *)
(* the callback that issues it; PostgreSQL's part is in AppSession.  What  *)
(* the configuration decides (URLs, keys, issuer) is right and constant.   *)
(***************************************************************************)
EXTENDS Naturals, FiniteSets

CONSTANTS
  Attempts, Callbacks,
  Old,           \* the session the browser may hold to begin with
  None,
  Lifetime,      \* lifetimeSeconds
  MaxTime, MaxFaults, MaxRestarts       \* bounds of a run of TLC

ASSUME AttemptsAssumption ==
  None \notin Attempts /\ Attempts \cap Callbacks = {}
ASSUME SessionsAssumption ==
  Old \notin Callbacks /\ None \notin Callbacks \cup {Old}
ASSUME LifetimeAssumption == Lifetime \in Nat
ASSUME BoundsAssumption ==
  MaxTime \in Nat \ {0} /\ MaxFaults \in Nat /\ MaxRestarts \in Nat

Sessions == Callbacks \cup {Old}

Steps == {"idle", "sent", "redirected", "refused", "away", "returned",
          "exchanging", "resolving", "creating", "established", "failed",
          "signed in", "told", "lost"}

VARIABLES
  clock,
  \* The web process.
  runtime,       \* the promise that oidcRuntime keeps
  discoveries,   \* history: discoveries this process has begun
  \* The provider and the session store.
  redeemed,      \* attempts whose code the provider has exchanged
  denied,        \* attempts that came back with an error instead of a code
  live, revoked, \* sessions
  \* The browser.
  transaction,   \* attempt in its transaction cookie
  session,       \* session in its session cookie
  tab,           \* [Attempts -> callback whose answer the tab waits for]
  \* Attempts and callbacks.
  pc,
  sealed,        \* [Attempts -> time of the seal]
  url,           \* [Callbacks -> attempt whose state and code it carries]
  brought, previous,    \* [Callbacks -> what was in the two cookies]
  opened,        \* [Callbacks -> time at which the cookie was opened]
  since,         \* history: [Attempts -> faults when it was sent]
  disturbed,     \* history: attempts whose cookie another tab has replaced or
                 \* cleared, or whose callback was sent again
  faults, restarts

process == <<runtime, discoveries>>
store == <<redeemed, denied, live, revoked>>
browser == <<transaction, session, tab>>
request == <<sealed, url, brought, previous, opened, since>>
vars == <<clock, process, store, browser, pc, request, disturbed, faults,
          restarts>>

Init ==
  /\ clock = 1
  /\ runtime = "none" /\ discoveries = 0
  /\ redeemed = {} /\ denied = {} /\ revoked = {}
  /\ live \in {{}, {Old}}
  /\ transaction = None
  /\ session = IF live = {} THEN None ELSE Old
  /\ tab = [a \in Attempts |-> None]
  /\ pc = [x \in Attempts \cup Callbacks |-> "idle"]
  /\ sealed = [a \in Attempts |-> 0]
  /\ url = [r \in Callbacks |-> None]
  /\ brought = [r \in Callbacks |-> None]
  /\ previous = [r \in Callbacks |-> None]
  /\ opened = [r \in Callbacks |-> 0]
  /\ since = [a \in Attempts |-> 0]
  /\ disturbed = {}
  /\ faults = 0 /\ restarts = 0

Goto(x, step) == pc' = [pc EXCEPT ![x] = step]

Fault == faults < MaxFaults /\ faults' = faults + 1

Tick ==
  /\ clock < MaxTime
  /\ clock' = clock + 1
  /\ UNCHANGED <<process, store, browser, pc, request, disturbed, faults,
                 restarts>>

-----------------------------------------------------------------------------
(***************************************************************************)
(* oidcRuntime: the first request of the process begins a discovery; it    *)
(* and all others wait for the same promise, for good or ill.              *)
(***************************************************************************)

\* Mutant of Discover: only a runtime that is there is kept.
DiscoverUnlessReady ==
  /\ \E x \in Attempts \cup Callbacks : pc[x] = "sent"
  /\ runtime \in {"none", "loading"}
  /\ runtime' = "loading"
  /\ discoveries' = discoveries + 1
  /\ UNCHANGED <<clock, store, browser, pc, request, disturbed, faults,
                 restarts>>

Discover ==
  /\ \E x \in Attempts \cup Callbacks : pc[x] = "sent"
  /\ runtime = "none"
  /\ runtime' = "loading"
  /\ discoveries' = discoveries + 1
  /\ UNCHANGED <<clock, store, browser, pc, request, disturbed, faults,
                 restarts>>

\* loadProvider: the document is fetched, or it is not to be had or not valid.
Discovered ==
  /\ runtime = "loading"
  /\ \/ runtime' = "ready" /\ UNCHANGED faults
     \/ runtime' = "failed" /\ Fault
  /\ UNCHANGED <<clock, discoveries, store, browser, pc, request, disturbed,
                 restarts>>

-----------------------------------------------------------------------------
(***************************************************************************)
(* GET sign-in.                                                            *)
(***************************************************************************)
SendSignIn(a) ==
  /\ pc[a] = "idle"
  /\ Goto(a, "sent")
  /\ since' = [since EXCEPT ![a] = faults]
  /\ UNCHANGED <<clock, process, store, browser, sealed, url, brought, previous,
                 opened, disturbed, faults, restarts>>

\* beginOidcAuthorization, or the redirect to the page with sign_in=failed.
Begin(a) ==
  /\ pc[a] = "sent"
  /\ \/ /\ runtime = "ready"
        /\ sealed' = [sealed EXCEPT ![a] = clock]
        /\ Goto(a, "redirected")
     \/ /\ runtime = "failed"
        /\ Goto(a, "refused")
        /\ UNCHANGED sealed
  /\ UNCHANGED <<clock, process, store, browser, url, brought, previous, opened,
                 since, disturbed, faults, restarts>>

\* Mutant of ArriveBegin: a transaction that is under way is not replaced.
ArriveBeginKeeps(a) ==
  /\ pc[a] = "redirected"
  /\ transaction' = IF transaction = None THEN a ELSE transaction
  /\ disturbed' = disturbed \cup ({transaction} \ {None})
  /\ Goto(a, "away")
  /\ UNCHANGED <<clock, process, store, session, tab, request, faults, restarts>>

\* The browser stores the cookie and follows the redirect to the provider.
ArriveBegin(a) ==
  /\ pc[a] = "redirected"
  /\ transaction' = a
  /\ disturbed' = disturbed \cup ({transaction} \ {None})
  /\ Goto(a, "away")
  /\ UNCHANGED <<clock, process, store, session, tab, request, faults, restarts>>

\* A callback is sent with the transaction cookie the browser holds now.  The
\* session cookie is SameSite=Strict and may be left out.
SendCallback(a, r) ==
  /\ pc[r] = "idle"
  /\ tab' = [tab EXCEPT ![a] = r]
  /\ url' = [url EXCEPT ![r] = a]
  /\ brought' = [brought EXCEPT ![r] = transaction]
  /\ \E s \in {session, None} : previous' = [previous EXCEPT ![r] = s]
  /\ pc' = [pc EXCEPT ![a] = "returned", ![r] = "sent"]
  /\ UNCHANGED <<clock, process, redeemed, live, revoked, transaction, session,
                 sealed, opened, since, faults, restarts>>

\* The provider sends the tab back, with a code or with an error.
Return(a, r) ==
  /\ pc[a] = "away"
  /\ SendCallback(a, r)
  /\ denied' \in {denied, denied \cup {a}}
  /\ UNCHANGED disturbed

\* The tab is reloaded before its callback is answered: the answer to the
\* first request is dropped, and the URL is asked for again.
Reload(a, r) ==
  /\ tab[a] # None
  /\ SendCallback(a, r)
  /\ disturbed' = disturbed \cup {a}
  /\ UNCHANGED denied

-----------------------------------------------------------------------------
(***************************************************************************)
(* GET callback: completeOidcAuthorization.                                *)
(***************************************************************************)

\* Mutant of Usable: the transaction is not asked for its age.
UsableAtAnyTime(r) ==
  /\ brought[r] # None
  /\ url[r] = brought[r]
  /\ url[r] \notin denied

\* The cookie opens, is in time, has the URL's state, and there is a code.
Usable(r) ==
  /\ brought[r] # None
  /\ clock <= sealed[brought[r]] + Lifetime
  /\ url[r] = brought[r]
  /\ url[r] \notin denied

\* Mutant of Open: the previous session is revoked before the code is redeemed.
OpenRevokes(r) ==
  /\ pc[r] = "sent"
  /\ runtime \in {"ready", "failed"}
  /\ opened' = [opened EXCEPT ![r] = clock]
  /\ Goto(r, IF runtime = "ready" /\ Usable(r) THEN "exchanging" ELSE "failed")
  /\ live' = live \ {previous[r]}
  /\ revoked' = revoked \cup (live \cap {previous[r]})
  /\ UNCHANGED <<clock, process, redeemed, denied, browser, sealed, url,
                 brought, previous, since, disturbed, faults, restarts>>

Open(r) ==
  /\ pc[r] = "sent"
  /\ runtime \in {"ready", "failed"}
  /\ opened' = [opened EXCEPT ![r] = clock]
  /\ Goto(r, IF runtime = "ready" /\ Usable(r) THEN "exchanging" ELSE "failed")
  /\ UNCHANGED <<clock, process, store, browser, sealed, url, brought, previous,
                 since, disturbed, faults, restarts>>

\* The provider exchanges a code once.  The call may fail, before or after
\* that, and what comes back may not be the tokens of this transaction.
Exchange(r) ==
  /\ pc[r] = "exchanging"
  /\ \/ url[r] \notin redeemed /\ Goto(r, "resolving") /\ UNCHANGED faults
     \/ url[r] \in redeemed /\ Goto(r, "failed") /\ UNCHANGED faults
     \/ Goto(r, "failed") /\ Fault
  /\ \/ redeemed' = redeemed \cup {url[r]}
     \/ pc'[r] = "failed" /\ UNCHANGED redeemed
  /\ UNCHANGED <<clock, process, denied, live, revoked, browser, request,
                 disturbed, restarts>>

\* resolvePlannerId, which may fail, and authenticate's revoke.
Resolve(r) ==
  /\ pc[r] = "resolving"
  /\ \/ /\ Goto(r, "creating")
        /\ live' = live \ {previous[r]}
        /\ revoked' = revoked \cup (live \cap {previous[r]})
        /\ UNCHANGED faults
     \/ Goto(r, "failed") /\ Fault /\ UNCHANGED <<live, revoked>>
  /\ UNCHANGED <<clock, process, redeemed, denied, browser, request, disturbed,
                 restarts>>

\* authenticate's create, which may fail with or without effect.
Create(r) ==
  /\ pc[r] = "creating"
  /\ \/ live' = live \cup {r} /\ Goto(r, "established") /\ UNCHANGED faults
     \/ live' \in {live, live \cup {r}} /\ Goto(r, "failed") /\ Fault
  /\ UNCHANGED <<clock, process, redeemed, denied, revoked, browser, request,
                 disturbed, restarts>>

\* Mutant of ArriveCallback: the transaction cookie is emptied, not removed.
ArriveCallbackEmpty(r) ==
  /\ pc[r] \in {"established", "failed"} /\ tab[url[r]] = r
  /\ transaction' = ""
  /\ session' = IF pc[r] = "established" THEN r ELSE session
  /\ Goto(r, IF pc[r] = "established" THEN "signed in" ELSE "told")
  /\ tab' = [tab EXCEPT ![url[r]] = None]
  /\ disturbed' = disturbed \cup ({transaction} \ {None, url[r]})
  /\ UNCHANGED <<clock, process, store, request, faults, restarts>>

\* Every answer clears the transaction cookie, whatever it holds by then; that
\* of a sign-in sets the session cookie.
ArriveCallback(r) ==
  /\ pc[r] \in {"established", "failed"} /\ tab[url[r]] = r
  /\ transaction' = None
  /\ session' = IF pc[r] = "established" THEN r ELSE session
  /\ Goto(r, IF pc[r] = "established" THEN "signed in" ELSE "told")
  /\ tab' = [tab EXCEPT ![url[r]] = None]
  /\ disturbed' = disturbed \cup ({transaction} \ {None, url[r]})
  /\ UNCHANGED <<clock, process, store, request, faults, restarts>>

-----------------------------------------------------------------------------
\* The answer to a request is lost.
Lose(x) ==
  /\ pc[x] \in {"redirected", "refused", "established", "failed"}
  /\ Goto(x, "lost")
  /\ Fault
  /\ UNCHANGED <<clock, process, store, browser, request, disturbed, restarts>>

\* The process is replaced: its requests are gone and so is its runtime; the
\* key that opens transactions comes from the environment and stays.
Restart ==
  /\ restarts < MaxRestarts
  /\ restarts' = restarts + 1
  /\ runtime' = "none" /\ discoveries' = 0
  /\ pc' = [x \in Attempts \cup Callbacks |->
              IF pc[x] \in {"sent", "redirected", "refused", "exchanging",
                            "resolving", "creating", "established", "failed"}
                THEN "lost" ELSE pc[x]]
  /\ UNCHANGED <<clock, store, browser, request, disturbed, faults>>

SignIn(a) == SendSignIn(a) \/ Begin(a) \/ ArriveBegin(a)

Callback(r) ==
  Open(r) \/ Exchange(r) \/ Resolve(r) \/ Create(r) \/ ArriveCallback(r)

Next ==
  \/ Tick \/ Discover \/ Discovered \/ Restart
  \/ \E a \in Attempts : SignIn(a)
  \/ \E r \in Callbacks : Callback(r)
  \/ \E a \in Attempts, r \in Callbacks : Return(a, r) \/ Reload(a, r)
  \/ \E x \in Attempts \cup Callbacks : Lose(x)

Spec == Init /\ [][Next]_vars

-----------------------------------------------------------------------------
(***************************************************************************)
(* Properties.                                                             *)
(***************************************************************************)

\* Every variable has its type.
TypeOK ==
  /\ clock \in 1..MaxTime
  /\ runtime \in {"none", "loading", "ready", "failed"}
  /\ discoveries \in Nat
  /\ redeemed \subseteq Attempts /\ denied \subseteq Attempts
  /\ live \subseteq Sessions /\ revoked \subseteq Sessions
  /\ transaction \in Attempts \cup {None}
  /\ session \in Sessions \cup {None}
  /\ tab \in [Attempts -> Callbacks \cup {None}]
  /\ pc \in [Attempts \cup Callbacks -> Steps]
  /\ sealed \in [Attempts -> 0..MaxTime]
  /\ url \in [Callbacks -> Attempts \cup {None}]
  /\ brought \in [Callbacks -> Attempts \cup {None}]
  /\ previous \in [Callbacks -> Sessions \cup {None}]
  /\ opened \in [Callbacks -> 0..MaxTime]
  /\ since \in [Attempts -> 0..MaxFaults]
  /\ disturbed \subseteq Attempts
  /\ faults \in 0..MaxFaults /\ restarts \in 0..MaxRestarts

\* A session comes of an attempt of this browser that the provider confirmed,
\* whose callback came within ten minutes of its start, and an attempt makes at
\* most one, however tabs overlap and however often its URL is asked for.
SessionIsSolicited ==
  \A r \in Callbacks \cap (live \cup revoked) :
    /\ url[r] \in redeemed \ denied
    /\ opened[r] <= sealed[url[r]] + Lifetime
    /\ \A q \in Callbacks \cap (live \cup revoked) : url[q] = url[r] => q = r

\* The session that the browser holds is revoked only by a sign-in whose code
\* was redeemed and whose new cookie has not come: a callback that is refused
\* costs the Planner nothing.
HeldSessionIsLive ==
  session \in revoked =>
    \E r \in Callbacks :
      /\ previous[r] = session
      /\ brought[r] = url[r] /\ url[r] \in redeemed
      /\ pc[r] # "signed in"

\* An attempt that the provider confirms in time fails only if a request has
\* failed, or another tab has taken its cookie, or it was reloaded: attempts
\* that were given up and restarts of the process do not matter.
UndisturbedSucceeds ==
  \A r \in Callbacks :
    pc[r] \in {"failed", "told"} /\ url[r] \notin disturbed \cup denied =>
      faults > 0 \/ opened[r] > sealed[url[r]] + Lifetime

\* A process asks for the discovery document once, however many requests come
\* before the answer.
OneDiscovery == discoveries <= 1

\* "Sign-in could not be completed. Please try again." (planner/page.tsx): a
\* sign-in during which nothing fails is not refused.
TryingAgainHelps ==
  \A a \in Attempts : pc[a] = "refused" => faults > since[a]
=============================================================================
