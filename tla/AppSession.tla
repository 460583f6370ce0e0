----------------------------- MODULE AppSession -----------------------------
(***************************************************************************)
(* Application sessions of the web BFF: rows of application_sessions, the  *)
(* requests of one browser (its tabs share a cookie jar), and the clock.   *)
(* Every SQL statement is a step of its own; between two of them another   *)
(* request may run, time may pass, and the process may die (Lose).         *)
(*                                                                         *)
(* Cookies, digests and encryption are abstracted to the identity of the   *)
(* session: a cookie opens the row it was issued for, a CSRF token is      *)
(* valid for that row only, and an Origin header is the application's own. *)
(***************************************************************************)
EXTENDS Naturals

CONSTANTS
  Sessions,         \* session identifiers (random, hence fresh)
  Requests,
  None,
  Kinds,            \* the requests of this instance
  Idle, Absolute,   \* idleLifetimeSeconds, absoluteLifetimeSeconds
  MaxTime           \* bound of the clock

AllKinds == {"signIn", "session", "command", "signOut"}

ASSUME KindsAssumption == Kinds \subseteq AllKinds
ASSUME NoneAssumption == None \notin Sessions
ASSUME LifetimeAssumption == Idle \in Nat \ {0} /\ Absolute \in Nat \ {0}
ASSUME MaxTimeAssumption == MaxTime \in Nat \ {0}

VARIABLES
  clock,
  row,        \* [Sessions -> the row in application_sessions]
  jar,        \* session whose cookie the browser holds
  page,       \* session whose CSRF token the page holds
  pc,         \* statement a request is about to send
  kind, cookie, csrf,    \* what the request is and what came with it
  snap,       \* the row authorize found
  at,         \* the time at which authorize accepted it
  made,       \* the session authenticate created
  outcome,    \* what the request is answered
  used,       \* history: the last time each session was created, or accepted
              \* for an unsafe request that recorded it
  late        \* history: requests that had not read their session when it was
              \* revoked

request == <<pc, kind, cookie, csrf, snap, at, made, outcome>>
history == <<used, late>>
vars == <<clock, row, jar, page, request, history>>

\* Times start at 1: a row without an absolute expiry is not there, a row
\* without a revocation time is live.
Row == [idle : Nat, absolute : Nat, revoked : Nat]
NoRow == [idle |-> 0, absolute |-> 0, revoked |-> 0]

Earlier(m, n) == IF m < n THEN m ELSE n
Later(m, n) == IF m < n THEN n ELSE m

NewRow(now) ==
  [idle |-> now + Idle, absolute |-> now + Absolute, revoked |-> 0]

\* The first request of the Planner's browser after a sign-in at time 1.
Init ==
  /\ clock = 1
  /\ \E s \in Sessions :
       /\ row = [t \in Sessions |-> IF t = s THEN NewRow(1) ELSE NoRow]
       /\ used = [t \in Sessions |-> IF t = s THEN 1 ELSE 0]
       /\ jar = s /\ page = s
  /\ pc = [r \in Requests |-> "idle"]
  /\ kind \in [Requests -> Kinds]
  /\ cookie = [r \in Requests |-> None]
  /\ csrf = [r \in Requests |-> None]
  /\ snap = [r \in Requests |-> NoRow]
  /\ at = [r \in Requests |-> 0]
  /\ made = [r \in Requests |-> None]
  /\ outcome = [r \in Requests |-> "none"]
  /\ late = {}

Goto(r, step) == pc' = [pc EXCEPT ![r] = step]

Answer(r, what) ==
  /\ Goto(r, "answered")
  /\ outcome' = [outcome EXCEPT ![r] = what]

Tick ==
  /\ clock < MaxTime
  /\ clock' = clock + 1
  /\ UNCHANGED <<row, jar, page, request, history>>

-----------------------------------------------------------------------------
\* The browser sends a request with the cookie it holds now.  The callback of
\* a sign-in comes from another site, and a SameSite=Strict cookie may be left
\* out of it.
Send(r) ==
  /\ pc[r] = "idle"
  /\ \E c \in {jar} \cup (IF kind[r] = "signIn" THEN {None} ELSE {}) :
       cookie' = [cookie EXCEPT ![r] = c]
  /\ late' = IF cookie'[r] # None /\ row[cookie'[r]].revoked # 0
               THEN late \cup {r} ELSE late
  /\ csrf' = [csrf EXCEPT ![r] = page]
  /\ Goto(r, IF kind[r] = "signIn" THEN "resolving" ELSE "finding")
  /\ UNCHANGED <<clock, row, jar, page, kind, snap, at, made, outcome, used>>

\* Mutant of Resolve: a sign-in leaves the previous session as it is.
ResolveKeepsPrevious(r) ==
  /\ pc[r] = "resolving"
  /\ \/ Answer(r, "refused")
     \/ Goto(r, "creating") /\ UNCHANGED outcome
  /\ UNCHANGED <<clock, row, jar, page, kind, cookie, csrf, snap, at, made,
                 history>>

\* completeOidcAuthorization: the token exchange and resolvePlannerId may
\* fail; otherwise authenticate revokes the previous session first.
Resolve(r) ==
  /\ pc[r] = "resolving"
  /\ \/ Answer(r, "refused")
     \/ /\ Goto(r, IF cookie[r] = None THEN "creating" ELSE "checking")
        /\ UNCHANGED outcome
  /\ UNCHANGED <<clock, row, jar, page, kind, cookie, csrf, snap, at, made,
                 history>>

\* authorize, repository.find
Find(r) ==
  /\ pc[r] = "finding"
  /\ IF cookie[r] = None
       THEN Answer(r, "refused") /\ UNCHANGED snap
       ELSE /\ snap' = [snap EXCEPT ![r] = row[cookie[r]]]
            /\ Goto(r, "deciding")
            /\ UNCHANGED outcome
  /\ UNCHANGED <<clock, row, jar, page, kind, cookie, csrf, at, made, history>>

\* Mutant of Alive: the revocation is not looked at.
AliveUnlessExpired(r) ==
  /\ snap[r].absolute # 0
  /\ clock < snap[r].idle /\ clock < snap[r].absolute

Alive(r) ==
  /\ snap[r].absolute # 0 /\ snap[r].revoked = 0
  /\ clock < snap[r].idle /\ clock < snap[r].absolute

\* authorize, the checks on the row that was found, with the time of now.
Decide(r) ==
  /\ pc[r] = "deciding"
  /\ IF ~Alive(r) \/ (kind[r] # "session" /\ csrf[r] # cookie[r])
       THEN Answer(r, "refused") /\ UNCHANGED at
       ELSE /\ at' = [at EXCEPT ![r] = clock]
            /\ IF kind[r] = "session"
                 THEN Answer(r, "ok")
                 ELSE Goto(r, "touching") /\ UNCHANGED outcome
  /\ UNCHANGED <<clock, row, jar, page, kind, cookie, csrf, snap, made,
                 history>>

\* Mutant of Expiry: the lifetime is added to the expiry that was found.
ExpiryExtended(r) == Earlier(snap[r].idle + Idle, snap[r].absolute)

\* The new idle_expires_at.
Expiry(r) == Earlier(at[r] + Idle, snap[r].absolute)

\* Where authorize returns to, once an unsafe request was accepted.
AfterTouch(r) ==
  IF kind[r] = "signOut"
    THEN Goto(r, "checking") /\ UNCHANGED outcome
    ELSE Answer(r, "ok")

\* Mutant of Touch: a revoked row is updated as well.
TouchRevoked(r) ==
  /\ pc[r] = "touching"
  /\ row' = [row EXCEPT ![cookie[r]].idle = Expiry(r)]
  /\ used' = [used EXCEPT ![cookie[r]] = Later(@, at[r])]
  /\ AfterTouch(r)
  /\ UNCHANGED <<clock, jar, page, kind, cookie, csrf, snap, at, made, late>>

\* authorize, repository.touch: UPDATE ... WHERE revoked_at IS NULL.
Touch(r) ==
  /\ pc[r] = "touching"
  /\ IF row[cookie[r]].revoked = 0
       THEN /\ row' = [row EXCEPT ![cookie[r]].idle = Expiry(r)]
            /\ used' = [used EXCEPT ![cookie[r]] = Later(@, at[r])]
       ELSE UNCHANGED <<row, used>>
  /\ AfterTouch(r)
  /\ UNCHANGED <<clock, jar, page, kind, cookie, csrf, snap, at, made, late>>

\* Where revoke returns to: a sign-in goes on, a sign-out is answered.
AfterRevoke(r) ==
  IF kind[r] = "signIn" THEN Goto(r, "creating") /\ UNCHANGED outcome
                        ELSE Answer(r, "ok")

\* revoke, repository.find: nothing to do for a row that is revoked or gone.
Check(r) ==
  /\ pc[r] = "checking"
  /\ IF row[cookie[r]].absolute # 0 /\ row[cookie[r]].revoked = 0
       THEN Goto(r, "revoking") /\ UNCHANGED outcome
       ELSE AfterRevoke(r)
  /\ UNCHANGED <<clock, row, jar, page, kind, cookie, csrf, snap, at, made,
                 history>>

\* revoke, repository.revoke: UPDATE ... WHERE revoked_at IS NULL.
Revoke(r) ==
  /\ pc[r] = "revoking"
  /\ row' = IF row[cookie[r]].revoked = 0
              THEN [row EXCEPT ![cookie[r]].revoked = clock]
              ELSE row
  /\ late' = late \cup
       {q \in Requests : pc[q] = "finding" /\ cookie[q] = cookie[r]}
  /\ AfterRevoke(r)
  /\ UNCHANGED <<clock, jar, page, kind, cookie, csrf, snap, at, made, used>>

\* authenticate, repository.create.
Create(r) ==
  /\ pc[r] = "creating"
  /\ \E s \in {t \in Sessions : row[t] = NoRow} :
       /\ row' = [row EXCEPT ![s] = NewRow(clock)]
       /\ made' = [made EXCEPT ![r] = s]
       /\ used' = [used EXCEPT ![s] = clock]
  /\ Answer(r, "ok")
  /\ UNCHANGED <<clock, jar, page, kind, cookie, csrf, snap, at, late>>

\* Mutant of Deliver: the cookie of a sign-out is emptied but not removed.
DeliverEmptyCookie(r) ==
  /\ pc[r] = "answered"
  /\ Goto(r, "done")
  /\ jar' = IF outcome[r] = "ok" /\ kind[r] = "signOut" THEN "" ELSE jar
  /\ UNCHANGED <<clock, row, page, kind, cookie, csrf, snap, at, made, outcome,
                 history>>

\* The response reaches the browser: a sign-in sets the cookie, a sign-out
\* clears it, whatever it holds by then, and GET session renews the token.
Deliver(r) ==
  /\ pc[r] = "answered"
  /\ Goto(r, "done")
  /\ LET ok == outcome[r] = "ok"
     IN  /\ jar' = IF ok /\ kind[r] = "signIn" THEN made[r]
                   ELSE IF ok /\ kind[r] = "signOut" THEN None
                   ELSE jar
         /\ page' = IF ok /\ kind[r] = "session" THEN cookie[r] ELSE page
  /\ UNCHANGED <<clock, row, kind, cookie, csrf, snap, at, made, outcome,
                 history>>

\* The process dies, a statement fails or the response is lost.
Lose(r) ==
  /\ pc[r] \notin {"idle", "done"}
  /\ Goto(r, "done")
  /\ UNCHANGED <<clock, row, jar, page, kind, cookie, csrf, snap, at, made,
                 outcome, history>>

Authorize(r) == Find(r) \/ Decide(r) \/ Touch(r)
Authenticate(r) == Resolve(r) \/ Check(r) \/ Revoke(r) \/ Create(r)

Next ==
  \/ Tick
  \/ \E r \in Requests :
       Send(r) \/ Authorize(r) \/ Authenticate(r) \/ Deliver(r) \/ Lose(r)

Spec == Init /\ [][Next]_vars

-----------------------------------------------------------------------------
(***************************************************************************)
(* Properties.                                                             *)
(***************************************************************************)

\* Every variable has its type.
TypeOK ==
  /\ clock \in 1..MaxTime
  /\ row \in [Sessions -> Row]
  /\ jar \in Sessions \cup {None} /\ page \in Sessions \cup {None}
  /\ pc \in [Requests -> {"idle", "resolving", "finding", "deciding",
                          "touching", "checking", "revoking", "creating",
                          "answered", "done"}]
  /\ kind \in [Requests -> Kinds]
  /\ cookie \in [Requests -> Sessions \cup {None}]
  /\ csrf \in [Requests -> Sessions \cup {None}]
  /\ snap \in [Requests -> Row]
  /\ at \in [Requests -> 0..MaxTime]
  /\ made \in [Requests -> Sessions \cup {None}]
  /\ outcome \in [Requests -> {"none", "ok", "refused"}]
  /\ used \in [Sessions -> 0..MaxTime]
  /\ late \subseteq Requests

\* A row that is revoked never changes again: neither a touch that was decided
\* before nor a second revocation reaches it (postgres-session-repository.ts).
RevokedIsFinal ==
  [][\A s \in Sessions : row[s].revoked # 0 => row'[s] = row[s]]_row

\* A request that had not read its session when it was revoked, by a sign-out
\* or by a sign-in in another tab, is never accepted, however late the requests
\* that were accepted before record their use.
RevocationIsImmediate == \A r \in late : at[r] = 0

\* A session is accepted only within twelve hours of its last recorded use, and
\* within seven days of its creation, although authorize decides on a row that
\* may be stale and records the use later.
NeverUsedAfterInactivity ==
  [][\A r \in Requests : at'[r] # at[r] =>
       /\ at'[r] < used[cookie[r]] + Idle
       /\ at'[r] < row[cookie[r]].absolute]_at

\* A sign-in that issued a session has revoked the one that came with it, even
\* if the process dies before its answer is sent (authenticate revokes first).
SignInRotates ==
  \A r \in Requests :
    made[r] # None /\ cookie[r] # None => row[cookie[r]].revoked # 0
=============================================================================
