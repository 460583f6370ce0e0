-------------------------- MODULE AppSessionProofs --------------------------
(***************************************************************************)
(* Proofs, for any number of requests and sessions and for any lifetimes,  *)
(* that revocation is immediate and final, that a sign-in rotates the      *)
(* session, and that no session is used after its lifetimes.               *)
(***************************************************************************)
EXTENDS AppSession, TLAPS

Exists(s) == row[s].absolute # 0
Revoked(s) == row[s].revoked # 0

\* Whatever names a session names one that was stored; rows are never deleted.
NamesExist ==
  /\ jar # None => Exists(jar)
  /\ \A r \in Requests : cookie[r] # None => Exists(cookie[r])
  /\ \A r \in Requests : made[r] # None => Exists(made[r])

\* A request that has not been accepted yet has no time of acceptance, and one
\* that works on a session has come with its cookie.
PlaceOf(r) ==
  /\ pc[r] \in {"deciding", "touching", "checking", "revoking"} =>
       cookie[r] # None
  /\ pc[r] \in {"idle", "resolving", "finding", "deciding"} => at[r] = 0
  /\ made[r] # None => pc[r] \in {"answered", "done"}
Places == \A r \in Requests : PlaceOf(r)

\* authenticate creates after it has revoked.
RevokesFirst ==
  \A r \in Requests :
    pc[r] = "creating" /\ cookie[r] # None => Revoked(cookie[r])

\* What revocation leaves of a request that comes late: the row it reads is
\* revoked.
LateIsRefused ==
  \A r \in late :
    /\ r \in Requests /\ cookie[r] # None /\ Revoked(cookie[r])
    /\ at[r] = 0 /\ pc[r] # "idle"
    /\ pc[r] = "deciding" => snap[r].revoked # 0

\* The idle expiry is never ahead of the last recorded use; a row that was read
\* may be stale in its idle expiry, and has the absolute one.
ExpiryFollowsUse ==
  /\ \A s \in Sessions : row[s].idle <= used[s] + Idle
  /\ \A r \in Requests : pc[r] = "deciding" =>
       /\ snap[r].idle <= used[cookie[r]] + Idle
       /\ snap[r].absolute = row[cookie[r]].absolute

IInv ==
  /\ TypeOK /\ NamesExist /\ Places /\ RevokesFirst /\ SignInRotates
  /\ LateIsRefused /\ ExpiryFollowsUse

LEMMA InitIInv == Init => IInv
<1> SUFFICES ASSUME Init PROVE IInv
  OBVIOUS
<1>1. PICK s \in Sessions :
        /\ row = [t \in Sessions |-> IF t = s THEN NewRow(1) ELSE NoRow]
        /\ used = [t \in Sessions |-> IF t = s THEN 1 ELSE 0]
        /\ jar = s /\ page = s
  BY DEF Init
<1>2. NewRow(1) \in Row /\ NoRow \in Row /\ NewRow(1).absolute # 0
  BY LifetimeAssumption DEF NewRow, NoRow, Row
<1>3. row \in [Sessions -> Row] /\ row[s].absolute # 0
  BY <1>1, <1>2
<1>4. TypeOK
  BY <1>1, <1>2, <1>3, MaxTimeAssumption DEF Init, TypeOK
<1>5. NamesExist /\ Places /\ RevokesFirst /\ SignInRotates /\ LateIsRefused
  BY <1>1, <1>3
     DEF Init, NamesExist, Places, PlaceOf, RevokesFirst, SignInRotates,
         LateIsRefused, Exists, Revoked
<1>6. ExpiryFollowsUse
  BY <1>1, LifetimeAssumption
     DEF Init, ExpiryFollowsUse, NewRow, NoRow
<1>7. QED
  BY <1>4, <1>5, <1>6 DEF IInv

\* Steps that change no row, no cookie of the browser, and nothing of a request
\* but its place and its outcome.
LEMMA MoveIInv ==
  ASSUME IInv, NEW r \in Requests,
         NEW step \in {"checking", "revoking", "creating", "answered", "done"},
         pc' = [pc EXCEPT ![r] = step],
         outcome' \in [Requests -> {"none", "ok", "refused"}],
         UNCHANGED <<clock, row, jar, page, kind, cookie, csrf, snap, at, made,
                     used, late>>,
         step \in {"checking", "revoking"} => cookie[r] # None,
         made[r] # None => step \in {"answered", "done"},
         step = "creating" /\ cookie[r] # None => Revoked(cookie[r])
  PROVE  IInv'
<1>1. TypeOK'
  BY DEF IInv, TypeOK
<1>2. NamesExist' /\ SignInRotates'
  BY DEF IInv, TypeOK, NamesExist, SignInRotates, Exists
<1>3. Places'
  BY DEF IInv, TypeOK, Places, PlaceOf
<1>4. RevokesFirst'
  BY DEF IInv, TypeOK, RevokesFirst, Revoked
<1>5. LateIsRefused' /\ ExpiryFollowsUse'
  BY DEF IInv, TypeOK, LateIsRefused, ExpiryFollowsUse, Revoked
<1>6. QED
  BY <1>1, <1>2, <1>3, <1>4, <1>5 DEF IInv

LEMMA TickIInv == ASSUME IInv, Tick PROVE IInv'
<1>1. /\ clock' = clock + 1 /\ clock < MaxTime
      /\ UNCHANGED <<row, jar, page, pc, kind, cookie, csrf, snap, at, made,
                     outcome, used, late>>
  BY DEF Tick, request, history
<1>2. TypeOK'
  BY <1>1, MaxTimeAssumption DEF IInv, TypeOK
<1>3. QED
  BY <1>1, <1>2
     DEF IInv, NamesExist, Places, PlaceOf, RevokesFirst, SignInRotates,
         LateIsRefused, ExpiryFollowsUse, Exists, Revoked

LEMMA SendIInv == ASSUME IInv, NEW r \in Requests, Send(r) PROVE IInv'
<1> DEFINE step == IF kind[r] = "signIn" THEN "resolving" ELSE "finding"
<1>1. PICK c \in {jar, None} : cookie' = [cookie EXCEPT ![r] = c]
  BY DEF Send
<1>2. /\ pc[r] = "idle" /\ pc' = [pc EXCEPT ![r] = step]
      /\ csrf' = [csrf EXCEPT ![r] = page]
      /\ UNCHANGED <<clock, row, jar, page, kind, snap, at, made, outcome, used>>
  BY DEF Send, Goto
<1>3. late' = IF c # None /\ row[c].revoked # 0 THEN late \cup {r} ELSE late
  BY <1>1 DEF Send, IInv, TypeOK
<1>4. TypeOK'
  BY <1>1, <1>2, <1>3 DEF IInv, TypeOK
<1>5. cookie'[r] = c /\ pc'[r] = step /\ step \in {"resolving", "finding"}
  BY <1>1, <1>2 DEF IInv, TypeOK
<1>6. ASSUME NEW q \in Requests, q # r
      PROVE  cookie'[q] = cookie[q] /\ pc'[q] = pc[q]
  BY <1>1, <1>2, <1>6 DEF IInv, TypeOK
<1>7. made[r] = None /\ at[r] = 0
  BY <1>2 DEF IInv, Places, PlaceOf
<1>8. NamesExist' /\ SignInRotates'
  BY <1>2, <1>5, <1>6, <1>7 DEF IInv, NamesExist, SignInRotates, Exists
<1>9. Places'
  BY <1>2, <1>5, <1>6, <1>7 DEF IInv, Places, PlaceOf
<1>10. RevokesFirst' /\ ExpiryFollowsUse'
  BY <1>2, <1>5, <1>6 DEF IInv, RevokesFirst, ExpiryFollowsUse, Revoked
<1>11. LateIsRefused'
  BY <1>2, <1>3, <1>5, <1>6, <1>7 DEF IInv, TypeOK, LateIsRefused, Revoked
<1>12. QED
  BY <1>4, <1>8, <1>9, <1>10, <1>11 DEF IInv

LEMMA ResolveIInv == ASSUME IInv, NEW r \in Requests, Resolve(r) PROVE IInv'
<1>1. PICK to \in {"answered", "creating", "checking"} :
        /\ pc' = [pc EXCEPT ![r] = to]
        /\ to = "creating" => cookie[r] = None
        /\ to = "checking" => cookie[r] # None
  BY DEF Resolve, Answer, Goto
<1>2. /\ pc[r] = "resolving"
      /\ outcome' \in [Requests -> {"none", "ok", "refused"}]
      /\ UNCHANGED <<clock, row, jar, page, kind, cookie, csrf, snap, at, made,
                     used, late>>
  BY DEF Resolve, Answer, history, IInv, TypeOK
<1>3. made[r] = None
  BY <1>2 DEF IInv, Places, PlaceOf
<1>4. QED
  BY <1>1, <1>2, <1>3, MoveIInv

LEMMA FindIInv == ASSUME IInv, NEW r \in Requests, Find(r) PROVE IInv'
<1>1. /\ pc[r] = "finding" /\ made[r] = None
      /\ UNCHANGED <<clock, row, jar, page, kind, cookie, csrf, at, made, used,
                     late>>
  BY DEF Find, history, IInv, Places, PlaceOf
<1>2. CASE cookie[r] = None
  <2>1. /\ pc' = [pc EXCEPT ![r] = "answered"] /\ UNCHANGED snap
        /\ outcome' \in [Requests -> {"none", "ok", "refused"}]
    BY <1>2 DEF Find, Answer, Goto, IInv, TypeOK
  <2>2. QED
    BY <1>1, <2>1, MoveIInv
<1>3. CASE cookie[r] # None
  <2> DEFINE c == cookie[r]
  <2>1. /\ pc' = [pc EXCEPT ![r] = "deciding"]
        /\ snap' = [snap EXCEPT ![r] = row[c]]
        /\ UNCHANGED outcome
    BY <1>3 DEF Find, Goto
  <2>2. c \in Sessions /\ row[c] \in Row
    BY <1>3 DEF IInv, TypeOK
  <2>3. TypeOK'
    BY <1>1, <2>1, <2>2 DEF IInv, TypeOK
  <2>4. pc'[r] = "deciding" /\ snap'[r] = row[c]
    BY <2>1 DEF IInv, TypeOK
  <2>5. ASSUME NEW q \in Requests, q # r
        PROVE  pc'[q] = pc[q] /\ snap'[q] = snap[q]
    BY <2>1, <2>5 DEF IInv, TypeOK
  <2>6. NamesExist' /\ SignInRotates' /\ RevokesFirst'
    BY <1>1, <2>4, <2>5
       DEF IInv, NamesExist, SignInRotates, RevokesFirst, Exists, Revoked
  <2>7. Places'
    BY <1>1, <1>3, <2>4, <2>5 DEF IInv, Places, PlaceOf
  <2>8. LateIsRefused'
    BY <1>1, <2>4, <2>5 DEF IInv, LateIsRefused, Revoked
  <2>9. ExpiryFollowsUse'
    BY <1>1, <2>2, <2>4, <2>5 DEF IInv, ExpiryFollowsUse
  <2>10. QED
    BY <2>3, <2>6, <2>7, <2>8, <2>9 DEF IInv
<1>4. QED
  BY <1>2, <1>3

LEMMA DecideIInv == ASSUME IInv, NEW r \in Requests, Decide(r) PROVE IInv'
<1>1. /\ pc[r] = "deciding" /\ made[r] = None /\ cookie[r] # None
      /\ UNCHANGED <<clock, row, jar, page, kind, cookie, csrf, snap, made, used,
                     late>>
  BY DEF Decide, history, IInv, Places, PlaceOf
<1>2. CASE UNCHANGED at /\ Answer(r, "refused")
  <2>1. /\ pc' = [pc EXCEPT ![r] = "answered"]
        /\ outcome' \in [Requests -> {"none", "ok", "refused"}]
    BY <1>2 DEF Answer, Goto, IInv, TypeOK
  <2>2. QED
    BY <1>1, <1>2, <2>1, MoveIInv
<1>3. CASE at' = [at EXCEPT ![r] = clock] /\ Alive(r)
  <2>1. PICK to \in {"answered", "touching"} : pc' = [pc EXCEPT ![r] = to]
    BY <1>3 DEF Decide, Answer, Goto
  <2>2. outcome' \in [Requests -> {"none", "ok", "refused"}]
    BY <1>3 DEF Decide, Answer, IInv, TypeOK
  <2>3. clock \in 0..MaxTime
    BY DEF IInv, TypeOK
  <2>4. TypeOK'
    BY <1>1, <1>3, <2>1, <2>2, <2>3 DEF IInv, TypeOK
  <2>5. r \notin late
    BY <1>1, <1>3 DEF IInv, LateIsRefused, Alive
  <2>6. pc'[r] \in {"answered", "touching"}
    BY <2>1 DEF IInv, TypeOK
  <2>7. ASSUME NEW q \in Requests, q # r
        PROVE  pc'[q] = pc[q] /\ at'[q] = at[q]
    BY <1>3, <2>1, <2>7 DEF IInv, TypeOK
  <2>8. NamesExist' /\ SignInRotates' /\ RevokesFirst' /\ ExpiryFollowsUse'
    BY <1>1, <2>6, <2>7
       DEF IInv, NamesExist, SignInRotates, RevokesFirst, ExpiryFollowsUse,
           Exists, Revoked
  <2>9. Places'
    BY <1>1, <2>6, <2>7 DEF IInv, Places, PlaceOf
  <2>10. LateIsRefused'
    BY <1>1, <2>5, <2>7 DEF IInv, LateIsRefused, Revoked
  <2>11. QED
    BY <2>4, <2>8, <2>9, <2>10 DEF IInv
<1>4. QED
  BY <1>2, <1>3 DEF Decide

LEMMA TouchIInv == ASSUME IInv, NEW r \in Requests, Touch(r) PROVE IInv'
<1> DEFINE c == cookie[r]
<1>1. /\ pc[r] = "touching" /\ made[r] = None /\ c # None
      /\ UNCHANGED <<clock, jar, page, kind, cookie, csrf, snap, at, made, late>>
  BY DEF Touch, IInv, Places, PlaceOf
<1>2. PICK to \in {"answered", "checking"} : pc' = [pc EXCEPT ![r] = to]
  BY DEF Touch, AfterTouch, Answer, Goto
<1>3. outcome' \in [Requests -> {"none", "ok", "refused"}]
  BY DEF Touch, AfterTouch, Answer, IInv, TypeOK
<1>4. CASE UNCHANGED <<row, used>>
  BY <1>1, <1>2, <1>3, <1>4, MoveIInv
<1>5. CASE ~Revoked(c)
  <2> DEFINE new == [row[c] EXCEPT !.idle = Expiry(r)]
  <2>1. c \in Sessions /\ row[c] \in Row /\ snap[r] \in Row
        /\ at[r] \in 0..MaxTime /\ used[c] \in 0..MaxTime
    BY <1>1 DEF IInv, TypeOK
  <2>2. /\ row' = [row EXCEPT ![c] = new]
        /\ used' = [used EXCEPT ![c] = Later(@, at[r])]
    BY <1>5 DEF Touch, Revoked
  <2>3. Expiry(r) \in Nat /\ Expiry(r) <= at[r] + Idle
    BY <2>1, LifetimeAssumption, MaxTimeAssumption DEF Expiry, Earlier, Row
  <2>4. /\ new \in Row /\ new.absolute = row[c].absolute
        /\ new.revoked = row[c].revoked /\ new.idle = Expiry(r)
    BY <2>1, <2>3 DEF Row
  <2>5. /\ Later(used[c], at[r]) \in 0..MaxTime
        /\ used[c] <= Later(used[c], at[r]) /\ at[r] <= Later(used[c], at[r])
    BY <2>1, MaxTimeAssumption DEF Later
  <2> HIDE DEF new
  <2>6. TypeOK'
    BY <1>1, <1>2, <1>3, <2>2, <2>4, <2>5 DEF IInv, TypeOK
  <2>7. ASSUME NEW s \in Sessions
        PROVE  /\ row'[s].absolute = row[s].absolute
               /\ row'[s].revoked = row[s].revoked
               /\ used[s] \in Nat /\ used'[s] \in Nat /\ used[s] <= used'[s]
               /\ row'[s].idle <= used'[s] + Idle
    <3>1. CASE s = c
      BY <2>1, <2>2, <2>3, <2>4, <2>5, <3>1, LifetimeAssumption, MaxTimeAssumption
         DEF IInv, TypeOK
    <3>2. CASE s # c
      <4>1. row'[s] = row[s] /\ used'[s] = used[s]
        BY <2>2, <3>2 DEF IInv, TypeOK
      <4>2. QED
        BY <4>1, MaxTimeAssumption DEF IInv, TypeOK, ExpiryFollowsUse
    <3>3. QED
      BY <3>1, <3>2
  <2>8. NamesExist' /\ SignInRotates' /\ RevokesFirst' /\ LateIsRefused'
    <3>1. \A s \in Sessions : /\ Exists(s)' <=> Exists(s)
                              /\ Revoked(s)' <=> Revoked(s)
      BY <2>7 DEF Exists, Revoked
    <3>2. NamesExist'
      BY <1>1, <3>1 DEF IInv, TypeOK, NamesExist
    <3>3. SignInRotates'
      BY <1>1, <2>7 DEF IInv, TypeOK, SignInRotates
    <3>4. RevokesFirst'
      BY <1>1, <1>2, <2>7, NoneAssumption
         DEF IInv, TypeOK, RevokesFirst, Revoked
    <3>5. LateIsRefused'
      BY <1>1, <1>2, <2>7 DEF IInv, TypeOK, LateIsRefused, Revoked
    <3>6. QED
      BY <3>2, <3>3, <3>4, <3>5
  <2>9. Places'
    BY <1>1, <1>2 DEF IInv, TypeOK, Places, PlaceOf
  <2>10. ASSUME NEW q \in Requests, pc'[q] = "deciding"
         PROVE  /\ snap'[q].idle <= used'[cookie'[q]] + Idle
                /\ snap'[q].absolute = row'[cookie'[q]].absolute
    <3>1. pc[q] = "deciding"
      BY <1>2, <2>10 DEF IInv, TypeOK
    <3>2. cookie[q] \in Sessions /\ snap[q].idle \in Nat
      BY <3>1 DEF IInv, Places, PlaceOf, TypeOK, Row
    <3>3. QED
      BY <1>1, <2>7, <3>1, <3>2, LifetimeAssumption DEF IInv, ExpiryFollowsUse
  <2>11. ExpiryFollowsUse'
    BY <2>7, <2>10 DEF ExpiryFollowsUse
  <2>12. QED
    BY <2>6, <2>8, <2>9, <2>11 DEF IInv
<1>6. QED
  BY <1>4, <1>5 DEF Touch, Revoked

LEMMA CheckIInv == ASSUME IInv, NEW r \in Requests, Check(r) PROVE IInv'
<1>1. /\ pc[r] = "checking" /\ made[r] = None /\ cookie[r] # None
      /\ UNCHANGED <<clock, row, jar, page, kind, cookie, csrf, snap, at, made,
                     used, late>>
  BY DEF Check, history, IInv, Places, PlaceOf
<1>2. outcome' \in [Requests -> {"none", "ok", "refused"}]
  BY DEF Check, AfterRevoke, Answer, IInv, TypeOK
<1>3. Exists(cookie[r])
  BY <1>1 DEF IInv, NamesExist
<1>4. PICK to \in {"revoking", "creating", "answered"} :
        /\ pc' = [pc EXCEPT ![r] = to]
        /\ to = "creating" => Revoked(cookie[r])
  BY <1>3 DEF Check, AfterRevoke, Answer, Goto, Exists, Revoked
<1>5. QED
  BY <1>1, <1>2, <1>4, MoveIInv

LEMMA RevokeIInv == ASSUME IInv, NEW r \in Requests, Revoke(r) PROVE IInv'
<1> DEFINE c == cookie[r]
           new == IF Revoked(c) THEN row[c] ELSE [row[c] EXCEPT !.revoked = clock]
<1>1. /\ pc[r] = "revoking" /\ made[r] = None /\ c # None
      /\ UNCHANGED <<clock, jar, page, kind, cookie, csrf, snap, at, made, used>>
      /\ late' = late \cup
            {q \in Requests : pc[q] = "finding" /\ cookie[q] = c}
  BY DEF Revoke, IInv, Places, PlaceOf
<1>2. PICK to \in {"creating", "answered"} : pc' = [pc EXCEPT ![r] = to]
  BY DEF Revoke, AfterRevoke, Answer, Goto
<1>3. outcome' \in [Requests -> {"none", "ok", "refused"}]
  BY DEF Revoke, AfterRevoke, Answer, IInv, TypeOK
<1>4. c \in Sessions /\ row[c] \in Row /\ clock \in 1..MaxTime
  BY <1>1 DEF IInv, TypeOK
<1>5. row' = [row EXCEPT ![c] = new]
  BY <1>4 DEF Revoke, Revoked, IInv, TypeOK
<1>6. /\ new \in Row /\ new.revoked # 0
      /\ new.absolute = row[c].absolute /\ new.idle = row[c].idle
  BY <1>4 DEF Revoked, Row
<1> HIDE DEF new
<1>7. TypeOK'
  BY <1>1, <1>2, <1>3, <1>5, <1>6 DEF IInv, TypeOK
<1>8. ASSUME NEW s \in Sessions
      PROVE  /\ row'[s].absolute = row[s].absolute /\ row'[s].idle = row[s].idle
             /\ Revoked(s) \/ s = c => row'[s].revoked # 0
  BY <1>5, <1>6 DEF IInv, TypeOK, Revoked
<1>9. NamesExist' /\ SignInRotates' /\ RevokesFirst'
  BY <1>1, <1>2, <1>4, <1>8
     DEF IInv, TypeOK, NamesExist, SignInRotates, RevokesFirst, Exists, Revoked
<1>10. Places'
  BY <1>1, <1>2 DEF IInv, TypeOK, Places, PlaceOf
<1>11. LateIsRefused'
  BY <1>1, <1>2, <1>4, <1>8
     DEF IInv, TypeOK, LateIsRefused, Places, PlaceOf, Revoked
<1>12. ExpiryFollowsUse'
  BY <1>1, <1>2, <1>8
     DEF IInv, TypeOK, ExpiryFollowsUse, Places, PlaceOf
<1>13. QED
  BY <1>7, <1>9, <1>10, <1>11, <1>12 DEF IInv

LEMMA CreateIInv == ASSUME IInv, NEW r \in Requests, Create(r) PROVE IInv'
<1>1. PICK s \in Sessions :
        /\ row[s] = NoRow
        /\ row' = [row EXCEPT ![s] = NewRow(clock)]
        /\ made' = [made EXCEPT ![r] = s]
        /\ used' = [used EXCEPT ![s] = clock]
  BY DEF Create
<1>2. /\ pc[r] = "creating" /\ pc' = [pc EXCEPT ![r] = "answered"]
      /\ outcome' \in [Requests -> {"none", "ok", "refused"}]
      /\ UNCHANGED <<clock, jar, page, kind, cookie, csrf, snap, at, late>>
  BY DEF Create, Answer, Goto, IInv, TypeOK
<1>3. clock \in 1..MaxTime
  BY DEF IInv, TypeOK
<1>4. /\ NewRow(clock) \in Row /\ NewRow(clock).absolute # 0
      /\ NewRow(clock).idle = clock + Idle
  BY <1>3, LifetimeAssumption DEF NewRow, Row
<1>5. TypeOK'
  BY <1>1, <1>2, <1>3, <1>4, NoneAssumption DEF IInv, TypeOK
<1>6. ~Exists(s) /\ ~Revoked(s)
  BY <1>1 DEF Exists, Revoked, NoRow
<1>7. /\ row'[s] = NewRow(clock) /\ used'[s] = clock /\ made'[r] = s
      /\ \A t \in Sessions \ {s} : row'[t] = row[t] /\ used'[t] = used[t]
      /\ \A q \in Requests \ {r} : made'[q] = made[q] /\ pc'[q] = pc[q]
  BY <1>1, <1>2 DEF IInv, TypeOK
<1>8. \A q \in Requests : cookie[q] # s /\ made[q] # s
  BY <1>6, NoneAssumption DEF IInv, NamesExist
<1>9. NamesExist'
  BY <1>2, <1>4, <1>6, <1>7, <1>8 DEF IInv, TypeOK, NamesExist, Exists
<1>10. Places'
  BY <1>1, <1>2 DEF IInv, TypeOK, Places, PlaceOf
<1>11. RevokesFirst'
  BY <1>2, <1>7, <1>8 DEF IInv, TypeOK, RevokesFirst, Revoked
<1>12. SignInRotates'
  BY <1>2, <1>7, <1>8 DEF IInv, TypeOK, SignInRotates, RevokesFirst, Revoked
<1>13. LateIsRefused'
  BY <1>2, <1>7, <1>8 DEF IInv, TypeOK, LateIsRefused, Revoked
<1>14. ExpiryFollowsUse'
  <2>1. ASSUME NEW t \in Sessions PROVE row'[t].idle <= used'[t] + Idle
    BY <1>3, <1>4, <1>7, LifetimeAssumption, MaxTimeAssumption
       DEF IInv, ExpiryFollowsUse
  <2>2. ASSUME NEW q \in Requests, pc'[q] = "deciding"
        PROVE  /\ snap'[q].idle <= used'[cookie'[q]] + Idle
               /\ snap'[q].absolute = row'[cookie'[q]].absolute
    <3>1. pc[q] = "deciding"
      BY <1>2, <2>2 DEF IInv, TypeOK
    <3>2. cookie[q] \in Sessions \ {s}
      BY <1>8, <3>1 DEF IInv, Places, PlaceOf, TypeOK
    <3>3. QED
      BY <1>2, <1>7, <3>1, <3>2 DEF IInv, ExpiryFollowsUse
  <2>3. QED
    BY <2>1, <2>2 DEF ExpiryFollowsUse
<1>15. QED
  BY <1>5, <1>9, <1>10, <1>11, <1>12, <1>13, <1>14 DEF IInv

LEMMA DeliverIInv == ASSUME IInv, NEW r \in Requests, Deliver(r) PROVE IInv'
<1>1. /\ pc[r] = "answered" /\ pc' = [pc EXCEPT ![r] = "done"]
      /\ jar' \in {made[r], None, jar} /\ page' \in {cookie[r], page}
      /\ UNCHANGED <<clock, row, kind, cookie, csrf, snap, at, made, outcome,
                     used, late>>
  BY DEF Deliver, Goto, history
<1>2. TypeOK'
  BY <1>1 DEF IInv, TypeOK
<1>3. NamesExist' /\ SignInRotates'
  BY <1>1 DEF IInv, TypeOK, NamesExist, SignInRotates, Exists
<1>4. Places'
  BY <1>1 DEF IInv, TypeOK, Places, PlaceOf
<1>5. RevokesFirst' /\ LateIsRefused' /\ ExpiryFollowsUse'
  BY <1>1 DEF IInv, TypeOK, RevokesFirst, LateIsRefused, ExpiryFollowsUse, Revoked
<1>6. QED
  BY <1>2, <1>3, <1>4, <1>5 DEF IInv

LEMMA LoseIInv == ASSUME IInv, NEW r \in Requests, Lose(r) PROVE IInv'
<1>1. /\ pc' = [pc EXCEPT ![r] = "done"]
      /\ UNCHANGED <<clock, row, jar, page, kind, cookie, csrf, snap, at, made,
                     outcome, used, late>>
  BY DEF Lose, Goto, history
<1>2. outcome' \in [Requests -> {"none", "ok", "refused"}]
  BY <1>1 DEF IInv, TypeOK
<1>3. QED
  BY <1>1, <1>2, MoveIInv

LEMMA NextIInv == IInv /\ [Next]_vars => IInv'
<1> SUFFICES ASSUME IInv, [Next]_vars PROVE IInv'
  OBVIOUS
<1>1. CASE UNCHANGED vars
  BY <1>1
     DEF vars, request, history, IInv, TypeOK, NamesExist, Places, PlaceOf,
         RevokesFirst, SignInRotates, LateIsRefused, ExpiryFollowsUse, Exists,
         Revoked
<1>2. CASE Next
  BY <1>2, TickIInv, SendIInv, FindIInv, DecideIInv, TouchIInv, ResolveIInv,
     CheckIInv, RevokeIInv, CreateIInv, DeliverIInv, LoseIInv
     DEF Next, Authorize, Authenticate
<1>3. QED
  BY <1>1, <1>2

-----------------------------------------------------------------------------
\* Types and what the code keeps of rows, cookies and requests.
THEOREM InductiveInvariant == Spec => []IInv
  BY InitIInv, NextIInv, PTL DEF Spec

\* Every variable keeps its type.
THEOREM TypeCorrect == Spec => []TypeOK
<1>1. IInv => TypeOK
  BY DEF IInv
<1>2. QED
  BY <1>1, InductiveInvariant, PTL

\* A sign-in that has issued a session has revoked the previous one.
THEOREM SignInRotatesHolds == Spec => []SignInRotates
<1>1. IInv => SignInRotates
  BY DEF IInv
<1>2. QED
  BY <1>1, InductiveInvariant, PTL

\* A request that reads its session after the revocation is never accepted.
THEOREM RevocationIsImmediateHolds == Spec => []RevocationIsImmediate
<1>1. IInv => RevocationIsImmediate
  BY DEF IInv, LateIsRefused, RevocationIsImmediate
<1>2. QED
  BY <1>1, InductiveInvariant, PTL

\* No step changes a row that is revoked.
THEOREM RevokedIsFinalHolds == Spec => RevokedIsFinal
<1>1. IInv /\ [Next]_vars =>
        [\A s \in Sessions : row[s].revoked # 0 => row'[s] = row[s]]_row
  <2> SUFFICES ASSUME IInv, Next, row' # row, NEW s \in Sessions,
                      row[s].revoked # 0
               PROVE  row'[s] = row[s]
    BY DEF vars
  <2>1. PICK r \in Requests : Touch(r) \/ Revoke(r) \/ Create(r)
    BY DEF Next, Tick, Send, Authorize, Find, Decide, Authenticate, Resolve,
           Check, Deliver, Lose
  <2>2. CASE Touch(r)
    BY <2>2 DEF Touch, IInv, TypeOK
  <2>3. CASE Revoke(r)
    BY <2>3 DEF Revoke, IInv, TypeOK
  <2>4. CASE Create(r)
    BY <2>4 DEF Create, NoRow, IInv, TypeOK
  <2>5. QED
    BY <2>1, <2>2, <2>3, <2>4
<1>2. QED
  BY <1>1, InductiveInvariant, PTL DEF Spec, RevokedIsFinal

\* No session is accepted after its idle or its absolute lifetime.
THEOREM NeverUsedAfterInactivityHolds == Spec => NeverUsedAfterInactivity
<1> DEFINE A == \A r \in Requests : at'[r] # at[r] =>
                  /\ at'[r] < used[cookie[r]] + Idle
                  /\ at'[r] < row[cookie[r]].absolute
<1>1. IInv /\ [Next]_vars => [A]_at
  <2> SUFFICES ASSUME IInv, Next, NEW r \in Requests, at'[r] # at[r]
               PROVE  /\ at'[r] < used[cookie[r]] + Idle
                      /\ at'[r] < row[cookie[r]].absolute
    BY DEF vars, request
  <2>1. PICK q \in Requests : Decide(q)
    BY DEF Next, Tick, Send, Authorize, Find, Touch, Authenticate, Resolve,
           Check, Revoke, Create, Deliver, Lose, request
  <2>2. q = r /\ at'[r] = clock /\ Alive(r) /\ pc[r] = "deciding"
    BY <2>1 DEF Decide, IInv, TypeOK
  <2>3. cookie[r] \in Sessions /\ snap[r] \in Row /\ clock \in 1..MaxTime
    BY <2>2 DEF IInv, TypeOK, Places, PlaceOf
  <2>4. used[cookie[r]] \in Nat
    BY <2>3, MaxTimeAssumption DEF IInv, TypeOK
  <2>5. QED
    BY <2>2, <2>3, <2>4, LifetimeAssumption, MaxTimeAssumption
       DEF IInv, ExpiryFollowsUse, Alive, Row
<1>2. QED
  BY <1>1, InductiveInvariant, PTL DEF Spec, NeverUsedAfterInactivity
=============================================================================
