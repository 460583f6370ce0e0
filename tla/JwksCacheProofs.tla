--------------------------- MODULE JwksCacheProofs ---------------------------
(***************************************************************************)
(* Proofs, for every sequence of documents, every policy and every order   *)
(* of calls, that the signing-key cache spaces its fetches, trusts a 304   *)
(* only for the document its keys come from, refuses a withdrawn key in    *)
(* time and finds a published one in time.                                 *)
(***************************************************************************)
EXTENDS JwksCache, TLAPS

\* The times of the cache are ordered: an attempt is never behind the last
\* check, and ahead of it while a fetch is under way.
TimesInOrder ==
  /\ checked <= attempt /\ attempt <= clock
  /\ fetched = attempt
  /\ asked # None => checked < attempt

\* What the cache has and the issuer has not, or the other way round, changed
\* at the issuer since the last check.
DifferencesAreNew ==
  /\ \A k \in keys \ Documents[version] : checked <= retired[k]
  /\ \A k \in Documents[version] \ keys : checked <= since[k]

IInv == TypeOK /\ KeysMatchEtag /\ TimesInOrder /\ DifferencesAreNew

LEMMA InitIInv == Init => IInv
<1> SUFFICES ASSUME Init PROVE IInv
  OBVIOUS
<1> USE DocumentsAssumption, PolicyAssumption, MaxTimeAssumption DEF Init
<1>1. TypeOK
  BY DEF TypeOK
<1>2. KeysMatchEtag /\ TimesInOrder
  BY DEF KeysMatchEtag, TimesInOrder
<1>3. Documents[1] \subseteq Keys
  OBVIOUS
<1>4. DifferencesAreNew
  BY <1>3 DEF DifferencesAreNew
<1>5. QED
  BY <1>1, <1>2, <1>4 DEF IInv

\* The clock and the issuer: their steps leave the cache alone.
LEMMA TickIInv == IInv /\ Tick => IInv'
  BY MaxTimeAssumption, PolicyAssumption
     DEF IInv, Tick, TypeOK, KeysMatchEtag, TimesInOrder, DifferencesAreNew,
         issuer, cache

LEMMA RotateIInv == IInv /\ Rotate => IInv'
<1> SUFFICES ASSUME IInv, Rotate PROVE IInv'
  OBVIOUS
<1> DEFINE old == Documents[version]
           new == Documents[version + 1]
<1>1. /\ version' = version + 1 /\ version' \in 1..Last
      /\ since' = [k \in Keys |-> IF k \in new \ old THEN clock ELSE since[k]]
      /\ retired' = [k \in Keys |-> IF k \in old \ new THEN clock
                                    ELSE retired[k]]
      /\ UNCHANGED <<clock, keys, etag, attempt, checked, asked, fetched, answer>>
  BY DocumentsAssumption DEF Rotate, IInv, TypeOK, cache
<1>2. old \subseteq Keys /\ new \subseteq Keys /\ keys \subseteq Keys
  BY <1>1, DocumentsAssumption DEF IInv, TypeOK
<1>3. clock \in 0..MaxTime
  BY PolicyAssumption, MaxTimeAssumption DEF IInv, TypeOK
<1>4. TypeOK'
  BY <1>1, <1>3 DEF IInv, TypeOK
<1>5. KeysMatchEtag' /\ TimesInOrder'
  BY <1>1 DEF IInv, KeysMatchEtag, TimesInOrder
<1>6. checked <= clock
  BY <1>3 DEF IInv, TypeOK, TimesInOrder
<1>7. ASSUME NEW k \in keys, k \notin new PROVE checked <= retired'[k]
  BY <1>1, <1>2, <1>6, <1>7 DEF IInv, DifferencesAreNew
<1>8. ASSUME NEW k \in new, k \notin keys PROVE checked <= since'[k]
  BY <1>1, <1>2, <1>6, <1>8 DEF IInv, DifferencesAreNew
<1>9. DifferencesAreNew'
  BY <1>1, <1>7, <1>8 DEF DifferencesAreNew
<1>10. QED
  BY <1>4, <1>5, <1>9 DEF IInv

LEMMA ClockType == TypeOK => clock \in 0..MaxTime
  BY PolicyAssumption, MaxTimeAssumption DEF TypeOK

LEMMA LookupIInv == ASSUME IInv, NEW k \in Keys, Lookup(k) PROVE IInv'
<1>1. UNCHANGED <<clock, version, since, retired, keys, etag, attempt, checked,
                  asked, fetched>>
  BY DEF Lookup, issuer, cache
<1>2. answer' \in [key : Keys \cup {None}, found : BOOLEAN, at : 0..MaxTime]
  BY ClockType DEF Lookup, Answer, IInv
<1>3. QED
  BY <1>1, <1>2
     DEF IInv, TypeOK, KeysMatchEtag, TimesInOrder, DifferencesAreNew

LEMMA FetchIInv == ASSUME IInv, NEW k \in Keys, Fetch(k) PROVE IInv'
<1>1. /\ asked' = k /\ attempt' = clock /\ fetched' = clock
      /\ clock - attempt >= Interval
      /\ UNCHANGED <<clock, version, since, retired, keys, etag, checked, answer>>
  BY DEF Fetch, Permitted, issuer
<1>2. clock \in 0..MaxTime /\ checked \in Nat /\ attempt \in Nat
  BY PolicyAssumption, MaxTimeAssumption DEF IInv, TypeOK
<1>3. TypeOK'
  BY <1>1, <1>2 DEF IInv, TypeOK
<1>4. TimesInOrder'
  BY <1>1, <1>2, PolicyAssumption DEF IInv, TimesInOrder
<1>5. QED
  BY <1>1, <1>3, <1>4 DEF IInv, KeysMatchEtag, DifferencesAreNew

\* After a fetch that succeeded the cache holds what the issuer publishes.
LEMMA UpToDateIInv ==
  ASSUME IInv, keys' = Documents[version], etag' \in {0, version},
         checked' = attempt, asked' = None,
         answer' \in [key : Keys \cup {None}, found : BOOLEAN, at : 0..MaxTime],
         UNCHANGED <<clock, version, since, retired, attempt, fetched>>
  PROVE  IInv'
<1>1. keys' \subseteq Keys /\ etag' \in 0..Last
  BY DocumentsAssumption DEF IInv, TypeOK
<1>2. TypeOK'
  BY <1>1 DEF IInv, TypeOK
<1>3. attempt \in Nat
  BY MaxTimeAssumption DEF IInv, TypeOK
<1>4. KeysMatchEtag' /\ TimesInOrder' /\ DifferencesAreNew'
  BY <1>3 DEF IInv, KeysMatchEtag, TimesInOrder, DifferencesAreNew
<1>5. QED
  BY <1>2, <1>4 DEF IInv

LEMMA NotModifiedIInv == IInv /\ NotModified => IInv'
<1> SUFFICES ASSUME IInv, NotModified PROVE IInv'
  OBVIOUS
<1>1. /\ etag' = version /\ checked' = attempt /\ asked' = None
      /\ keys' = keys
      /\ UNCHANGED <<clock, version, since, retired, attempt, fetched>>
  BY DEF NotModified, issuer
<1>2. keys = Documents[version]
  BY DEF NotModified, IInv, KeysMatchEtag, TypeOK
<1>3. answer' \in [key : Keys \cup {None}, found : BOOLEAN, at : 0..MaxTime]
  BY ClockType, DocumentsAssumption DEF NotModified, Answer, IInv, TypeOK
<1>4. QED
  BY <1>1, <1>2, <1>3, UpToDateIInv

LEMMA ReceiveIInv == IInv /\ Receive => IInv'
<1> SUFFICES ASSUME IInv, Receive PROVE IInv'
  OBVIOUS
<1>1. /\ etag' \in {0, version} /\ checked' = attempt /\ asked' = None
      /\ keys' = Documents[version]
      /\ UNCHANGED <<clock, version, since, retired, attempt, fetched>>
  BY DEF Receive, issuer
<1>2. answer' \in [key : Keys \cup {None}, found : BOOLEAN, at : 0..MaxTime]
  BY ClockType, DocumentsAssumption DEF Receive, Answer, IInv, TypeOK
<1>3. QED
  BY <1>1, <1>2, UpToDateIInv

LEMMA UnavailableIInv == IInv /\ Unavailable => IInv'
<1> SUFFICES ASSUME IInv, Unavailable PROVE IInv'
  OBVIOUS
<1>1. /\ asked' = None
      /\ UNCHANGED <<clock, version, since, retired, keys, etag, attempt,
                     checked, fetched>>
  BY DEF Unavailable, issuer, cache
<1>2. answer' \in [key : Keys \cup {None}, found : BOOLEAN, at : 0..MaxTime]
  BY ClockType, DocumentsAssumption DEF Unavailable, Answer, IInv, TypeOK
<1>3. QED
  BY <1>1, <1>2
     DEF IInv, TypeOK, KeysMatchEtag, TimesInOrder, DifferencesAreNew

LEMMA NextIInv == IInv /\ [Next]_vars => IInv'
<1> SUFFICES ASSUME IInv, [Next]_vars PROVE IInv'
  OBVIOUS
<1>1. CASE UNCHANGED vars
  BY <1>1 DEF vars, issuer, cache, IInv, TypeOK, KeysMatchEtag, TimesInOrder,
              DifferencesAreNew
<1>2. CASE Next
  BY <1>2, TickIInv, RotateIInv, LookupIInv, FetchIInv, NotModifiedIInv,
     ReceiveIInv, UnavailableIInv DEF Next
<1>3. QED
  BY <1>1, <1>2

-----------------------------------------------------------------------------
\* Types, the ETag and the order of times, for every policy and issuer.
THEOREM InductiveInvariant == Spec => []IInv
  BY InitIInv, NextIInv, PTL DEF Spec

\* A 304 confirms only the keys of the document that is published.
THEOREM KeysMatchEtagHolds == Spec => []KeysMatchEtag
<1>1. IInv => KeysMatchEtag
  BY DEF IInv
<1>2. QED
  BY <1>1, InductiveInvariant, PTL

\* Every variable keeps its type.
THEOREM TypeCorrect == Spec => []TypeOK
<1>1. IInv => TypeOK
  BY DEF IInv
<1>2. QED
  BY <1>1, InductiveInvariant, PTL

\* No sequence of tokens and answers makes two fetches closer than the minimum
\* interval.
THEOREM FetchesAreSpacedHolds == Spec => FetchesAreSpaced
<1>1. IInv /\ [Next]_vars => [fetched' - fetched >= Interval]_fetched
  <2> SUFFICES ASSUME IInv, Next, fetched' # fetched
               PROVE  fetched' - fetched >= Interval
    BY DEF vars
  <2>1. PICK k \in Keys : Fetch(k)
    BY DEF Next, Tick, Rotate, Lookup, NotModified, Receive, Unavailable
  <2>2. QED
    BY <2>1 DEF Fetch, Permitted, IInv, TimesInOrder
<1>2. QED
  BY <1>1, InductiveInvariant, PTL DEF Spec, FetchesAreSpaced

\* The steps that answer, and what the answer says of the cache.
LEMMA Answers ==
  ASSUME IInv, Next, answer' # answer
  PROVE  \/ \E k \in Keys : Lookup(k)
         \/ /\ asked # None /\ answer'.key = asked
            /\ keys' = Documents[version]
            /\ answer'.found = (asked \in Documents[version])
         \/ Unavailable /\ ~answer'.found /\ answer'.key = asked
<1>1. \/ \E k \in Keys : Lookup(k)
      \/ NotModified \/ Receive \/ Unavailable
  BY DEF Next, Tick, Rotate, Fetch
<1>2. ASSUME NotModified
      PROVE  /\ asked # None /\ answer'.key = asked
             /\ keys' = Documents[version]
             /\ answer'.found = (asked \in Documents[version])
  BY <1>2 DEF NotModified, Answer, IInv, KeysMatchEtag, TypeOK
<1>3. ASSUME Receive
      PROVE  /\ asked # None /\ answer'.key = asked
             /\ keys' = Documents[version]
             /\ answer'.found = (asked \in Documents[version])
  BY <1>3 DEF Receive, Answer
<1>4. ASSUME Unavailable PROVE ~answer'.found /\ answer'.key = asked
  BY <1>4 DEF Unavailable, Answer
<1>5. QED
  BY <1>1, <1>2, <1>3, <1>4

\* A key withdrawn for the TTL is refused, unless the latest refresh failed.
THEOREM RetiredKeyIsRefusedHolds == Spec => RetiredKeyIsRefused
<1> DEFINE A == answer'.found =>
                  \/ answer'.key \in Documents[version]
                  \/ clock - retired[answer'.key] < TTL
                  \/ Failing'
<1>1. IInv /\ [Next]_vars => [A]_answer
  <2> SUFFICES ASSUME IInv, Next, answer' # answer, answer'.found, ~Failing'
               PROVE  \/ answer'.key \in Documents[version]
                      \/ clock - retired[answer'.key] < TTL
    BY DEF vars
  <2>1. ASSUME NEW k \in Keys, Lookup(k), k \notin Documents[version]
        PROVE  clock - retired[k] < TTL /\ answer'.key = k
    <3>1. k \in keys /\ answer'.key = k
      BY <2>1 DEF Lookup, Answer
    <3>2. checked <= retired[k] /\ retired[k] \in Nat
      BY <2>1, <3>1, MaxTimeAssumption
         DEF IInv, DifferencesAreNew, TypeOK
    <3>3. attempt = checked
      BY <2>1 DEF Lookup, cache, Failing
    <3>4. clock - checked < TTL
      <4>1. clock \in Nat /\ checked \in Nat
        BY PolicyAssumption, MaxTimeAssumption DEF IInv, TypeOK
      <4>2. CASE Wanted(k)
        BY <2>1, <3>3, <4>1, <4>2, PolicyAssumption DEF Lookup, Permitted
      <4>3. CASE ~Wanted(k)
        BY <4>1, <4>3, PolicyAssumption DEF Wanted, Expired
      <4>4. QED
        BY <4>2, <4>3
    <3>5. clock \in Nat /\ checked \in Nat /\ TTL \in Nat
      BY PolicyAssumption, MaxTimeAssumption DEF IInv, TypeOK
    <3>6. QED
      BY <3>1, <3>2, <3>4, <3>5
  <2>2. ASSUME NEW k \in Keys, Lookup(k) PROVE answer'.key = k
    BY <2>2 DEF Lookup, Answer
  <2>3. QED
    BY <2>1, <2>2, Answers
<1>2. QED
  BY <1>1, InductiveInvariant, PTL DEF Spec, RetiredKeyIsRefused

\* A key published for the refresh interval is found, unless the latest refresh
\* failed.
THEOREM PublishedKeyIsFoundHolds == Spec => PublishedKeyIsFound
<1> DEFINE A == ~answer'.found =>
                  \/ answer'.key \notin Documents[version]
                  \/ clock - since[answer'.key] < Interval
                  \/ Failing'
<1>1. IInv /\ [Next]_vars => [A]_answer
  <2> SUFFICES ASSUME IInv, Next, answer' # answer, ~answer'.found, ~Failing'
               PROVE  \/ answer'.key \notin Documents[version]
                      \/ clock - since[answer'.key] < Interval
    BY DEF vars
  <2>1. ASSUME NEW k \in Keys, Lookup(k), k \in Documents[version]
        PROVE  clock - since[k] < Interval /\ answer'.key = k
    <3>1. k \notin keys /\ answer'.key = k
      BY <2>1 DEF Lookup, Answer
    <3>2. checked <= since[k] /\ since[k] \in Nat
      BY <2>1, <3>1, MaxTimeAssumption DEF IInv, DifferencesAreNew, TypeOK
    <3>3. attempt = checked /\ ~Permitted
      BY <2>1, <3>1 DEF Lookup, cache, Failing, Wanted
    <3>4. clock \in Nat /\ checked \in Nat /\ Interval \in Nat
      BY PolicyAssumption, MaxTimeAssumption DEF IInv, TypeOK
    <3>5. QED
      BY <3>1, <3>2, <3>3, <3>4 DEF Permitted
  <2>2. ASSUME Unavailable PROVE FALSE
    BY <2>2, MaxTimeAssumption
       DEF Unavailable, cache, Failing, IInv, TimesInOrder, TypeOK
  <2>3. ASSUME NEW k \in Keys, Lookup(k) PROVE answer'.key = k
    BY <2>3 DEF Lookup, Answer
  <2>4. QED
    BY <2>1, <2>2, <2>3, Answers
<1>2. QED
  BY <1>1, InductiveInvariant, PTL DEF Spec, PublishedKeyIsFound
=============================================================================
