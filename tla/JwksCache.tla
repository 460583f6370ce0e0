------------------------------ MODULE JwksCache ------------------------------
(***************************************************************************)
(* The signing-key cache of the access-token verifier                      *)
(* (_BoundedJwksCache) and the issuer whose JWKS document it fetches.      *)
(*                                                                         *)
(* get runs under a lock from its first to its last line, so that calls    *)
(* never interleave; but a fetch takes time, in which the issuer may       *)
(* publish another document.  A document is abstracted to its version and  *)
(* the usable keys it has, none when it cannot be parsed; its ETag is its  *)
(* version.  Tokens are abstracted to the key they name.                   *)
(***************************************************************************)
EXTENDS Naturals

CONSTANTS
  Keys,
  None,
  Documents,        \* [1..n -> SUBSET Keys], in the order of publication
  Last,             \* n
  Interval,         \* minimum_refresh_interval_seconds
  TTL,              \* cache_ttl_seconds
  MaxTime           \* bound of the clock

ASSUME NoneAssumption == None \notin Keys
ASSUME DocumentsAssumption ==
  Last \in Nat \ {0} /\ Documents \in [1..Last -> SUBSET Keys]
\* JwksFetchPolicy.require_refresh_interval_within_cache_ttl
ASSUME PolicyAssumption ==
  Interval \in Nat \ {0} /\ TTL \in Nat /\ Interval <= TTL
ASSUME MaxTimeAssumption == MaxTime \in Nat /\ TTL <= MaxTime

VARIABLES
  clock,
  version,    \* the document the issuer publishes
  since,      \* history: when each key was last added to it
  retired,    \* history: when each key was last removed from it
  keys,       \* _keys
  etag,       \* _etag, 0 for None
  attempt,    \* _last_attempt
  checked,    \* _last_checked
  asked,      \* the key a fetch is made for, None when none is under way
  fetched,    \* history: when the last fetch began
  answer      \* the last answer of get

issuer == <<version, since, retired>>
cache  == <<keys, etag, attempt, checked>>
vars   == <<clock, issuer, cache, asked, fetched, answer>>

\* The clock starts at TTL: then a time of 0 is as long ago as -inf.
Init ==
  /\ clock = TTL
  /\ version = 1
  /\ since = [k \in Keys |-> 0]
  /\ retired = [k \in Keys |-> 0]
  /\ keys = {} /\ etag = 0 /\ attempt = 0 /\ checked = 0
  /\ asked = None
  /\ fetched = 0
  /\ answer = [key |-> None, found |-> FALSE, at |-> 0]

Tick ==
  /\ clock < MaxTime
  /\ clock' = clock + 1
  /\ UNCHANGED <<issuer, cache, asked, fetched, answer>>

Rotate ==
  /\ version < Last
  /\ version' = version + 1
  /\ LET old == Documents[version]
         new == Documents[version']
     IN  /\ since' = [k \in Keys |->
                         IF k \in new \ old THEN clock ELSE since[k]]
         /\ retired' = [k \in Keys |-> IF k \in old \ new THEN clock
                                       ELSE retired[k]]
  /\ UNCHANGED <<clock, cache, asked, fetched, answer>>

Answer(k, found) == answer' = [key |-> k, found |-> found, at |-> clock]

-----------------------------------------------------------------------------
\* The cache is empty or was not checked for TTL.
Expired == keys = {} \/ clock - checked >= TTL

\* Mutant of Wanted: an unknown key does not prompt a refresh.
WantedWhenExpired(k) == Expired

\* Mutant of Wanted: a key that is in the cache needs no refresh.
WantedWhenUnknown(k) == k \notin keys

\* get wants a refresh of an expired cache, and for a key that is not there.
Wanted(k) == Expired \/ k \notin keys

\* Mutant of Permitted: only a successful fetch counts.
PermittedAfterCheck == clock - checked >= Interval

\* _refresh_within_rate_limit
Permitted == clock - attempt >= Interval

\* get without a fetch: the cache answers, expired or not.
Lookup(k) ==
  /\ asked = None
  /\ ~(Wanted(k) /\ Permitted)
  /\ Answer(k, k \in keys)
  /\ UNCHANGED <<clock, issuer, cache, asked, fetched>>

\* get begins a fetch; the attempt is recorded before it.
Fetch(k) ==
  /\ asked = None
  /\ Wanted(k) /\ Permitted
  /\ asked' = k
  /\ attempt' = clock
  /\ fetched' = clock
  /\ UNCHANGED <<clock, issuer, keys, etag, checked, answer>>

\* The issuer answers 304 to If-None-Match.
NotModified ==
  /\ asked # None
  /\ etag = version
  /\ checked' = attempt
  /\ Answer(asked, asked \in keys)
  /\ asked' = None
  /\ UNCHANGED <<clock, issuer, keys, etag, attempt, fetched>>

\* Mutant of Receive: the ETag is stored before the document is parsed.
ReceiveUnparsed ==
  /\ asked # None
  /\ etag' = version
  /\ IF Documents[version] # {}
       THEN keys' = Documents[version] /\ checked' = attempt
       ELSE UNCHANGED <<keys, checked>>
  /\ Answer(asked, asked \in Documents[version])
  /\ asked' = None
  /\ UNCHANGED <<clock, issuer, attempt, fetched>>

\* Mutant of Receive: a key without an identifier is not skipped.
ReceiveUnfiltered ==
  /\ asked # None
  /\ Documents[version] # {}
  /\ keys' = Documents[version] \cup {None}
  /\ etag' = version
  /\ checked' = attempt
  /\ Answer(asked, asked \in keys')
  /\ asked' = None
  /\ UNCHANGED <<clock, issuer, attempt, fetched>>

\* The issuer answers 200 with a document that can be parsed, and an ETag or
\* none that is usable.
Receive ==
  /\ asked # None
  /\ Documents[version] # {}
  /\ keys' = Documents[version]
  /\ etag' \in {0, version}
  /\ checked' = attempt
  /\ Answer(asked, asked \in keys')
  /\ asked' = None
  /\ UNCHANGED <<clock, issuer, attempt, fetched>>

\* No answer, another status, a document too large or one that cannot be
\* parsed: _SigningKeyUnavailable, whatever the cache has.
Unavailable ==
  /\ asked # None
  /\ Answer(asked, FALSE)
  /\ asked' = None
  /\ UNCHANGED <<clock, issuer, cache, fetched>>

Next ==
  \/ Tick \/ Rotate
  \/ \E k \in Keys : Lookup(k) \/ Fetch(k)
  \/ NotModified \/ Receive \/ Unavailable

Spec == Init /\ [][Next]_vars

-----------------------------------------------------------------------------
(***************************************************************************)
(* Properties.                                                             *)
(***************************************************************************)

\* Every variable has its type.
TypeOK ==
  /\ clock \in TTL..MaxTime
  /\ version \in 1..Last
  /\ since \in [Keys -> 0..MaxTime] /\ retired \in [Keys -> 0..MaxTime]
  /\ keys \subseteq Keys
  /\ etag \in 0..Last
  /\ attempt \in 0..MaxTime /\ checked \in 0..MaxTime /\ fetched \in 0..MaxTime
  /\ asked \in Keys \cup {None}
  /\ answer \in [key : Keys \cup {None}, found : BOOLEAN, at : 0..MaxTime]

\* A 304 can be trusted: the ETag the cache sends is that of the document its
\* keys come from, never that of a document it could not parse.
KeysMatchEtag == etag # 0 => keys = Documents[etag]

\* Fetches are at least an interval apart, whatever keys the tokens name and
\* however the issuer answers (the comments of get and
\* _refresh_within_rate_limit).
FetchesAreSpaced == [][fetched' - fetched >= Interval]_fetched

\* The latest refresh did not succeed.
Failing == attempt # checked

\* A key the issuer has withdrawn is not found later than TTL after that,
\* unless the latest refresh failed.
RetiredKeyIsRefused ==
  [][answer'.found =>
       \/ answer'.key \in Documents[version]
       \/ clock - retired[answer'.key] < TTL
       \/ Failing']_answer

\* A key the issuer has published for an interval is found, unless the latest
\* refresh failed.
PublishedKeyIsFound ==
  [][~answer'.found =>
       \/ answer'.key \notin Documents[version]
       \/ clock - since[answer'.key] < Interval
       \/ Failing']_answer
=============================================================================
