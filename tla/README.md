# Flash Trips: a verification project

TLA+ models of the parts of this repository that keep state over time and are
used by several actors at once, the TLC configurations that check them, and
proofs checked by TLAPS. `PROJECT.json` names, for every definition, the source
lines it stands for; paths below are relative to the repository.

    tlc -config TripRuns.cfg PlanQueries.tla     # a run (see "Runs")
    tlapm TripRunsProofs.tla                     # the proofs of a module

## 1. Inventory

### Trip planning (`src/flash_trips`, Python, FastAPI, PostgreSQL)

- State: tables `trips`, `runs`, `plan_revisions` (and the claims of a
  revision). A partial unique index, `uq_runs_active_trip`, allows one Run
  without terminal status per Trip.
- Operations: `create_trip`, `start_run`, `get_run`,
  `get_current_plan_revision` and the plain reads `list_trips`, `get_trip`.
- `start_run` is the hard one. Transaction 1 inserts the Run and commits; the
  Travel Readiness Capability executes outside of any transaction; transaction
  2 reads the current revision, locks the Trip (`FOR UPDATE`), checks that the
  draft still extends the current revision, writes the revision, moves the
  pointer and records the outcome. All of it happens within one HTTP request:
  if its process dies between the transactions, nothing resumes the Run.
- Correct means: one active Run per Trip; one unbranched history of revisions;
  revision and outcome exist together or not at all; answers are true; an
  accepted Run ends; readers never go back.

### Access tokens (`adapters/identity/access_tokens.py`)

- State: a cache of the issuer's signing keys with its ETag, the time of the
  last attempt to refresh it and the time of the last success, under a lock.
- Operation: `get(key_id)`, with at most one fetch. A fetch can fail, can bring
  a broken document, can be answered 304.
- Correct means: fetches are rate limited whatever tokens arrive; a rotation
  takes effect within the TTL; a new key is found within the refresh interval;
  a 304 never confirms keys of another document.

### Web BFF: sessions (`apps/web/lib/server`, Next.js)

- State: rows of `application_sessions` (idle and absolute expiry, revocation),
  one cookie per browser, one CSRF token per page.
- Operations: the sign-in callback (revoke the previous session, create a new
  one), `authorize` (find, decide, touch if the method is unsafe), sign-out
  (authorize, find, revoke).
- Each `await` is a point where another request runs or the process dies.
- Correct means: revocation is immediate and final; a session is never used
  after its idle or absolute lifetime; a sign-in rotates the session.

### Web BFF: sign-in (`oidc*.ts`)

- State: one sealed transaction cookie per browser, with the state, nonce and
  code verifier of the attempt and its time; the runtime of the process, a
  memoised promise of the provider's metadata.
- Operations: GET sign-in (`beginOidcAuthorization`), GET callback
  (`completeOidcAuthorization`), `oidcRuntime`.
- Hard: tabs share the cookie; a callback is reloaded, late, refused or fails
  half-way; the process restarts while a tab is at the provider.
- Correct means: sessions come of the browser's own attempts, in time, one of
  each; a refused callback costs the Planner nothing; an attempt that nothing
  disturbs succeeds; trying again helps.

### Planner page (`trip-station.tsx`) and the BFF routes it calls

- State: the CSRF token, an error, the Trips, one Run and one Plan Revision per
  Trip.
- Operations: `load`, `create`, `startRun`, asynchronous functions that run at
  the same time and merge answers as they arrive. The routes authorize the
  session, forward one call and translate what comes back.
- Correct means: what is drawn is the history of the backend; a Trip does not
  disappear from the page; the revision drawn after a Run is that Run's or a
  later one.

### Sandcastle (`.sandcastle/main.mts`, `scripts/publish-via-github-api.sh`)

- State: Tasks (GitHub issues, one pipeline label each), Feature branches and
  pull requests on GitHub; on disk the Tasks' own branches, the integration
  branches, and `run-state.json` with a claim and its checkpoint (claimed,
  reviewed, integrated, published) per Task; in memory, `activeClaims` and
  `closedPendingCleanup`; `run.lock`.
- Operations: recover, authorize, promote, plan, claim, run pipelines
  (implement and review), integrate and publish each group, close Tasks, block
  Tasks, stop.
- Hard: a call to GitHub that fails may have had its effect; the process is
  killed or interrupted anywhere; a human relabels a Task, whose branch still
  has the work of its earlier attempt; GitHub merges a ready pull request on its
  own; publication is retried from a checkpoint.
- Correct means: a Task is closed only when its commit is published; published
  and reviewed work is never lost; a ready pull request is complete; approved
  work stands on the work of its blockers; claims are released in the end.

### Other parts

The release pipeline (`production.yml`, `production-release-plan.sh`), the
acceptance and traceability scripts, configuration, telemetry, generated
contracts and the Azure templates (section 7).

### How the parts interact

The page calls the BFF with a cookie and a CSRF token (TripStation, AppSession);
the cookie comes of a sign-in (SignIn). The BFF forwards to the API with the
access token of the session; the API verifies it (JwksCache), resolves the
Planner and serves the command or the query (TripRuns, PlanQueries). What the
page may assume of the API is the abstract PlanHistory, which TripRuns is shown
to implement and TripStation is built on. Sandcastle shares nothing with them at
run time: it works on the repository itself, under its lock (RunLock), and meets
GitHub and humans through labels, branches and pull requests (Sandcastle). What
those who only watch Tasks, branches and pull requests may rely on is the
abstract Delivery, which Sandcastle is shown to implement.

## 2. Modules

| Module | Models | EXTENDS / INSTANCE |
| --- | --- | --- |
| `PlanHistory` | abstract: what Trip Planning promises of a Trip's history | |
| `TripRuns` | `create_trip`, `start_run` | INSTANCE `PlanHistory` |
| `PlanQueries` | `get_run`, `get_current_plan_revision` among running requests | EXTENDS `TripRuns` |
| `TripStation` | the planner's page, the BFF routes for Trips and Runs | INSTANCE `PlanHistory` |
| `AppSession` | `ApplicationSessionManager`, its repository, sign-out | |
| `SignIn` | the OIDC client, its flow, transaction and runtime | |
| `JwksCache` | `_BoundedJwksCache` and the issuer | |
| `Delivery` | abstract: what Sandcastle promises of Tasks, branches and pull requests | |
| `Sandcastle` | the orchestrator and the publication script | INSTANCE `Delivery` |
| `RunLock` | `acquireRunLock` | |
| `*Proofs` | theorems about the module of that name (section 5) | EXTENDS it |
| `MC*` | instances for TLC | EXTENDS their module |

An operator whose comment begins "Mutant of" is a deliberately wrong version of
the definition after it. No specification uses it; putting it in place of the
right one must break the property `PROJECT.json` lists it for.

### TripRuns

A request is a program counter over the statements of `start_run`. A step is
one SQL statement (or the commit) and what follows it up to the next one.
PostgreSQL at READ COMMITTED is modelled by committed rows only: a transaction's
own writes become visible at its commit (`AcceptRun`, `EndRun`), and what others
can feel before is a guard of their steps: `AddRun` waits while an entry of
`uq_runs_active_trip` is pending (`ActiveIndexPending`), `LockTrip` waits for
the row lock. `Die` is the rollback of a dead or failed request, at any
statement. The identifiers of a Run and of its revision are fresh, so a request
names both. The refusal of a busy Trip is two steps, the INSERT that does
nothing and the SELECT of the active Run. A Trip of another Planner is a Trip
that is not there for every statement, so one Planner is enough.

The UPDATE of the pointer in `commit` and the foreign keys of the insert touch
the Trip's row too; with one active Run per Trip these locks never meet another
request's, and they are left out.

### PlanQueries

Clients read while requests run. `get_current_plan_revision` is two statements
with two snapshots: the pointer, then the revision. A client remembers the
largest revision number it has seen, including the one a Run it saw Succeeded
must have made.

### TripStation

Each asynchronous function of the page is a place (`load` for the first load,
`pc` for creations and clicks); a request is served in one step, over
`PlanHistory`, and its answer arrives in another, so answers may be out of
order. `ServeX` is the BFF route with the backend behind it, `ArriveX` the code
of the page after the `await`. A route that answers 401, 503 or what the backend
refuses is the same to the page: `Fail`, also after the backend did its work.
`Reject` is a `fetch` that rejects, which nothing catches. Other tabs start Runs
(`ClickElsewhere`) and the page is reloaded (`Reload`), after which answers to
the old page find nobody. A Run is named by its click, a revision by its number.
The page validates the shape of every answer; answers of the wrong shape are not
modelled, they take the same paths as those that are not "ok".

### AppSession

One browser, whose tabs share the cookie. Each SQL statement is a step, and so
is the decision of `authorize`, which reads the clock after the row came back.
`Send` takes the cookie and token the browser has at that time; the callback of
a sign-in comes from another site, so the `SameSite=Strict` cookie may be
missing. `Deliver` applies the response, in any order. `Lose` ends a request at
any statement. The clock reading and the INSERT of `authenticate`, and those of
`revoke`, are one step: nobody knows the new identifier before, and the time of
a revocation is only compared with NULL. `used` and `late` are history variables:
when a session was last used on record, and which requests had not read their
session when it was revoked.

### SignIn

An attempt is a GET sign-in of a tab. Its state, nonce, code verifier and code
are random values, modelled by the identity of the attempt: they match those of
the same attempt and no other. The sealed cookie opens to what was sealed; the
signature of the ID token holds for what the provider issued. So `Usable` is
what is left to decide: a cookie, its age, the state of the URL, and no error.
`Exchange` redeems a code once (the provider refuses a second time), `Resolve`
asks the API for the Planner and revokes the previous session, `Create` issues
the new one; `AppSession` has the store's side in detail. Every answer of the
callback clears the transaction cookie, whatever attempt it holds by then.
`Discover` and `Discovered` are the memoised promise. `Restart` replaces the
process; the key that opens cookies comes from the environment and stays.
`Return` is the provider; `Reload` repeats the callback's URL.
`disturbed` and `since` are history variables: whose cookie was taken by another
tab, and the faults when an attempt began.

### JwksCache

`get` runs under a lock from its first to its last line and blocks while it
fetches, so calls do not interleave; time and the issuer's documents may move
during a fetch. A document is its version and its usable keys (none: it cannot
be parsed), its ETag is the version. `get` may call
`_refresh_within_rate_limit` twice, but the second call finds the attempt of
the first, hence one `Fetch`.

### Sandcastle

One action per step between which a crash is distinguishable: calls to GitHub,
moves of a local branch, writes of `run-state.json`. A commit and its tree are
abstracted to the set of Tasks whose approved commits it holds; `{}` is the
target branch, which the orchestrator pins and which does not move.
`blocking` and `clearing` hold the Tasks for which `blockIssue` and the tail of
`closeLandedIssue` were called; callers wait for them (`Idle`), as in the code.
`SetLabel` is `setPipelineLabel`: a failing call may have had its effect. Agents
and planner are choices: a pipeline leaves no commit, a commit that is not
approved, or an approved one; `Plan` selects any allowed subset, including none,
which stands for the Task and time budgets too. `backlog` is what the issues
declare: the Tasks each Task is blocked by, and the `gated` ones, which lack
gates or environment; it is one of `Backlogs` and does not change. `Authorize`
assumes that every Feature is opted in. The publication script appears as its
guards (`TreeExpected`), the push, and the pull request; `PublicationFails` may
strike after any of them. `Merge` and `Requeue` belong to GitHub and to humans.
A signal (`Interrupt`) may end the planner, the agents and the merger; those that
were about to be done may still deliver. `main` looks at the signal only between
rounds, so an answer of the planner that was already there is followed: its Tasks
are claimed after the signal. What an agent does that starts with the signal
raised is up to the library; the model lets it deliver too.

`tip` is the head of a Task's own branch, which outlives its claim.
`RunIssuePipeline` starts from `Base` (`prepareIntegrationBase`) and needs the
branch to be `Aligned` with it (`git merge --ff-only`): a Task that is requeued
after its Feature has moved on cannot build on what it had. A branch without
commits of its own is as good as one that was moved to the base. A dirty
worktree, an agent that fails, a missing completion signal and a review that
blocks are the outcome "not approved".

A Task that is requeued and approved a second time has a second commit, which the
abstraction identifies with the first. It matters for one case only, a standalone
Task that was published, could not be closed, was blocked and requeued: there the
publication script may refuse a tree that the model accepts.

`Delivery` forgets labels, claims, checkpoints and failures. A branch is the set
of Tasks whose work belongs on it (`Work`); what is published may only grow, by
Tasks that are `Due` (not gated, their blockers closed), and not once it is
merged; a pull request becomes ready when the branch is whole; a Task closes when
its work is published under a pull request. `GitHub` is the mapping: `issue`,
`remote`, `pr` and `backlog` are those of `Sandcastle`, so every step that only
moves labels, the disk or the process must be a stutter there.

### RunLock

Each call to the file system is a step. A file is named by the process that
created it, since removing the path and writing through a descriptor concern
different things. PIDs are not reused.

## 3. Runs

| Run | Shows | Bounds |
| --- | --- | --- |
| `trip_runs` | the safety of `start_run`, true answers; readers never go back, the pointer resolves; `TripRuns` implements `PlanHistory`; every request is answered | `PlanQueries`: 2 Trips, 3 requests, all mortal, 1 client |
| `trip_runs_crash` | violation: an accepted Run may stay active for ever | 1 Trip, 3 requests, one of them mortal |
| `trip_station` | the page draws the backend's history and keeps its Trips | 2 Trips, 2 clicks in any tab, 1 failing request, 1 reload |
| `app_session` | rotation, immediate and final revocation, lifetimes | 3 requests, 3 sessions, Idle 2, Absolute 3, clock to 5 |
| `sign_in` | sessions are solicited, refusals are harmless, undisturbed attempts succeed, one discovery | 2 attempts, 3 callbacks, Lifetime 0, clock to 2, 1 failure, 1 restart |
| `sign_in_outage` | violation: one failed discovery refuses all later sign-ins | 2 attempts, 1 callback, 1 failure |
| `jwks_cache` | spacing, rotation, ETag | 2 keys, 4 documents, Interval 2, TTL 3, clock to 11 |
| `sandcastle` | bases, readiness, closing, checkpoints, approved work; `Sandcastle` implements `Delivery` | 2 Tasks of a Feature and a standalone Task, ordered, gated or both (`OrderedOrGated`); 2 faults, a crash, an interrupt, a requeue, auto-merge |
| `sandcastle_retry` | reviewed work is finished, claims are released | ordered Tasks, 2 failing builds or publications, an interrupt |
| `sandcastle_crash` | violation: a crash leaves a group that can never be published | 2 Tasks, one crash |
| `run_lock` | exclusion and recovery of stale locks | 4 processes, starts one after the other |
| `run_lock_race` | violation: two holders | 2 processes |

The largest runs are `sandcastle` (2.4 million states, a minute or two),
`sign_in` (2.4 million), `trip_station` (0.6 million) and `trip_runs` (140,000,
most of its time for liveness); the others take seconds.

Why the bounds are enough to be interesting. Three requests on two Trips let two
compete for a Trip whose third has made the revision they extend, or work on the
other Trip; the theorems of section 5 hold for any number. Three browser
requests let a touch, a sign-out and a sign-in overlap. Two clicks and the first
load let every pair of the page's functions overlap, and one failure falls
anywhere. Two attempts share a cookie and three callbacks let one of them be
asked for twice; `Lifetime` 0 with a clock of two values makes an attempt either
in time or late, which is all the code tells apart. Four documents hold a
rotation, a broken document and a withdrawal. The Tasks of Sandcastle cover a
Feature group of two, a second group, an order between Tasks, a Task that is not
ready and one that is attempted again after its Feature has moved on; two faults,
a crash, an interrupt and a requeue may all fall into one behaviour. Counters
(`MaxFaults`, `MaxCrashes`, `MaxInterrupts`, `MaxRequeues`, `MaxRestarts`,
`MaxReloads`, `MaxTime`) bound the environment, never the program. Symmetry is
used only in runs without liveness.

Deadlock is checked for `Sandcastle`, where a process can always be started
again, and switched off elsewhere: a finite set of requests, launches or clock
ticks comes to an end.

### Fairness

- `TripRuns`, `PlanQueries`: weak fairness of each request's own steps. A process
  that is alive goes on, and PostgreSQL grants a lock that stays free; the code
  has no schedule of its own. Deaths, new Trips and clients are not fair.
- `Sandcastle`: weak fairness of the orchestrator as a whole, including `Start`:
  it is started again after it ended. Crashes, signals, humans and GitHub's
  merge are not fair. Faults are bounded, which says that GitHub works in the
  end.
- `RunLock`: weak fairness of acquiring; not of launching, holding or dying.
- `AppSession`, `SignIn`, `TripStation`, `JwksCache`: none, their properties are
  safety. That an attempt "succeeds" means that it is not refused.

## 4. Findings

Each is a run that TLC ends with a behaviour of the code against a statement of
the repository.

1. `trip_runs_crash`: a Run whose process dies (or whose Capability raises)
   after acceptance stays active and blocks its Trip; ADR 0012 promises a new
   attempt within the Run.
2. `sandcastle_crash`: a crash between the move of the integration branch and
   its checkpoint makes every later publication of that group refuse.
3. `run_lock_race`: two overlapping starts both hold the run lock. The module
   `Sandcastle` assumes one orchestrator, which `run_lock` shows for starts that
   do not overlap.
4. `sign_in_outage`: a failed discovery is remembered until the process is
   restarted, and the page's advice to try again is of no use.

More behaviours are reachable in the models and have no run of their own; where
one of them is a hazard, `PROJECT.json` lists it:

- the refusal of a busy Trip reads the active Run in a second statement; if that
  Run has just ended the answer is 500 without a Run (`AnswersAreTrue` says
  exactly when a 500 can be answered);
- a publication that failed after it enabled auto-merge cannot be retried once
  GitHub has merged, and its group is never finished;
- a closed Task whose label could not be removed keeps its claim, and recovery
  throws once its branch has moved on (`sandcastle_retry` therefore lets builds
  and publications fail, and not label calls);
- a crash between the in-progress label and the claim leaves a Task that no run
  holds and that no later run recovers;
- touches that land in the reverse order move the idle expiry of a session
  backwards, by the time between the two commands;
- two tabs that sign in at the same time spoil each other's attempt, through the
  one transaction cookie and its clearing (`disturbed`);
- on the page the answers that arrive last win: the revisions of the first load
  replace newer ones a Run has brought meanwhile, and of two overlapping clicks
  the later answer stays (`hasty`; `PageIsTruthful` says what holds for a Planner
  who waits, and what holds always).

## 5. Proofs

The theorems hold for every value of the constants, under the assumptions the
modules name (`ASSUME`); the bounds of the runs (`MaxFaults`, `MaxTime`, ...)
are arbitrary numbers there. Each rests on an invariant that is preserved by
every step; the properties themselves seldom are.

**TripRunsProofs** (from `RequestsAssumption`, `VerdictsAssumption`).
`TypeCorrect`; `OneActiveRunHolds`, `RunStaysActiveHolds`: a request could add a
Run it already has, unless one that has not committed its first transaction has
no Run (`NoRunBeforeAccept`). `LinearHistoryHolds`, `RevisionIffSucceededHolds`,
`DraftIsFreshHolds`: the heart is `EndRunHistory`, a request that ends with
"complete" has a fresh draft, and no other request of the Trip has a draft at
that time, since a draft implies an active Run and there is one.
`AnswersAreTrueHolds`: who has not answered has answered nothing (`Unanswered`),
and a request that is being refused keeps the name of another's Run
(`RefusedByAnother`); a Run never changes its Trip or loses its outcome
(`RunsMove`). None of these proofs mentions `tripLock`: given the unique index,
the row lock and the check of `commit` are a second line of defence that the
operations there are today do not need. `KeepsPromiseHolds`: requests,
statements and locks implement `PlanHistory`, step by step (`StepMaps`). The
revisions of a Trip are numbered without a gap (`Counted`), so the mapped history
is a sequence and a Run that succeeds is appended to it (`SuccessMaps`).

Waiting: `LocksFollowHolds` says who has the row lock of a Trip, exactly the
request between `LockTrip` and the end of its second transaction. With one active
Run per Trip nobody is there to wait for it (`RowIsFree`), so the only wait is an
insert's for a pending index entry, and whoever it waits for can go on itself
(`WaitsAreShortHolds`): no circle, no chain. From weak fairness of each request
follow `AcceptedIsAnswered` (after acceptance nothing depends on others),
`NobodyBlocksForever`, `EveryRunEndsWithoutFailures` (which `trip_runs_crash`
shows to need its hypothesis that no process dies), and `AnsweredUnlessOvertaken`:
`EveryRequestAnswered` for requests that are not overtaken for ever.

**PlanQueriesProofs** (with `TripsAssumption`, on top of the former):
`ReadsNeverGoBackHolds`, `PointerResolvesHolds`. What a client knows was the
current revision once (`KnownIsPast`), and a pointer it has read names a revision
that is not older than what it knew (`PointerIsNew`).

**AppSessionProofs**: `SignInRotatesHolds`, `RevocationIsImmediateHolds`,
`RevokedIsFinalHolds`, `NeverUsedAfterInactivityHolds`. What a request holds
depends on its place (`Places`): a row it has read may be stale, but it is not
from after the revocation; a request that is late is refused by the decision it
takes (`LateIsRefused`); the idle expiry is never more than the idle lifetime
after the last use on record (`ExpiryFollowsUse`).

**SignInProofs**: `SessionIsSolicitedHolds`, `HeldSessionIsLiveHolds`,
`UndisturbedSucceedsHolds`, `OneDiscoveryHolds`. The invariant says where every
request stands and what it has brought (`Places`), that the code of a session was
redeemed by the callback that issued it (`WinnersAreSolicited`,
`RedeemedByCallback`), that an attempt nobody disturbed finds its own cookie
(`Undisturbed`), and that a runtime that is being made is the only one
(`RuntimeInv`).

**JwksCacheProofs**: `KeysMatchEtagHolds`, `FetchesAreSpacedHolds`,
`RetiredKeyIsRefusedHolds`, `PublishedKeyIsFoundHolds`. `TimesInOrder` relates
the clock to the last attempt and the last success; `DifferencesAreNew` says that
the issuer has changed since the cache was made if the two differ.

**RunLockProofs**: `OneHolderHolds`, under `~Overlapping`: the holder's file is at
the path and names it, and whoever acquires sees that in time (`HolderOwnsPath`).
Without the condition the property is false (`run_lock_race`). Under the same
condition `RefusedByHolderHolds`: a process gives up only while another holds the
lock, since its second attempt comes after it has removed what the first one
found (`AttemptInv`); and `StaleLockIsRecoveredHolds`: a fair process that
acquires while nobody holds the lock gets it, for nobody else can change the path
meanwhile (`AcquiresAlone`) and it needs two attempts at most.

**SandcastleProofs** (from `TasksAssumption`, `FeatureAssumption`,
`BacklogsAssumption`): `ClosedIsPublishedHolds`, `ReadyIsCompleteHolds`,
`WorkHoldsBaseHolds`, `CheckpointIsVerifiableHolds`, `RemoteKeepsWorkHolds`,
`ApprovedWorkIsKeptHolds`, whatever fails and whenever the process dies. Branches
only grow: a publication replaces nothing, the expected tree or the new head, and
the expected tree is part of the new head (`JobInv`). Claims, in memory and on
disk, are sound (`ClaimsAreSound`): the commit they are about is on the Task's
branch, an integrated head contains it and is on the local branch, and so does a
receipt. A Task is worked on only after its blockers closed, and what is closed
has landed locally, hence is in the base (`RoundInv`, `ClosedIsLanded`). The file
is the memory except while a process recovers, and then memory lacks only claims
that are closed or not labelled as held (`InSync`).

On top of that `OnlyDueWork`: a commit on any branch, in any claim and in the
group that is being published is that of a Task of this branch, which is not
gated and whose blockers are closed. It is inductive because what is due stays
due (`DueGrows`: Tasks do not reopen) and only a Task that was claimed after both
were read is worked on (`RoundIsDue`). From it follow `BlockersCloseFirstHolds`
and the refinement, `KeepsDeliveryHolds`. Its steps are `PublishStep` (a branch
that is merged holds all that is due, so a late publication changes nothing),
`OfferStep` and `CloseStep`; `MergedIsFinalHolds` is a consequence.
`NeverStuckHolds` is the absence of deadlock for any number of Tasks: the recovery
has a rule for every claim, because no claim without a checkpoint gets into the
file or the list of those to recover (`OnlyRealClaims`, `RecoveryInv`), and every
pending group has a Task (`PendingHasWork`).

**TripStationProofs** (from `TripsAssumption`, `BoundsAssumption`,
`IdentifiersAssumption`): `PageIsTruthfulHolds`, `ReportedRunIsShownHolds`,
`KeepsItsTripsHolds`. A click that was answered has a Run that has ended, and one
that asks for a revision a Run that has succeeded, so the revision it is given is
that Run's or a later one (`ClickInv`; a Run keeps its place in a history that
grows, `EndKept`). A Planner in no hurry waits for the load and for one click at a
time, and the click that asks is the one whose Run is drawn (`PatientInv`). No
creation is sent before the list is there (`Once`). `ServerHolds`: the server
behind the page is `PlanHistory`, so what the page shows is shown of a backend
that `TripRuns` implements.

### What the proofs do not reach

- ENABLED. The prover has no rule for it, so the theorems about liveness have a
  premise (`ServeEnabled`, `AcquireEnabled`) that says in the words of the model
  when a process can step: `CanServe`, `CanAcquire`. On the instances of
  `trip_runs` and `run_lock` TLC finds these predicates equal to ENABLED in every
  reachable state. `NeverStuck` is stated by guards for the same reason.
- `EveryRequestAnswered` in full. An insert may be overtaken by one request after
  the other, each for a while (`NobodyBlocksForever`); that finitely many such
  requests leave it free in the end is an induction over a finite set of temporal
  formulas. Only the run `trip_runs` shows it.
- `ReviewedWorkIsFinished` and `EveryClaimIsReleased` of `Sandcastle`. They need
  an induction over the Tasks of a round and the failures still to come. Only the
  run `sandcastle_retry` shows them.
- The four violated properties, which are false. Everything else the runs check
  is proved.

## 6. Hazards

`PROJECT.json` lists them with the line where each bites and the properties that
cover it. Not covered by a property:

- the order of the responses of a sign-out and a sign-in in two tabs
  (`sign-out-flow.ts:31`): `AppSession` lets them arrive in any order, and a new
  cookie cleared by an old answer costs a sign-in, which nothing promises to
  spare;
- the in-progress label that is set before the claim is written
  (`main.mts:1070`): after a crash in between the Task waits for a human;
- the release plan, which compares the last commit only
  (`production-release-plan.sh:51`): see below.

## 7. Not modelled, and what comes next

1. The release pipeline: pushes, plans, failed deployments. It shares no state
   with the other parts and would be a module with runs of its own. It is the
   next module to write.
2. The publication script call by call. `Sandcastle` has its guards, its effects
   and a failure after each of them; a module of its own would show that they
   implement `PushTree` and `OpenPullRequest`.
3. The acceptance and traceability tooling: batch programs that read the
   repository and keep no state.
4. Identity resolution, configuration, telemetry: sequential code around a single
   statement or value.
5. Generated contracts and the Azure templates: generated code and declarations.
6. Cryptography, the claims of tokens, the content of plans and Evidence, agents
   and their sandboxes: taken as what they promise, or as a choice among their
   outcomes.
