------------------------------- MODULE RunLock -------------------------------
(***************************************************************************)
(* acquireRunLock of the Sandcastle orchestrator: the lock file            *)
(* .sandcastle/run.lock, created exclusively, holding the PID of its       *)
(* owner, and removed by whoever finds that the owner is not running.      *)
(* Each call to the file system is a step.                                 *)
(*                                                                         *)
(* A process is one run of the orchestrator; its PID is its own and is not *)
(* used again.  A file is named by the process that created it: a process  *)
(* creates at most one.                                                    *)
(***************************************************************************)
EXTENDS Naturals, FiniteSets

CONSTANTS
  Processes, None,
  Overlapping    \* whether a process may start while another acquires

ASSUME NoneAssumption == None \notin Processes
ASSUME OverlappingAssumption == Overlapping \in BOOLEAN

VARIABLES
  path,      \* the file at run.lock, or None
  written,   \* the files that contain the PID of their owner
  pc,        \* where each process stands
  attempt,   \* attempts each process has begun
  owner      \* ownerPid, None when undefined

vars == <<path, written, pc, attempt, owner>>

Acquiring == {"opening", "writing", "reading", "checking", "removing"}
Running   == Acquiring \cup {"holding"}

Init ==
  /\ path = None
  /\ written = {}
  /\ pc = [p \in Processes |-> "off"]
  /\ attempt = [p \in Processes |-> 0]
  /\ owner = [p \in Processes |-> None]

Goto(p, step) == pc' = [pc EXCEPT ![p] = step]

IsRunning(p) == pc[p] \in Running

Launch(p) ==
  /\ pc[p] = "off"
  /\ Overlapping \/ \A q \in Processes : pc[q] \notin Acquiring
  /\ Goto(p, "opening")
  /\ UNCHANGED <<path, written, attempt, owner>>

\* openSync(path, "wx"); after two attempts acquireRunLock gives up.
Open(p) ==
  /\ pc[p] = "opening"
  /\ IF attempt[p] = 2
       THEN Goto(p, "refused") /\ UNCHANGED <<path, attempt>>
       ELSE /\ attempt' = [attempt EXCEPT ![p] = @ + 1]
            /\ IF path = None THEN path' = p /\ Goto(p, "writing")
                              ELSE Goto(p, "reading") /\ UNCHANGED path
  /\ UNCHANGED <<written, owner>>

\* writeFileSync, through the descriptor: the file may be off its path by now.
Write(p) ==
  /\ pc[p] = "writing"
  /\ written' = written \cup {p}
  /\ Goto(p, "holding")
  /\ UNCHANGED <<path, attempt, owner>>

\* readFileSync and JSON.parse; a file that is gone or empty has no owner.
Read(p) ==
  /\ pc[p] = "reading"
  /\ owner' = [owner EXCEPT ![p] = IF path \in written THEN path ELSE None]
  /\ Goto(p, "checking")
  /\ UNCHANGED <<path, written, attempt>>

\* Mutant of Check: a lock that names an owner is never stale.
CheckOwnerOnly(p) ==
  /\ pc[p] = "checking"
  /\ Goto(p, IF owner[p] # None THEN "refused" ELSE "removing")
  /\ UNCHANGED <<path, written, attempt, owner>>

\* Mutant of Check: the owner is not looked up.
CheckNobody(p) ==
  /\ pc[p] = "checking"
  /\ Goto(p, "removing")
  /\ UNCHANGED <<path, written, attempt, owner>>

\* processIsRunning: a run that is active refuses this one.
Check(p) ==
  /\ pc[p] = "checking"
  /\ Goto(p, IF owner[p] # None /\ IsRunning(owner[p]) THEN "refused"
                                                       ELSE "removing")
  /\ UNCHANGED <<path, written, attempt, owner>>

\* rmSync(path, { force: true }), whichever file is there by now.
Remove(p) ==
  /\ pc[p] = "removing"
  /\ path' = None
  /\ Goto(p, "opening")
  /\ UNCHANGED <<written, attempt, owner>>

\* releaseRunLock, in the finally clause or on exit.
Release(p) ==
  /\ pc[p] = "holding"
  /\ path' = None
  /\ Goto(p, "ended")
  /\ UNCHANGED <<written, attempt, owner>>

\* The process is killed.
Kill(p) ==
  /\ IsRunning(p)
  /\ Goto(p, "ended")
  /\ UNCHANGED <<path, written, attempt, owner>>

Acquire(p) == Open(p) \/ Write(p) \/ Read(p) \/ Check(p) \/ Remove(p)

Next == \E p \in Processes : Launch(p) \/ Acquire(p) \/ Release(p) \/ Kill(p)

Spec == Init /\ [][Next]_vars

\* A process that runs goes on acquiring the lock; how long it then holds it,
\* and whether it is started or killed, is nobody's promise.
FairSpec == Spec /\ \A p \in Processes : WF_vars(Acquire(p))

-----------------------------------------------------------------------------
(***************************************************************************)
(* Properties.                                                             *)
(***************************************************************************)

\* Every variable has its type.
TypeOK ==
  /\ path \in Processes \cup {None}
  /\ written \subseteq Processes
  /\ pc \in [Processes -> {"off", "refused", "ended"} \cup Running]
  /\ attempt \in [Processes -> 0..2]
  /\ owner \in [Processes -> Processes \cup {None}]

\* The lock is exclusive: at most one run of the orchestrator is active in a
\* checkout, after crashes too.
OneHolder == Cardinality({p \in Processes : pc[p] = "holding"}) <= 1

\* A lock left behind by a crash does not keep later runs out: a process that
\* starts while none holds the lock gets it, unless it is killed.
StaleLockIsRecovered ==
  \A p \in Processes :
    pc[p] = "opening" /\ (\A q \in Processes : pc[q] # "holding")
      ~> pc[p] \in {"holding", "ended"}
=============================================================================
