---------------------------- MODULE RunLockProofs ----------------------------
(***************************************************************************)
(* Proofs, for any number of processes and any crashes, that the run lock  *)
(* is exclusive as long as no process starts while another acquires it,    *)
(* that only its holder can refuse a start then, and that a stale lock is  *)
(* recovered.  Without that condition it is not exclusive                  *)
(* (RunLockRace.cfg).                                                      *)
(***************************************************************************)
EXTENDS RunLock, FiniteSetTheorems, TLAPS

\* The condition of the theorem, kept by the guard of Launch.
OneAcquires ==
  \A p, q \in Processes : pc[p] \in Acquiring /\ pc[q] \in Acquiring => p = q

\* The file at run.lock is the holder's and names it, and the one who acquires
\* sees that in time.
HolderOwnsPath ==
  /\ \A p \in Processes : pc[p] = "holding" => path = p /\ p \in written
  /\ \A q \in Processes : pc[q] = "writing" => path = q
  /\ \A p, q \in Processes :
       pc[p] = "holding" =>
         /\ pc[q] = "checking" => owner[q] = p
         /\ pc[q] # "removing"

IInv == TypeOK /\ OneAcquires /\ HolderOwnsPath

LEMMA InitIInv == Init => IInv
  BY DEF Init, IInv, TypeOK, OneAcquires, HolderOwnsPath, Acquiring, Running

\* A step of p moves p alone.
LEMMA MoveType ==
  ASSUME TypeOK, NEW p \in Processes,
         NEW step \in {"off", "refused", "ended"} \cup Running, Goto(p, step)
  PROVE  /\ pc' \in [Processes -> {"off", "refused", "ended"} \cup Running]
         /\ pc'[p] = step
         /\ \A q \in Processes \ {p} : pc'[q] = pc[q]
  BY DEF TypeOK, Goto

LEMMA NextIInv == ~Overlapping /\ IInv /\ [Next]_vars => IInv'
<1> SUFFICES ASSUME ~Overlapping, IInv, [Next]_vars PROVE IInv'
  OBVIOUS
<1> USE DEF IInv, Acquiring, Running
<1>1. ASSUME NEW p \in Processes, Launch(p) PROVE IInv'
  <2>1. TypeOK' /\ pc'[p] = "opening" /\ \A q \in Processes \ {p} : pc'[q] = pc[q]
    BY <1>1, MoveType DEF Launch, TypeOK
  <2>2. OneAcquires' /\ HolderOwnsPath'
    BY <1>1, <2>1 DEF Launch, OneAcquires, HolderOwnsPath
  <2>3. QED
    BY <2>1, <2>2
<1>2. ASSUME NEW p \in Processes, Open(p) PROVE IInv'
  <2>1. PICK step \in {"refused", "writing", "reading"} :
          /\ Goto(p, step)
          /\ step = "writing" => path = None /\ path' = p
          /\ step # "writing" => path' = path
          /\ attempt' \in [Processes -> 0..2]
    BY <1>2 DEF Open, TypeOK
  <2>2. /\ pc[p] = "opening" /\ UNCHANGED <<written, owner>>
    BY <1>2 DEF Open
  <2>3. /\ TypeOK' /\ pc'[p] = step
        /\ \A q \in Processes \ {p} : pc'[q] = pc[q]
    BY <2>1, <2>2, MoveType DEF TypeOK
  <2>4. OneAcquires'
    BY <2>2, <2>3 DEF OneAcquires
  <2>5. HolderOwnsPath'
    BY <2>1, <2>2, <2>3, NoneAssumption DEF OneAcquires, HolderOwnsPath
  <2>6. QED
    BY <2>3, <2>4, <2>5
<1>3. ASSUME NEW p \in Processes, Write(p) PROVE IInv'
  <2>1. TypeOK' /\ pc'[p] = "holding" /\ \A q \in Processes \ {p} : pc'[q] = pc[q]
    BY <1>3, MoveType DEF Write, TypeOK
  <2>2. OneAcquires' /\ HolderOwnsPath'
    BY <1>3, <2>1 DEF Write, OneAcquires, HolderOwnsPath
  <2>3. QED
    BY <2>1, <2>2
<1>4. ASSUME NEW p \in Processes, Read(p) PROVE IInv'
  <2>1. TypeOK' /\ pc'[p] = "checking" /\ \A q \in Processes \ {p} : pc'[q] = pc[q]
    BY <1>4, MoveType DEF Read, TypeOK
  <2>2. OneAcquires' /\ HolderOwnsPath'
    BY <1>4, <2>1 DEF Read, OneAcquires, HolderOwnsPath, TypeOK
  <2>3. QED
    BY <2>1, <2>2
<1>5. ASSUME NEW p \in Processes, Check(p) PROVE IInv'
  <2>1. PICK step \in {"refused", "removing"} :
          /\ Goto(p, step)
          /\ step = "removing" => owner[p] = None \/ ~IsRunning(owner[p])
    BY <1>5 DEF Check
  <2>2. /\ TypeOK' /\ pc'[p] = step
        /\ \A q \in Processes \ {p} : pc'[q] = pc[q]
    BY <1>5, <2>1, MoveType DEF Check, TypeOK
  <2>3. OneAcquires'
    BY <1>5, <2>2 DEF Check, OneAcquires
  <2>4. ASSUME NEW q \in Processes, pc[q] = "holding" PROVE step = "refused"
    BY <1>5, <2>1, <2>4, NoneAssumption DEF Check, HolderOwnsPath, IsRunning
  <2>5. HolderOwnsPath'
    BY <1>5, <2>2, <2>4 DEF Check, HolderOwnsPath
  <2>6. QED
    BY <2>2, <2>3, <2>5
<1>6. ASSUME NEW p \in Processes, Remove(p) PROVE IInv'
  <2>1. TypeOK' /\ pc'[p] = "opening" /\ \A q \in Processes \ {p} : pc'[q] = pc[q]
    BY <1>6, MoveType DEF Remove, TypeOK
  <2>2. OneAcquires' /\ HolderOwnsPath'
    BY <1>6, <2>1 DEF Remove, OneAcquires, HolderOwnsPath
  <2>3. QED
    BY <2>1, <2>2
<1>7. ASSUME NEW p \in Processes, Release(p) PROVE IInv'
  <2>1. TypeOK' /\ pc'[p] = "ended" /\ \A q \in Processes \ {p} : pc'[q] = pc[q]
    BY <1>7, MoveType DEF Release, TypeOK
  <2>2. OneAcquires' /\ HolderOwnsPath'
    BY <1>7, <2>1 DEF Release, OneAcquires, HolderOwnsPath
  <2>3. QED
    BY <2>1, <2>2
<1>8. ASSUME NEW p \in Processes, Kill(p) PROVE IInv'
  <2>1. TypeOK' /\ pc'[p] = "ended" /\ \A q \in Processes \ {p} : pc'[q] = pc[q]
    BY <1>8, MoveType DEF Kill, TypeOK
  <2>2. OneAcquires' /\ HolderOwnsPath'
    BY <1>8, <2>1 DEF Kill, OneAcquires, HolderOwnsPath
  <2>3. QED
    BY <2>1, <2>2
<1>9. CASE UNCHANGED vars
  BY <1>9 DEF vars, TypeOK, OneAcquires, HolderOwnsPath
<1>10. QED
  BY <1>1, <1>2, <1>3, <1>4, <1>5, <1>6, <1>7, <1>8, <1>9 DEF Next, Acquire

\* Two holders would own the same file.
LEMMA HolderIsOne == IInv => OneHolder
<1> SUFFICES ASSUME IInv PROVE OneHolder
  OBVIOUS
<1> DEFINE H == {p \in Processes : pc[p] = "holding"}
<1>1. H = {} \/ \E p : H = {p}
  BY DEF IInv, HolderOwnsPath
<1>2. Cardinality(H) \in {0, 1}
  <2> HIDE DEF H
  <2>1. QED
    BY <1>1, FS_EmptySet, FS_Singleton
<1>3. QED
  BY <1>2 DEF OneHolder

\* The lock is exclusive, after crashes too, when starts do not overlap.
THEOREM OneHolderHolds == ~Overlapping /\ Spec => []OneHolder
<1>1. SUFFICES ASSUME ~Overlapping PROVE Spec => []OneHolder
  OBVIOUS
<1>2. IInv /\ [Next]_vars => IInv'
  BY <1>1, NextIInv
<1>3. QED
  BY <1>2, InitIInv, HolderIsOne, PTL DEF Spec

-----------------------------------------------------------------------------
(***************************************************************************)
(* Who is refused, and the two attempts.                                   *)
(***************************************************************************)

\* A process sees another's file, never its own, and its second attempt finds
\* the path free: nobody creates a file between Remove and Open.
AttemptInv ==
  \A p \in Processes :
    /\ pc[p] \in {"off", "opening", "reading"} => path # p
    /\ pc[p] = "checking" => owner[p] # p
    /\ pc[p] = "off" => attempt[p] = 0
    /\ pc[p] = "opening" => attempt[p] = 0 \/ (attempt[p] = 1 /\ path = None)
    /\ pc[p] \in {"reading", "checking", "removing"} => attempt[p] = 1

\* A process gives up only while another holds the lock: neither the two
\* attempts nor a PID that is running refuse it for another reason.
RefusedByHolder ==
  [][\A p \in Processes :
       pc[p] # "refused" /\ pc'[p] = "refused" =>
         \E q \in Processes \ {p} : pc[q] = "holding"]_vars

LEMMA InitAttempts == Init => AttemptInv
  BY NoneAssumption DEF Init, AttemptInv

LEMMA NextAttempts ==
  ~Overlapping /\ IInv /\ AttemptInv /\ [Next]_vars => AttemptInv'
<1> SUFFICES ASSUME ~Overlapping, IInv, AttemptInv, [Next]_vars
             PROVE  AttemptInv'
  OBVIOUS
<1> USE DEF IInv, Acquiring, Running
<1>1. ASSUME NEW p \in Processes, Launch(p) PROVE AttemptInv'
  <2>1. pc'[p] = "opening" /\ \A q \in Processes \ {p} : pc'[q] = pc[q]
    BY <1>1, MoveType DEF Launch
  <2>2. QED
    BY <1>1, <2>1 DEF Launch, AttemptInv
<1>2. ASSUME NEW p \in Processes, Open(p) PROVE AttemptInv'
  <2>1. CASE attempt[p] = 2
    BY <1>2, <2>1, MoveType DEF Open, AttemptInv
  <2>2. CASE attempt[p] = 0 /\ path # None
    <3>1. /\ pc'[p] = "reading" /\ attempt'[p] = 1
          /\ \A q \in Processes \ {p} : pc'[q] = pc[q] /\ attempt'[q] = attempt[q]
          /\ UNCHANGED <<path, owner>>
      BY <1>2, <2>2, MoveType DEF Open, TypeOK
    <3>2. QED
      BY <1>2, <3>1 DEF Open, AttemptInv
  <2>3. CASE attempt[p] # 2 /\ path = None
    <3>1. /\ pc'[p] = "writing" /\ path' = p /\ owner' = owner
          /\ \A q \in Processes \ {p} : pc'[q] = pc[q] /\ attempt'[q] = attempt[q]
      BY <1>2, <2>3, MoveType DEF Open, TypeOK
    <3>2. \A q \in Processes \ {p} : pc[q] \notin Acquiring
      BY <1>2 DEF Open, OneAcquires
    <3>3. QED
      BY <3>1, <3>2 DEF AttemptInv
  <2>4. QED
    BY <1>2, <2>1, <2>2, <2>3 DEF Open, AttemptInv, TypeOK
<1>3. ASSUME NEW p \in Processes, Write(p) PROVE AttemptInv'
  <2>1. pc'[p] = "holding" /\ \A q \in Processes \ {p} : pc'[q] = pc[q]
    BY <1>3, MoveType DEF Write
  <2>2. QED
    BY <1>3, <2>1 DEF Write, AttemptInv
<1>4. ASSUME NEW p \in Processes, Read(p) PROVE AttemptInv'
  <2>1. pc'[p] = "checking" /\ \A q \in Processes \ {p} : pc'[q] = pc[q]
    BY <1>4, MoveType DEF Read
  <2>2. /\ owner'[p] \in {path, None}
        /\ \A q \in Processes \ {p} : owner'[q] = owner[q]
    BY <1>4 DEF Read, TypeOK
  <2>3. QED
    BY <1>4, <2>1, <2>2, NoneAssumption DEF Read, AttemptInv
<1>5. ASSUME NEW p \in Processes, Check(p) PROVE AttemptInv'
  <2>1. /\ pc'[p] \in {"refused", "removing"}
        /\ \A q \in Processes \ {p} : pc'[q] = pc[q]
    BY <1>5, MoveType DEF Check
  <2>2. QED
    BY <1>5, <2>1 DEF Check, AttemptInv
<1>6. ASSUME NEW p \in Processes, Remove(p) PROVE AttemptInv'
  <2>1. pc'[p] = "opening" /\ \A q \in Processes \ {p} : pc'[q] = pc[q]
    BY <1>6, MoveType DEF Remove
  <2>2. QED
    BY <1>6, <2>1, NoneAssumption DEF Remove, AttemptInv
<1>7. ASSUME NEW p \in Processes, Release(p) PROVE AttemptInv'
  <2>1. pc'[p] = "ended" /\ \A q \in Processes \ {p} : pc'[q] = pc[q]
    BY <1>7, MoveType DEF Release
  <2>2. QED
    BY <1>7, <2>1, NoneAssumption DEF Release, AttemptInv
<1>8. ASSUME NEW p \in Processes, Kill(p) PROVE AttemptInv'
  <2>1. pc'[p] = "ended" /\ \A q \in Processes \ {p} : pc'[q] = pc[q]
    BY <1>8, MoveType DEF Kill
  <2>2. QED
    BY <1>8, <2>1 DEF Kill, AttemptInv
<1>9. CASE UNCHANGED vars
  BY <1>9 DEF vars, AttemptInv
<1>10. QED
  BY <1>1, <1>2, <1>3, <1>4, <1>5, <1>6, <1>7, <1>8, <1>9 DEF Next, Acquire

\* Open never gives up, and the owner that Check finds running has the lock.
LEMMA RefusedStep ==
  ASSUME IInv, AttemptInv, [Next]_vars, NEW p \in Processes,
         pc[p] # "refused", pc'[p] = "refused"
  PROVE  \E q \in Processes \ {p} : pc[q] = "holding"
<1> USE DEF IInv, Acquiring, Running
<1>1. PICK q \in Processes : Launch(q) \/ Acquire(q) \/ Release(q) \/ Kill(q)
  BY DEF Next, vars
<1>2. q = p
  BY <1>1, MoveType DEF Launch, Acquire, Open, Write, Read, Check, Remove,
    Release, Kill
<1>3. ~Open(p)
  BY NoneAssumption, MoveType DEF Open, AttemptInv, TypeOK
<1>4. Check(p)
  BY <1>1, <1>2, <1>3, MoveType DEF Launch, Acquire, Write, Read, Remove,
    Release, Kill
<1>5. owner[p] # None /\ IsRunning(owner[p])
  BY <1>4, MoveType DEF Check
<1>6. owner[p] \in Processes \ {p}
  BY <1>4, <1>5 DEF Check, AttemptInv, TypeOK
<1>7. QED
  BY <1>4, <1>5, <1>6 DEF Check, OneAcquires, IsRunning

LEMMA Invariants == ~Overlapping /\ Spec => [](IInv /\ AttemptInv)
<1>1. SUFFICES ASSUME ~Overlapping PROVE Spec => [](IInv /\ AttemptInv)
  OBVIOUS
<1>2. IInv /\ [Next]_vars => IInv'
  BY <1>1, NextIInv
<1>3. IInv /\ AttemptInv /\ [Next]_vars => AttemptInv'
  BY <1>1, NextAttempts
<1>4. QED
  BY <1>2, <1>3, InitIInv, InitAttempts, PTL DEF Spec

\* A run of the orchestrator is kept out only by one that is active, whatever
\* the lock file a crash has left behind.
THEOREM RefusedByHolderHolds == ~Overlapping /\ Spec => RefusedByHolder
<1> DEFINE Justified ==
      \A p \in Processes :
        pc[p] # "refused" /\ pc'[p] = "refused" =>
          \E q \in Processes \ {p} : pc[q] = "holding"
<1>1. IInv /\ AttemptInv /\ [Next]_vars => [Justified]_vars
  BY RefusedStep
<1>2. QED
  BY <1>1, Invariants, PTL DEF Spec, RefusedByHolder

-----------------------------------------------------------------------------
(***************************************************************************)
(* A lock that nobody holds is recovered.  ENABLED has no proof rule here: *)
(* what it is for Acquire is a premise, Acquire(p) can always step while p *)
(* acquires and not otherwise.                                             *)
(***************************************************************************)
CanAcquire(p) == pc[p] \in Acquiring

AcquireEnabled ==
  \A p \in Processes : [](CanAcquire(p) => ENABLED <<Acquire(p)>>_vars)

\* Where p may stand while none holds the lock.
Stands(p, step) == pc[p] = step /\ \A q \in Processes : pc[q] # "holding"

Waiting(p) == Stands(p, "opening")
First(p)   == Stands(p, "opening") /\ attempt[p] = 0
Second(p)  == Stands(p, "opening") /\ attempt[p] = 1
Over(p)    == pc[p] \in {"holding", "ended"}

\* Whoever acquires is alone: the others can only be killed.
LEMMA AcquiresAlone ==
  ASSUME ~Overlapping, IInv, [Next]_vars, NEW p \in Processes,
         NEW step \in Acquiring, Stands(p, step)
  PROVE  \/ Acquire(p)
         \/ Over(p)'
         \/ Stands(p, step)' /\ attempt'[p] = attempt[p]
<1> USE DEF IInv, Acquiring, Running
<1>1. CASE UNCHANGED vars
  BY <1>1 DEF vars, Stands
<1>2. ASSUME NEW q \in Processes,
             Launch(q) \/ Acquire(q) \/ Release(q) \/ Kill(q)
      PROVE  \/ Acquire(p)
             \/ Over(p)'
             \/ Stands(p, step)' /\ attempt'[p] = attempt[p]
  <2>1. Acquire(q) => q = p
    BY DEF Acquire, Open, Write, Read, Check, Remove, OneAcquires, Stands
  <2>2. ~Launch(q) /\ ~Release(q)
    BY DEF Launch, Release, Stands
  <2>3. CASE Kill(q)
    <3>1. pc'[q] = "ended" /\ \A u \in Processes \ {q} : pc'[u] = pc[u]
      BY <2>3, MoveType DEF Kill
    <3>2. QED
      BY <2>3, <3>1 DEF Kill, Over, Stands
  <2>4. QED
    BY <1>2, <2>1, <2>2, <2>3
<1>3. QED
  BY <1>1, <1>2 DEF Next

\* The step p takes next from each place.  The second attempt finds the path
\* free, and Check finds nobody running.
LEMMA AcquireStep ==
  ASSUME IInv, AttemptInv, NEW p \in Processes, Acquire(p),
         \A q \in Processes : pc[q] # "holding"
  PROVE  /\ First(p) => Stands(p, "reading")' \/ Stands(p, "writing")'
         /\ Stands(p, "reading") => Stands(p, "checking")'
         /\ Stands(p, "checking") => Stands(p, "removing")'
         /\ Stands(p, "removing") => Second(p)'
         /\ Second(p) => Stands(p, "writing")'
         /\ Stands(p, "writing") => Over(p)'
<1> USE DEF IInv, Acquiring, Running
<1>1. First(p) => Stands(p, "reading")' \/ Stands(p, "writing")'
  BY MoveType DEF First, Stands, Acquire, Open, Write, Read, Check, Remove
<1>2. Stands(p, "reading") => Stands(p, "checking")'
  BY MoveType DEF Stands, Acquire, Open, Write, Read, Check, Remove
<1>3. Stands(p, "checking") => Stands(p, "removing")'
  <2>1. SUFFICES ASSUME Stands(p, "checking") PROVE Stands(p, "removing")'
    OBVIOUS
  <2>2. Check(p)
    BY <2>1 DEF Stands, Acquire, Open, Write, Read, Check, Remove
  <2>3. pc'[p] \in {"refused", "removing"}
    BY <2>2, MoveType DEF Check
  <2>4. pc'[p] # "refused"
    BY <2>2, RefusedStep DEF Check, Next, Acquire
  <2>5. QED
    BY <2>2, <2>3, <2>4, MoveType DEF Stands, Check
<1>4. Stands(p, "removing") => Second(p)'
  BY MoveType DEF Second, Stands, Acquire, Open, Write, Read, Check, Remove,
    AttemptInv
<1>5. Second(p) => Stands(p, "writing")'
  BY MoveType DEF Second, Stands, Acquire, Open, Write, Read, Check, Remove,
    AttemptInv
<1>6. Stands(p, "writing") => Over(p)'
  BY MoveType DEF Over, Stands, Acquire, Open, Write, Read, Check, Remove
<1>7. QED
  BY <1>1, <1>2, <1>3, <1>4, <1>5, <1>6

\* One place leads to the next, up to the end.
LEMMA WaitingEnds ==
  ASSUME ~Overlapping, NEW p \in Processes
  PROVE  Spec /\ ([]<>~CanAcquire(p) \/ []<><<Acquire(p)>>_vars) =>
           (Waiting(p) ~> Over(p))
<1> DEFINE R == Stands(p, "reading")
           C == Stands(p, "checking")
           D == Stands(p, "removing")
           W == Stands(p, "writing")
           I == IInv /\ AttemptInv
<1>1. Spec => []I
  BY Invariants
<1>2. I /\ Waiting(p) => First(p) \/ Second(p)
  BY DEF Waiting, First, Second, Stands, AttemptInv
<1>3. First(p) \/ R \/ C \/ D \/ Second(p) \/ W => CanAcquire(p)
  BY DEF First, Second, Stands, CanAcquire, Acquiring
<1>4. I /\ [Next]_vars =>
        /\ First(p)  => First(p)' \/ R' \/ W' \/ Over(p)'
        /\ R         => R' \/ C' \/ Over(p)'
        /\ C         => C' \/ D' \/ Over(p)'
        /\ D         => D' \/ Second(p)' \/ Over(p)'
        /\ Second(p) => Second(p)' \/ W' \/ Over(p)'
        /\ W         => W' \/ Over(p)'
  BY AcquiresAlone, AcquireStep DEF First, Second, Stands, Acquiring
<1>5. I /\ <<Acquire(p)>>_vars =>
        /\ First(p)  => R' \/ W'
        /\ R         => C'
        /\ C         => D'
        /\ D         => Second(p)'
        /\ Second(p) => W'
        /\ W         => Over(p)'
  BY AcquireStep DEF First, Second, Stands
<1> HIDE DEF R, C, D, W, I
<1>6. QED
  BY <1>1, <1>2, <1>3, <1>4, <1>5, PTL DEF Spec

\* A lock left behind by a crash does not keep later runs out: with fair
\* processes, who starts while none holds the lock gets it or is killed.
THEOREM StaleLockIsRecoveredHolds ==
  ~Overlapping /\ FairSpec /\ AcquireEnabled => StaleLockIsRecovered
<1> DEFINE Fair(p)    == WF_vars(Acquire(p))
           Enabled(p) == [](CanAcquire(p) => ENABLED <<Acquire(p)>>_vars)
           Ends(p)    == Waiting(p) ~> Over(p)
<1>1. SUFFICES ASSUME ~Overlapping
               PROVE  FairSpec /\ AcquireEnabled => StaleLockIsRecovered
  OBVIOUS
<1>2. ASSUME NEW p \in Processes
      PROVE  Spec /\ Fair(p) /\ Enabled(p) => Ends(p)
  BY <1>1, WaitingEnds, PTL
<1>3. FairSpec /\ AcquireEnabled =>
        Spec /\ (\A p \in Processes : Fair(p)) /\ \A p \in Processes : Enabled(p)
  BY PTL DEF FairSpec, AcquireEnabled
<1>4. (\A p \in Processes : Ends(p)) => StaleLockIsRecovered
  BY PTL DEF Waiting, Stands, Over, StaleLockIsRecovered
<1> HIDE DEF Fair, Enabled, Ends
<1>5. Spec /\ (\A p \in Processes : Fair(p)) /\ (\A p \in Processes : Enabled(p))
        => \A p \in Processes : Ends(p)
  BY <1>2
<1>6. QED
  BY <1>3, <1>4, <1>5, PTL
=============================================================================
