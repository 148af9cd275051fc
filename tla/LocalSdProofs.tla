---------------------------- MODULE LocalSdProofs ----------------------------
(***************************************************************************)
(* Proofs about LocalSd, for every set of runs, every TTL and every choice  *)
(* of options.                                                              *)
(***************************************************************************)
EXTENDS LocalSd, TLAPS

USE RunsAssumption, OptionsAssumption, KeysAssumption, TtlAssumption

\* A task graph has three or six tasks; a simulation hashes in its second.
LEMMA TaskCount ==
    ASSUME NEW o \in Options
    PROVE  /\ Size(o) \in 3..6
           /\ o.sim => /\ Size(o) = 3
                       /\ Tasks(o)[1] # "hash-artifacts"
                       /\ Tasks(o)[3] # "hash-artifacts"
BY DEF Tasks, Size

\* Running a task keeps the shared data well typed.
LEMMA EffectType ==
    ASSUME TypeOK, NEW r \in Runs, NEW t, Effect(r, t)
    PROVE  /\ tree' \in Contents
           /\ sums' \in Contents
           /\ dist' \in [by : Writers, index : Writers]
           /\ staged' \in [Keys -> [tree : Contents, sums : Contents]]
<1> USE DEF TypeOK, Effect, Contents, Writers
<1>1. tree' \in Contents
  <2>1. t \in DOMAIN OutputOf => OutputOf[t] \in Files
    BY DEF OutputOf, Files
  <2>2. QED
    BY <2>1
<1>2. dist' \in [by : Writers, index : Writers]
  <2>1. "index" \in Files
    BY DEF Files
  <2>2. QED
    BY <2>1
<1>3. sums' \in Contents
  <2>1. "stub" \in Files
    BY DEF Files
  <2>2. Nobody \in Contents
    BY DEF Nobody
  <2>3. QED
    BY <2>1, <2>2
<1>4. staged' \in [Keys -> [tree : Contents, sums : Contents]]
  <2>1. [tree |-> tree, sums |-> sums] \in [tree : Contents, sums : Contents]
    OBVIOUS
  <2>2. QED
    BY <2>1
<1>5. QED
  BY <1>1, <1>2, <1>3, <1>4

\* Every variable keeps its type, whatever the processes do.
THEOREM TypeCorrect == Spec => []TypeOK
<1>1. Init => TypeOK
  <2> SUFFICES ASSUME Init PROVE TypeOK
    OBVIOUS
  <2>1. ASSUME NEW r \in Runs PROVE step[r] <= Size(opts[r])
    <3>1. opts[r] \in Options /\ step[r] = 1
      BY DEF Init
    <3>2. Size(opts[r]) \in 3..6
      BY <3>1, TaskCount
    <3>3. QED
      BY <3>1, <3>2
  <2>2. Nobody \in Contents
    BY DEF Nobody, Contents, Writers
  <2>3. staged \in [Keys -> [tree : Contents, sums : Contents]]
    BY <2>2 DEF Init
  <2>4. QED
    BY <2>1, <2>2, <2>3 DEF Init, TypeOK, Places, Results, NoFile, Writers
<1>2. TypeOK /\ [Next]_vars => TypeOK'
  <2> SUFFICES ASSUME TypeOK, [Next]_vars PROVE TypeOK'
    OBVIOUS
  <2> USE DEF TypeOK, Places, Results
  <2>1. ASSUME NEW r \in Runs, Begin(r) PROVE TypeOK'
    BY <2>1 DEF Begin, dataVars
  <2>2. ASSUME NEW r \in Runs, CheckBusy(r) PROVE TypeOK'
    BY <2>2 DEF CheckBusy, dataVars
  <2>3. ASSUME NEW r \in Runs, CheckPasses(r) PROVE TypeOK'
    <3>1. IntrusionOf(r) \subseteq {"race", "expiry", "force"}
      BY DEF IntrusionOf
    <3>2. QED
      BY <2>3, <3>1 DEF CheckPasses, dataVars
  <2>4. ASSUME NEW r \in Runs, WriteTruncates(r) PROVE TypeOK'
    BY <2>4 DEF WriteTruncates, dataVars, Unreadable, Writers
  <2>5. ASSUME NEW r \in Runs, WriteFills(r) PROVE TypeOK'
    <3>1. lock' \in [state : {"absent", "unreadable", "written"},
                     run : Writers, time : Nat]
      BY <2>5 DEF WriteFills, Filled, Metadata, NoFile, Unreadable, Writers
    <3>2. QED
      BY <2>5, <3>1 DEF WriteFills, dataVars
  <2>6. ASSUME NEW r \in Runs, AcquireFails(r) PROVE TypeOK'
    BY <2>6 DEF AcquireFails, dataVars
  <2>7. ASSUME NEW r \in Runs, TaskSucceeds(r) PROVE TypeOK'
    <3>1. /\ tree' \in Contents
          /\ sums' \in Contents
          /\ dist' \in [by : Writers, index : Writers]
          /\ staged' \in [Keys -> [tree : Contents, sums : Contents]]
      BY <2>7, EffectType DEF TaskSucceeds, MoreTasks
    <3>2. opts[r] \in Options /\ Size(opts[r]) \in 3..6
      BY TaskCount
    <3>3. ASSUME NEW s \in Runs
          PROVE  step'[s] \in 1..6 /\ step'[s] <= Size(opts'[s])
      <4>1. opts' = opts /\ step[s] \in 1..6 /\ step[s] <= Size(opts[s])
        BY <2>7 DEF TaskSucceeds, MoreTasks
      <4>2. CASE s = r
        BY <2>7, <3>2, <4>1, <4>2 DEF TaskSucceeds, MoreTasks
      <4>3. CASE s # r
        BY <2>7, <4>1, <4>3 DEF TaskSucceeds, MoreTasks
      <4>4. QED
        BY <4>2, <4>3
    <3>4. /\ pc' \in [Runs -> Places]
          /\ result' \in [Runs -> Results]
      BY <2>7 DEF TaskSucceeds, MoreTasks
    <3>5. step' \in [Runs -> 1..6]
      BY <2>7, <3>3 DEF TaskSucceeds, MoreTasks
    <3>6. QED
      BY <2>7, <3>5, <3>1, <3>3, <3>4 DEF TaskSucceeds, MoreTasks
  <2>8. ASSUME NEW r \in Runs, TaskFails(r) PROVE TypeOK'
    <3>1. /\ tree' \in Contents
          /\ sums' \in Contents
          /\ dist' \in [by : Writers, index : Writers]
          /\ staged' \in [Keys -> [tree : Contents, sums : Contents]]
      BY <2>8, EffectType DEF TaskFails, dataVars
    <3>2. opts[r].sim /\ Task(r) = "hash-artifacts" => step[r] = 2 /\ Size(opts[r]) = 3
      <4>1. opts[r] \in Options
        OBVIOUS
      <4>2. opts[r].sim => Size(opts[r]) = 3
        BY <4>1, TaskCount
      <4>3. opts[r].sim => step[r] \in 1..3
        BY <4>2
      <4>4. opts[r].sim => Tasks(opts[r])[1] # "hash-artifacts"
                           /\ Tasks(opts[r])[3] # "hash-artifacts"
        BY <4>1, TaskCount
      <4>5. QED
        BY <4>2, <4>3, <4>4 DEF Task
    <3>3. ASSUME NEW s \in Runs
          PROVE  step'[s] \in 1..6 /\ step'[s] <= Size(opts'[s])
      <4>1. opts' = opts /\ step[s] \in 1..6 /\ step[s] <= Size(opts[s])
        BY <2>8 DEF TaskFails
      <4>2. CASE s = r /\ opts[r].sim /\ Task(r) = "hash-artifacts"
        BY <2>8, <3>2, <4>1, <4>2 DEF TaskFails
      <4>3. CASE ~(s = r /\ opts[r].sim /\ Task(r) = "hash-artifacts")
        BY <2>8, <4>1, <4>3 DEF TaskFails
      <4>4. QED
        BY <4>2, <4>3
    <3>4. /\ pc' \in [Runs -> Places]
          /\ result' \in [Runs -> Results]
      BY <2>8 DEF TaskFails
    <3>5. step' \in [Runs -> 1..6]
      BY <2>8, <3>3 DEF TaskFails
    <3>6. QED
      BY <2>8, <3>5, <3>1, <3>3, <3>4 DEF TaskFails
  <2>9. ASSUME NEW r \in Runs, Release(r) PROVE TypeOK'
    BY <2>9 DEF Release, dataVars, NoFile, Writers
  <2>10. ASSUME NEW r \in Runs, ReleaseFails(r) PROVE TypeOK'
    BY <2>10 DEF ReleaseFails, dataVars
  <2>11. ASSUME NEW r \in Runs, Crash(r) PROVE TypeOK'
    BY <2>11 DEF Crash, dataVars
  <2>12. CASE Tick
    BY <2>12 DEF Tick, procVars, dataVars
  <2>13. CASE UNCHANGED vars
    BY <2>13 DEF vars
  <2>14. QED
    BY <2>1, <2>2, <2>3, <2>4, <2>5, <2>6, <2>7, <2>8, <2>9, <2>10, <2>11,
       <2>12, <2>13 DEF Next, Process
<1>3. QED
  BY <1>1, <1>2, PTL DEF Spec

-----------------------------------------------------------------------------
\* A check that passes while another run is admitted is an intrusion: the lock
\* file the other one wrote would have refused it otherwise.
LEMMA CheckSeesTheOther ==
    ASSUME TypeOK, SoleAdmission, NEW r \in Runs, CheckPasses(r),
           intrusions' = {}
    PROVE  /\ intrusions = {}
           /\ \A s \in Runs \ {r} : ~Admitted(s)
<1>1. intrusions = {} /\ IntrusionOf(r) = {}
  BY DEF CheckPasses
<1>2. SUFFICES ASSUME NEW s \in Runs \ {r}, Admitted(s) PROVE FALSE
  BY <1>1
<1>3. pc[s] \notin {"write", "fill"}
  <2> SUFFICES ASSUME pc[s] \in {"write", "fill"} PROVE FALSE
    OBVIOUS
  <2>1. "race" \in IntrusionOf(r)
    BY <1>2 DEF IntrusionOf
  <2>2. QED
    BY <2>1, <1>1
<1>4. lock.state = "written"
  BY <1>1, <1>2, <1>3 DEF SoleAdmission, LockMatches, Admitted
<1>5. {q \in Runs \ {r} : Admitted(q)} # {}
  BY <1>2
<1>6. ~(clock - lock.time >= Ttl)
  BY <1>1, <1>4, <1>5 DEF IntrusionOf
<1>7. ~opts[r].force
  BY <1>1, <1>4, <1>5 DEF IntrusionOf
<1>8. lock.time \in Nat /\ clock \in Nat
  BY DEF TypeOK
<1>9. QED
  BY <1>4, <1>6, <1>7, <1>8 DEF CheckPasses, Refuses

\* A step of r that leaves every other run where it is and admits nobody keeps
\* SoleAdmission, provided r still finds the file it must find and, if r is
\* admitted, the other runs' files are not touched.
LEMMA StepOfOne ==
    ASSUME TypeOK, SoleAdmission, NEW r \in Runs,
           pc' = [pc EXCEPT ![r] = pc'[r]],
           level' = [level EXCEPT ![r] = level'[r]],
           pc'[r] # "idle",
           intrusions' = intrusions,
           Admitted(r)' => Admitted(r),
           lock' = lock \/ Admitted(r),
           intrusions = {} => LockMatches(r)'
    PROVE  SoleAdmission'
<1>1. \A s \in Runs \ {r} : /\ pc'[s] = pc[s]
                            /\ level'[s] = level[s]
  BY DEF TypeOK
<1>2. \A s \in Runs \ {r} : Admitted(s)' <=> Admitted(s)
  BY <1>1 DEF Admitted
<1>3. \A s \in Runs : pc'[s] = "idle" => level'[s] = 1
  BY <1>1 DEF SoleAdmission
<1>4. ASSUME intrusions' = {}, NEW s \in Runs
      PROVE  LockMatches(s)'
  <2>1. CASE s = r
    BY <1>4, <2>1
  <2>2. CASE s # r /\ Admitted(s)
    <3>1. ~Admitted(r)
      BY <1>4, <2>2 DEF SoleAdmission
    <3>2. lock' = lock
      BY <3>1
    <3>3. LockMatches(s)
      BY <1>4 DEF SoleAdmission
    <3>4. QED
      BY <1>1, <2>2, <3>2, <3>3 DEF LockMatches
  <2>3. CASE s # r /\ ~Admitted(s)
    BY <1>1, <2>3 DEF LockMatches, Admitted
  <2>4. QED
    BY <2>1, <2>2, <2>3
<1>5. ASSUME intrusions' = {}, NEW s \in Runs, NEW q \in Runs,
             Admitted(s)', Admitted(q)'
      PROVE  s = q
  <2>1. Admitted(s) /\ Admitted(q)
    BY <1>2, <1>5
  <2>2. QED
    BY <1>5, <2>1 DEF SoleAdmission
<1>6. QED
  BY <1>3, <1>4, <1>5 DEF SoleAdmission

\* Without an intrusion at most one run is admitted and the lock file is its
\* own: the inductive invariant behind OverlapHasCause.
THEOREM SoleAdmissionHolds == Spec => []SoleAdmission
<1>1. Init => SoleAdmission
  BY DEF Init, SoleAdmission, LockMatches, Admitted
<1>2. TypeOK /\ SoleAdmission /\ [Next]_vars => SoleAdmission'
  <2> SUFFICES ASSUME TypeOK, SoleAdmission, [Next]_vars PROVE SoleAdmission'
    OBVIOUS
  <2>1. ASSUME NEW r \in Runs, Begin(r) PROVE SoleAdmission'
    <3>1. level[r] = 1
      BY <2>1 DEF Begin, SoleAdmission
    <3>2. /\ pc'[r] = "check" /\ level'[r] = 1
          /\ pc' = [pc EXCEPT ![r] = pc'[r]] /\ level' = [level EXCEPT ![r] = level'[r]]
          /\ lock' = lock /\ intrusions' = intrusions
      BY <2>1, <3>1 DEF Begin, TypeOK
    <3>3. QED
      BY <3>2, StepOfOne DEF Admitted, LockMatches
  <2>2. ASSUME NEW r \in Runs, CheckBusy(r) PROVE SoleAdmission'
    BY <2>2, StepOfOne DEF CheckBusy, TypeOK, Admitted, LockMatches
  <2>3. ASSUME NEW r \in Runs, CheckPasses(r) PROVE SoleAdmission'
    <3>1. /\ pc' = [pc EXCEPT ![r] = "write"]
          /\ level' = level /\ lock' = lock /\ pc[r] = "check"
      BY <2>3 DEF CheckPasses
    <3>2. \A s \in Runs : s # r => pc'[s] = pc[s] /\ level'[s] = level[s]
      BY <3>1 DEF TypeOK
    <3>3. pc'[r] = "write"
      BY <3>1 DEF TypeOK
    <3>4. \A s \in Runs : pc'[s] = "idle" => level'[s] = 1
      BY <3>1, <3>2, <3>3 DEF SoleAdmission
    <3>5. ASSUME intrusions' = {}
          PROVE  \A s \in Runs : LockMatches(s)'
                                 /\ \A q \in Runs : Admitted(s)' /\ Admitted(q)' => s = q
      <4>1. intrusions = {} /\ \A s \in Runs \ {r} : ~Admitted(s)
        BY <2>3, <3>5, CheckSeesTheOther
      <4>2. \A s \in Runs \ {r} : ~Admitted(s)'
        BY <4>1, <3>2 DEF Admitted
      <4>3. LockMatches(r)'
        BY <4>1, <3>1, <3>3 DEF SoleAdmission, LockMatches
      <4>4. \A s \in Runs \ {r} : LockMatches(s)'
        BY <4>2 DEF Admitted, LockMatches
      <4>5. QED
        BY <4>2, <4>3, <4>4
    <3>6. QED
      BY <3>4, <3>5 DEF SoleAdmission
  <2>4. ASSUME NEW r \in Runs, WriteTruncates(r) PROVE SoleAdmission'
    BY <2>4, StepOfOne DEF WriteTruncates, TypeOK, Admitted, LockMatches, Unreadable
  <2>5. ASSUME NEW r \in Runs, WriteFills(r) PROVE SoleAdmission'
    <3>1. /\ pc[r] = "fill" /\ pc'[r] \in {"check", "graph"}
          /\ pc' = [pc EXCEPT ![r] = pc'[r]] /\ level' = [level EXCEPT ![r] = level'[r]]
      BY <2>5 DEF WriteFills, TypeOK
    <3>2. intrusions = {} => LockMatches(r)'
      <4>1. intrusions = {} => lock.state = "unreadable"
        BY <2>5 DEF WriteFills, SoleAdmission, LockMatches
      <4>2. intrusions = {} => lock' = Metadata(r)
        BY <2>5, <4>1 DEF WriteFills, Filled
      <4>3. pc'[r] # "fill"
        BY <2>5 DEF WriteFills, TypeOK
      <4>4. QED
        BY <4>2, <4>3 DEF LockMatches, Metadata
    <3>3. intrusions' = intrusions
      BY <2>5 DEF WriteFills
    <3>4. Admitted(r)
      BY <3>1 DEF Admitted
    <3>5. (Admitted(r)' => Admitted(r)) /\ (lock' = lock \/ Admitted(r)) /\ pc'[r] # "idle"
      BY <3>1, <3>4
    <3>6. QED
      BY <3>1, <3>2, <3>3, <3>5, StepOfOne
  <2>6. ASSUME NEW r \in Runs, AcquireFails(r) PROVE SoleAdmission'
    BY <2>6, StepOfOne DEF AcquireFails, TypeOK, Admitted, LockMatches
  <2>7. ASSUME NEW r \in Runs, TaskSucceeds(r) PROVE SoleAdmission'
    <3>1. /\ pc[r] = "graph" /\ pc'[r] \in {"graph", "release"}
          /\ pc' = [pc EXCEPT ![r] = pc'[r]] /\ level' = [level EXCEPT ![r] = level'[r]]
          /\ lock' = lock /\ intrusions' = intrusions
      BY <2>7 DEF TaskSucceeds, TypeOK
    <3>2. QED
      BY <3>1, StepOfOne DEF Admitted, LockMatches, SoleAdmission
  <2>8. ASSUME NEW r \in Runs, TaskFails(r) PROVE SoleAdmission'
    <3>1. /\ pc[r] = "graph" /\ pc'[r] \in {"graph", "release"}
          /\ pc' = [pc EXCEPT ![r] = pc'[r]] /\ level' = [level EXCEPT ![r] = level'[r]]
          /\ lock' = lock /\ intrusions' = intrusions
      BY <2>8 DEF TaskFails, TypeOK
    <3>2. QED
      BY <3>1, StepOfOne DEF Admitted, LockMatches, SoleAdmission
  <2>9. ASSUME NEW r \in Runs, Release(r) PROVE SoleAdmission'
    BY <2>9, StepOfOne DEF Release, TypeOK, Admitted, LockMatches
  <2>10. ASSUME NEW r \in Runs, ReleaseFails(r) PROVE SoleAdmission'
    BY <2>10, StepOfOne DEF ReleaseFails, TypeOK, Admitted, LockMatches
  <2>11. ASSUME NEW r \in Runs, Crash(r) PROVE SoleAdmission'
    BY <2>11, StepOfOne DEF Crash, TypeOK, Admitted, LockMatches
  <2>12. CASE Tick
    BY <2>12 DEF Tick, procVars, SoleAdmission, Admitted, LockMatches
  <2>13. CASE UNCHANGED vars
    BY <2>13 DEF vars, SoleAdmission, Admitted, LockMatches
  <2>14. QED
    BY <2>1, <2>2, <2>3, <2>4, <2>5, <2>6, <2>7, <2>8, <2>9, <2>10, <2>11,
       <2>12, <2>13 DEF Next, Process
<1>3. QED
  BY <1>1, <1>2, TypeCorrect, PTL DEF Spec

\* LVSD-008: task graphs overlap only through a race, an expiry or force.
THEOREM OverlapExplained == Spec => []OverlapHasCause
<1>1. SoleAdmission => OverlapHasCause
  BY DEF SoleAdmission, OverlapHasCause, Admitted
<1>2. QED
  BY <1>1, SoleAdmissionHolds, PTL
-----------------------------------------------------------------------------
\* The run a lock file belongs to, whatever other runs made of the file since.
Holder(r) ==
    \/ pc[r] \in {"fill", "graph", "release"}
    \/ level[r] = 2 /\ pc[r] \in {"check", "write"}

\* No file error, no kill, no kept lock; simulations are forced.
Regular ==
    faults = {} /\ \A r \in Runs : ~opts[r].keep /\ (opts[r].sim => opts[r].force)

\* The inductive strengthening of NoStaleLock: a file has a holder.
FileHasHolder ==
    /\ \A r \in Runs : level[r] = 2 => opts[r].sim
    /\ Regular /\ lock # NoFile => \E r \in Runs : Holder(r)

\* A step of r that leaves the file alone keeps FileHasHolder, unless r was its
\* holder and is no more.
LEMMA HolderStays ==
    ASSUME TypeOK, FileHasHolder, NEW r \in Runs,
           pc' = [pc EXCEPT ![r] = pc'[r]],
           level' = [level EXCEPT ![r] = level'[r]],
           opts' = opts, lock' = lock, faults \subseteq faults',
           level'[r] = 2 => opts[r].sim,
           Regular' /\ Holder(r) => Holder(r)'
    PROVE  FileHasHolder'
<1>1. \A s \in Runs \ {r} : pc'[s] = pc[s] /\ level'[s] = level[s]
  BY DEF TypeOK
<1>2. \A s \in Runs : level'[s] = 2 => opts'[s].sim
  BY <1>1 DEF FileHasHolder
<1>3. ASSUME Regular', lock' # NoFile
      PROVE  \E s \in Runs : Holder(s)'
  <2>1. Regular
    BY <1>3 DEF Regular
  <2>2. PICK s \in Runs : Holder(s)
    BY <1>3, <2>1 DEF FileHasHolder
  <2>3. CASE s = r
    BY <1>3, <2>2, <2>3
  <2>4. CASE s # r
    BY <1>1, <2>2, <2>4 DEF Holder
  <2>5. QED
    BY <2>3, <2>4
<1>4. QED
  BY <1>2, <1>3 DEF FileHasHolder

\* After a step of r that makes it the holder, or after which there is no file,
\* nothing else is to be shown.
LEMMA HolderNow ==
    ASSUME TypeOK, FileHasHolder, NEW r \in Runs,
           level' = [level EXCEPT ![r] = level'[r]], opts' = opts,
           level'[r] = 2 => opts[r].sim,
           Regular' => Holder(r)' \/ lock' = NoFile
    PROVE  FileHasHolder'
<1>1. \A s \in Runs : level'[s] = 2 => opts'[s].sim
  BY DEF TypeOK, FileHasHolder
<1>2. QED
  BY <1>1 DEF FileHasHolder

\* When every run has ended by itself, no lock file is left: a file always has
\* a holder, and a holder that ends regularly deletes it.
THEOREM NoLockIsLeft == Spec => []NoStaleLock
<1>1. Init => FileHasHolder
  BY DEF Init, FileHasHolder
<1>2. TypeOK /\ FileHasHolder /\ [Next]_vars => FileHasHolder'
  <2> SUFFICES ASSUME TypeOK, FileHasHolder, [Next]_vars PROVE FileHasHolder'
    OBVIOUS
  <2>1. ASSUME NEW r \in Runs, Begin(r) PROVE FileHasHolder'
    <3>1. ~Holder(r)
      BY <2>1 DEF Begin, Holder
    <3>2. /\ pc' = [pc EXCEPT ![r] = pc'[r]] /\ level' = [level EXCEPT ![r] = level'[r]]
          /\ UNCHANGED <<opts, lock, faults>> /\ level' = level
      BY <2>1 DEF Begin, TypeOK
    <3>3. QED
      BY <3>1, <3>2, HolderStays DEF FileHasHolder
  <2>2. ASSUME NEW r \in Runs, CheckBusy(r) PROVE FileHasHolder'
    <3>1. Regular' => ~Holder(r)
      BY <2>2 DEF CheckBusy, Refuses, Regular, FileHasHolder, Holder
    <3>2. QED
      BY <2>2, <3>1, HolderStays DEF CheckBusy, TypeOK, FileHasHolder
  <2>3. ASSUME NEW r \in Runs, CheckPasses(r) PROVE FileHasHolder'
    BY <2>3, HolderStays DEF CheckPasses, TypeOK, FileHasHolder, Holder
  <2>4. ASSUME NEW r \in Runs, WriteTruncates(r) PROVE FileHasHolder'
    BY <2>4, HolderNow DEF WriteTruncates, TypeOK, FileHasHolder, Holder
  <2>5. ASSUME NEW r \in Runs, WriteFills(r) PROVE FileHasHolder'
    <3>1. /\ level' = [level EXCEPT ![r] = level'[r]] /\ opts' = opts
          /\ level'[r] = 2 => opts[r].sim
          /\ Holder(r)'
      BY <2>5 DEF WriteFills, TypeOK, FileHasHolder, Holder
    <3>2. QED
      BY <3>1, HolderNow
  <2>6. ASSUME NEW r \in Runs, AcquireFails(r) PROVE FileHasHolder'
    BY <2>6, HolderStays DEF AcquireFails, TypeOK, FileHasHolder, Regular
  <2>7. ASSUME NEW r \in Runs, TaskSucceeds(r) PROVE FileHasHolder'
    <3>1. /\ pc' = [pc EXCEPT ![r] = pc'[r]] /\ pc'[r] \in {"graph", "release"}
          /\ UNCHANGED <<opts, level, lock, faults>>
      BY <2>7 DEF TaskSucceeds, TypeOK
    <3>2. QED
      BY <3>1, HolderStays DEF TypeOK, FileHasHolder, Holder
  <2>8. ASSUME NEW r \in Runs, TaskFails(r) PROVE FileHasHolder'
    <3>1. /\ pc' = [pc EXCEPT ![r] = pc'[r]] /\ pc'[r] \in {"graph", "release"}
          /\ UNCHANGED <<opts, level, lock, faults>>
      BY <2>8 DEF TaskFails, TypeOK
    <3>2. QED
      BY <3>1, HolderStays DEF TypeOK, FileHasHolder, Holder
  <2>9. ASSUME NEW r \in Runs, Release(r) PROVE FileHasHolder'
    <3>1. Regular' => lock' = NoFile
      BY <2>9 DEF Release, Regular
    <3>2. QED
      BY <2>9, <3>1, HolderNow DEF Release, TypeOK, FileHasHolder
  <2>10. ASSUME NEW r \in Runs, ReleaseFails(r) PROVE FileHasHolder'
    BY <2>10, HolderStays DEF ReleaseFails, TypeOK, FileHasHolder, Regular
  <2>11. ASSUME NEW r \in Runs, Crash(r) PROVE FileHasHolder'
    BY <2>11, HolderStays DEF Crash, TypeOK, FileHasHolder, Regular
  <2>12. CASE Tick
    BY <2>12 DEF Tick, procVars, FileHasHolder, Regular, Holder
  <2>13. CASE UNCHANGED vars
    BY <2>13 DEF vars, FileHasHolder, Regular, Holder
  <2>14. QED
    BY <2>1, <2>2, <2>3, <2>4, <2>5, <2>6, <2>7, <2>8, <2>9, <2>10, <2>11,
       <2>12, <2>13 DEF Next, Process
<1>3. FileHasHolder => NoStaleLock
  BY DEF FileHasHolder, Regular, Holder, NoStaleLock, AllEndedRegularly
<1>4. QED
  BY <1>1, <1>2, <1>3, TypeCorrect, PTL DEF Spec

-----------------------------------------------------------------------------
\* Every graph ends with hash-artifacts and stage-run; the tasks that write a
\* file come before these, and build-sd after the index it consumes.
LEMMA GraphShape ==
    ASSUME NEW o \in Options
    PROVE  /\ Tasks(o)[Size(o)] = "stage-run"
           /\ Tasks(o)[Size(o) - 1] = "hash-artifacts"
           /\ \A j \in 1..Size(o) :
                 /\ Tasks(o)[j] = "hash-artifacts" => j = Size(o) - 1
                 /\ Tasks(o)[j] \in DOMAIN OutputOf => j < Size(o) - 1
                 /\ Tasks(o)[j] = "stage-run" => j = Size(o)
                 /\ Tasks(o)[j] = "build-sd" => j = 4 /\ Tasks(o)[2] = "commit-index-sd"
                 /\ o.sim /\ Tasks(o)[j] \in DOMAIN OutputOf => Tasks(o)[j] = "sim-prepare"
<1>1. DOMAIN OutputOf = {"sim-prepare", "prepare-artifacts", "commit-index-sd",
                         "commit-index-tooling"}
  BY DEF OutputOf
<1>2. CASE o.sim
  BY <1>1, <1>2 DEF Tasks, Size
<1>3. CASE ~o.sim /\ o.skip
  BY <1>1, <1>3 DEF Tasks, Size
<1>4. CASE ~o.sim /\ ~o.skip
  BY <1>1, <1>4 DEF Tasks, Size
<1>5. QED
  BY <1>2, <1>3, <1>4

\* The tasks r has been through, and what they have left of it.
Behind(r) == {i \in 1..Size(opts[r]) : i < step[r]}
Wrote(r) ==
    \A i \in Behind(r) :
        Tasks(opts[r])[i] \in DOMAIN OutputOf => tree[OutputOf[Tasks(opts[r])[i]]] = r
Hashed(r) ==
    (result[r] # "fail" /\ \E i \in Behind(r) : Tasks(opts[r])[i] = "hash-artifacts")
    => \A f \in OwnFiles(r) : sums[f] = r
HasOwnKey(r) == \A s \in Runs \ {r} : RunKey[s] # RunKey[r]
StagedOwn(r) ==
    \A f \in OwnFiles(r) : /\ staged[RunKey[r]].tree[f] = r
                           /\ staged[RunKey[r]].sums[f] = r

\* Where runs stand, and without an intrusion whose the shared files are.
Standing ==
    \A r \in Runs :
        /\ pc[r] \in {"idle", "check", "write", "fill"} => step[r] = 1 /\ result[r] = "none"
        /\ pc[r] = "graph" => result[r] \in {"none", "fail"}
OwnWork ==
    /\ dist.index = dist.by
    /\ \A r \in Runs : pc[r] = "graph" => Wrote(r) /\ Hashed(r)
    /\ \A r \in Runs : result[r] = "success" /\ HasOwnKey(r) => StagedOwn(r)
GraphInv == Standing /\ (intrusions = {} => OwnWork)

\* A run is at one of the tasks of its graph.
LEMMA StepRange ==
    ASSUME TypeOK, NEW r \in Runs
    PROVE  opts[r] \in Options /\ Size(opts[r]) \in 3..6 /\ step[r] \in 1..Size(opts[r])
<1>1. opts[r] \in Options /\ step[r] \in 1..6 /\ step[r] <= Size(opts[r])
  BY DEF TypeOK
<1>2. Size(opts[r]) \in 3..6
  BY <1>1, TaskCount
<1>3. QED
  BY <1>1, <1>2

\* A task of r leaves its own file beside those r wrote before.
LEMMA TaskWrites ==
    ASSUME TypeOK, NEW r \in Runs, pc[r] = "graph", Wrote(r), Effect(r, Task(r))
    PROVE  \A i \in 1..Size(opts[r]) :
              i <= step[r] /\ Tasks(opts[r])[i] \in DOMAIN OutputOf
                  => tree'[OutputOf[Tasks(opts[r])[i]]] = r
<1> DEFINE t == Task(r)
<1>1. step[r] \in 1..6 /\ tree \in [Files -> Writers]
  BY DEF TypeOK, Contents
<1>2. \A u \in DOMAIN OutputOf : OutputOf[u] \in Files
  BY DEF OutputOf, Files
<1>3. t \in DOMAIN OutputOf => tree' = [tree EXCEPT ![OutputOf[t]] = r]
  BY DEF Effect
<1>4. t \notin DOMAIN OutputOf => tree' = tree
  BY DEF Effect
<1>5. SUFFICES ASSUME NEW i \in 1..Size(opts[r]), i <= step[r],
                      Tasks(opts[r])[i] \in DOMAIN OutputOf
               PROVE  tree'[OutputOf[Tasks(opts[r])[i]]] = r
  OBVIOUS
<1>6. CASE i = step[r]
  <2>1. Tasks(opts[r])[i] = t
    BY <1>6 DEF Task
  <2>2. QED
    BY <2>1, <1>1, <1>2, <1>3, <1>5
<1>7. CASE i < step[r]
  <2>1. tree[OutputOf[Tasks(opts[r])[i]]] = r
    BY <1>5, <1>7 DEF Wrote, Behind
  <2>2. QED
    BY <2>1, <1>1, <1>2, <1>3, <1>4, <1>5
<1>8. QED
  BY <1>1, <1>5, <1>6, <1>7

\* When r has come to hash or to stage, all its files are its own.
LEMMA AllWritten ==
    ASSUME TypeOK, NEW r \in Runs, Wrote(r),
           Task(r) \in {"hash-artifacts", "stage-run"}
    PROVE  \A f \in OwnFiles(r) : tree[f] = r
<1> SUFFICES ASSUME NEW f \in OwnFiles(r) PROVE tree[f] = r
  OBVIOUS
<1>1. opts[r] \in Options /\ step[r] \in 1..Size(opts[r]) /\ Size(opts[r]) \in 3..6
  BY TaskCount DEF TypeOK
<1>2. PICK i \in 1..Size(opts[r]) : Tasks(opts[r])[i] \in DOMAIN OutputOf
                                    /\ f = OutputOf[Tasks(opts[r])[i]]
  BY DEF OwnFiles
<1>3. i < Size(opts[r]) - 1
  BY <1>1, <1>2, GraphShape
<1>4. ~(step[r] < Size(opts[r]) - 1)
  <2>1. CASE Task(r) = "hash-artifacts"
    BY <1>1, <2>1, GraphShape DEF Task
  <2>2. CASE Task(r) = "stage-run"
    BY <1>1, <2>2, GraphShape DEF Task
  <2>3. QED
    BY <2>1, <2>2
<1>5. i < step[r]
  BY <1>1, <1>3, <1>4
<1>6. QED
  BY <1>2, <1>5 DEF Wrote, Behind

\* build-sd finds the index its own graph wrote.
LEMMA BuildOfOwnIndex ==
    ASSUME TypeOK, NEW r \in Runs, Wrote(r), dist.index = dist.by, Effect(r, Task(r))
    PROVE  dist'.index = dist'.by
<1>1. CASE Task(r) = "build-sd"
  <2>1. opts[r] \in Options /\ step[r] \in 1..Size(opts[r]) /\ Size(opts[r]) \in 3..6
    BY TaskCount DEF TypeOK
  <2>2. step[r] = 4 /\ Tasks(opts[r])[2] = "commit-index-sd"
    BY <1>1, <2>1, GraphShape DEF Task
  <2>3. 2 \in Behind(r)
    BY <2>1, <2>2 DEF Behind
  <2>4. "commit-index-sd" \in DOMAIN OutputOf /\ OutputOf["commit-index-sd"] = "index"
    BY DEF OutputOf
  <2>5. tree["index"] = r
    BY <2>2, <2>3, <2>4 DEF Wrote
  <2>6. QED
    BY <1>1, <2>5 DEF Effect
<1>2. CASE Task(r) # "build-sd"
  BY <1>2 DEF Effect
<1>3. QED
  BY <1>1, <1>2

\* Once r has hashed, the sums of its files are its own, unless it has failed.
LEMMA HashOfOwnFiles ==
    ASSUME TypeOK, NEW r \in Runs, Wrote(r), Hashed(r), Effect(r, Task(r)),
           result[r] # "fail",
           NEW i \in 1..Size(opts[r]), i <= step[r], Tasks(opts[r])[i] = "hash-artifacts",
           NEW f \in OwnFiles(r)
    PROVE  sums'[f] = r
<1>1. opts[r] \in Options /\ step[r] \in 1..Size(opts[r]) /\ Size(opts[r]) \in 3..6
  BY StepRange
<1>2. CASE i < step[r]
  <2>1. sums[f] = r
    BY <1>2 DEF Hashed, Behind
  <2>2. Task(r) # "hash-artifacts"
    BY <1>1, <1>2, GraphShape DEF Task
  <2>3. QED
    BY <2>1, <2>2 DEF Effect
<1>3. CASE i = step[r]
  <2>1. Task(r) = "hash-artifacts"
    BY <1>3 DEF Task
  <2>2. tree[f] = r
    BY <2>1, AllWritten
  <2>3. CASE opts[r].sim
    <3>1. f = "stub"
      <4>1. PICK j \in 1..Size(opts[r]) : Tasks(opts[r])[j] \in DOMAIN OutputOf
                                          /\ f = OutputOf[Tasks(opts[r])[j]]
        BY DEF OwnFiles
      <4>2. Tasks(opts[r])[j] = "sim-prepare"
        BY <1>1, <2>3, <4>1, GraphShape
      <4>3. QED
        BY <4>1, <4>2 DEF OutputOf
    <3>2. sums' = [Nobody EXCEPT !["stub"] = tree["stub"]]
      BY <2>1, <2>3 DEF Effect
    <3>3. QED
      BY <2>2, <3>1, <3>2 DEF Nobody, Files
  <2>4. CASE ~opts[r].sim
    BY <2>1, <2>2, <2>4 DEF Effect
  <2>5. QED
    BY <2>3, <2>4
<1>4. QED
  BY <1>1, <1>2, <1>3

\* The last task of r stages what r wrote and hashed.
LEMMA StageOfOwnFiles ==
    ASSUME TypeOK, NEW r \in Runs, Wrote(r), Hashed(r), Effect(r, Task(r)),
           result[r] # "fail", ~MoreTasks(r)
    PROVE  \A f \in OwnFiles(r) : /\ staged'[RunKey[r]].tree[f] = r
                                  /\ staged'[RunKey[r]].sums[f] = r
<1>1. opts[r] \in Options /\ Size(opts[r]) \in 3..6 /\ step[r] = Size(opts[r])
  BY StepRange DEF MoreTasks
<1>2. Task(r) = "stage-run"
  BY <1>1, GraphShape DEF Task
<1>3. Size(opts[r]) - 1 \in Behind(r) /\ Tasks(opts[r])[Size(opts[r]) - 1] = "hash-artifacts"
  BY <1>1, GraphShape DEF Behind
<1>4. staged'[RunKey[r]] = [tree |-> tree, sums |-> sums]
  <2>1. RunKey[r] \in Keys /\ staged \in [Keys -> [tree : Contents, sums : Contents]]
    BY DEF TypeOK
  <2>2. QED
    BY <1>2, <2>1 DEF Effect
<1>5. QED
  BY <1>2, <1>3, <1>4, AllWritten DEF Hashed

\* A task of r does not touch what another run has staged under a key of its own.
LEMMA OtherStageKept ==
    ASSUME TypeOK, NEW r \in Runs, NEW t, Effect(r, t) \/ UNCHANGED dataVars,
           NEW s \in Runs, s # r, HasOwnKey(s), StagedOwn(s), opts' = opts
    PROVE  StagedOwn(s)'
<1>1. staged'[RunKey[s]] = staged[RunKey[s]]
  BY DEF TypeOK, Effect, dataVars, HasOwnKey
<1>2. QED
  BY <1>1 DEF StagedOwn, OwnFiles

\* A step outside the graphs leaves the shared files alone.
LEMMA OutsideKeeps ==
    ASSUME TypeOK, GraphInv, NEW r \in Runs,
           \A s \in Runs \ {r} : pc'[s] = pc[s] /\ result'[s] = result[s],
           UNCHANGED <<opts, step, dataVars>>, intrusions \subseteq intrusions',
           pc'[r] \in {"idle", "check", "write", "fill"} =>
               pc[r] \in {"idle", "check", "write", "fill"} /\ result'[r] = "none",
           pc'[r] = "graph" => step[r] = 1 /\ result'[r] = "none",
           result'[r] # "success" \/ result'[r] = result[r]
    PROVE  GraphInv'
<1>1. \A s \in Runs \ {r} : pc'[s] = pc[s] /\ result'[s] = result[s]
  OBVIOUS
<1>2. Standing'
  BY <1>1 DEF GraphInv, Standing
<1>3. ASSUME intrusions' = {} PROVE OwnWork'
  <2>1. OwnWork
    BY <1>3 DEF GraphInv
  <2>2. dist'.index = dist'.by
    BY <2>1 DEF OwnWork, dataVars
  <2>3. ASSUME NEW s \in Runs, pc'[s] = "graph" PROVE Wrote(s)' /\ Hashed(s)'
    <3>1. CASE s = r
      BY <2>3, <3>1 DEF Wrote, Hashed, Behind
    <3>2. CASE s # r
      BY <1>1, <2>1, <2>3, <3>2 DEF OwnWork, Wrote, Hashed, Behind, OwnFiles, dataVars
    <3>3. QED
      BY <3>1, <3>2
  <2>4. ASSUME NEW s \in Runs, result'[s] = "success", HasOwnKey(s)' PROVE StagedOwn(s)'
    <3>1. result[s] = "success" /\ HasOwnKey(s)
      BY <1>1, <2>4 DEF HasOwnKey
    <3>2. QED
      BY <2>1, <3>1 DEF OwnWork, StagedOwn, OwnFiles, dataVars
  <2>5. QED
    BY <2>2, <2>3, <2>4 DEF OwnWork
<1>4. QED
  BY <1>2, <1>3 DEF GraphInv

\* A task that ends well.
LEMMA SuccessKeeps ==
    ASSUME TypeOK, SoleAdmission, GraphInv, NEW r \in Runs, TaskSucceeds(r)
    PROVE  GraphInv'
<1>1. /\ pc[r] = "graph" /\ Effect(r, Task(r)) /\ UNCHANGED <<opts, intrusions>>
      /\ step[r] \in 1..6 /\ opts[r] \in Options
      /\ result[r] \in {"none", "fail"}
  BY DEF TaskSucceeds, TypeOK, GraphInv, Standing
<1>2. \A s \in Runs \ {r} : pc'[s] = pc[s] /\ step'[s] = step[s] /\ result'[s] = result[s]
  BY DEF TaskSucceeds, TypeOK
<1>3. /\ pc'[r] \in {"graph", "release"}
      /\ pc'[r] = "graph" => step'[r] = step[r] + 1 /\ result'[r] = result[r]
      /\ result'[r] = "success" => ~MoreTasks(r) /\ result[r] # "fail"
  BY <1>1 DEF TaskSucceeds, TypeOK
<1>4. Standing'
  BY <1>1, <1>2, <1>3 DEF GraphInv, Standing
<1>5. ASSUME intrusions' = {} PROVE OwnWork'
  <2>1. OwnWork /\ Wrote(r) /\ Hashed(r)
    BY <1>1, <1>5 DEF GraphInv, OwnWork
  <2>2. dist'.index = dist'.by
    BY <1>1, <2>1, BuildOfOwnIndex DEF OwnWork
  <2>3. ASSUME NEW s \in Runs, pc'[s] = "graph" PROVE Wrote(s)' /\ Hashed(s)'
    <3>1. s = r
      BY <1>1, <1>2, <1>5, <2>3 DEF SoleAdmission, Admitted
    <3>2. Wrote(r)'
      BY <1>1, <1>3, <2>1, <2>3, <3>1, TaskWrites DEF Wrote, Behind
    <3>3. Hashed(r)'
      <4>1. OwnFiles(r)' = OwnFiles(r)
        BY <1>1 DEF OwnFiles
      <4>2. Behind(r)' = {i \in 1..Size(opts[r]) : i <= step[r]}
        <5>1. Size(opts[r]) \in 3..6
          BY <1>1, TaskCount
        <5>2. QED
          BY <1>1, <1>3, <2>3, <3>1, <5>1 DEF Behind
      <4>3. SUFFICES ASSUME result'[r] # "fail",
                            NEW i \in Behind(r)', Tasks(opts'[r])[i] = "hash-artifacts",
                            NEW f \in OwnFiles(r)'
                     PROVE  sums'[f] = r
        BY DEF Hashed
      <4>4. QED
        BY <1>1, <1>3, <2>1, <2>3, <3>1, <4>1, <4>2, <4>3, HashOfOwnFiles
    <3>4. QED
      BY <3>1, <3>2, <3>3
  <2>4. ASSUME NEW s \in Runs, result'[s] = "success", HasOwnKey(s)' PROVE StagedOwn(s)'
    <3>1. CASE s = r
      BY <1>1, <1>3, <2>1, <2>4, <3>1, StageOfOwnFiles DEF StagedOwn, OwnFiles
    <3>2. CASE s # r
      <4>1. StagedOwn(s) /\ HasOwnKey(s)
        BY <1>2, <2>1, <2>4, <3>2 DEF OwnWork, HasOwnKey
      <4>2. QED
        BY <1>1, <3>2, <4>1, OtherStageKept
    <3>3. QED
      BY <3>1, <3>2
  <2>5. QED
    BY <2>2, <2>3, <2>4 DEF OwnWork
<1>6. QED
  BY <1>4, <1>5 DEF GraphInv

\* A task that fails: the graph ends, or is a simulation that will report it.
LEMMA FailureKeeps ==
    ASSUME TypeOK, SoleAdmission, GraphInv, NEW r \in Runs, TaskFails(r)
    PROVE  GraphInv'
<1>1. /\ pc[r] = "graph" /\ (Effect(r, Task(r)) \/ UNCHANGED dataVars)
      /\ UNCHANGED <<opts, intrusions>>
      /\ step[r] \in 1..6 /\ opts[r] \in Options
  BY DEF TaskFails, TypeOK
<1>2. \A s \in Runs \ {r} : pc'[s] = pc[s] /\ step'[s] = step[s] /\ result'[s] = result[s]
  BY DEF TaskFails, TypeOK
<1>3. /\ pc'[r] \in {"graph", "release"} /\ result'[r] = "fail"
      /\ pc'[r] = "graph" => step'[r] = step[r] + 1 /\ Task(r) = "hash-artifacts"
  BY <1>1 DEF TaskFails, TypeOK
<1>4. Standing'
  BY <1>1, <1>2, <1>3 DEF GraphInv, Standing
<1>5. ASSUME intrusions' = {} PROVE OwnWork'
  <2>1. OwnWork /\ Wrote(r) /\ Hashed(r)
    BY <1>1, <1>5 DEF GraphInv, OwnWork
  <2>2. dist'.index = dist'.by
    BY <1>1, <2>1, BuildOfOwnIndex DEF OwnWork, dataVars
  <2>3. ASSUME NEW s \in Runs, pc'[s] = "graph" PROVE Wrote(s)' /\ Hashed(s)'
    <3>1. s = r
      BY <1>1, <1>2, <1>5, <2>3 DEF SoleAdmission, Admitted
    <3>2. Hashed(r)'
      BY <1>3 DEF Hashed
    <3>3. Wrote(r)'
      <4>1. tree' = tree
        <5>1. "hash-artifacts" \notin DOMAIN OutputOf
          BY DEF OutputOf
        <5>2. QED
          BY <1>1, <1>3, <2>3, <3>1, <5>1 DEF Effect, dataVars
      <4>2. Task(r) \notin DOMAIN OutputOf
        BY <1>3, <2>3, <3>1 DEF OutputOf
      <4>3. Size(opts[r]) \in 3..6
        BY <1>1, TaskCount
      <4>4. QED
        BY <1>1, <1>3, <2>1, <2>3, <3>1, <4>1, <4>2, <4>3 DEF Wrote, Behind, Task
    <3>4. QED
      BY <3>1, <3>2, <3>3
  <2>4. ASSUME NEW s \in Runs, result'[s] = "success", HasOwnKey(s)' PROVE StagedOwn(s)'
    <3>1. s # r
      BY <1>3, <2>4
    <3>2. StagedOwn(s) /\ HasOwnKey(s)
      BY <1>2, <2>1, <2>4, <3>1 DEF OwnWork, HasOwnKey
    <3>3. QED
      BY <1>1, <3>1, <3>2, OtherStageKept
  <2>5. QED
    BY <2>2, <2>3, <2>4 DEF OwnWork
<1>6. QED
  BY <1>4, <1>5 DEF GraphInv

\* GraphInv with SoleAdmission is inductive.
THEOREM GraphInvHolds == Spec => []GraphInv
<1>1. Init => GraphInv
  BY DEF Init, GraphInv, Standing, OwnWork
<1>2. TypeOK /\ SoleAdmission /\ GraphInv /\ [Next]_vars => GraphInv'
  <2> SUFFICES ASSUME TypeOK, SoleAdmission, GraphInv, [Next]_vars PROVE GraphInv'
    OBVIOUS
  <2>0. \A r \in Runs :
          pc[r] \in {"idle", "check", "write", "fill"} => step[r] = 1 /\ result[r] = "none"
    BY DEF GraphInv, Standing
  <2>1. ASSUME NEW r \in Runs, Begin(r) PROVE GraphInv'
    <3>1. /\ pc'[r] = "check" /\ result'[r] = result[r]
          /\ \A s \in Runs \ {r} : pc'[s] = pc[s] /\ result'[s] = result[s]
          /\ UNCHANGED <<opts, step, dataVars>> /\ intrusions \subseteq intrusions'
      BY <2>1 DEF Begin, TypeOK
    <3>2. QED
      BY <2>0, <2>1, <3>1, OutsideKeeps DEF Begin
  <2>2. ASSUME NEW r \in Runs, CheckBusy(r) PROVE GraphInv'
    <3>1. /\ pc'[r] = "done" /\ result'[r] = "busy"
          /\ \A s \in Runs \ {r} : pc'[s] = pc[s] /\ result'[s] = result[s]
          /\ UNCHANGED <<opts, step, dataVars>> /\ intrusions \subseteq intrusions'
      BY <2>2 DEF CheckBusy, TypeOK
    <3>2. QED
      BY <2>0, <2>2, <3>1, OutsideKeeps DEF CheckBusy
  <2>3. ASSUME NEW r \in Runs, CheckPasses(r) PROVE GraphInv'
    <3>1. /\ pc'[r] = "write" /\ result'[r] = result[r]
          /\ \A s \in Runs \ {r} : pc'[s] = pc[s] /\ result'[s] = result[s]
          /\ UNCHANGED <<opts, step, dataVars>> /\ intrusions \subseteq intrusions'
      BY <2>3 DEF CheckPasses, TypeOK
    <3>2. QED
      BY <2>0, <2>3, <3>1, OutsideKeeps DEF CheckPasses
  <2>4. ASSUME NEW r \in Runs, WriteTruncates(r) PROVE GraphInv'
    <3>1. /\ pc'[r] = "fill" /\ result'[r] = result[r]
          /\ \A s \in Runs \ {r} : pc'[s] = pc[s] /\ result'[s] = result[s]
          /\ UNCHANGED <<opts, step, dataVars>> /\ intrusions \subseteq intrusions'
      BY <2>4 DEF WriteTruncates, TypeOK
    <3>2. QED
      BY <2>0, <2>4, <3>1, OutsideKeeps DEF WriteTruncates
  <2>5. ASSUME NEW r \in Runs, WriteFills(r) PROVE GraphInv'
    <3>1. /\ pc[r] = "fill" /\ pc' = [pc EXCEPT ![r] = pc'[r]] /\ pc'[r] \in {"check", "graph"}
          /\ UNCHANGED <<opts, step, result, dataVars, intrusions>>
      BY <2>5 DEF WriteFills, TypeOK
    <3>2. \A s \in Runs \ {r} : pc'[s] = pc[s] /\ result'[s] = result[s]
      BY <2>5 DEF WriteFills, TypeOK
    <3>3. QED
      BY <2>0, <3>1, <3>2, OutsideKeeps
  <2>6. ASSUME NEW r \in Runs, AcquireFails(r) PROVE GraphInv'
    <3>1. /\ pc'[r] = "done" /\ result'[r] = "lock-error"
          /\ \A s \in Runs \ {r} : pc'[s] = pc[s] /\ result'[s] = result[s]
          /\ UNCHANGED <<opts, step, dataVars>> /\ intrusions \subseteq intrusions'
      BY <2>6 DEF AcquireFails, TypeOK
    <3>2. QED
      BY <2>0, <2>6, <3>1, OutsideKeeps DEF AcquireFails
  <2>7. ASSUME NEW r \in Runs, TaskSucceeds(r) PROVE GraphInv'
    BY <2>7, SuccessKeeps
  <2>8. ASSUME NEW r \in Runs, TaskFails(r) PROVE GraphInv'
    BY <2>8, FailureKeeps
  <2>9. ASSUME NEW r \in Runs, Release(r) PROVE GraphInv'
    <3>1. /\ pc'[r] = "done" /\ result'[r] = result[r]
          /\ \A s \in Runs \ {r} : pc'[s] = pc[s] /\ result'[s] = result[s]
          /\ UNCHANGED <<opts, step, dataVars>> /\ intrusions \subseteq intrusions'
      BY <2>9 DEF Release, TypeOK
    <3>2. QED
      BY <3>1, OutsideKeeps
  <2>10. ASSUME NEW r \in Runs, ReleaseFails(r) PROVE GraphInv'
    <3>1. /\ pc'[r] = "done" /\ result'[r] = result[r]
          /\ \A s \in Runs \ {r} : pc'[s] = pc[s] /\ result'[s] = result[s]
          /\ UNCHANGED <<opts, step, dataVars>> /\ intrusions \subseteq intrusions'
      BY <2>10 DEF ReleaseFails, TypeOK
    <3>2. QED
      BY <3>1, OutsideKeeps
  <2>11. ASSUME NEW r \in Runs, Crash(r) PROVE GraphInv'
    <3>1. /\ pc'[r] = "crashed" /\ result'[r] = result[r]
          /\ \A s \in Runs \ {r} : pc'[s] = pc[s] /\ result'[s] = result[s]
          /\ UNCHANGED <<opts, step, dataVars>> /\ intrusions \subseteq intrusions'
      BY <2>11 DEF Crash, TypeOK
    <3>2. QED
      BY <3>1, OutsideKeeps
  <2>12. CASE UNCHANGED <<opts, pc, step, result, dataVars, intrusions>>
    BY <2>12 DEF GraphInv, Standing, OwnWork, Wrote, Hashed, Behind, OwnFiles,
                 HasOwnKey, StagedOwn, dataVars
  <2>13. QED
    BY <2>1, <2>2, <2>3, <2>4, <2>5, <2>6, <2>7, <2>8, <2>9, <2>10, <2>11,
       <2>12 DEF Next, Process, Tick, procVars, vars, dataVars
<1>3. QED
  BY <1>1, <1>2, TypeCorrect, SoleAdmissionHolds, PTL DEF Spec

\* Without an intrusion every successful run stages its own files, and the
\* hash list beside them describes them.
THEOREM StageIsOwn == Spec => []StagesOwnWork
<1>1. GraphInv => StagesOwnWork
  BY DEF GraphInv, OwnWork, StagedOwn, HasOwnKey, StagesOwnWork
<1>2. QED
  BY <1>1, GraphInvHolds, PTL

\* Without an intrusion build-sd consumes the commit index of its own graph.
THEOREM IndexIsOwn == Spec => []BuildsFromOwnIndex
<1>1. GraphInv => BuildsFromOwnIndex
  BY DEF GraphInv, OwnWork, BuildsFromOwnIndex
<1>2. QED
  BY <1>1, GraphInvHolds, PTL
=============================================================================
