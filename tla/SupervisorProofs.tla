-------------------------- MODULE SupervisorProofs --------------------------
(***************************************************************************)
(* The readiness flag of the data plane, proved for every size of the pool  *)
(* and every limit: it is set only while no inspector has an unanswered     *)
(* health check.                                                            *)
(*                                                                         *)
(* ReadyMeansAllAnswered is not inductive.  What opens admission is a loop  *)
(* that looks at the inspectors of the loaded snapshot only, so one has to  *)
(* know that nobody else ever missed a check, that the loop's index stays   *)
(* within the pool, and that nothing was missed before the pool was watched.*)
(***************************************************************************)
EXTENDS Supervisor, TLAPS

States == {"waiting", "starting", "serving", "draining", "stopping", "exited"}

\* Types as far as the argument needs them.
Typed ==
    /\ plane \in States
    /\ replicas \in Nat /\ 1 .. replicas \subseteq Workers
    /\ ready \in BOOLEAN /\ failed \in BOOLEAN
    /\ misses \in [Workers -> Nat]
    /\ monitor \in [pc : {"asleep", "boot", "check", "terminate", "lost"}, index : Nat]

\* The loop of the monitor stays within the pool.
IndexInPool == monitor.pc # "asleep" => monitor.index \in 1 .. replicas

\* Nothing has been missed before the pool is watched, and never by others.
MissesInPool ==
    /\ \A w \in Workers : w \notin 1 .. replicas => misses[w] = 0
    /\ plane \in {"waiting", "starting"} =>
         failed = FALSE /\ ready = FALSE /\ \A w \in Workers : misses[w] = 0
    /\ plane = "waiting" => monitor.pc = "asleep"

IInv == Typed /\ IndexInPool /\ MissesInPool /\ ReadyMeansAllAnswered

\* A pool of n inspectors consists of workers.
LEMMA PoolWithinWorkers ==
    ASSUME NEW n \in ReplicaCounts
    PROVE  n \in Nat \ {0} /\ 1 .. n \subseteq Workers /\ 1 \in Workers
  BY PoolAssumption DEF Workers

\* A process that starts, waiting for a snapshot, satisfies the invariant.
LEMMA InvariantInit == Init => IInv
<1> SUFFICES ASSUME Init PROVE IInv
  OBVIOUS
<1>1. /\ plane = "waiting" /\ replicas = 0 /\ ready = FALSE /\ failed = FALSE
      /\ misses = [w \in Workers |-> 0] /\ monitor = [pc |-> "asleep", index |-> 0]
  BY DEF Init, PlaneInit, Asleep
<1>2. 1 .. replicas = {}
  BY <1>1
<1>3. Typed
  BY <1>1, <1>2 DEF Typed, States
<1>4. IndexInPool /\ MissesInPool /\ ReadyMeansAllAnswered
  BY <1>1 DEF IndexInPool, MissesInPool, ReadyMeansAllAnswered
<1> QED  BY <1>3, <1>4 DEF IInv

\* The invariant speaks of six variables of the data plane only.
LEMMA Framed ==
    ASSUME IInv, UNCHANGED <<plane, replicas, ready, misses, monitor, failed>>
    PROVE  IInv'
  BY DEF IInv, Typed, IndexInPool, MissesInPool, ReadyMeansAllAnswered

\* Closing admission and cancelling the monitor keeps the invariant.
LEMMA Closed ==
    ASSUME IInv, ready' = FALSE, monitor' = Asleep, plane' \in {"stopping", "exited"},
           UNCHANGED <<replicas, misses, failed>>
    PROVE  IInv'
  BY DEF IInv, Typed, IndexInPool, MissesInPool, ReadyMeansAllAnswered, Asleep, States

\* The step to the next inspector, or to sleep, opens admission only if nobody
\* misses a check.
LEMMA AdvanceKeeps ==
    ASSUME IInv, Monitored, NEW w \in Workers, monitor.index = w,
           monitor.pc # "asleep",
           NEW n \in Nat, misses' = [misses EXCEPT ![w] = n],
           NEW r \in BOOLEAN, r => (ready /\ n = 0), Advance(misses', r),
           UNCHANGED <<plane, replicas, failed>>
    PROVE  IInv'
<1>1. w \in 1 .. replicas /\ misses' \in [Workers -> Nat] /\ misses'[w] = n
      /\ \A v \in Workers : v # w => misses'[v] = misses[v]
  BY DEF IInv, Typed, IndexInPool
<1>2. plane \in {"serving", "draining"} /\ failed = FALSE
  BY DEF Monitored, IInv, Typed
<1>3. monitor' \in [pc : {"asleep", "check"}, index : Nat]
      /\ (monitor'.pc # "asleep" => monitor'.index \in 1 .. replicas)
  BY <1>1 DEF Advance, Asleep, IInv, Typed
<1>4. ready' \in BOOLEAN
  BY DEF Advance
<1>5. ready' => \A v \in Workers : misses'[v] = 0
  <2>1. CASE r
    BY <1>1, <2>1 DEF IInv, ReadyMeansAllAnswered
  <2>2. CASE ~r
    BY <1>1, <2>2 DEF Advance, IInv, MissesInPool
  <2> QED  BY <2>1, <2>2
<1> QED
  BY <1>1, <1>2, <1>3, <1>4, <1>5
     DEF IInv, Typed, IndexInPool, MissesInPool, ReadyMeansAllAnswered

\* Every step of serve_dataplane itself keeps the invariant.
LEMMA ServeKeeps ==
    ASSUME IInv,
           \/ \E n \in ReplicaCounts : SnapshotLoaded(n)
           \/ StartedWorker \/ StartFails
           \/ (\E stop \in BOOLEAN : Drain(stop)) \/ StopPool \/ Exit \/ Killed
    PROVE  IInv'
<1>1. ASSUME NEW n \in ReplicaCounts, SnapshotLoaded(n) PROVE IInv'
  <2>1. n \in Nat \ {0} /\ 1 .. n \subseteq Workers /\ 1 \in 1 .. n
    BY PoolWithinWorkers
  <2>2. plane = "waiting" /\ replicas' = n /\ misses' = misses /\ failed' = failed
        /\ (\A w \in Workers : misses[w] = 0) /\ failed = FALSE /\ monitor.pc = "asleep"
    BY <1>1 DEF SnapshotLoaded, poolVars, IInv, MissesInPool
  <2>3. CASE n = 1
    <3>1. plane' = "serving" /\ ready' = TRUE /\ monitor' = monitor
      BY <1>1, <2>3 DEF SnapshotLoaded, poolVars
    <3> QED
      BY <2>1, <2>2, <3>1
         DEF IInv, Typed, IndexInPool, MissesInPool, ReadyMeansAllAnswered, States
  <2>4. CASE n # 1
    <3>1. plane' = "starting" /\ ready' = FALSE /\ monitor' = [pc |-> "boot", index |-> 1]
      BY <1>1, <2>4, <2>2 DEF SnapshotLoaded, IInv, MissesInPool
    <3> QED
      BY <2>1, <2>2, <3>1
         DEF IInv, Typed, IndexInPool, MissesInPool, ReadyMeansAllAnswered, States
  <2> QED  BY <2>3, <2>4
<1>2. ASSUME StartedWorker PROVE IInv'
  <2>1. plane = "starting" /\ monitor.pc = "boot" /\ UNCHANGED <<replicas, misses, failed>>
        /\ failed = FALSE /\ ready = FALSE /\ (\A w \in Workers : misses[w] = 0)
        /\ monitor.index \in 1 .. replicas
    BY <1>2 DEF StartedWorker, IInv, MissesInPool, IndexInPool
  <2>2. CASE monitor.index = replicas
    <3>1. plane' = "serving" /\ ready' = TRUE /\ monitor' = Asleep
      BY <1>2, <2>2 DEF StartedWorker
    <3> QED
      BY <2>1, <3>1
         DEF IInv, Typed, IndexInPool, MissesInPool, ReadyMeansAllAnswered, States, Asleep
  <2>3. CASE monitor.index # replicas
    <3>1. plane' = plane /\ ready' = ready
          /\ monitor' = [monitor EXCEPT !.index = monitor.index + 1]
      BY <1>2, <2>3 DEF StartedWorker
    <3>2. monitor'.index \in 1 .. replicas /\ monitor'.pc = "boot"
          /\ monitor' \in [pc : {"asleep", "boot", "check", "terminate", "lost"}, index : Nat]
      BY <2>1, <2>3, <3>1 DEF IInv, Typed
    <3> QED
      BY <2>1, <3>1, <3>2
         DEF IInv, Typed, IndexInPool, MissesInPool, ReadyMeansAllAnswered, States
  <2> QED  BY <2>2, <2>3
<1>3. ASSUME StartFails \/ StopPool PROVE IInv'
  BY <1>3, Closed DEF StartFails, StopPool, Stop
<1>4. ASSUME NEW stop \in BOOLEAN, Drain(stop) PROVE IInv'
  BY <1>4 DEF Drain, poolVars, IInv, Typed, IndexInPool, MissesInPool, ReadyMeansAllAnswered,
              States
<1>5. ASSUME Exit PROVE IInv'
  BY <1>5 DEF Exit, IInv, Typed, IndexInPool, MissesInPool, ReadyMeansAllAnswered, States
<1>6. ASSUME Killed PROVE IInv'
  BY <1>6, Closed DEF Killed
<1> QED  BY <1>1, <1>2, <1>3, <1>4, <1>5, <1>6

\* Every step of the monitor keeps the invariant.
LEMMA MonitorKeeps ==
    ASSUME IInv, Watch \/ \E w \in Workers : MonitorLost(w)
    PROVE  IInv'
<1>1. ASSUME Wake PROVE IInv'
  <2>1. UNCHANGED <<plane, replicas, ready, misses, failed>>
        /\ monitor' = [pc |-> "check", index |-> 1] /\ replicas > 1
    BY <1>1 DEF Wake, Monitored
  <2>2. 1 \in 1 .. replicas
    BY <2>1 DEF IInv, Typed
  <2>3. monitor.pc = "asleep" /\ plane # "waiting"
    BY <1>1 DEF Wake, Monitored, Asleep
  <2> QED
    BY <2>1, <2>2, <2>3
       DEF IInv, Typed, IndexInPool, MissesInPool, ReadyMeansAllAnswered
<1>2. ASSUME NEW w \in Workers, CheckPasses(w) \/ Replaced(w) PROVE IInv'
  <2>1. /\ Monitored /\ monitor.index = w /\ monitor.pc # "asleep"
        /\ misses' = [misses EXCEPT ![w] = 0] /\ Advance(misses', ready)
        /\ UNCHANGED <<plane, replicas, failed>>
    BY <1>2 DEF CheckPasses, Replaced, At
  <2>2. ready \in BOOLEAN /\ 0 \in Nat
    BY DEF IInv, Typed
  <2> QED  BY <2>1, <2>2, AdvanceKeeps
<1>3. ASSUME NEW w \in Workers, CheckMissed(w) PROVE IInv'
  <2>1. /\ Monitored /\ monitor.index = w /\ monitor.pc = "check"
        /\ misses' = [misses EXCEPT ![w] = misses[w] + 1]
        /\ UNCHANGED <<plane, replicas, failed>>
    BY <1>3 DEF CheckMissed, At
  <2>2. misses[w] + 1 \in Nat
    BY DEF IInv, Typed
  <2>3. CASE misses'[w] < MissLimit
    <3>1. Advance(misses', FALSE)
      BY <1>3, <2>3 DEF CheckMissed
    <3> QED  BY <2>1, <2>2, <3>1, AdvanceKeeps
  <2>4. CASE ~(misses'[w] < MissLimit)
    <3>1. monitor' = [monitor EXCEPT !.pc = "terminate"] /\ ready' = FALSE
      BY <1>3, <2>4 DEF CheckMissed
    <3>2. w \in 1 .. replicas /\ misses' \in [Workers -> Nat]
          /\ \A v \in Workers : v # w => misses'[v] = misses[v]
      BY <2>1, <2>2 DEF IInv, Typed, IndexInPool
    <3>3. plane \in {"serving", "draining"}
      BY <2>1 DEF Monitored
    <3> QED
      BY <2>1, <3>1, <3>2, <3>3
         DEF IInv, Typed, IndexInPool, MissesInPool, ReadyMeansAllAnswered
  <2> QED  BY <2>3, <2>4
<1>4. ASSUME NEW w \in Workers, Replace(w) \/ NotReplaced(w) \/ MonitorLost(w) PROVE IInv'
  <2>1. /\ plane \in {"serving", "draining"} /\ monitor.pc \in {"terminate", "boot"}
        /\ UNCHANGED <<plane, replicas, ready, misses>>
        /\ failed' \in {failed, TRUE}
        /\ \/ monitor' = monitor
           \/ \E pc \in {"boot", "lost"} : monitor' = [monitor EXCEPT !.pc = pc]
    BY <1>4 DEF Replace, NotReplaced, MonitorLost, Monitored, At
  <2>2. ready = FALSE
    BY <2>1 DEF IInv, Typed, ReadyMeansAllAnswered
  <2>3. monitor' \in [pc : {"asleep", "boot", "check", "terminate", "lost"}, index : Nat]
        /\ monitor'.index = monitor.index
    BY <2>1 DEF IInv, Typed
  <2> QED
    BY <2>1, <2>2, <2>3
       DEF IInv, Typed, IndexInPool, MissesInPool, ReadyMeansAllAnswered
<1> QED  BY <1>1, <1>2, <1>3, <1>4 DEF Watch

\* So does every other step of the data plane: workers that boot, stall, die or come
\* back, and evidence that is written or not.
LEMMA PlaneKeeps ==
    ASSUME IInv, PlaneStep
    PROVE  IInv'
<1>1. ASSUME NEW w \in Workers, Booted(w) \/ Stall(w) \/ Revive(w) \/ Die(w) \/ Orphaned(w)
      PROVE  IInv'
  BY <1>1, Framed DEF Booted, Stall, Revive, Die, Orphaned
<1>2. ASSUME WriteEvidence \/ Probe \/ DiskFails \/ DiskRecovers PROVE IInv'
  BY <1>2, Framed DEF WriteEvidence, Probe, Told, DiskFails, DiskRecovers, poolVars
<1> QED  BY <1>1, <1>2, ServeKeeps, MonitorKeeps DEF PlaneStep

\* A new container starts with a fresh data plane.
LEMMA FreshPlane ==
    ASSUME IInv, NewPlane("waiting")
    PROVE  IInv'
<1>1. /\ plane' = "waiting" /\ replicas' = 0 /\ ready' = FALSE /\ failed' = FALSE
      /\ misses' = [w \in Workers |-> 0] /\ monitor' = [pc |-> "asleep", index |-> 0]
  BY DEF NewPlane, Asleep
<1>2. 1 .. replicas' = {}
  BY <1>1
<1>3. Typed'
  BY <1>1, <1>2 DEF Typed, States
<1>4. IndexInPool' /\ MissesInPool' /\ ReadyMeansAllAnswered'
  BY <1>1 DEF IndexInPool, MissesInPool, ReadyMeansAllAnswered
<1> QED  BY <1>3, <1>4 DEF IInv

\* Every step of the deployment keeps the invariant.
LEMMA InvariantStep == IInv /\ [Next]_vars => IInv'
<1> SUFFICES ASSUME IInv, [Next]_vars PROVE IInv'
  OBVIOUS
<1>1. CASE PlaneStep
  BY <1>1, PlaneKeeps
<1>2. CASE ControlExits \/ Signal \/ ScheduleControl \/ StartControl
  BY <1>2, Framed DEF ControlExits, Signal, ScheduleControl, StartControl, planeVars, poolVars
<1>3. CASE Leave
  <2>1. (\E stop \in BOOLEAN : Drain(stop)) \/ Killed \/ UNCHANGED planeVars
    BY <1>3 DEF Leave
  <2>2. CASE UNCHANGED planeVars
    BY <2>2, Framed DEF planeVars, poolVars
  <2> QED  BY <2>1, <2>2, ServeKeeps
<1>4. CASE End
  BY <1>4, Closed DEF End
<1>5. CASE Orchestrate
  BY <1>5, FreshPlane DEF Orchestrate
<1>6. CASE UNCHANGED vars
  BY <1>6, Framed DEF vars, planeVars, poolVars
<1> QED  BY <1>1, <1>2, <1>3, <1>4, <1>5, <1>6 DEF Next

\* The invariant holds in every reachable state, for every pool and every limit.
THEOREM PoolInvariant == Spec => []IInv
  BY InvariantInit, InvariantStep, PTL DEF Spec

\* Inspectors count as ready only while each of them has answered its last health
\* check (the readiness flag that SelfhostInspectorPool.monitor hands to admission).
THEOREM ReadyIsEarned == Spec => []ReadyMeansAllAnswered
<1>1. IInv => ReadyMeansAllAnswered
  BY DEF IInv
<1> QED  BY <1>1, PoolInvariant, PTL
=============================================================================
