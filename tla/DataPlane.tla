------------------------------ MODULE DataPlane ------------------------------
(***************************************************************************)
(* The life of the data-plane process (selfhost/main.py serve_dataplane,    *)
(* selfhost/inspector_pool.py, selfhost/dataplane.py admission and          *)
(* maintain).  It waits for a snapshot, starts its inspectors one after the *)
(* other, watches them, replaces those that miss three health checks in a   *)
(* row, gives up when one was replaced too often, and tells the gateway     *)
(* whether a request may enter.  Inspectors are processes of their own that *)
(* die, stall and come back; the disk for evidence, one volume under the    *)
(* directories of all these processes, fails and recovers.                  *)
(*                                                                         *)
(* With one replica the process inspects by itself and there is no pool.    *)
(***************************************************************************)
EXTENDS Naturals, FiniteSets

CONSTANTS
    ReplicaCounts, \* what inspector_replicas may be: 1, or the size of the pool
    MissLimit,     \* health checks missed in a row before a worker is replaced
    RestartLimit,  \* replacements of one worker in the life of the pool
    MaxFaults      \* bound: faults in one behaviour

ASSUME PoolAssumption ==
    /\ ReplicaCounts \subseteq Nat \ {0} /\ IsFiniteSet(ReplicaCounts) /\ MissLimit \in Nat \ {0}
    /\ RestartLimit \in Nat /\ MaxFaults \in Nat

Workers == UNION {1 .. n : n \in ReplicaCounts}

VARIABLES
    plane,      \* serve_dataplane: where it is
    replicas,   \* inspector_replicas of the snapshot, 0: none loaded
    ready,      \* runtime.inspector_ready
    life,       \* per worker: "none", "boot", "up", "stalled", "dead"
    misses,     \* per worker: health checks missed in a row
    restarts,   \* per worker: replacements so far
    monitor,    \* the coroutine that starts or watches the workers, and its index
    failed,     \* pool.failed
    disk,       \* the evidence volume: whether evidence can be written, by any process
    healthy,    \* spool.healthy of the gateway's own spool
    faults

poolVars == <<life, misses, restarts, monitor, failed>>
evidenceVars == <<disk, healthy>>
planeVars == <<plane, replicas, ready, poolVars, evidenceVars, faults>>

Asleep == [pc |-> "asleep", index |-> 0]
At(pc, i) == monitor.pc = pc /\ monitor.index = i

\* A fresh process.
NewPlane(state) ==
    /\ plane' = state
    /\ replicas' = 0 /\ ready' = FALSE /\ failed' = FALSE
    /\ life' = [w \in Workers |-> "none"]
    /\ misses' = [w \in Workers |-> 0]
    /\ restarts' = [w \in Workers |-> 0]
    /\ monitor' = Asleep
    /\ healthy' = TRUE

PlaneInit ==
    /\ plane = "waiting" /\ replicas = 0 /\ ready = FALSE /\ failed = FALSE
    /\ life = [w \in Workers |-> "none"]
    /\ misses = [w \in Workers |-> 0]
    /\ restarts = [w \in Workers |-> 0]
    /\ monitor = Asleep
    /\ disk = "ok" /\ healthy = TRUE
    /\ faults = 0

Fault == faults < MaxFaults /\ faults' = faults + 1

\* None of the reasons of DataplaneRuntime.admission applies, for an inline policy.
Admits == plane = "serving" /\ ready /\ healthy

Running == plane \in {"waiting", "starting", "serving", "draining", "stopping"}
Alive(w) == life[w] \in {"boot", "up", "stalled"}

-----------------------------------------------------------------------------
(* serve_dataplane.                                                         *)

\* The first snapshot verifies.  A single inspector listens at once, a pool is
\* started worker by worker.
SnapshotLoaded(n) ==
    /\ plane = "waiting"
    /\ replicas' = n
    /\ IF n = 1
       THEN /\ plane' = "serving" /\ ready' = TRUE
            /\ UNCHANGED poolVars
       ELSE /\ plane' = "starting"
            /\ monitor' = [pc |-> "boot", index |-> 1]
            /\ life' = [life EXCEPT ![1] = "boot"]
            /\ UNCHANGED <<ready, misses, restarts, failed>>
    /\ UNCHANGED <<evidenceVars, faults>>

\* pool.start: the worker it waits for is ready; the next one follows, or all are
\* there, admission opens and the monitor begins.
StartedWorker ==
    /\ plane = "starting" /\ monitor.pc = "boot" /\ life[monitor.index] = "up"
    /\ IF monitor.index = replicas
       THEN /\ plane' = "serving" /\ ready' = TRUE
            /\ monitor' = Asleep
            /\ UNCHANGED life
       ELSE /\ monitor' = [monitor EXCEPT !.index = @ + 1]
            /\ life' = [life EXCEPT ![monitor.index + 1] = "boot"]
            /\ UNCHANGED <<plane, ready>>
    /\ UNCHANGED <<replicas, misses, restarts, failed, evidenceVars, faults>>

\* ready: the worker ended or does not answer, or thirty seconds were too short for it.
NotReady == \/ life[monitor.index] \in {"dead", "stalled"} /\ UNCHANGED faults
            \/ life[monitor.index] = "boot" /\ Fault

\* pool.stop: admission closes and the monitor is cancelled before the workers end.
Stop ==
    /\ plane' = "stopping"
    /\ ready' = FALSE
    /\ monitor' = Asleep

\* inspector_startup_failed, or a worker that cannot be spawned: start stops the pool
\* and raises.
StartFails ==
    /\ plane = "starting" /\ monitor.pc = "boot" /\ NotReady
    /\ Stop
    /\ UNCHANGED <<replicas, life, misses, restarts, failed, evidenceVars>>

\* run_servers ends when the pool has failed, or because of a signal or the end of the
\* status listener; the gateway finishes what it has begun, while the monitor goes on.
Drain(stop) ==
    /\ plane = "serving" /\ (failed \/ stop)
    /\ plane' = "draining"
    /\ UNCHANGED <<replicas, ready, poolVars, evidenceVars>>

StopPool ==
    /\ plane = "draining"
    /\ Stop
    /\ UNCHANGED <<replicas, life, misses, restarts, failed, evidenceVars, faults>>

\* All workers are terminated, or killed if they do not end; then the process ends.
Exit ==
    /\ plane = "stopping"
    /\ plane' = "exited"
    /\ life' = [w \in Workers |-> "none"]
    /\ UNCHANGED <<replicas, ready, misses, restarts, monitor, failed, evidenceVars, faults>>

\* The process is killed, or a signal arrives before run_servers handles it: nothing
\* is cleaned up.
Killed ==
    /\ Running
    /\ plane' = "exited" /\ ready' = FALSE /\ monitor' = Asleep
    /\ UNCHANGED <<replicas, life, misses, restarts, failed, evidenceVars>>

-----------------------------------------------------------------------------
(* The workers.                                                             *)

\* inspector_worker has its snapshot, its ports and its health page.
Booted(w) ==
    /\ life[w] = "boot" /\ Running
    /\ life' = [life EXCEPT ![w] = "up"]
    /\ UNCHANGED <<plane, replicas, ready, misses, restarts, monitor, failed, evidenceVars, faults>>

\* A worker that is too busy to answer in half a second, and one that answers again.
Stall(w) ==
    /\ life[w] = "up" /\ Running /\ Fault
    /\ life' = [life EXCEPT ![w] = "stalled"]
    /\ UNCHANGED <<plane, replicas, ready, misses, restarts, monitor, failed, evidenceVars>>

Revive(w) ==
    /\ life[w] = "stalled" /\ Running
    /\ life' = [life EXCEPT ![w] = "up"]
    /\ UNCHANGED <<plane, replicas, ready, misses, restarts, monitor, failed, evidenceVars, faults>>

Die(w) ==
    /\ Alive(w) /\ Running /\ Fault
    /\ life' = [life EXCEPT ![w] = "dead"]
    /\ UNCHANGED <<plane, replicas, ready, misses, restarts, monitor, failed, evidenceVars>>

\* watch_parent: a worker whose parent is gone ends.
Orphaned(w) ==
    /\ Alive(w) /\ plane = "exited"
    /\ life' = [life EXCEPT ![w] = "dead"]
    /\ UNCHANGED <<plane, replicas, ready, misses, restarts, monitor, failed, evidenceVars, faults>>

-----------------------------------------------------------------------------
(* SelfhostInspectorPool.monitor.                                           *)

Monitored == plane \in {"serving", "draining"} /\ replicas > 1 /\ ~failed

Wake ==
    /\ Monitored /\ monitor = Asleep
    /\ monitor' = [pc |-> "check", index |-> 1]
    /\ UNCHANGED <<plane, replicas, ready, life, misses, restarts, failed, evidenceVars, faults>>

AdvanceHasty(m, r) ==
    /\ monitor' = IF monitor.index < replicas THEN [pc |-> "check", index |-> monitor.index + 1]
                  ELSE Asleep
    /\ ready' = (r \/ (monitor.index = replicas /\ m[replicas] = 0))

\* On to the next worker; after the last one admission opens if nobody misses a check.
Advance(m, r) ==
    /\ monitor' = IF monitor.index < replicas THEN [pc |-> "check", index |-> monitor.index + 1]
                  ELSE Asleep
    /\ ready' = (r \/ (monitor.index = replicas /\ \A w \in 1 .. replicas : m[w] = 0))

CheckPasses(w) ==
    /\ Monitored /\ At("check", w) /\ life[w] = "up"
    /\ misses' = [misses EXCEPT ![w] = 0]
    /\ Advance(misses', ready)
    /\ UNCHANGED <<plane, replicas, life, restarts, failed, evidenceVars, faults>>

\* A missed check closes admission; the third one in a row begins to terminate the
\* worker.
CheckMissed(w) ==
    /\ Monitored /\ At("check", w) /\ life[w] # "up"
    /\ misses' = [misses EXCEPT ![w] = @ + 1]
    /\ IF misses'[w] < MissLimit THEN Advance(misses', FALSE)
       ELSE monitor' = [monitor EXCEPT !.pc = "terminate"] /\ ready' = FALSE
    /\ UNCHANGED <<plane, replicas, life, restarts, failed, evidenceVars, faults>>

\* The worker has ended: another one takes its place, or the pool fails.
Replace(w) ==
    /\ Monitored /\ At("terminate", w)
    /\ IF restarts[w] >= RestartLimit
       THEN /\ failed' = TRUE
            /\ life' = [life EXCEPT ![w] = "none"]
            /\ UNCHANGED <<restarts, monitor>>
       ELSE /\ restarts' = [restarts EXCEPT ![w] = @ + 1]
            /\ life' = [life EXCEPT ![w] = "boot"]
            /\ monitor' = [monitor EXCEPT !.pc = "boot"]
            /\ UNCHANGED failed
    /\ UNCHANGED <<plane, replicas, ready, misses, evidenceVars, faults>>

Replaced(w) ==
    /\ Monitored /\ At("boot", w) /\ life[w] = "up"
    /\ misses' = [misses EXCEPT ![w] = 0]
    /\ Advance(misses', ready)
    /\ UNCHANGED <<plane, replicas, life, restarts, failed, evidenceVars, faults>>

\* The replacement does not come up: it is terminated and the pool fails.
NotReplaced(w) ==
    /\ Monitored /\ At("boot", w) /\ NotReady
    /\ failed' = TRUE
    /\ life' = [life EXCEPT ![w] = "none"]
    /\ UNCHANGED <<plane, replicas, ready, misses, restarts, monitor, evidenceVars>>

\* No process can be spawned, or one outlives its SIGKILL for two seconds: the
\* monitor's task ends with an exception nobody awaits, and the pool has not failed.
MonitorLost(w) ==
    /\ Monitored /\ At("terminate", w) /\ Fault
    /\ monitor' = [monitor EXCEPT !.pc = "lost"]
    /\ restarts' = [restarts EXCEPT ![w] = IF @ < RestartLimit THEN @ + 1 ELSE @]
    /\ life' = [life EXCEPT ![w] = "none"]
    /\ UNCHANGED <<plane, replicas, ready, misses, failed, evidenceVars>>

-----------------------------------------------------------------------------
(* Evidence.                                                                *)

\* EventSpool.append and probe tell the process that calls them, and nobody else,
\* whether evidence can be written.
Told ==
    /\ healthy' = (disk = "ok")
    /\ UNCHANGED <<plane, replicas, ready, poolVars, disk, faults>>

\* A record is written.  The gateway learns of it only when it inspects by itself: a
\* worker's spool is another object, and its health page does not mention it.
WriteEvidence == plane \in {"serving", "draining"} /\ replicas = 1 /\ Told

\* maintain probes after a failure, and every twenty rounds anyway.
Probe == Running /\ Told

DiskFails ==
    /\ disk = "ok" /\ Fault
    /\ disk' = "bad"
    /\ UNCHANGED <<plane, replicas, ready, poolVars, healthy>>

DiskRecovers ==
    /\ disk = "bad"
    /\ disk' = "ok"
    /\ UNCHANGED <<plane, replicas, ready, poolVars, healthy, faults>>

-----------------------------------------------------------------------------
\* What the monitor does next, while the pool is watched.
Watch ==
    \/ Wake
    \/ \E w \in Workers :
         CheckPasses(w) \/ CheckMissed(w) \/ Replace(w) \/ Replaced(w) \/ NotReplaced(w)

PlaneStep ==
    \/ \E n \in ReplicaCounts : SnapshotLoaded(n)
    \/ StartedWorker \/ StartFails
    \/ Drain(FALSE) /\ UNCHANGED faults
    \/ Drain(TRUE) /\ Fault
    \/ StopPool \/ Exit \/ Watch
    \/ \E w \in Workers : MonitorLost(w)
    \/ Killed /\ Fault
    \/ \E w \in Workers : Booted(w) \/ Stall(w) \/ Revive(w) \/ Die(w) \/ Orphaned(w)
    \/ WriteEvidence \/ Probe \/ DiskFails \/ DiskRecovers
=============================================================================
