----------------------------- MODULE Supervisor -----------------------------
(***************************************************************************)
(* Both planes in one container (selfhost/supervisor.py run): a control     *)
(* plane that exits is started again after a delay, a data plane that exits *)
(* stops the container, and the orchestrator starts the next one.           *)
(*                                                                         *)
(* Delays are finite and otherwise left out: how long one is depends on how *)
(* often and how early the control plane exited, and no property on it.     *)
(***************************************************************************)
EXTENDS DataPlane

VARIABLES
    supervisor,  \* "running", "terminating", "ended"
    stopping,    \* a signal asked the supervisor to stop
    control,     \* the control-plane process: "up", "exited"
    restart      \* a restart of the control plane is due (restart_at)

supervisorVars == <<supervisor, stopping, control, restart>>
vars == <<planeVars, supervisorVars>>

Init ==
    /\ PlaneInit
    /\ supervisor = "running" /\ stopping = FALSE
    /\ control = "up" /\ restart = FALSE

-----------------------------------------------------------------------------
ControlExits ==
    /\ control = "up" /\ supervisor = "running" /\ Fault
    /\ control' = "exited"
    /\ UNCHANGED <<plane, replicas, ready, poolVars, evidenceVars, supervisor, stopping, restart>>

\* SIGTERM or SIGINT.
Signal ==
    /\ supervisor = "running" /\ ~stopping
    /\ stopping' = TRUE
    /\ UNCHANGED <<planeVars, supervisor, control, restart>>

-----------------------------------------------------------------------------
(* The loop of run, which looks at the data plane before anything else.     *)
(* The round in which a signal comes is finished: a restart that is due is  *)
(* still made, one that is only scheduled now is never made.                *)

\* The loop is in a round that goes past the check of the data plane.
Polls == supervisor = "running" /\ plane # "exited"

\* The control plane's exit is noticed: a restart is scheduled.
ScheduleControl ==
    /\ Polls /\ ~stopping /\ control = "exited" /\ ~restart
    /\ restart' = TRUE
    /\ UNCHANGED <<planeVars, supervisor, stopping, control>>

StartControl ==
    /\ Polls /\ restart
    /\ restart' = FALSE /\ control' = "up"
    /\ UNCHANGED <<planeVars, supervisor, stopping>>

LeaveUnheeded ==
    /\ supervisor = "running" /\ stopping
    /\ supervisor' = "terminating"
    /\ \/ Drain(TRUE) /\ UNCHANGED faults
       \/ plane \in {"waiting", "starting"} /\ Killed /\ UNCHANGED faults
       \/ plane \in {"draining", "stopping", "exited"} /\ UNCHANGED planeVars
    /\ UNCHANGED <<stopping, control, restart>>

\* The loop is left at its next test, because of a signal or of the data plane's exit,
\* and both planes are signalled.
Leave ==
    /\ supervisor = "running" /\ (stopping \/ plane = "exited")
    /\ supervisor' = "terminating"
    /\ \/ Drain(TRUE) /\ UNCHANGED faults
       \/ plane \in {"waiting", "starting"} /\ Killed /\ UNCHANGED faults
       \/ plane \in {"draining", "stopping", "exited"} /\ UNCHANGED planeVars
    /\ UNCHANGED <<stopping, control, restart>>

\* Both planes have ended, or are killed after five seconds; what they left behind
\* goes with the container.
End ==
    /\ supervisor = "terminating"
    /\ supervisor' = "ended" /\ control' = "exited"
    /\ plane' = "exited" /\ ready' = FALSE /\ monitor' = Asleep
    /\ life' = [w \in Workers |-> "none"]
    /\ UNCHANGED <<replicas, misses, restarts, failed, evidenceVars, faults, stopping, restart>>

\* The orchestrator's restart policy, unless the container was stopped.
Orchestrate ==
    /\ supervisor = "ended" /\ ~stopping
    /\ supervisor' = "running" /\ control' = "up" /\ restart' = FALSE
    /\ NewPlane("waiting")
    /\ UNCHANGED <<disk, faults, stopping>>

Next ==
    \/ PlaneStep /\ UNCHANGED supervisorVars
    \/ ControlExits \/ Signal \/ ScheduleControl \/ StartControl \/ Leave \/ End \/ Orchestrate

Spec == Init /\ [][Next]_vars

\* Coroutines, loops and booting processes make progress; nothing is assumed of
\* faults, of a stalled worker or of the disk.
FairSpec ==
    /\ Spec
    /\ WF_vars(\E n \in ReplicaCounts : SnapshotLoaded(n) /\ UNCHANGED supervisorVars)
    /\ WF_vars((StartedWorker \/ StartFails \/ Watch) /\ UNCHANGED supervisorVars)
    /\ WF_vars(((Drain(FALSE) /\ UNCHANGED faults) \/ StopPool \/ Exit) /\ UNCHANGED supervisorVars)
    /\ \A w \in Workers : WF_vars(Booted(w) /\ UNCHANGED supervisorVars)
    /\ WF_vars(Probe /\ UNCHANGED supervisorVars)
    /\ WF_vars(ScheduleControl \/ StartControl) /\ WF_vars(Leave \/ End \/ Orchestrate)

-----------------------------------------------------------------------------
\* Every variable holds a value of its kind.
TypeOK ==
    /\ plane \in {"waiting", "starting", "serving", "draining", "stopping", "exited"}
    /\ replicas \in ReplicaCounts \cup {0}
    /\ ready \in BOOLEAN /\ failed \in BOOLEAN /\ healthy \in BOOLEAN
    /\ life \in [Workers -> {"none", "boot", "up", "stalled", "dead"}]
    /\ misses \in [Workers -> 0 .. MissLimit]
    /\ restarts \in [Workers -> 0 .. RestartLimit]
    /\ monitor.pc \in {"asleep", "boot", "check", "terminate", "lost"}
    /\ monitor.index \in {0} \cup Workers
    /\ disk \in {"ok", "bad"} /\ faults \in 0 .. MaxFaults
    /\ supervisor \in {"running", "terminating", "ended"}
    /\ stopping \in BOOLEAN /\ control \in {"up", "exited"} /\ restart \in BOOLEAN

\* While inspectors count as ready, none of them has an unanswered health check, is
\* being replaced or has been given up: one worker that answers never reopens
\* admission for another that does not.
ReadyMeansAllAnswered ==
    ready => /\ ~failed
             /\ monitor.pc \notin {"terminate", "boot", "lost"}
             /\ \A w \in Workers : misses[w] = 0

Healthy == Admits /\ control = "up" /\ \A w \in 1 .. replicas : replicas > 1 => life[w] = "up"

\* Admission ends up where the deployment does.  Evidence storage that stays broken
\* closes it for good, although with a pool the gateway does not hear of its workers'
\* failed writes and has only its own probe ("admission closes until storage
\* recovers", plane-separation.md).
\* When faults cease and evidence can be written, both planes and every inspector
\* run and requests are admitted again, for good, whatever died or stalled before: a
\* worker is replaced, an exhausted pool ends the data plane, that ends the
\* container, and a new one starts; the control plane comes back by itself.  Only a
\* monitor that was lost to an exception is missed by nobody.
AdmissionSettles ==
    /\ <>[](disk = "bad") => <>[]~Admits
    /\ <>[](disk = "ok") => <>[](stopping \/ monitor.pc = "lost" \/ Healthy)
=============================================================================
