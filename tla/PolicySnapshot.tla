---------------------------- MODULE PolicySnapshot ----------------------------
(***************************************************************************)
(* How a policy travels from the console to the processes that enforce it   *)
(* (selfhost/snapshot.py, dataplane.py, runtime.py, main.py,                *)
(* inspector_pool.py).  The control plane saves a policy, publishes it as a *)
(* signed snapshot (a history file first, then the current.json pointer)    *)
(* and answers when the data plane reports the revision.  The gateway and   *)
(* its pooled inspectors each poll current.json, verify it and keep the     *)
(* last snapshot that verified.  Any process may die between two steps.     *)
(***************************************************************************)
EXTENDS Naturals, FiniteSets, FiniteSetsExt

CONSTANTS
    Replicas,     \* pooled inspectors; 0: the gateway process inspects by itself
    Conns,        \* connection settings (routes, destination, authentication)
    FirstConn,
    MaxRevisions, \* bound: nothing is saved any more from this revision on
    MaxFaults,    \* bound: crashes, losses and manipulations in one behaviour
    None

ASSUME PlaneAssumption ==
    /\ Replicas \in Nat /\ FirstConn \in Conns
    /\ MaxRevisions \in Nat /\ MaxFaults \in Nat

gateway == 0
Workers == 1 .. Replicas
Procs == {gateway} \cup Workers

VARIABLES
    conn,     \* active connection settings in console.sqlite
    saved,    \* policy in console.sqlite, named by when it was saved
    signer,   \* private key of the control plane, None when lost
    trust,    \* public key exported to the data plane
    keys,     \* keys ever generated
    history,  \* snapshots in policy/history
    current,  \* policy/current.json
    stamp,    \* its fingerprint: how often it was replaced
    ctl,      \* the control plane's program counter
    phase,    \* data plane: "closed", "starting" (pool not yet wired), "serving"
    proc,     \* the data plane's processes
    acked,    \* history: newest policy whose apply answered "enforced" by the workers
    restored, \* history: current.json was replaced from outside
    unread,   \* history: reading current.json, or building its engine, failed once
    faults

cvars == <<conn, saved, signer, trust, keys, history, acked>>
evars == <<restored, unread, faults>>
dvars == <<phase, proc>>
vars == <<cvars, current, stamp, ctl, dvars, evars>>

Snapshots ==
    [revision : Nat, connection : Conns, policy : Nat, key : Nat]

ASSUME NoneAssumption == None \notin Snapshots

\* Anything that is not a snapshot.
Garbage == [revision |-> 0, connection |-> FirstConn, policy |-> 1, key |-> 0]

\* life: "off" (not spawned), "boot" (spawned, no health check passed yet), "up",
\* "dead" (died after it had been up), "exited" (died while booting).
Off == [life |-> "off", snapshot |-> None, seen |-> 0, pending |-> None]
Life(state) == [Off EXCEPT !.life = state]

First == [revision |-> 1, connection |-> FirstConn, policy |-> 1, key |-> 1]

\* After `init': keys, a seeded policy and its first snapshot exist.
Init ==
    /\ conn = FirstConn /\ saved = 1
    /\ signer = 1 /\ trust = 1 /\ keys = 1
    /\ history = {First} /\ current = First /\ stamp = 1
    /\ ctl = [pc |-> "down"]
    /\ phase = "closed"
    /\ proc = [p \in Procs |-> Off]
    /\ acked = 0 /\ restored = FALSE /\ unread = FALSE /\ faults = 0

Fault == faults < MaxFaults /\ faults' = faults + 1

LatestFromPointer == current.revision

\* _latest: the highest revision in the history directory.
Latest == Max({s.revision : s \in history})

Runs(p) == proc[p].life \in {"boot", "up"}
Revision(p) == IF Runs(p) /\ proc[p].snapshot # None THEN proc[p].snapshot.revision ELSE 0

-----------------------------------------------------------------------------
(* Control plane.                                                           *)

\* ensure_signing_key: a missing private key is replaced by a new pair; the public
\* key is exported in any case.
EnsureSigningKey ==
    /\ signer' = IF signer = None THEN keys + 1 ELSE signer
    /\ keys' = IF signer = None THEN keys + 1 ELSE keys
    /\ trust' = signer'

\* serve_control: publish at startup, without waiting for anyone.
ControlStart ==
    /\ ctl.pc = "down"
    /\ EnsureSigningKey
    /\ ctl' = [pc |-> "publish", after |-> "up"]
    /\ UNCHANGED <<conn, saved, history, acked, current, stamp, dvars, evars>>

\* activate-config, which holds the locks of both planes: the staged connection
\* becomes active, in one transaction with a policy if it needs a new one; then
\* both are published.
ActivateConfig(c) ==
    /\ ctl.pc = "down" /\ ~Runs(gateway) /\ Latest < MaxRevisions
    /\ conn' = c
    /\ saved' \in {saved, saved + 1}
    /\ EnsureSigningKey
    /\ ctl' = [pc |-> "publish", after |-> "down"]
    /\ UNCHANGED <<history, acked, current, stamp, dvars, evars>>

\* apply: the policy is saved; publishing follows under a lock of its own.
Apply ==
    /\ ctl.pc = "up" /\ Latest < MaxRevisions
    /\ saved' = saved + 1
    /\ ctl' = [pc |-> "publish", after |-> "wait"]
    /\ UNCHANGED <<conn, signer, trust, keys, history, acked, current, stamp, dvars, evars>>

\* What publish returns goes to wait_applied, if there is anything to wait for.
After(revision) ==
    IF ctl.after = "wait" THEN [pc |-> "wait", revision |-> revision, asked |-> {}]
    ELSE [pc |-> ctl.after]

Unchanged == /\ current # Garbage
             /\ current.connection = conn
             /\ current.policy = saved

\* publish returns the current revision when neither connection nor policy changed.
PublishUnchanged ==
    /\ ctl.pc = "publish" /\ Unchanged
    /\ ctl' = After(current.revision)
    /\ UNCHANGED <<cvars, current, stamp, dvars, evars>>

\* publish, the immutable history file.
PublishHistory ==
    /\ ctl.pc = "publish" /\ ~Unchanged
    /\ LET s == [revision |-> Latest + 1, connection |-> conn, policy |-> saved, key |-> signer]
       IN  /\ history' = history \cup {s}
           /\ ctl' = [pc |-> "pointer", after |-> ctl.after, snapshot |-> s]
    /\ UNCHANGED <<conn, saved, signer, trust, keys, acked, current, stamp, dvars, evars>>

\* publish, the atomically replaced pointer.
PublishPointer ==
    /\ ctl.pc = "pointer"
    /\ current' = ctl.snapshot /\ stamp' = stamp + 1
    /\ ctl' = After(ctl.snapshot.revision)
    /\ UNCHANGED <<cvars, dvars, evars>>

NeededByGateway == {gateway}

\* status: applied is what every inspecting process has loaded; the workers are
\* asked once the pool has started.
Needed == IF phase = "serving" THEN Procs ELSE {gateway}

\* One answer of the poll in wait_applied: the gateway's own revision first, then
\* that of each worker in turn, while all of them go on.  The last one needed
\* makes apply answer; an older or missing revision means another poll.
AskRevision(p) ==
    /\ ctl.pc = "wait" /\ p \notin ctl.asked
    /\ \A q \in Procs : q < p => q \in ctl.asked
    /\ LET asked == IF Revision(p) >= ctl.revision THEN ctl.asked \cup {p} ELSE {} IN
       IF Needed \subseteq asked
         THEN /\ ctl' = [pc |-> "up"]
              /\ acked' = IF phase = "serving" THEN saved ELSE acked
         ELSE /\ ctl' = [ctl EXCEPT !.asked = asked]
              /\ UNCHANGED acked
    /\ UNCHANGED <<conn, saved, signer, trust, keys, history, current, stamp, dvars, evars>>

\* wait_applied gave up: apply answers too, and audits policy.dataplane_pending.
GiveUp ==
    /\ ctl.pc = "wait"
    /\ ctl' = [pc |-> "up"]
    /\ UNCHANGED <<cvars, current, stamp, dvars, evars>>

ControlCrash ==
    /\ ctl.pc # "down" /\ Fault
    /\ ctl' = [pc |-> "down"]
    /\ UNCHANGED <<cvars, current, stamp, dvars, restored, unread>>

\* The control-keys volume is lost while the console is down.
LoseKeys ==
    /\ ctl.pc = "down" /\ signer # None /\ Fault
    /\ signer' = None
    /\ UNCHANGED <<conn, saved, trust, keys, history, acked, current, stamp, ctl, dvars,
                   restored, unread>>

\* Something else takes current.json's place: an older snapshot from a backup, or junk.
ReplaceCurrent(s) ==
    /\ s # current /\ Fault
    /\ current' = s /\ stamp' = stamp + 1
    /\ restored' = TRUE
    /\ UNCHANGED <<cvars, ctl, dvars, unread>>

-----------------------------------------------------------------------------
(* Data plane.                                                              *)

\* serve-dataplane takes dataplane.lock, which activate-config holds.
GatewayStart ==
    /\ ~Runs(gateway)
    /\ ctl.pc \in {"publish", "pointer"} => ctl.after # "down"
    /\ proc' = [proc EXCEPT ![gateway] = Life("up")]
    /\ UNCHANGED <<cvars, current, stamp, ctl, phase, evars>>

\* With a verified snapshot the gateway begins to start its inspectors.
StartPool ==
    /\ phase = "closed" /\ Runs(gateway) /\ proc[gateway].snapshot # None
    /\ phase' = "starting"
    /\ UNCHANGED <<cvars, current, stamp, ctl, proc, evars>>

\* spawn, by start for the first time or by the monitor for a worker that died; both
\* wait for it before they look at the next.
Spawn(w) ==
    /\ \/ /\ phase = "starting" /\ proc[w].life = "off"
          /\ \A v \in Workers : v < w => proc[v].life # "off"
       \/ phase = "serving" /\ proc[w].life = "dead"
    /\ \A v \in Workers : proc[v].life \notin {"boot", "exited"}
    /\ proc' = [proc EXCEPT ![w] = Life("boot")]
    /\ UNCHANGED <<cvars, current, stamp, ctl, phase, evars>>

\* ready: the health check of a spawned worker passed.
Ready(w) ==
    /\ proc[w].life = "boot" /\ proc[w].snapshot # None
    /\ proc' = [proc EXCEPT ![w].life = "up"]
    /\ UNCHANGED <<cvars, current, stamp, ctl, phase, evars>>

\* start is through: traffic is admitted, status begins to ask the workers.
PoolReady ==
    /\ phase = "starting"
    /\ \A w \in Workers : proc[w].life \in {"up", "dead"}
    /\ phase' = "serving"
    /\ UNCHANGED <<cvars, current, stamp, ctl, proc, evars>>

\* The data plane ends; its workers watch their parent and go with it, and so does a
\* status request it has not answered.
Stopped ==
    /\ proc' = [p \in Procs |-> Off]
    /\ phase' = "closed"
    /\ ctl' = IF ctl.pc = "wait" THEN [ctl EXCEPT !.asked = {}] ELSE ctl

\* inspector_startup_failed or inspector_recovery_exhausted: a spawned worker ended
\* before it was ready, and the data plane stops.
PoolFailed ==
    /\ \E w \in Workers : proc[w].life = "exited"
    /\ Stopped
    /\ UNCHANGED <<cvars, current, stamp, evars>>

\* refresh, first half: the fingerprint differs from the last one handled.
RefreshStat(p) ==
    /\ Runs(p) /\ proc[p].pending = None
    /\ stamp # proc[p].seen
    /\ proc' = [proc EXCEPT ![p].pending = stamp]
    /\ UNCHANGED <<cvars, current, stamp, ctl, phase, evars>>

\* SnapshotLoader.read: signed by the key the data plane trusts.
Verifies(s) == s # Garbage /\ s.key = trust

AcceptableUnpinned(p, s) ==
    proc[p].snapshot # None =>
      /\ s.revision > proc[p].snapshot.revision
      /\ s.connection = proc[p].snapshot.connection

AcceptableUnordered(p, s) ==
    /\ p \in Workers => s.connection = proc[gateway].snapshot.connection
    /\ proc[p].snapshot # None => s.connection = proc[p].snapshot.connection

\* The order and connection checks of refresh; a worker is pinned to the connection
\* its gateway started with.
Acceptable(p, s) ==
    /\ p \in Workers => s.connection = proc[gateway].snapshot.connection
    /\ proc[p].snapshot # None =>
         /\ s.revision > proc[p].snapshot.revision
         /\ s.connection = proc[p].snapshot.connection

LoadThenStat(p) ==
    /\ Runs(p) /\ proc[p].pending # None
    /\ LET done == [proc[p] EXCEPT !.seen = stamp, !.pending = None] IN
       proc' = [proc EXCEPT ![p] =
         IF proc[p].pending = stamp /\ Verifies(current) /\ Acceptable(p, current)
           THEN [done EXCEPT !.snapshot = current]
         ELSE IF p \in Workers /\ proc[p].snapshot = None THEN Life("exited")
         ELSE done]
    /\ UNCHANGED <<cvars, current, stamp, ctl, phase, evars>>

\* refresh, second half: install what verifies, keep the last known good otherwise;
\* a worker that has nothing to keep exits.  Either way the fingerprint taken
\* before the read is the one that counts as handled.
RefreshLoad(p) ==
    /\ Runs(p) /\ proc[p].pending # None
    /\ LET done == [proc[p] EXCEPT !.seen = proc[p].pending, !.pending = None] IN
       proc' = [proc EXCEPT ![p] =
         IF Verifies(current) /\ Acceptable(p, current) THEN [done EXCEPT !.snapshot = current]
         ELSE IF p \in Workers /\ proc[p].snapshot = None THEN Life("exited")
         ELSE done]
    /\ UNCHANGED <<cvars, current, stamp, ctl, phase, evars>>

\* Opening current.json fails once, or no engine can be built from what it holds
\* ("policy_snapshot_unreadable", "policy_snapshot_invalid"): a rejection like any
\* other, so the fingerprint counts as handled, also by a gateway that has no snapshot
\* yet; a worker without one exits.
RefreshUnreadable(p) ==
    /\ Runs(p) /\ proc[p].pending # None /\ Fault
    /\ proc' = [proc EXCEPT ![p] =
         IF p \in Workers /\ proc[p].snapshot = None THEN Life("exited")
         ELSE [proc[p] EXCEPT !.seen = proc[p].pending, !.pending = None]]
    /\ unread' = TRUE
    /\ UNCHANGED <<cvars, current, stamp, ctl, phase, restored>>

\* A worker dies, or the monitor ends one that misses its health checks.
WorkerCrash(w) ==
    /\ Runs(w) /\ Fault
    /\ proc' = [proc EXCEPT ![w] = Life(IF proc[w].life = "up" THEN "dead" ELSE "exited")]
    /\ UNCHANGED <<cvars, current, stamp, ctl, phase, restored, unread>>

DataplaneStop ==
    /\ Runs(gateway) /\ Fault
    /\ Stopped
    /\ UNCHANGED <<cvars, current, stamp, restored, unread>>

Next ==
    \/ ControlStart \/ Apply \/ \E c \in Conns : ActivateConfig(c)
    \/ PublishUnchanged \/ PublishHistory \/ PublishPointer
    \/ GiveUp \/ \E p \in Procs : AskRevision(p)
    \/ ControlCrash \/ LoseKeys
    \/ \E s \in history \cup {Garbage} : ReplaceCurrent(s)
    \/ GatewayStart \/ StartPool \/ PoolReady \/ PoolFailed \/ DataplaneStop
    \/ \E w \in Workers : Spawn(w) \/ Ready(w) \/ WorkerCrash(w)
    \/ \E p \in Procs : RefreshStat(p) \/ RefreshLoad(p) \/ RefreshUnreadable(p)

Spec == Init /\ [][Next]_vars

\* Every process polls four times a second, and its poll never stops on errors
\* (maintain).
FairSpec == Spec /\ \A p \in Procs : WF_vars(RefreshStat(p) \/ RefreshLoad(p))

-----------------------------------------------------------------------------
\* Every variable holds a value of its kind.
TypeOK ==
    /\ conn \in Conns /\ saved \in Nat /\ acked \in 0 .. saved
    /\ signer \in (1 .. keys) \cup {None} /\ trust \in 1 .. keys
    /\ history \subseteq Snapshots /\ current \in history \cup {Garbage}
    /\ phase \in {"closed", "starting", "serving"}
    /\ \A p \in Procs : /\ proc[p].life \in {"off", "boot", "up", "dead", "exited"}
                        /\ proc[p].snapshot \in history \cup {None}
                        /\ proc[p].seen \in 0 .. stamp
                        /\ proc[p].pending \in (0 .. stamp) \cup {None}

\* Apply answers after enforcement: once the console reported a policy as applied,
\* no process that can inspect a request holds an older one, although the answer
\* was collected from one process after the other, workers die and are replaced,
\* and either plane restarts.  Three things are excepted: current.json replaced from
\* outside, answers given while the pool is starting, when nobody asks the workers,
\* and those that wait_applied gives after its five seconds, applied or not.
AppliedIsEnforced ==
    \/ restored
    \/ \A p \in Procs : Revision(p) > 0 => proc[p].snapshot.policy >= acked

\* A revision names one content, although the console may die between the history
\* file and the pointer and publish something else later.
RevisionNamesContent ==
    \A s, t \in history : s.revision = t.revision => s = t

\* All processes of a running data plane enforce the same connection settings, also
\* when a replacement worker finds another current.json than its gateway did.
OneConnection ==
    \A w \in Workers :
      Revision(w) > 0 => proc[w].snapshot.connection = proc[gateway].snapshot.connection

\* Only what the control plane published is ever enforced, and a running process
\* never goes back to an older revision or to none, whatever appears in
\* current.json.
LastKnownGood ==
    [][\A p \in Procs :
         /\ proc'[p].snapshot # None => proc'[p].snapshot \in history
         /\ (Runs(p) /\ Runs(p)' /\ proc[p].snapshot # None) =>
              /\ proc'[p].snapshot # None
              /\ proc'[p].snapshot.revision >= proc[p].snapshot.revision]_vars

\* A process has caught up, or ended, or one of the reasons not to applies:
\* current.json was replaced from outside, could not be read or used, the signing key was
\* lost, or the connection changed, which takes a restart.
CaughtUp(p) ==
    \/ ~Runs(p) \/ restored \/ unread \/ keys > 1
    \/ /\ proc[p].snapshot # None
       /\ \/ proc[p].snapshot.revision = current.revision
          \/ proc[p].snapshot.connection # current.connection

\* What is published reaches every running process, also when it is published
\* between the moment a process takes the file's fingerprint and the moment it
\* reads the file.
PublishedIsEnforced == \A p \in Procs : []<>CaughtUp(p)
=============================================================================
