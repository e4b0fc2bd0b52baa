------------------------- MODULE PolicySnapshotProofs -------------------------
(***************************************************************************)
(* A revision names one content, all processes enforce one connection, none *)
(* goes back, and an applied policy is enforced by everyone: for every      *)
(* number of inspectors, settings, revisions and faults.                    *)
(*                                                                         *)
(* The history directory carries the argument: a new revision is above all  *)
(* that were ever written, published or not, and its policy is the newest.  *)
(* So a process at the revision the console waits for, or above it, has the *)
(* policy that was applied, also if it died and loaded it afresh.           *)
(***************************************************************************)
EXTENDS PolicySnapshot, TLAPS

Lives == {"off", "boot", "up", "dead", "exited"}
SnapshotOrNone == Snapshots \cup {None}
Stamps == Nat \cup {None}
ProcState ==
    [life : Lives, snapshot : SnapshotOrNone, seen : Nat, pending : Stamps]

\* What the console keeps while it publishes and waits.
Afters == {"up", "down", "wait"}
Resting == [pc : {"down", "up"}]
Publishing == [pc : {"publish"}, after : Afters]
Pointing == [pc : {"pointer"}, after : Afters, snapshot : Snapshots]
Asking == [pc : {"wait"}, revision : Nat, asked : SUBSET Procs]
Controls == Resting \cup Publishing \cup Pointing \cup Asking

Typed ==
    /\ conn \in Conns /\ saved \in Nat /\ acked \in Nat /\ keys \in Nat /\ stamp \in Nat
    /\ history \subseteq Snapshots /\ current \in Snapshots
    /\ ctl \in Controls
    /\ signer \in Nat \cup {None} /\ (ctl.pc # "down" => signer \in Nat)
    /\ phase \in {"closed", "starting", "serving"}
    /\ proc \in [Procs -> ProcState]
    /\ restored \in BOOLEAN

\* Inspectors live only beside a gateway that has a snapshot.
Pool ==
    /\ phase = "closed" => \A w \in Workers : proc[w] = Off
    /\ phase # "closed" => Runs(gateway) /\ proc[gateway].snapshot # None

\* A newer snapshot was written later: it has a revision of its own, and no older
\* policy.
HistoryOrdered ==
    /\ \E s \in history : \A t \in history : t.revision <= s.revision
    /\ \A s \in history : s.revision > 0 /\ s.policy <= saved
    /\ \A s, t \in history : s.revision <= t.revision => s.policy <= t.policy

\* Everything in use was written before; the pointer is about to name the newest.
FromHistory ==
    /\ current \in history \cup {Garbage}
    /\ \A p \in Procs : proc[p].snapshot \in history \cup {None}
    /\ ctl.pc = "pointer" =>
         /\ ctl.snapshot \in history /\ ctl.snapshot.policy = saved
         /\ \A t \in history : t.revision <= ctl.snapshot.revision

\* What wait_applied has learnt stays true, whoever dies and comes back.
Learnt ==
    /\ acked <= saved
    /\ ~restored =>
         /\ current \in history /\ acked <= current.policy
         /\ ctl.pc = "wait" =>
              /\ current.revision = ctl.revision /\ current.policy = saved
              /\ \A q \in ctl.asked : Revision(q) > 0 => Revision(q) >= ctl.revision

IInv ==
    /\ Typed /\ Pool /\ OneConnection
    /\ HistoryOrdered /\ RevisionNamesContent /\ FromHistory
    /\ Learnt /\ AppliedIsEnforced

-----------------------------------------------------------------------------
(* What a step does to a process and to the console.                        *)

\* The console's step tells what it keeps.
LEMMA ControlKinds ==
    ASSUME Typed
    PROVE  /\ ctl.pc = "publish" => ctl \in Publishing
           /\ ctl.pc = "pointer" => ctl \in Pointing
           /\ ctl.pc = "wait" => ctl \in Asking
<1>1. CASE ctl \in Resting
  BY <1>1 DEF Resting
<1>2. CASE ctl \in Publishing
  BY <1>2 DEF Publishing
<1>3. CASE ctl \in Pointing
  BY <1>3 DEF Pointing
<1>4. CASE ctl \in Asking
  BY <1>4 DEF Asking
<1> QED
  BY <1>1, <1>2, <1>3, <1>4 DEF Typed, Controls

\* The gateway is a process beside its workers; First and Garbage are snapshots.
LEMMA Members ==
    /\ gateway \in Procs /\ gateway \notin Workers /\ Workers \subseteq Procs
    /\ \A p \in Procs : p \in Workers \/ p = gateway
    /\ First \in Snapshots /\ Garbage \in Snapshots
  BY PlaneAssumption DEF gateway, Procs, Workers, First, Garbage, Snapshots

\* A process keeps its snapshot, loads the current one, or starts without any.
Keeps(p) == proc'[p].snapshot = proc[p].snapshot /\ (Runs(p)' <=> Runs(p))
Loads(p) ==
    /\ Runs(p) /\ Runs(p)' /\ current # Garbage /\ Acceptable(p, current)
    /\ proc'[p].snapshot = current
Loses(p) ==
    /\ proc'[p].snapshot = None /\ ~(Runs(p) /\ Runs(p)')
    /\ p = gateway => ~Runs(p)

\* A step of one process: nothing else moves.
Alone(p) ==
    /\ proc' \in [Procs -> ProcState]
    /\ \A q \in Procs : q # p => proc'[q] = proc[q]
    /\ Keeps(p) \/ Loads(p) \/ Loses(p)
    /\ p \in Workers => phase # "closed" \/ proc[p].life # "off"
    /\ UNCHANGED <<cvars, current, stamp, ctl, phase, restored>>

\* Writing one process leaves the others as they are.
LEMMA ProcUpdate ==
    ASSUME Typed, NEW p \in Procs, NEW r, proc' = [proc EXCEPT ![p] = r]
    PROVE  /\ proc'[p] = r
           /\ \A q \in Procs : q # p => proc'[q] = proc[q]
           /\ r \in ProcState => proc' \in [Procs -> ProcState]
  BY DEF Typed

\* A process as it is started, and as it is left.
LEMMA LifeTyped ==
    ASSUME NEW state \in Lives
    PROVE  /\ Life(state) \in ProcState /\ Life(state).life = state
           /\ Life(state).snapshot = None
<1>1. None \in SnapshotOrNone /\ None \in Stamps /\ 0 \in Nat /\ "off" \in Lives
  BY DEF SnapshotOrNone, Stamps, Lives
<1> QED
  BY <1>1 DEF Life, Off, ProcState

\* A worker that is spawned, becomes ready or dies (inspector_pool.py) moves alone.
LEMMA SpawnStep ==
    ASSUME Typed, NEW w \in Workers, Spawn(w) \/ Ready(w) \/ WorkerCrash(w)
    PROVE  Alone(w)
<1>1. w \in Procs /\ w # gateway /\ proc[w] \in ProcState
  BY Members DEF Typed
<1>2. {"boot", "up", "dead", "exited"} \subseteq Lives
  BY DEF Lives
<1>3. CASE Spawn(w)
  <2>1. proc' = [proc EXCEPT ![w] = Life("boot")]
    BY <1>3 DEF Spawn
  <2>2. /\ UNCHANGED <<cvars, current, stamp, ctl, phase, restored>>
        /\ ~Runs(w) /\ phase # "closed"
    BY <1>3 DEF Spawn, evars, Runs
  <2>3. Loses(w)
    BY <1>1, <1>2, <2>1, <2>2, ProcUpdate, LifeTyped DEF Loses
  <2> QED
    BY <1>1, <1>2, <2>1, <2>2, <2>3, ProcUpdate, LifeTyped DEF Alone
<1>4. CASE Ready(w)
  <2>1. proc' = [proc EXCEPT ![w] = [proc[w] EXCEPT !.life = "up"]]
    BY <1>4 DEF Ready
  <2>2. /\ UNCHANGED <<cvars, current, stamp, ctl, phase, restored>> /\ proc[w].life = "boot"
    BY <1>4 DEF Ready, evars
  <2>3. /\ [proc[w] EXCEPT !.life = "up"] \in ProcState
        /\ [proc[w] EXCEPT !.life = "up"].life = "up"
        /\ [proc[w] EXCEPT !.life = "up"].snapshot = proc[w].snapshot
    BY <1>1, <1>2 DEF ProcState
  <2>4. Keeps(w)
    BY <1>1, <2>1, <2>2, <2>3, ProcUpdate DEF Keeps, Runs
  <2> QED
    BY <1>1, <2>1, <2>2, <2>3, <2>4, ProcUpdate DEF Alone
<1>5. CASE WorkerCrash(w)
  <2> DEFINE state == IF proc[w].life = "up" THEN "dead" ELSE "exited"
  <2>1. proc' = [proc EXCEPT ![w] = Life(state)] /\ state \in {"dead", "exited"}
    BY <1>5 DEF WorkerCrash
  <2>2. /\ UNCHANGED <<cvars, current, stamp, ctl, phase, restored>> /\ Runs(w)
    BY <1>5 DEF WorkerCrash
  <2> HIDE DEF state
  <2>3. proc'[w] = Life(state) /\ proc'[w].life = state /\ proc'[w].snapshot = None
    BY <1>1, <1>2, <2>1, ProcUpdate, LifeTyped
  <2>4. Loses(w) /\ proc[w].life # "off"
    BY <1>1, <2>1, <2>2, <2>3 DEF Loses, Runs
  <2> QED
    BY <1>1, <1>2, <2>1, <2>2, <2>4, ProcUpdate, LifeTyped DEF Alone
<1> QED
  BY <1>3, <1>4, <1>5

\* Either half of refresh moves one process, to the current snapshot at most.
LEMMA RefreshStep ==
    ASSUME Typed, NEW p \in Procs, RefreshStat(p) \/ RefreshLoad(p) \/ RefreshUnreadable(p)
    PROVE  Alone(p)
<1>1. proc[p] \in ProcState /\ Runs(p) /\ stamp \in Nat
  BY DEF Typed, RefreshStat, RefreshLoad, RefreshUnreadable
<1>2. None \in Stamps /\ stamp \in Stamps /\ current \in SnapshotOrNone
  BY <1>1 DEF Typed, Stamps, SnapshotOrNone
<1>3. UNCHANGED <<cvars, current, stamp, ctl, phase, restored>> /\ proc[p].life # "off"
  BY <1>1 DEF RefreshStat, RefreshLoad, RefreshUnreadable, evars, Runs
<1>4. CASE RefreshStat(p)
  <2> DEFINE r == [proc[p] EXCEPT !.pending = stamp]
  <2>1. proc' = [proc EXCEPT ![p] = r]
    BY <1>4 DEF RefreshStat
  <2>2. r \in ProcState /\ r.snapshot = proc[p].snapshot /\ r.life = proc[p].life
    BY <1>1, <1>2 DEF ProcState
  <2> HIDE DEF r
  <2>3. Keeps(p)
    BY <1>1, <2>1, <2>2, ProcUpdate DEF Keeps, Runs
  <2> QED
    BY <1>3, <2>1, <2>2, <2>3, ProcUpdate DEF Alone
<1>5. CASE RefreshLoad(p) \/ RefreshUnreadable(p)
  <2> DEFINE done == [proc[p] EXCEPT !.seen = proc[p].pending, !.pending = None]
  <2>1. proc[p].pending \in Nat
    BY <1>1, <1>5 DEF ProcState, Stamps, RefreshLoad, RefreshUnreadable
  <2>2. done \in ProcState /\ done.snapshot = proc[p].snapshot /\ done.life = proc[p].life
    BY <1>1, <1>2, <2>1 DEF ProcState
  <2>3. CASE proc' = [proc EXCEPT ![p] = done]
    <3>1. Keeps(p)
      BY <2>2, <2>3, ProcUpdate DEF Keeps, Runs
    <3> QED
      BY <1>3, <2>2, <2>3, <3>1, ProcUpdate DEF Alone
  <2>4. CASE /\ current # Garbage /\ Acceptable(p, current)
             /\ proc' = [proc EXCEPT ![p] = [done EXCEPT !.snapshot = current]]
    <3> DEFINE r == [done EXCEPT !.snapshot = current]
    <3> HIDE DEF done
    <3>1. r \in ProcState /\ r.snapshot = current /\ r.life = proc[p].life
      BY <1>2, <2>2 DEF ProcState
    <3>2. proc' = [proc EXCEPT ![p] = r]
      BY <2>4
    <3> HIDE DEF r
    <3>3. Loads(p)
      BY <1>1, <2>4, <3>1, <3>2, ProcUpdate DEF Loads, Runs
    <3> QED
      BY <1>3, <3>1, <3>2, <3>3, ProcUpdate DEF Alone
  <2>5. CASE p \in Workers /\ proc' = [proc EXCEPT ![p] = Life("exited")]
    <3>1. "exited" \in Lives
      BY DEF Lives
    <3>2. /\ Life("exited") \in ProcState /\ Life("exited").life = "exited"
          /\ Life("exited").snapshot = None
      BY <3>1, LifeTyped
    <3>3. proc'[p] = Life("exited") /\ p # gateway
      BY <2>5, ProcUpdate, Members
    <3>4. Loses(p)
      BY <3>2, <3>3 DEF Loses, Runs
    <3> QED
      BY <1>3, <2>5, <3>2, <3>4, ProcUpdate DEF Alone
  <2>6. CASE RefreshUnreadable(p)
    <3>1. \/ proc' = [proc EXCEPT ![p] = done]
          \/ p \in Workers /\ proc' = [proc EXCEPT ![p] = Life("exited")]
      BY <2>6 DEF RefreshUnreadable
    <3> QED
      BY <2>3, <2>5, <3>1
  <2>7. CASE RefreshLoad(p)
    BY <2>3, <2>4, <2>5, <2>7 DEF RefreshLoad, Verifies
  <2> QED
    BY <1>5, <2>6, <2>7
<1> QED
  BY <1>4, <1>5

\* serve-dataplane starts without a snapshot.
LEMMA GatewayStep ==
    ASSUME Typed, GatewayStart
    PROVE  Alone(gateway)
<1>1. "up" \in Lives /\ gateway \in Procs /\ gateway \notin Workers
  BY Members DEF Lives
<1>2. /\ proc' = [proc EXCEPT ![gateway] = Life("up")] /\ ~Runs(gateway)
      /\ UNCHANGED <<cvars, current, stamp, ctl, phase, restored>>
  BY DEF GatewayStart, evars
<1>3. Life("up") \in ProcState /\ Life("up").snapshot = None
  BY <1>1, LifeTyped
<1>4. Loses(gateway)
  BY <1>1, <1>2, <1>3, ProcUpdate DEF Loses
<1> QED
  BY <1>1, <1>2, <1>3, <1>4, ProcUpdate DEF Alone

\* The data plane ends with all its processes.
Ended ==
    /\ proc' = [p \in Procs |-> Off] /\ proc' \in [Procs -> ProcState]
    /\ phase' = "closed"
    /\ ctl' = IF ctl.pc = "wait" THEN [ctl EXCEPT !.asked = {}] ELSE ctl
    /\ UNCHANGED <<cvars, current, stamp, restored>>

\* The pool's failure and the data plane's end stop every process at once.
LEMMA StoppedStep ==
    ASSUME Typed, PoolFailed \/ DataplaneStop
    PROVE  Ended
<1>1. Off \in ProcState
  <2>1. None \in SnapshotOrNone /\ None \in Stamps /\ 0 \in Nat /\ "off" \in Lives
    BY DEF SnapshotOrNone, Stamps, Lives
  <2> QED
    BY <2>1 DEF Off, ProcState
<1> QED
  BY <1>1 DEF Ended, PoolFailed, DataplaneStop, Stopped, evars

-----------------------------------------------------------------------------
(* The console's steps, and those that only move the data plane's phase.    *)

ProcessSteps ==
    \/ GatewayStart
    \/ \E w \in Workers : Spawn(w) \/ Ready(w) \/ WorkerCrash(w)
    \/ \E p \in Procs : RefreshStat(p) \/ RefreshLoad(p) \/ RefreshUnreadable(p)

\* Whatever a process does, it moves alone.
LEMMA ProcessStep ==
    ASSUME Typed, ProcessSteps
    PROVE  \E p \in Procs : Alone(p)
  BY GatewayStep, SpawnStep, RefreshStep, Members DEF ProcessSteps

\* The newest revision that was ever written.
LEMMA LatestIsNewest ==
    ASSUME Typed, HistoryOrdered
    PROVE  Latest \in Nat /\ \A s \in history : s.revision <= Latest
<1> DEFINE R == {s.revision : s \in history}
<1>1. \A x \in R : x \in Nat
  BY DEF Typed, Snapshots
<1>2. PICK s \in history : \A t \in history : t.revision <= s.revision
  BY DEF HistoryOrdered
<1>3. s.revision \in R /\ \A y \in R : s.revision >= y
  BY <1>1, <1>2
<1>4. Latest \in R /\ \A y \in R : Latest >= y
  BY <1>3 DEF Latest, Max
<1>5. \A t \in history : t.revision \in R
  OBVIOUS
<1> HIDE DEF R
<1> QED
  BY <1>1, <1>4, <1>5

\* Where publish goes next.
LEMMA AfterTyped ==
    ASSUME NEW revision \in Nat, ctl.after \in Afters
    PROVE  /\ After(revision) \in Controls /\ After(revision).pc # "pointer"
           /\ After(revision).pc = "wait" =>
                After(revision).revision = revision /\ After(revision).asked = {}
<1>1. CASE ctl.after = "wait"
  <2>1. After(revision) = [pc |-> "wait", revision |-> revision, asked |-> {}]
    BY <1>1 DEF After
  <2> QED
    BY <2>1 DEF Controls, Asking
<1>2. CASE ctl.after # "wait"
  <2>1. After(revision) = [pc |-> ctl.after] /\ ctl.after \in {"up", "down"}
    BY <1>2 DEF After, Afters
  <2> QED
    BY <2>1 DEF Controls, Resting
<1> QED
  BY <1>1, <1>2

\* publish done: what wait_applied will wait for is the revision current.json now has.
LEMMA AfterPublish ==
    ASSUME Typed, PublishUnchanged \/ PublishPointer
    PROVE  /\ ctl' \in Controls /\ ctl'.pc # "pointer"
           /\ ctl'.pc = "wait" => ctl'.revision = current'.revision /\ ctl'.asked = {}
           /\ ctl.pc # "down" /\ UNCHANGED cvars
<1>1. CASE PublishUnchanged
  <2>1. /\ current.revision \in Nat /\ ctl' = After(current.revision) /\ current' = current
        /\ ctl \in Publishing /\ ctl.pc = "publish" /\ UNCHANGED cvars
    BY <1>1, ControlKinds DEF PublishUnchanged, Typed, Snapshots
  <2> QED
    BY <2>1, AfterTyped DEF Publishing
<1>2. CASE PublishPointer
  <2>1. /\ ctl' = After(ctl.snapshot.revision) /\ current' = ctl.snapshot
        /\ ctl \in Pointing /\ ctl.pc = "pointer" /\ UNCHANGED cvars
    BY <1>2, ControlKinds DEF PublishPointer
  <2>2. ctl.snapshot.revision \in Nat /\ ctl.after \in Afters
    BY <2>1 DEF Pointing, Snapshots
  <2> QED
    BY <2>1, <2>2, AfterTyped
<1> QED
  BY <1>1, <1>2

\* A new snapshot, above all others.
LEMMA NewSnapshot ==
    ASSUME Typed, HistoryOrdered, PublishHistory
    PROVE  \E s \in Snapshots :
             /\ history' = history \cup {s} /\ s.policy = saved /\ s.revision > 0
             /\ \A t \in history : t.revision < s.revision
             /\ ctl'.pc = "pointer" /\ ctl'.snapshot = s /\ ctl' \in Controls
<1> DEFINE s == [revision |-> Latest + 1, connection |-> conn, policy |-> saved, key |-> signer]
<1>1. Latest \in Nat /\ \A t \in history : t.revision <= Latest /\ t.revision \in Nat
  BY LatestIsNewest DEF Typed, Snapshots
<1>2. ctl \in Publishing
  BY ControlKinds DEF PublishHistory
<1>3. signer \in Nat
  BY DEF PublishHistory, Typed
<1>4. s \in Snapshots /\ s.policy = saved /\ s.revision = Latest + 1
  BY <1>1, <1>3 DEF Typed, Snapshots
<1>5. /\ history' = history \cup {s}
      /\ ctl' = [pc |-> "pointer", after |-> ctl.after, snapshot |-> s]
  BY DEF PublishHistory
<1> HIDE DEF s
<1>6. ctl' \in Pointing /\ ctl'.pc = "pointer" /\ ctl'.snapshot = s
  BY <1>2, <1>4, <1>5 DEF Publishing, Pointing
<1> QED
  BY <1>1, <1>4, <1>5, <1>6 DEF Controls

\* The pool's phase moves on while a gateway that has a snapshot runs.
PhaseSteps ==
    /\ phase' \in {"starting", "serving"}
    /\ phase # "closed" \/ (Runs(gateway) /\ proc[gateway].snapshot # None)
    /\ UNCHANGED <<cvars, current, stamp, ctl, proc, restored>>

ControlSteps ==
    \/ ControlStart \/ Apply \/ \E c \in Conns : ActivateConfig(c)
    \/ PublishUnchanged \/ PublishHistory \/ PublishPointer
    \/ GiveUp \/ \E p \in Procs : AskRevision(p)
    \/ ControlCrash \/ LoseKeys
    \/ \E s \in history \cup {Garbage} : ReplaceCurrent(s)

\* Every step is one process's, the data plane's end, the pool's, or the console's.
LEMMA StepKinds ==
    ASSUME Typed, [Next]_vars
    PROVE  \/ \E p \in Procs : Alone(p)
           \/ Ended
           \/ PhaseSteps
           \/ ControlSteps /\ UNCHANGED dvars
           \/ UNCHANGED vars
<1>1. CASE ProcessSteps
  BY <1>1, ProcessStep
<1>2. CASE PoolFailed \/ DataplaneStop
  BY <1>2, StoppedStep
<1>3. CASE StartPool \/ PoolReady
  BY <1>3 DEF StartPool, PoolReady, PhaseSteps, evars
<1>4. CASE ControlSteps
  BY <1>4 DEF ControlSteps, ControlStart, Apply, ActivateConfig, PublishUnchanged,
     PublishHistory, PublishPointer, GiveUp, AskRevision, ControlCrash, LoseKeys,
     ReplaceCurrent
<1> QED
  BY <1>1, <1>2, <1>3, <1>4 DEF Next, ProcessSteps, ControlSteps

-----------------------------------------------------------------------------
(* Types.                                                                   *)

\* The console goes on with a step of its own, and signs only with a key.
LEMMA ControlTyped ==
    ASSUME Typed, HistoryOrdered, ControlSteps
    PROVE  /\ ctl' \in Controls /\ signer' \in Nat \cup {None}
           /\ ctl'.pc # "down" => signer' \in Nat
<1>1. CASE ControlStart \/ \E c \in Conns : ActivateConfig(c)
  <2>1. signer' \in Nat
    BY <1>1 DEF ControlStart, ActivateConfig, EnsureSigningKey, Typed
  <2>2. ctl' \in Publishing
    BY <1>1 DEF ControlStart, ActivateConfig, Publishing, Afters
  <2> QED
    BY <2>1, <2>2 DEF Controls
<1>2. CASE Apply
  <2>1. ctl' \in Publishing /\ ctl.pc # "down" /\ signer' = signer
    BY <1>2 DEF Apply, Publishing, Afters
  <2> QED
    BY <2>1 DEF Controls, Typed
<1>3. CASE PublishUnchanged \/ PublishPointer
  BY <1>3, AfterPublish DEF Typed, cvars
<1>4. CASE PublishHistory
  <2>1. ctl' \in Controls
    BY <1>4, NewSnapshot
  <2>2. ctl.pc # "down" /\ signer' = signer
    BY <1>4 DEF PublishHistory
  <2> QED
    BY <2>1, <2>2 DEF Typed
<1>5. CASE GiveUp \/ ControlCrash
  <2>1. ctl' \in Resting /\ ctl.pc # "down" /\ signer' = signer
    BY <1>5 DEF GiveUp, ControlCrash, Resting, cvars
  <2> QED
    BY <2>1 DEF Typed, Controls
<1>6. ASSUME NEW p \in Procs, AskRevision(p)
      PROVE  ctl' \in Controls /\ ctl.pc # "down" /\ signer' = signer
  <2>1. ctl \in Asking /\ ctl.pc # "down" /\ signer' = signer
    BY <1>6, ControlKinds DEF AskRevision
  <2>2. CASE ctl' = [pc |-> "up"]
    BY <2>1, <2>2 DEF Controls, Resting
  <2>3. CASE \E asked \in SUBSET Procs : ctl' = [ctl EXCEPT !.asked = asked]
    <3>1. ctl' \in Asking
      BY <2>1, <2>3 DEF Asking
    <3> QED
      BY <2>1, <3>1 DEF Controls
  <2>4. ctl.asked \cup {p} \in SUBSET Procs /\ {} \in SUBSET Procs
    BY <2>1 DEF Asking
  <2> QED
    BY <1>6, <2>2, <2>3, <2>4 DEF AskRevision
<1>7. CASE LoseKeys
  BY <1>7 DEF LoseKeys, Typed
<1>8. CASE \E s \in history \cup {Garbage} : ReplaceCurrent(s)
  BY <1>8 DEF ReplaceCurrent, cvars, Typed
<1> QED
  BY <1>1, <1>2, <1>3, <1>4, <1>5, <1>6, <1>7, <1>8 DEF ControlSteps, Typed

\* Every variable keeps a value of its kind.
LEMMA TypedStep ==
    ASSUME Typed, HistoryOrdered, [Next]_vars
    PROVE  Typed'
<1>1. ASSUME NEW p \in Procs, Alone(p)
      PROVE  Typed'
  BY <1>1 DEF Alone, Typed, cvars
<1>2. CASE Ended
  <2>1. ctl' \in Controls /\ ctl'.pc = ctl.pc
    <3>1. CASE ctl.pc = "wait"
      <4>1. ctl \in Asking /\ ctl' = [ctl EXCEPT !.asked = {}] /\ {} \in SUBSET Procs
        BY <1>2, <3>1, ControlKinds DEF Ended
      <4>2. ctl' \in Asking /\ ctl'.pc = ctl.pc
        BY <4>1 DEF Asking
      <4> QED
        BY <4>2 DEF Controls
    <3>2. CASE ctl.pc # "wait"
      BY <1>2, <3>2 DEF Ended, Typed
    <3> QED
      BY <3>1, <3>2
  <2> QED
    BY <1>2, <2>1 DEF Ended, Typed, cvars
<1>3. CASE PhaseSteps
  BY <1>3 DEF PhaseSteps, Typed, cvars
<1>4. CASE ControlSteps /\ UNCHANGED dvars
  <2>1. /\ conn' \in Conns /\ saved' \in Nat /\ acked' \in Nat /\ keys' \in Nat
        /\ stamp' \in Nat /\ restored' \in BOOLEAN
    <3>1. CASE ControlStart \/ Apply \/ \E c \in Conns : ActivateConfig(c)
      BY <3>1 DEF ControlStart, Apply, ActivateConfig, EnsureSigningKey, Typed, evars
    <3>2. CASE PublishUnchanged \/ PublishHistory \/ PublishPointer
      BY <3>2 DEF PublishUnchanged, PublishHistory, PublishPointer, Typed, cvars, evars
    <3>3. CASE \E p \in Procs : AskRevision(p)
      BY <3>3 DEF AskRevision, Typed, evars
    <3>4. CASE GiveUp \/ ControlCrash \/ LoseKeys
      BY <3>4 DEF GiveUp, ControlCrash, LoseKeys, Typed, cvars, evars
    <3>5. CASE \E s \in history \cup {Garbage} : ReplaceCurrent(s)
      BY <3>5 DEF ReplaceCurrent, Typed, cvars
    <3> QED
      BY <1>4, <3>1, <3>2, <3>3, <3>4, <3>5 DEF ControlSteps
  <2>2. history' \subseteq Snapshots
    <3>1. CASE PublishHistory
      BY <3>1, NewSnapshot DEF Typed
    <3>2. CASE history' = history
      BY <3>2 DEF Typed
    <3> QED
      BY <1>4, <3>1, <3>2 DEF ControlSteps, ControlStart, Apply, ActivateConfig,
         PublishUnchanged, PublishPointer, GiveUp, AskRevision, ControlCrash, LoseKeys,
         ReplaceCurrent, cvars
  <2>3. current' \in Snapshots
    <3>1. CASE PublishPointer
      BY <3>1, ControlKinds DEF PublishPointer, Pointing
    <3>2. CASE \E s \in history \cup {Garbage} : ReplaceCurrent(s)
      BY <3>2, Members DEF ReplaceCurrent, Typed
    <3>3. CASE current' = current
      BY <3>3 DEF Typed
    <3> QED
      BY <1>4, <3>1, <3>2, <3>3 DEF ControlSteps, ControlStart, Apply, ActivateConfig,
         PublishUnchanged, PublishHistory, GiveUp, AskRevision, ControlCrash, LoseKeys
  <2>4. /\ ctl' \in Controls /\ signer' \in Nat \cup {None}
        /\ ctl'.pc # "down" => signer' \in Nat
    BY <1>4, ControlTyped
  <2>5. phase' = phase /\ proc' = proc
    BY <1>4 DEF dvars
  <2> QED
    BY <2>1, <2>2, <2>3, <2>4, <2>5 DEF Typed
<1>5. CASE UNCHANGED vars
  BY <1>5 DEF vars, cvars, dvars, evars, Typed
<1> QED
  BY <1>1, <1>2, <1>3, <1>4, <1>5, StepKinds

-----------------------------------------------------------------------------
(* One connection.                                                          *)

\* The revision a process reports is that of its snapshot.
LEMMA RevisionReported ==
    ASSUME NEW p \in Procs
    PROVE  /\ Revision(p) > 0 =>
                Runs(p) /\ proc[p].snapshot # None /\ Revision(p) = proc[p].snapshot.revision
           /\ Revision(p)' > 0 =>
                /\ Runs(p)' /\ proc'[p].snapshot # None
                /\ Revision(p)' = proc'[p].snapshot.revision
<1>1. ~(0 > 0)
  OBVIOUS
<1> QED
  BY <1>1 DEF Revision

\* A process that is off has no snapshot.
LEMMA OffIsIdle == Off.life = "off" /\ Off.snapshot = None
  BY DEF Off

\* Workers stay beside a gateway with a snapshot, and with its connection.
LEMMA PoolStep ==
    ASSUME Typed, Pool, OneConnection, [Next]_vars
    PROVE  Pool' /\ OneConnection'
<1>1. CASE UNCHANGED dvars
  BY <1>1 DEF Pool, OneConnection, Revision, Runs, dvars
<1>2. ASSUME NEW p \in Workers, Alone(p)
      PROVE  Pool' /\ OneConnection'
  <2>1. gateway \in Procs /\ p \in Procs /\ p # gateway /\ Workers \subseteq Procs
    BY Members
  <2>2. /\ \A q \in Procs : q # p => proc'[q] = proc[q]
        /\ phase' = phase /\ phase # "closed"
    BY <1>2, OffIsIdle DEF Alone, Pool
  <2>3. Pool'
    BY <2>1, <2>2 DEF Pool, Runs
  <2>4. Revision(p)' > 0 => proc'[p].snapshot.connection = proc[gateway].snapshot.connection
    <3>1. CASE Keeps(p)
      BY <1>2, <2>1, <3>1 DEF Keeps, Revision, OneConnection
    <3>2. CASE Loads(p)
      BY <1>2, <3>2 DEF Loads, Acceptable
    <3>3. CASE Loses(p)
      BY <2>1, <3>3, RevisionReported DEF Loses
    <3> QED
      BY <1>2, <3>1, <3>2, <3>3 DEF Alone
  <2>5. \A w \in Workers : w # p => (Revision(w)' = Revision(w) /\ proc'[w] = proc[w])
    BY <2>1, <2>2 DEF Revision, Runs
  <2>6. proc'[gateway] = proc[gateway]
    BY <2>1, <2>2
  <2> QED
    BY <2>3, <2>4, <2>5, <2>6 DEF OneConnection
<1>3. CASE Alone(gateway)
  <2>1. gateway \in Procs /\ gateway \notin Workers /\ Workers \subseteq Procs
    BY Members
  <2>2. /\ \A w \in Workers : proc'[w] = proc[w]
        /\ phase' = phase
    BY <1>3, <2>1 DEF Alone
  <2>3. CASE phase = "closed"
    <3>1. \A w \in Workers : proc'[w] = Off /\ ~(Revision(w)' > 0)
      BY <2>1, <2>2, <2>3, OffIsIdle, RevisionReported DEF Pool, Runs
    <3> QED
      BY <2>2, <2>3, <3>1 DEF Pool, OneConnection
  <2>4. CASE phase # "closed"
    <3>1. Runs(gateway) /\ proc[gateway].snapshot # None
      BY <2>4 DEF Pool
    <3>2. CASE Keeps(gateway)
      BY <2>2, <2>4, <3>1, <3>2 DEF Keeps, Pool, OneConnection, Revision, Runs
    <3>3. CASE Loads(gateway)
      <4>1. /\ Runs(gateway)' /\ proc'[gateway].snapshot # None
            /\ proc'[gateway].snapshot.connection = proc[gateway].snapshot.connection
        BY <3>1, <3>3, NoneAssumption DEF Loads, Acceptable, Typed
      <4> QED
        BY <2>2, <2>4, <4>1 DEF Pool, OneConnection, Revision, Runs
    <3>4. CASE Loses(gateway)
      BY <3>1, <3>4 DEF Loses
    <3> QED
      BY <1>3, <3>2, <3>3, <3>4 DEF Alone
  <2> QED
    BY <2>3, <2>4
<1>4. CASE Ended
  <2>1. \A w \in Workers : proc'[w] = Off /\ ~(Revision(w)' > 0)
    BY <1>4, Members, OffIsIdle, RevisionReported DEF Ended, Runs
  <2> QED
    BY <1>4, <2>1 DEF Ended, Pool, OneConnection
<1>5. CASE PhaseSteps
  <2>1. phase' # "closed" /\ Runs(gateway) /\ proc[gateway].snapshot # None /\ proc' = proc
    BY <1>5 DEF PhaseSteps, Pool
  <2> QED
    BY <2>1 DEF Pool, OneConnection, Revision, Runs
<1> QED
  BY <1>1, <1>2, <1>3, <1>4, <1>5, StepKinds, Members DEF vars, dvars

-----------------------------------------------------------------------------
(* The history.                                                             *)

\* Steps of processes and of the pool leave the console's files alone.
LEMMA FilesAlone ==
    ASSUME NEW p, Alone(p) \/ Ended \/ PhaseSteps
    PROVE  UNCHANGED <<cvars, current, restored>>
  BY DEF Alone, Ended, PhaseSteps

\* What a step does to the history and to the saved policy.
LEMMA HistoryGrows ==
    ASSUME Typed, HistoryOrdered, FromHistory, [Next]_vars
    PROVE  /\ saved' >= saved /\ history \subseteq history'
           /\ \/ history' = history
              \/ /\ saved' = saved
                 /\ \E s \in Snapshots :
                      /\ history' = history \cup {s} /\ s.policy = saved /\ s.revision > 0
                      /\ \A t \in history : t.revision < s.revision
<1>1. CASE PublishHistory
  <2>1. saved' = saved /\ saved \in Nat
    BY <1>1 DEF PublishHistory, Typed
  <2> QED
    BY <1>1, <2>1, NewSnapshot
<1>2. CASE ControlSteps /\ ~PublishHistory
  BY <1>2 DEF ControlSteps, ControlStart, Apply, ActivateConfig, PublishUnchanged,
     PublishPointer, GiveUp, AskRevision, ControlCrash, LoseKeys, ReplaceCurrent,
     Typed, cvars
<1>3. CASE UNCHANGED cvars
  BY <1>3 DEF Typed, cvars
<1> QED
  BY <1>1, <1>2, <1>3, StepKinds, FilesAlone DEF vars

\* publish appends to the history above everything in it.
LEMMA HistoryStep ==
    ASSUME Typed, HistoryOrdered, RevisionNamesContent, FromHistory, [Next]_vars
    PROVE  HistoryOrdered' /\ RevisionNamesContent'
<1>1. /\ saved \in Nat /\ saved' \in Nat
      /\ \A s \in history : s.revision \in Nat /\ s.policy \in Nat
  BY TypedStep DEF Typed, Snapshots
<1>2. CASE history' = history
  <2>1. saved' >= saved
    BY HistoryGrows
  <2> QED
    BY <1>1, <1>2, <2>1 DEF HistoryOrdered, RevisionNamesContent
<1>3. ASSUME NEW s \in Snapshots, saved' = saved,
             history' = history \cup {s}, s.policy = saved, s.revision > 0,
             \A t \in history : t.revision < s.revision
      PROVE  HistoryOrdered' /\ RevisionNamesContent'
  <2>1. s.revision \in Nat /\ s.policy \in Nat /\ s \in history'
    BY <1>3 DEF Snapshots
  <2>2. \A t \in history' : t.revision <= s.revision
    BY <1>1, <1>3, <2>1
  <2>3. \A t \in history' : t.revision > 0 /\ t.policy <= saved'
    BY <1>1, <1>3, <2>1 DEF HistoryOrdered
  <2>4. ASSUME NEW t \in history', NEW u \in history', t.revision <= u.revision
        PROVE  t.policy <= u.policy
    <3>1. CASE u = s
      BY <1>3, <2>3, <3>1
    <3>2. CASE u # s
      <4>1. u \in history /\ t \in history
        BY <1>1, <1>3, <2>1, <2>4, <3>2
      <4> QED
        BY <2>4, <4>1 DEF HistoryOrdered
    <3> QED
      BY <3>1, <3>2
  <2>5. ASSUME NEW t \in history', NEW u \in history', t.revision = u.revision
        PROVE  t = u
    <3>1. CASE t = s \/ u = s
      BY <1>1, <1>3, <2>1, <2>5, <3>1
    <3>2. CASE t # s /\ u # s
      BY <1>3, <2>5, <3>2 DEF RevisionNamesContent
    <3> QED
      BY <3>1, <3>2
  <2> QED
    BY <2>1, <2>2, <2>3, <2>4, <2>5 DEF HistoryOrdered, RevisionNamesContent
<1> QED
  BY <1>2, <1>3, HistoryGrows

\* What is current, enforced, or about to be named was written to the history.
LEMMA FromHistoryStep ==
    ASSUME Typed, HistoryOrdered, FromHistory, [Next]_vars
    PROVE  FromHistory'
<1>1. history \subseteq history'
  BY HistoryGrows
<1>2. current' \in history' \cup {Garbage}
  <2>1. CASE PublishPointer
    BY <1>1, <2>1 DEF PublishPointer, FromHistory
  <2>2. CASE \E s \in history \cup {Garbage} : ReplaceCurrent(s)
    BY <1>1, <2>2 DEF ReplaceCurrent
  <2>3. CASE current' = current
    BY <1>1, <2>3 DEF FromHistory
  <2>4. CASE ControlSteps
    BY <2>1, <2>2, <2>3, <2>4 DEF ControlSteps, ControlStart, Apply, ActivateConfig,
       PublishUnchanged, PublishHistory, GiveUp, AskRevision, ControlCrash, LoseKeys
  <2> QED
    BY <2>3, <2>4, StepKinds, FilesAlone DEF vars
<1>3. \A p \in Procs : proc'[p].snapshot \in history' \cup {None}
  <2>1. ASSUME NEW p \in Procs, Alone(p)
        PROVE  \A q \in Procs : proc'[q].snapshot \in history' \cup {None}
    <3>1. proc'[p].snapshot \in history \cup {None}
      BY <2>1 DEF Alone, Keeps, Loads, Loses, FromHistory
    <3>2. \A q \in Procs : q # p => proc'[q] = proc[q]
      BY <2>1 DEF Alone
    <3> QED
      BY <1>1, <3>1, <3>2 DEF FromHistory
  <2>2. CASE Ended
    BY <2>2, OffIsIdle DEF Ended
  <2>3. CASE proc' = proc
    BY <1>1, <2>3 DEF FromHistory
  <2> QED
    BY <2>1, <2>2, <2>3, StepKinds DEF PhaseSteps, vars, dvars
<1>4. ASSUME ctl'.pc = "pointer"
      PROVE  /\ ctl'.snapshot \in history' /\ ctl'.snapshot.policy = saved'
             /\ \A t \in history' : t.revision <= ctl'.snapshot.revision
  <2>1. CASE PublishHistory
    <3>1. PICK s \in Snapshots :
             /\ history' = history \cup {s} /\ s.policy = saved
             /\ \A t \in history : t.revision < s.revision
             /\ ctl'.snapshot = s
      BY <2>1, NewSnapshot
    <3>2. saved' = saved /\ s.revision \in Nat /\ \A t \in history : t.revision \in Nat
      BY <2>1, <3>1 DEF PublishHistory, Typed, Snapshots
    <3> QED
      BY <3>1, <3>2
  <2>2. CASE ctl' = ctl /\ UNCHANGED <<history, saved>>
    BY <1>4, <2>2 DEF FromHistory
  <2>3. CASE Ended
    <3>1. ctl.pc # "wait"
      <4>1. SUFFICES ASSUME ctl.pc = "wait" PROVE ctl'.pc # "pointer"
        BY <1>4
      <4>2. ctl \in Asking /\ ctl' = [ctl EXCEPT !.asked = {}]
        BY <2>3, <4>1, ControlKinds DEF Ended
      <4> QED
        BY <4>2 DEF Asking
    <3>2. ctl' = ctl /\ UNCHANGED <<history, saved>>
      BY <2>3, <3>1 DEF Ended, cvars
    <3> QED
      BY <2>2, <3>2
  <2>4. CASE \E p \in Procs : AskRevision(p)
    <3>1. ctl \in Asking
      BY <2>4, ControlKinds DEF AskRevision
    <3> QED
      BY <1>4, <2>4, <3>1 DEF AskRevision, Asking
  <2>5. CASE PublishUnchanged \/ PublishPointer
    BY <1>4, <2>5, AfterPublish
  <2>6. CASE ControlStart \/ Apply \/ \E c \in Conns : ActivateConfig(c)
    BY <1>4, <2>6 DEF ControlStart, Apply, ActivateConfig
  <2>7. CASE GiveUp \/ ControlCrash \/ LoseKeys
    BY <1>4, <2>7 DEF GiveUp, ControlCrash, LoseKeys
  <2>8. CASE \E s \in history \cup {Garbage} : ReplaceCurrent(s)
    BY <2>2, <2>8 DEF ReplaceCurrent, cvars
  <2>9. CASE \/ \E p \in Procs : Alone(p)
             \/ PhaseSteps
             \/ UNCHANGED vars
    BY <2>2, <2>9 DEF Alone, PhaseSteps, vars, cvars
  <2> QED
    BY <2>1, <2>3, <2>4, <2>5, <2>6, <2>7, <2>8, <2>9, StepKinds DEF ControlSteps
<1> QED
  BY <1>2, <1>3, <1>4 DEF FromHistory

-----------------------------------------------------------------------------
(* What the console knows of the processes.                                 *)

\* A process reports what it did, a new revision or, started again, none.
LEMMA AloneRevision ==
    ASSUME Typed, NEW p \in Procs, Alone(p)
    PROVE  /\ \A q \in Procs : q # p => (Revision(q)' = Revision(q) /\ proc'[q] = proc[q])
           /\ \/ Revision(p)' = Revision(p) /\ proc'[p].snapshot = proc[p].snapshot
              \/ /\ current # Garbage /\ Runs(p) /\ Runs(p)' /\ Acceptable(p, current)
                 /\ Revision(p)' = current.revision /\ proc'[p].snapshot = current
              \/ /\ ~(Revision(p)' > 0) /\ ~(Runs(p) /\ Runs(p)')
                 /\ proc'[p].snapshot = None
<1>1. \A q \in Procs : q # p => (Revision(q)' = Revision(q) /\ proc'[q] = proc[q])
  BY DEF Alone, Revision, Runs
<1>2. CASE Keeps(p)
  BY <1>1, <1>2 DEF Keeps, Revision
<1>3. CASE Loads(p)
  <2>1. current # None
    BY NoneAssumption DEF Typed
  <2> QED
    BY <1>1, <1>3, <2>1 DEF Loads, Revision
<1>4. CASE Loses(p)
  BY <1>1, <1>4, RevisionReported DEF Loses
<1> QED
  BY <1>1, <1>2, <1>3, <1>4 DEF Alone

\* The answer that makes apply succeed: everybody has the policy.
LEMMA Answered ==
    ASSUME IInv, ~restored, phase = "serving", NEW p \in Procs, AskRevision(p),
           ctl'.pc # "wait"
    PROVE  \A q \in Procs : Revision(q) > 0 => proc[q].snapshot.policy >= saved
<1>1. ctl \in Asking /\ ctl.pc = "wait"
  BY ControlKinds DEF AskRevision, IInv
<1>2. /\ current \in history /\ current.revision = ctl.revision /\ current.policy = saved
      /\ \A q \in ctl.asked : Revision(q) > 0 => Revision(q) >= ctl.revision
  BY <1>1 DEF IInv, Learnt
<1>3. PICK asked \in {ctl.asked \cup {p}, {}} :
        /\ asked # {} => Revision(p) >= ctl.revision
        /\ Procs \subseteq asked
  <2> DEFINE a == IF Revision(p) >= ctl.revision THEN ctl.asked \cup {p} ELSE {}
  <2>1. CASE Procs \subseteq a
    BY <2>1
  <2>2. CASE ~(Procs \subseteq a)
    <3>1. ctl' = [ctl EXCEPT !.asked = a]
      BY <2>2 DEF AskRevision, Needed
    <3> HIDE DEF a
    <3>2. ctl'.pc = "wait"
      BY <1>1, <3>1 DEF Asking
    <3> QED
      BY <3>2
  <2> QED
    BY <2>1, <2>2
<1>4. asked = ctl.asked \cup {p} /\ Revision(p) >= ctl.revision
  BY <1>3
<1> SUFFICES ASSUME NEW q \in Procs, Revision(q) > 0
             PROVE  proc[q].snapshot.policy >= saved
  OBVIOUS
<1>5. Revision(q) >= ctl.revision
  BY <1>2, <1>3, <1>4
<1>6. Revision(q) = proc[q].snapshot.revision /\ proc[q].snapshot \in history
  BY RevisionReported DEF IInv, FromHistory
<1>7. \A s \in history : s.revision \in Nat /\ s.policy \in Nat
  BY DEF IInv, Typed, Snapshots
<1> QED
  BY <1>2, <1>5, <1>6, <1>7 DEF IInv, HistoryOrdered

\* What the console learnt outlives the crashes of those it asked.
LEMMA LearntStep ==
    ASSUME IInv, [Next]_vars
    PROVE  Learnt' /\ AppliedIsEnforced'
<1>1. /\ Typed /\ HistoryOrdered /\ FromHistory /\ Learnt /\ AppliedIsEnforced
      /\ saved \in Nat /\ acked \in Nat
      /\ current.policy \in Nat /\ current.revision \in Nat /\ restored \in BOOLEAN
  BY DEF IInv, Typed, Snapshots
<1>2. \A q \in Procs : UNCHANGED dvars => Revision(q)' = Revision(q)
  BY DEF Revision, Runs, dvars
<1>3. ASSUME NEW p \in Procs, Alone(p)
      PROVE  Learnt' /\ AppliedIsEnforced'
  <2>1. UNCHANGED <<saved, acked, history, current, ctl, restored>>
    BY <1>3 DEF Alone, cvars
  <2>2. CASE restored
    BY <1>1, <2>1, <2>2 DEF Learnt, AppliedIsEnforced
  <2>3. CASE ~restored
    <3>1. /\ current \in history /\ acked <= current.policy
          /\ ctl.pc = "wait" =>
               /\ current.revision = ctl.revision /\ current.policy = saved
               /\ \A q \in ctl.asked : Revision(q) > 0 => Revision(q) >= ctl.revision
          /\ \A q \in Procs : Revision(q) > 0 => proc[q].snapshot.policy >= acked
      BY <1>1, <2>3 DEF Learnt, AppliedIsEnforced
    <3>2. ctl.pc = "wait" => \A q \in ctl.asked : q \in Procs
      BY <1>1, ControlKinds DEF Asking
    <3>3. ctl.pc = "wait" =>
            \A q \in ctl.asked : Revision(q)' > 0 => Revision(q)' >= ctl.revision
      BY <1>1, <1>3, <3>1, <3>2, AloneRevision
    <3>4. \A q \in Procs : Revision(q)' > 0 => proc'[q].snapshot.policy >= acked
      BY <1>1, <1>3, <3>1, AloneRevision
    <3> QED
      BY <1>1, <2>1, <2>3, <3>1, <3>3, <3>4 DEF Learnt, AppliedIsEnforced
  <2> QED
    BY <2>2, <2>3
<1>4. CASE Ended
  <2>1. UNCHANGED <<saved, acked, history, current, restored>>
    BY <1>4 DEF Ended, cvars
  <2>2. \A q \in Procs : ~(Revision(q)' > 0)
    BY <1>4, OffIsIdle, RevisionReported DEF Ended, Runs
  <2>3. ctl'.pc = "wait" => ctl.pc = "wait" /\ ctl'.revision = ctl.revision /\ ctl'.asked = {}
    <3>1. CASE ctl.pc = "wait"
      <4>1. ctl \in Asking /\ ctl' = [ctl EXCEPT !.asked = {}]
        BY <1>1, <1>4, <3>1, ControlKinds DEF Ended
      <4> QED
        BY <3>1, <4>1 DEF Asking
    <3>2. CASE ctl.pc # "wait"
      BY <1>4, <3>2 DEF Ended
    <3> QED
      BY <3>1, <3>2
  <2> QED
    BY <1>1, <2>1, <2>2, <2>3 DEF Learnt, AppliedIsEnforced
<1>5. CASE UNCHANGED <<saved, acked, history, current, ctl, proc, restored>>
  <2>1. \A q : Revision(q)' = Revision(q)
    BY <1>5 DEF Revision, Runs
  <2> QED
    BY <1>1, <1>5, <2>1 DEF Learnt, AppliedIsEnforced
<1>6. ASSUME proc' = proc, acked' = acked, restored' = restored
      PROVE  AppliedIsEnforced'
  BY <1>1, <1>6 DEF AppliedIsEnforced, Revision, Runs
<1>7. CASE PublishUnchanged /\ UNCHANGED dvars
  <2>1. /\ UNCHANGED <<saved, acked, history, current, restored>>
        /\ current.policy = saved /\ current # Garbage
    BY <1>7 DEF PublishUnchanged, Unchanged, cvars, evars
  <2>2. ctl'.pc = "wait" => ctl'.revision = current.revision /\ ctl'.asked = {}
    BY <1>1, <1>7, <2>1, AfterPublish
  <2>3. Learnt'
    BY <1>1, <2>1, <2>2 DEF Learnt
  <2> QED
    BY <1>6, <1>7, <2>1, <2>3 DEF dvars
<1>8. CASE PublishPointer /\ UNCHANGED dvars
  <2>1. /\ UNCHANGED <<saved, acked, history, restored>>
        /\ ctl.pc = "pointer" /\ current' = ctl.snapshot
    BY <1>8 DEF PublishPointer, cvars, evars
  <2>2. current' \in history /\ current'.policy = saved
    BY <1>1, <2>1 DEF FromHistory
  <2>3. ctl'.pc = "wait" => ctl'.revision = current'.revision /\ ctl'.asked = {}
    BY <1>1, <1>8, AfterPublish
  <2>4. Learnt'
    BY <1>1, <2>1, <2>2, <2>3 DEF Learnt
  <2> QED
    BY <1>6, <1>8, <2>1, <2>4 DEF dvars
<1>9. ASSUME saved' >= saved, saved' \in Nat, UNCHANGED <<acked, current, proc, restored>>,
             history \subseteq history', ctl'.pc # "wait"
      PROVE  Learnt' /\ AppliedIsEnforced'
  <2>1. Learnt'
    BY <1>1, <1>9 DEF Learnt
  <2> QED
    BY <1>6, <1>9, <2>1
<1>10. CASE /\ \/ ControlStart \/ Apply \/ (\E c \in Conns : ActivateConfig(c))
               \/ PublishHistory \/ GiveUp \/ ControlCrash
            /\ UNCHANGED dvars
  <2>1. UNCHANGED <<acked, current, proc, restored>> /\ ctl'.pc # "wait"
    BY <1>10 DEF ControlStart, Apply, ActivateConfig, PublishHistory, GiveUp, ControlCrash,
       dvars, cvars, evars
  <2>2. saved' >= saved /\ history \subseteq history' /\ saved' \in Nat
    BY <1>1, HistoryGrows, TypedStep DEF Typed
  <2> QED
    BY <1>9, <2>1, <2>2
<1>11. CASE LoseKeys
  BY <1>5, <1>11 DEF LoseKeys, dvars
<1>12. ASSUME NEW s, ReplaceCurrent(s)
       PROVE  Learnt' /\ AppliedIsEnforced'
  <2>1. restored' /\ UNCHANGED <<saved, acked>>
    BY <1>12 DEF ReplaceCurrent, cvars
  <2> QED
    BY <1>1, <2>1 DEF Learnt, AppliedIsEnforced
<1>13. ASSUME NEW p \in Procs, AskRevision(p)
       PROVE  Learnt' /\ AppliedIsEnforced'
  <2>1. UNCHANGED <<saved, history, current, proc, restored>>
    BY <1>13 DEF AskRevision, dvars, evars
  <2>2. \A q : Revision(q)' = Revision(q)
    BY <2>1 DEF Revision, Runs
  <2>3. ctl \in Asking /\ ctl.pc = "wait"
    BY <1>1, <1>13, ControlKinds DEF AskRevision
  <2>4. CASE ctl'.pc = "wait"
    <3>1. PICK asked \in {ctl.asked \cup {p}, {}} :
            /\ asked # {} => Revision(p) >= ctl.revision
            /\ ctl' = [ctl EXCEPT !.asked = asked] /\ acked' = acked
      BY <1>13, <2>4 DEF AskRevision
    <3>2. ctl'.revision = ctl.revision /\ ctl'.asked = asked
      BY <2>3, <3>1 DEF Asking
    <3>3. ~restored =>
            /\ current.revision = ctl.revision /\ current.policy = saved
            /\ \A q \in asked : Revision(q) > 0 => Revision(q) >= ctl.revision
      BY <1>1, <2>3, <3>1 DEF Learnt
    <3> QED
      BY <1>1, <1>6, <2>1, <2>2, <3>1, <3>2, <3>3 DEF Learnt
  <2>5. CASE ctl'.pc # "wait"
    <3>1. acked' = IF phase = "serving" THEN saved ELSE acked
      <4> DEFINE a == IF Revision(p) >= ctl.revision THEN ctl.asked \cup {p} ELSE {}
      <4>1. CASE Needed \subseteq a
        BY <1>13, <4>1 DEF AskRevision
      <4>2. CASE ~(Needed \subseteq a)
        <5>1. ctl' = [ctl EXCEPT !.asked = a]
          BY <1>13, <4>2 DEF AskRevision
        <5> HIDE DEF a
        <5> QED
          BY <2>3, <2>5, <5>1 DEF Asking
      <4> QED
        BY <4>1, <4>2
    <3>2. CASE phase # "serving"
      BY <1>9, <2>1, <2>5, <3>1, <3>2, <1>1
    <3>3. CASE phase = "serving"
      <4>1. Learnt'
        BY <1>1, <2>1, <2>3, <2>5, <3>1, <3>3 DEF Learnt
      <4>2. restored \/ \A q \in Procs : Revision(q) > 0 => proc[q].snapshot.policy >= saved
        BY <1>13, <2>5, <3>3, Answered
      <4> QED
        BY <2>1, <2>2, <3>1, <3>3, <4>1, <4>2 DEF AppliedIsEnforced
    <3> QED
      BY <3>2, <3>3
  <2> QED
    BY <2>4, <2>5
<1>14. CASE PhaseSteps \/ UNCHANGED vars
  BY <1>5, <1>14 DEF PhaseSteps, vars, cvars, dvars, evars
<1>15. CASE ControlSteps /\ UNCHANGED dvars
  BY <1>7, <1>8, <1>10, <1>11, <1>12, <1>13, <1>15 DEF ControlSteps
<1> QED
  BY <1>1, <1>3, <1>4, <1>14, <1>15, StepKinds

-----------------------------------------------------------------------------
\* Right after `init' nothing runs, and one snapshot is published.
LEMMA InvariantInit == Init => IInv
<1> SUFFICES ASSUME Init PROVE IInv
  OBVIOUS
<1>1. First \in Snapshots /\ history = {First} /\ current = First
  BY Members DEF Init
<1>2. First.revision = 1 /\ First.policy = 1 /\ saved = 1 /\ acked = 0
  BY DEF Init, First
<1>3. Off \in ProcState /\ ctl \in Resting /\ ctl.pc = "down"
  <2>1. None \in SnapshotOrNone /\ None \in Stamps /\ 0 \in Nat /\ "off" \in Lives
    BY DEF SnapshotOrNone, Stamps, Lives
  <2> QED
    BY <2>1 DEF Off, ProcState, Init, Resting
<1>4. Typed
  BY <1>1, <1>3, PlaneAssumption DEF Init, Typed, Controls
<1>5. \A p \in Procs : proc[p] = Off /\ ~(Revision(p) > 0) /\ proc[p].snapshot = None
  BY OffIsIdle, RevisionReported DEF Init, Runs
<1>6. Pool /\ OneConnection /\ AppliedIsEnforced
  BY <1>5, Members DEF Init, Pool, OneConnection, AppliedIsEnforced
<1>7. HistoryOrdered /\ RevisionNamesContent
  BY <1>1, <1>2 DEF HistoryOrdered, RevisionNamesContent
<1>8. FromHistory /\ Learnt
  BY <1>1, <1>2, <1>3, <1>5 DEF FromHistory, Learnt
<1> QED
  BY <1>4, <1>6, <1>7, <1>8 DEF IInv

\* Each part of the invariant is kept by every step.
LEMMA InvariantStep == IInv /\ [Next]_vars => IInv'
<1> SUFFICES ASSUME IInv, [Next]_vars PROVE IInv'
  OBVIOUS
<1>1. Typed'
  BY TypedStep DEF IInv
<1>2. Pool' /\ OneConnection'
  BY PoolStep DEF IInv
<1>3. HistoryOrdered' /\ RevisionNamesContent' /\ FromHistory'
  BY HistoryStep, FromHistoryStep DEF IInv
<1>4. Learnt' /\ AppliedIsEnforced'
  BY LearntStep
<1> QED
  BY <1>1, <1>2, <1>3, <1>4 DEF IInv

\* In every reachable state of publishing, polling, dying and coming back, the
\* invariant holds.
THEOREM InvariantHolds == Spec => []IInv
<1>1. Init => IInv
  BY InvariantInit
<1>2. IInv /\ [Next]_vars => IInv'
  BY InvariantStep
<1> QED
  BY <1>1, <1>2, PTL DEF Spec

\* Once apply answered (wait_applied, dataplane.py status), no process that inspects
\* requests has an older policy, whichever died while the console was asking.
THEOREM AppliedPolicyIsEnforced == Spec => []AppliedIsEnforced
<1>1. IInv => AppliedIsEnforced
  BY DEF IInv
<1> QED
  BY <1>1, InvariantHolds, PTL

\* publish never writes two snapshots with one revision, although the console may
\* die between the history file and the pointer.
THEOREM RevisionsAreUnique == Spec => []RevisionNamesContent
<1>1. IInv => RevisionNamesContent
  BY DEF IInv
<1> QED
  BY <1>1, InvariantHolds, PTL

\* An inspector enforces the connection settings its gateway started with (the
\* pinned connection of refresh), also one that replaces another.
THEOREM ConnectionIsPinned == Spec => []OneConnection
<1>1. IInv => OneConnection
  BY DEF IInv
<1> QED
  BY <1>1, InvariantHolds, PTL

\* refresh keeps the last known good snapshot: what runs was published, and is never
\* followed by an older one or by none while the process lives.
THEOREM LastKnownGoodIsKept == Spec => LastKnownGood
<1> DEFINE Good(p) ==
      /\ proc'[p].snapshot # None => proc'[p].snapshot \in history
      /\ (Runs(p) /\ Runs(p)' /\ proc[p].snapshot # None) =>
           /\ proc'[p].snapshot # None
           /\ proc'[p].snapshot.revision >= proc[p].snapshot.revision
<1>1. ASSUME IInv, [Next]_vars
      PROVE  \A p \in Procs : Good(p)
  <2>1. Typed /\ FromHistory
    BY <1>1 DEF IInv
  <2>2. \A p \in Procs :
          proc[p].snapshot # None =>
            /\ proc[p].snapshot \in history /\ proc[p].snapshot.revision \in Nat
            /\ proc[p].snapshot.revision >= proc[p].snapshot.revision
    BY <2>1 DEF Typed, FromHistory, Snapshots
  <2>3. current.revision \in Nat /\ current # None
    BY <2>1, NoneAssumption DEF Typed, Snapshots
  <2>4. ASSUME NEW q \in Procs, Alone(q)
        PROVE  \A p \in Procs : Good(p)
    <3>1. Good(q)
      BY <2>1, <2>2, <2>3, <2>4 DEF Alone, Keeps, Loads, Loses, Acceptable, FromHistory
    <3>2. \A p \in Procs : p # q => proc'[p] = proc[p]
      BY <2>4 DEF Alone
    <3> QED
      BY <2>2, <3>1, <3>2
  <2>5. CASE Ended
    BY <2>5, OffIsIdle DEF Ended, Runs
  <2>6. CASE proc' = proc
    BY <2>2, <2>6
  <2> QED
    BY <2>1, <2>4, <2>5, <2>6, <1>1, StepKinds DEF PhaseSteps, vars, dvars
<1>2. IInv /\ [Next]_vars => [\A p \in Procs : Good(p)]_vars
  BY <1>1
<1> QED
  BY <1>2, InvariantHolds, PTL DEF Spec, LastKnownGood
=============================================================================
