----------------------------- MODULE BrokerStore -----------------------------
(***************************************************************************)
(* FileAccessBrokerStore (access_broker/store.py): several processes (the   *)
(* data plane's inspectors and the console) share one JSON file.  Each      *)
(* keeps a copy in memory; a transaction takes an exclusive flock, reloads, *)
(* lets the broker decide on the copy, writes a temporary file, renames it  *)
(* over the old one and syncs the directory before the caller sees the      *)
(* result.  Within a process the RLock admits one thread at a time, so a    *)
(* process is one actor; threads that read its copy without the lock (get,  *)
(* list) are left out.                                                      *)
(*                                                                         *)
(* The store's content is abstracted to the approvals already spent, and a  *)
(* transaction to the broker's authorize on one of them.                    *)
(***************************************************************************)
EXTENDS Naturals

CONSTANTS
    Procs, Approvals,
    NoProcess,   \* the holder of a free flock
    MaxCalls,    \* bound: transactions a process starts
    MaxCrashes   \* bound: process crashes and power losses in one behaviour

VARIABLES
    disk,     \* the content a reader of the path finds
    durable,  \* the content that survives a power loss
    lock,     \* holder of the flock
    mem,      \* each process's copy
    pc, want, verdict,
    calls, crashes,
    allowed   \* how often the caller was told "allow", per approval

store == <<disk, durable, lock, mem, pc, want, verdict, calls, crashes, allowed>>

ASSUME StoreAssumption ==
    NoProcess \notin Procs /\ MaxCalls \in Nat /\ MaxCrashes \in Nat

Inside == {"loaded", "changed", "written", "replaced", "synced"}

StoreInit ==
    /\ disk = {} /\ durable = {}
    /\ lock = NoProcess
    /\ mem = [p \in Procs |-> {}]
    /\ pc = [p \in Procs |-> "idle"]
    /\ want \in [Procs -> Approvals]
    /\ verdict = [p \in Procs |-> "none"]
    /\ calls = [p \in Procs |-> 0]
    /\ crashes = 0
    /\ allowed = [a \in Approvals |-> 0]

\* The RLock is taken and the lock file opened; flock may block.
Begin(p, a) ==
    /\ pc[p] = "idle" /\ calls[p] < MaxCalls
    /\ calls' = [calls EXCEPT ![p] = @ + 1]
    /\ want' = [want EXCEPT ![p] = a]
    /\ pc' = [pc EXCEPT ![p] = "queued"]
    /\ UNCHANGED <<disk, durable, lock, mem, verdict, crashes, allowed>>

AcquireStale(p) ==
    /\ pc[p] = "queued" /\ lock = NoProcess
    /\ lock' = p
    /\ pc' = [pc EXCEPT ![p] = "loaded"]
    /\ UNCHANGED <<disk, durable, mem, want, verdict, calls, crashes, allowed>>

\* flock(LOCK_EX) and the reload under it.
Acquire(p) ==
    /\ pc[p] = "queued" /\ lock = NoProcess
    /\ lock' = p
    /\ mem' = [mem EXCEPT ![p] = disk]
    /\ pc' = [pc EXCEPT ![p] = "loaded"]
    /\ UNCHANGED <<disk, durable, want, verdict, calls, crashes, allowed>>

\* The transaction's body: the broker decides on the copy and marks it dirty (a
\* blocking decision is audited, so it is written too).
Body(p) ==
    /\ pc[p] = "loaded"
    /\ verdict' = [verdict EXCEPT ![p] = IF want[p] \in mem[p] THEN "block" ELSE "allow"]
    /\ mem' = [mem EXCEPT ![p] = @ \cup {want[p]}]
    /\ pc' = [pc EXCEPT ![p] = "changed"]
    /\ UNCHANGED <<disk, durable, lock, want, calls, crashes, allowed>>

\* _persist, first part: the temporary file is complete and synced.
WriteTemp(p) ==
    /\ pc[p] = "changed"
    /\ pc' = [pc EXCEPT ![p] = "written"]
    /\ UNCHANGED <<disk, durable, lock, mem, want, verdict, calls, crashes, allowed>>

\* _persist, second part: the rename is atomic for readers.
Replace(p) ==
    /\ pc[p] = "written"
    /\ disk' = mem[p]
    /\ pc' = [pc EXCEPT ![p] = "replaced"]
    /\ UNCHANGED <<durable, lock, mem, want, verdict, calls, crashes, allowed>>

SkipSync(p) ==
    /\ pc[p] = "replaced"
    /\ pc' = [pc EXCEPT ![p] = "synced"]
    /\ UNCHANGED <<disk, durable, lock, mem, want, verdict, calls, crashes, allowed>>

\* _persist, third part: the directory entry reaches the disk.
SyncDirectory(p) ==
    /\ pc[p] = "replaced"
    /\ durable' = disk
    /\ pc' = [pc EXCEPT ![p] = "synced"]
    /\ UNCHANGED <<disk, lock, mem, want, verdict, calls, crashes, allowed>>

\* The lock is released and the caller gets the decision.
Return(p) ==
    /\ pc[p] = "synced"
    /\ lock' = NoProcess
    /\ pc' = [pc EXCEPT ![p] = "idle"]
    /\ verdict' = [verdict EXCEPT ![p] = "none"]
    /\ allowed' = IF verdict[p] = "allow" THEN [allowed EXCEPT ![want[p]] = @ + 1] ELSE allowed
    /\ UNCHANGED <<disk, durable, mem, want, calls, crashes>>

FailKeepingLock(p) ==
    /\ pc[p] \in Inside \ {"synced"}
    /\ mem' = [mem EXCEPT ![p] = disk]
    /\ pc' = [pc EXCEPT ![p] = "idle"]
    /\ verdict' = [verdict EXCEPT ![p] = "none"]
    /\ UNCHANGED <<disk, durable, lock, want, calls, crashes, allowed>>

\* The body, the write, the rename or the directory sync raised: reload whatever
\* is on disk (after a failed directory sync that is the new content), unlock,
\* and let the exception reach the caller, who gets no decision.
Fail(p) ==
    /\ pc[p] \in Inside \ {"synced"}
    /\ mem' = [mem EXCEPT ![p] = disk]
    /\ lock' = NoProcess
    /\ pc' = [pc EXCEPT ![p] = "idle"]
    /\ verdict' = [verdict EXCEPT ![p] = "none"]
    /\ UNCHANGED <<disk, durable, want, calls, crashes, allowed>>

\* read_transaction: reload without the flock.
Read(p) ==
    /\ pc[p] = "idle"
    /\ mem' = [mem EXCEPT ![p] = disk]
    /\ UNCHANGED <<disk, durable, lock, pc, want, verdict, calls, crashes, allowed>>

\* A process dies and is restarted: the kernel drops its flock, __init__ reloads.
Crash(p) ==
    /\ pc[p] # "idle" /\ crashes < MaxCrashes
    /\ crashes' = crashes + 1
    /\ mem' = [mem EXCEPT ![p] = disk]
    /\ lock' = IF lock = p THEN NoProcess ELSE lock
    /\ pc' = [pc EXCEPT ![p] = "idle"]
    /\ verdict' = [verdict EXCEPT ![p] = "none"]
    /\ UNCHANGED <<disk, durable, want, calls, allowed>>

\* The host loses power: a rename whose directory was not synced may be undone.
PowerLoss ==
    /\ crashes < MaxCrashes
    /\ crashes' = crashes + 1
    /\ disk' \in {disk, durable}
    /\ durable' = disk'
    /\ mem' = [p \in Procs |-> disk']
    /\ lock' = NoProcess
    /\ pc' = [p \in Procs |-> "idle"]
    /\ verdict' = [p \in Procs |-> "none"]
    /\ UNCHANGED <<want, calls, allowed>>

\* The steps a running process takes by itself.
Progress(p) == Acquire(p) \/ Body(p) \/ WriteTemp(p) \/ Replace(p) \/ SyncDirectory(p) \/ Return(p)

StoreNext ==
    \/ \E p \in Procs, a \in Approvals : Begin(p, a)
    \/ \E p \in Procs : Progress(p)
    \/ \E p \in Procs : Fail(p)
    \/ \E p \in Procs : Read(p)
    \/ \E p \in Procs : Crash(p)
    \/ PowerLoss

StoreSpec == StoreInit /\ [][StoreNext]_store

\* A process that holds the lock keeps running; a free flock is eventually given
\* to a waiter.
StoreFairSpec == StoreSpec /\ \A p \in Procs : WF_store(Progress(p))

-----------------------------------------------------------------------------
\* Every variable holds a value of its kind, and the flock is held by the process
\* inside a transaction and by nobody else.
StoreTypeOK ==
    /\ disk \subseteq Approvals /\ durable \subseteq Approvals
    /\ lock \in Procs \cup {NoProcess}
    /\ \A p \in Procs : pc[p] \in Inside <=> lock = p
    /\ mem \in [Procs -> SUBSET Approvals]
    /\ pc \in [Procs -> {"idle", "queued"} \cup Inside]
    /\ want \in [Procs -> Approvals]
    /\ verdict \in [Procs -> {"none", "allow", "block"}]
    /\ calls \in [Procs -> 0 .. MaxCalls]
    /\ crashes \in 0 .. MaxCrashes
    /\ allowed \in [Approvals -> Nat]

\* Two processes, whatever fails or crashes between their steps, never both obtain
\* "allow" for one approval: no stale copy, lost update or rolled-back commit
\* lets it be spent again.
AllowedOnce == \A a \in Approvals : allowed[a] <= 1

\* What anyone was told or shown is stored: a decision is on disk and stays there
\* through power losses, and outside a transaction a process's copy holds nothing
\* that was not committed, so readers that take no lock (get_agent, list_approvals)
\* never see an aborted change.
SeenIsStored ==
    /\ \A a \in Approvals : allowed[a] > 0 => a \in durable /\ a \in disk
    /\ \A p \in Procs : pc[p] \in {"idle", "queued"} => mem[p] \subseteq disk

\* Every call ends, with a decision or an exception: no failure path keeps the
\* lock from the processes that wait for it.
EveryCallReturns == \A p \in Procs : pc[p] # "idle" ~> pc[p] = "idle"
=============================================================================
