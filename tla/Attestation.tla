----------------------------- MODULE Attestation -----------------------------
(***************************************************************************)
(* The trusted hop's attestation (inspection/identity.py) on its way        *)
(* through the inline inspection of a request (inspection/engine.py,        *)
(* server.py): the gateway signs a nonce with a lifetime; an inspection     *)
(* thread checks freshness against a clock reading, purges old nonces and   *)
(* inserts its own in one SQLite transaction, and releases the request to   *)
(* authorization only inside its deadline.  The threads share the nonce     *)
(* table, run in several processes, and may stall anywhere; timing out does *)
(* not stop one.  The same attestation may be presented any number of       *)
(* times.                                                                   *)
(***************************************************************************)
EXTENDS Integers

CONSTANTS
    Nonces, Threads,
    TTL,       \* lifetime the signer gives (expires_at - issued_at)
    MaxAge,    \* AttestationVerifier.max_age
    Skew,      \* how far in the future issued_at may lie
    Grace,     \* how long a nonce is kept after it expired
    Deadline,  \* the inspection deadline of one message
    Horizon,   \* bound: the clock stops here
    None

ASSUME TimeAssumption ==
    /\ TTL \in Int /\ MaxAge \in Nat /\ Skew \in Nat /\ Grace \in Nat
    /\ Deadline \in Nat /\ Horizon \in Nat
    /\ None \notin Int

\* A thread that is still inside its deadline when it inserts a nonce read its
\* clock too recently for the nonce to have been purged meanwhile.
ASSUME DeadlineAssumption == Deadline <= Grace + 2

VARIABLES
    now,
    issued,    \* issued_at of each signed nonce
    table,     \* nonces present in the database
    pc,        \* per thread: "idle", "started", "checked", "consumed"
    nonce,     \* the attestation the thread inspects
    started,   \* when its deadline began to run
    read,      \* verify's reading of the clock
    inserted,  \* history: nonces that were inserted at some time
    released   \* history: how often each nonce released a request

attestation == <<now, issued, table, pc, nonce, started, read, inserted, released>>

AttestationInit ==
    /\ now = 0
    /\ issued = [n \in Nonces |-> None]
    /\ table = {}
    /\ pc = [t \in Threads |-> "idle"]
    /\ nonce \in [Threads -> Nonces]
    /\ started = [t \in Threads |-> 0]
    /\ read = [t \in Threads |-> 0]
    /\ inserted = {}
    /\ released = [n \in Nonces |-> 0]

Tick ==
    /\ now < Horizon
    /\ now' = now + 1
    /\ UNCHANGED <<issued, table, pc, nonce, started, read, inserted, released>>

expires(n) == issued[n] + TTL

FreshIgnoringExpiry(n, c) ==
    /\ issued[n] <= c + Skew
    /\ expires(n) > issued[n]
    /\ expires(n) - issued[n] <= MaxAge

\* The freshness conditions of verify, at clock reading c.
Fresh(n, c) ==
    /\ issued[n] <= c + Skew
    /\ c < expires(n)
    /\ expires(n) > issued[n]
    /\ c - issued[n] <= MaxAge
    /\ expires(n) - issued[n] <= MaxAge

KeptNoGrace(c) == {n \in table : expires(n) >= c + 1}

\* The rows the purge keeps, for a verifier whose clock reading is c.
Kept(c) == {n \in table : expires(n) >= c - Grace}

\* sign_attestation, by a signer whose clock may differ.
Sign(n, at) ==
    /\ issued[n] = None
    /\ issued' = [issued EXCEPT ![n] = at]
    /\ UNCHANGED <<now, table, pc, nonce, started, read, inserted, released>>

\* An inspection thread gets a request that carries nonce n.
Start(t, n) ==
    /\ pc[t] = "idle" /\ issued[n] # None
    /\ pc' = [pc EXCEPT ![t] = "started"]
    /\ nonce' = [nonce EXCEPT ![t] = n]
    /\ started' = [started EXCEPT ![t] = now]
    /\ UNCHANGED <<now, issued, table, read, inserted, released>>

\* verify reads the clock and checks freshness.
Check(t) ==
    /\ pc[t] = "started"
    /\ read' = [read EXCEPT ![t] = now]
    /\ pc' = [pc EXCEPT ![t] = IF Fresh(nonce[t], now) THEN "checked" ELSE "idle"]
    /\ UNCHANGED <<now, issued, table, nonce, started, inserted, released>>

\* The SQLite transaction: purge and insert commit together; on a duplicate key
\* both roll back and the request is refused as a replay.
Consume(t) ==
    /\ pc[t] = "checked"
    /\ IF nonce[t] \in Kept(read[t])
       THEN /\ pc' = [pc EXCEPT ![t] = "idle"]
            /\ UNCHANGED <<table, inserted>>
       ELSE /\ table' = Kept(read[t]) \cup {nonce[t]}
            /\ inserted' = inserted \cup {nonce[t]}
            /\ pc' = [pc EXCEPT ![t] = "consumed"]
    /\ UNCHANGED <<now, issued, nonce, started, read, released>>

\* The database stayed locked, or the backend failed: the request is refused.
BackendFails(t) ==
    /\ pc[t] = "checked"
    /\ pc' = [pc EXCEPT ![t] = "idle"]
    /\ UNCHANGED <<now, issued, table, nonce, started, read, inserted, released>>

ReleaseLate(t) ==
    /\ pc[t] = "consumed"
    /\ released' = [released EXCEPT ![nonce[t]] = @ + 1]
    /\ pc' = [pc EXCEPT ![t] = "idle"]
    /\ UNCHANGED <<now, issued, table, nonce, started, read, inserted>>

\* check_deadline passes and the request goes on to the broker.
Release(t) ==
    /\ pc[t] = "consumed"
    /\ now - started[t] < Deadline
    /\ released' = [released EXCEPT ![nonce[t]] = @ + 1]
    /\ pc' = [pc EXCEPT ![t] = "idle"]
    /\ UNCHANGED <<now, issued, table, nonce, started, read, inserted>>

\* check_deadline raises: nobody waits for this thread's answer any more.
Late(t) ==
    /\ pc[t] = "consumed"
    /\ now - started[t] >= Deadline
    /\ pc' = [pc EXCEPT ![t] = "idle"]
    /\ UNCHANGED <<now, issued, table, nonce, started, read, inserted, released>>

AttestationNext ==
    \/ Tick
    \/ \E n \in Nonces, at \in 0 .. Horizon : Sign(n, at)
    \/ \E t \in Threads, n \in Nonces : Start(t, n)
    \/ \E t \in Threads :
         Check(t) \/ Consume(t) \/ BackendFails(t) \/ Release(t) \/ Late(t)

AttestationSpec == AttestationInit /\ [][AttestationNext]_attestation

-----------------------------------------------------------------------------
\* Every variable holds a value of its kind.
AttestationTypeOK ==
    /\ now \in 0 .. Horizon
    /\ issued \in [Nonces -> 0 .. Horizon \cup {None}]
    /\ table \subseteq Nonces /\ inserted \subseteq Nonces
    /\ pc \in [Threads -> {"idle", "started", "checked", "consumed"}]
    /\ nonce \in [Threads -> Nonces]
    /\ started \in [Threads -> 0 .. Horizon]
    /\ read \in [Threads -> 0 .. Horizon]
    /\ released \in [Nonces -> Nat]

\* One attestation releases at most one request, although purging by one process
\* may run between another's clock reading and its insert.
ReleasedOnce == \A n \in Nonces : released[n] <= 1

\* The purge never forgets a nonce that could still be presented: whatever was
\* inserted is in the table until the grace period after its expiry is over.
RememberedWhileFresh ==
    \A n \in inserted : n \in table \/ now > expires(n) + Grace

-----------------------------------------------------------------------------
(* The inductive invariant.                                                 *)

\* A thread that may still release what it inserted.
MayRelease(t, n) == pc[t] = "consumed" /\ nonce[t] = n /\ now - started[t] < Deadline

Clocks ==
    \A t \in Threads :
      /\ pc[t] # "idle" => issued[nonce[t]] # None /\ started[t] <= now
      /\ pc[t] \in {"checked", "consumed"} => started[t] <= read[t] /\ read[t] <= now
      /\ pc[t] = "checked" => read[t] < expires(nonce[t])

Inserted ==
    /\ table \subseteq inserted
    /\ \A n \in inserted : issued[n] # None
    /\ \A n \in Nonces : released[n] > 0 => n \in inserted
    /\ \A t \in Threads : pc[t] = "consumed" => nonce[t] \in inserted

\* At most one thread can release a nonce, and none once it was released.
OneLiveInsert ==
    \A n \in Nonces :
      /\ \A t, u \in Threads : MayRelease(t, n) /\ MayRelease(u, n) => t = u
      /\ released[n] > 0 => \A t \in Threads : ~MayRelease(t, n)

AttestationIInv ==
    AttestationTypeOK /\ Clocks /\ Inserted /\ RememberedWhileFresh /\ OneLiveInsert /\ ReleasedOnce
=============================================================================
