------------------------------ MODULE Gateway ------------------------------
(***************************************************************************)
(* The adapter in front of Envoy (selfhost/gateway.py forward): a request   *)
(* is authenticated in a thread, checked against the data plane's admission *)
(* (selfhost/dataplane.py), waits for one of a few slots, is signed and     *)
(* sent once, and answered.  Keys are revoked, agents are switched off and  *)
(* the data plane closes and reopens meanwhile.                             *)
(*                                                                         *)
(* The event loop runs forward without interruption between two awaits, so  *)
(* the admission check and taking a free slot are one step.  A Semaphore is *)
(* locked while somebody waits for it; that is asyncio's, as is handing a   *)
(* released slot to a waiting request.                                      *)
(***************************************************************************)
EXTENDS AgentCredentials, Sequences

CONSTANTS
    Requests,
    Slots       \* gateway_max_inflight: requests in flight, and as many waiting

ASSUME SlotsAssumption == Slots \in Nat \ {0}

VARIABLES
    request,  \* per request: where forward is, its key, and what was true since it came
    free,     \* value of the semaphore slots
    open      \* admission: engine loaded, inspectors ready and evidence writable

vars == <<request, free, open, credentialVars>>

NoRequest == [pc |-> "off", key |-> NoCredential, agent |-> "none", sent |-> 0, since |-> {}]

Init ==
    /\ CredentialInit
    /\ request = [r \in Requests |-> NoRequest]
    /\ free = Slots /\ open = TRUE

\* History: a request remembers whether its key was active and the key's agent
\* enabled at some moment while it was authenticated, and whether admission was open
\* at some moment before it was sent.
Witnessed(q) ==
    LET key == q.pc \in {"lookup", "agent"} IN
    IF q.pc \in {"off", "sent", "done"} THEN q
    ELSE [q EXCEPT !.since = @ \cup
            (IF key /\ credential'[q.key].status = "active" THEN {"active"} ELSE {}) \cup
            (IF key /\ credential'[q.key].agent \in enabled' THEN {"enabled"} ELSE {}) \cup
            (IF open' THEN {"open"} ELSE {})]

\* request' is q for r; every other request only observes.
Becomes(r, q) ==
    request' = [x \in Requests |-> Witnessed(IF x = r THEN q ELSE request[x])]
Observe == request' = [x \in Requests |-> Witnessed(request[x])]

At(r, pc) == request[r].pc = pc
Waiters == {r \in Requests : At(r, "waiting")}
Answered(r) ==
    IF request[r].sent = 0 THEN [NoRequest EXCEPT !.pc = "done"]
    ELSE [NoRequest EXCEPT !.pc = "done", !.sent = request[r].sent, !.since = request[r].since]

-----------------------------------------------------------------------------
(* Authentication, in a thread.                                             *)

Arrive(r, c) ==
    /\ At(r, "off") /\ credential[c] # NoRow
    /\ UNCHANGED <<free, open, credentialVars>>
    /\ Becomes(r, [NoRequest EXCEPT !.pc = "lookup", !.key = c])

LookupAny(r) ==
    /\ At(r, "lookup")
    /\ UNCHANGED <<free, open, credentialVars>>
    /\ Becomes(r, IF credential[request[r].key] # NoRow
                  THEN [request[r] EXCEPT !.pc = "agent", !.agent = credential[request[r].key].agent]
                  ELSE Answered(r))

\* The key's row, if it is active: otherwise 401.
Lookup(r) ==
    /\ At(r, "lookup")
    /\ UNCHANGED <<free, open, credentialVars>>
    /\ Becomes(r, IF Active(request[r].key)
                  THEN [request[r] EXCEPT !.pc = "agent", !.agent = credential[request[r].key].agent]
                  ELSE Answered(r))

\* Its agent, if it is enabled: otherwise 401.
LookupAgent(r) ==
    /\ At(r, "agent")
    /\ UNCHANGED <<free, open, credentialVars>>
    /\ Becomes(r, IF Enabled(request[r].agent)
                  THEN [NoRequest EXCEPT !.pc = "admit", !.since = request[r].since]
                  ELSE Answered(r))

-----------------------------------------------------------------------------
(* Admission and slots.                                                     *)

Full == free = 0 \/ Waiters # {}

\* Refused: a route, header or encoding that is not supported, a closed data plane,
\* or no room to wait.  Otherwise the request takes a slot or waits for one.
Refuse(r) ==
    /\ At(r, "admit")
    /\ UNCHANGED <<free, open, credentialVars>>
    /\ Becomes(r, Answered(r))

Take(r) ==
    /\ At(r, "admit") /\ open /\ ~Full
    /\ free' = free - 1
    /\ UNCHANGED <<open, credentialVars>>
    /\ Becomes(r, [request[r] EXCEPT !.pc = "held"])

Wait(r) ==
    /\ At(r, "admit") /\ open /\ Full /\ Cardinality(Waiters) < Slots
    /\ UNCHANGED <<free, open, credentialVars>>
    /\ Becomes(r, [request[r] EXCEPT !.pc = "waiting"])

\* A released slot goes to a waiting request.
Wake(r) ==
    /\ At(r, "waiting") /\ free > 0
    /\ free' = free - 1
    /\ UNCHANGED <<open, credentialVars>>
    /\ Becomes(r, [request[r] EXCEPT !.pc = "held"])

\* gateway_admission_wait_ms is over.
GiveUp(r) ==
    /\ At(r, "waiting")
    /\ UNCHANGED <<free, open, credentialVars>>
    /\ Becomes(r, Answered(r))

-----------------------------------------------------------------------------
(* In flight.                                                               *)

\* The body is read, the request is signed and handed to Envoy.
Send(r) ==
    /\ At(r, "held")
    /\ UNCHANGED <<free, open, credentialVars>>
    /\ Becomes(r, [request[r] EXCEPT !.pc = "sent", !.sent = @ + 1])

FinishKeepingSlot(r) ==
    /\ request[r].pc \in {"held", "sent"}
    /\ free' = IF At(r, "sent") THEN free + 1 ELSE free
    /\ UNCHANGED <<open, credentialVars>>
    /\ Becomes(r, Answered(r))

\* The slot is released with the answer, whatever it is: the upstream's, a refusal
\* of body or answer, a transport error, or the timeout of the whole exchange.
\* Nothing is sent again.
Finish(r) ==
    /\ request[r].pc \in {"held", "sent"}
    /\ free' = free + 1
    /\ UNCHANGED <<open, credentialVars>>
    /\ Becomes(r, Answered(r))

-----------------------------------------------------------------------------
(* Around the gateway.                                                      *)

\* The pool's monitor or a failed evidence write closes admission, a healthy round or
\* a successful probe reopens it.
Toggle ==
    /\ open' = ~open
    /\ UNCHANGED <<free, credentialVars>>
    /\ Observe

Administer == CredentialNext /\ UNCHANGED <<free, open>> /\ Observe

Next ==
    \/ \E r \in Requests :
         \/ \E c \in Credentials : Arrive(r, c)
         \/ Lookup(r) \/ LookupAgent(r)
         \/ Refuse(r) \/ Take(r) \/ Wait(r) \/ Wake(r) \/ GiveUp(r)
         \/ Send(r) \/ Finish(r)
    \/ Toggle \/ Administer

Spec == Init /\ [][Next]_vars

-----------------------------------------------------------------------------
(* Properties.                                                              *)

\* Slots are conserved: each is free or held by one request in flight, and no more
\* requests wait than there are slots (gateway.py admission).
TypeOK ==
    /\ free \in 0 .. Slots
    /\ Cardinality({r \in Requests : request[r].pc \in {"held", "sent"}}) + free = Slots
    /\ Cardinality(Waiters) <= Slots
    /\ \A r \in Requests : request[r].pc \in
         {"off", "lookup", "agent", "admit", "waiting", "held", "sent", "done"}

\* What reaches Envoy was allowed after it arrived: its key was active, its key's
\* agent enabled and admission open at some moment since then, so revoking or
\* rotating a key, switching an agent off or closing admission stops every later
\* request ("revocation and disabling the agent block subsequent authentication",
\* docs/en/aisg.md).  It is sent once: "Never retries or bypasses Envoy".
SentWasAllowed ==
    \A r \in Requests :
      /\ request[r].sent <= 1
      /\ request[r].sent = 1 => request[r].since = {"active", "enabled", "open"}

=============================================================================
