--------------------------- MODULE GatewayProofs ---------------------------
(***************************************************************************)
(* What reaches Envoy was allowed after it arrived, slots are conserved and *)
(* a key is replaced once, for every number of requests, slots, keys,       *)
(* agents and administrators.  And the attestation that the gateway signs   *)
(* for a request releases one request only, for every number of inspection  *)
(* threads and nonces.                                                      *)
(***************************************************************************)
EXTENDS Gateway, Attestation, TLAPS, FiniteSetTheorems

Owners == Agents \cup {NoAgent}
Rows == [agent : Owners, status : {"none", "active", "expired", "revoked"},
         successor : SUBSET Credentials]
Reasons == {"active", "enabled", "open"}
Live == {"lookup", "agent", "admit", "waiting", "held"}
Pcs == {"off", "sent", "done"} \cup Live
Passes == [pc : Pcs, key : Credentials \cup {NoCredential}, agent : Owners,
           sent : {0, 1}, since : SUBSET Reasons]

CredentialTyped ==
    /\ credential \in [Credentials -> Rows] /\ enabled \subseteq Agents
    /\ admin \in [Admins -> Owners]

\* A key that has a successor is revoked, and has one only.
ReplacedIsRevoked ==
    \A c \in Credentials :
      \/ credential[c].successor = {}
      \/ credential[c].status = "revoked" /\ \E n : credential[c].successor = {n}

\* What forward has established about the request q, by the step it is at.
Established(q, rows) ==
    /\ q.pc \in {"lookup", "agent"} => q.key \in Credentials /\ rows[q.key] # NoRow
    /\ q.pc = "agent" => "active" \in q.since /\ q.agent = rows[q.key].agent
    /\ q.pc \in {"admit", "waiting", "held"} => {"active", "enabled"} \subseteq q.since
    /\ q.pc \in {"waiting", "held"} => "open" \in q.since
    /\ q.sent = 1 => q.since = Reasons
    /\ q.pc \in {"off"} \cup Live => q.sent = 0

\* What holds now has been witnessed.
UpToDate(q, rows, on, admission) ==
    /\ q.pc \in {"lookup", "agent"} =>
         /\ rows[q.key].status = "active" => "active" \in q.since
         /\ rows[q.key].agent \in on => "enabled" \in q.since
    /\ q.pc \in Live => (admission => "open" \in q.since)

RequestsSound ==
    /\ request \in [Requests -> Passes] /\ open \in BOOLEAN
    /\ \A r \in Requests : /\ Established(request[r], credential)
                           /\ UpToDate(request[r], credential, enabled, open)

InFlight == {r \in Requests : request[r].pc \in {"held", "sent"}}
SlotsConserved ==
    /\ free \in Nat /\ IsFiniteSet(InFlight) /\ IsFiniteSet(Waiters)
    /\ Cardinality(InFlight) + free = Slots /\ Cardinality(Waiters) <= Slots

IInv == CredentialTyped /\ ReplacedIsRevoked /\ RequestsSound /\ SlotsConserved

-----------------------------------------------------------------------------
(* Keys.                                                                    *)

\* A key that is not issued has no owner and no state.
LEMMA NoRowFacts ==
    NoRow \in Rows /\ NoRow.agent = NoAgent /\ NoRow.status = "none" /\ NoRow.successor = {}
  BY DEF NoRow, Rows, Owners

\* Every administrative step keeps the rows well formed, keeps who owns a key, and
\* gives a successor only to a key it revokes.
LEMMA CredentialStep ==
    ASSUME CredentialTyped, ReplacedIsRevoked, CredentialNext
    PROVE  /\ CredentialTyped' /\ ReplacedIsRevoked'
           /\ \A c \in Credentials : credential[c] # NoRow =>
                credential'[c] # NoRow /\ credential'[c].agent = credential[c].agent
<1> DEFINE SameKey ==
      \A c \in Credentials : credential[c] # NoRow =>
        credential'[c] # NoRow /\ credential'[c].agent = credential[c].agent
<1>0. /\ \A c \in Credentials :
           /\ credential[c] \in Rows /\ credential[c].agent \in Owners
           /\ credential[c].status \in {"none", "active", "expired", "revoked"}
           /\ credential[c].successor \in SUBSET Credentials
      /\ DOMAIN credential = Credentials
  BY DEF CredentialTyped, Rows
<1>1. ASSUME NEW m \in Admins, NEW a \in Agents, IssueBegin(m, a)
      PROVE  CredentialTyped' /\ ReplacedIsRevoked' /\ SameKey
  BY <1>1 DEF IssueBegin, CredentialTyped, ReplacedIsRevoked, Owners
<1>2. ASSUME NEW m \in Admins, NEW old \in Credentials \cup {NoCredential},
             NEW new \in Credentials, IssueCommit(m, old, new)
      PROVE  CredentialTyped' /\ ReplacedIsRevoked' /\ SameKey
  <2> DEFINE row == [NoRow EXCEPT !.agent = admin[m], !.status = "active"]
  <2>1. row \in Rows /\ row.status = "active" /\ row.successor = {} /\ row # NoRow
    <3>1. admin[m] \in Owners
      BY DEF CredentialTyped
    <3>2. row \in Rows /\ row.status = "active" /\ row.successor = {}
      BY <3>1, NoRowFacts DEF Rows
    <3>3. row.status # NoRow.status
      BY <3>2, NoRowFacts
    <3> QED
      BY <3>2, <3>3
  <2>2. credential[new] = NoRow /\ enabled' = enabled /\ admin' \in [Admins -> Owners]
    BY <1>2 DEF IssueCommit, CredentialTyped, Owners
  <2>3. \/ credential' = credential
        \/ credential' = [credential EXCEPT ![new] = row]
        \/ /\ old \in Credentials /\ Rotatable(old, admin[m])
           /\ credential' = [credential EXCEPT ![new] = row, ![old].status = "revoked",
                                               ![old].successor = @ \cup {new}]
    BY <1>2 DEF IssueCommit
  <2> HIDE DEF row
  <2>4. CASE credential' = credential
    BY <2>2, <2>4 DEF CredentialTyped, ReplacedIsRevoked
  <2>5. CASE credential' = [credential EXCEPT ![new] = row]
    BY <1>0, <2>1, <2>2, <2>5 DEF CredentialTyped, ReplacedIsRevoked
  <2>6. CASE /\ old \in Credentials /\ Rotatable(old, admin[m])
             /\ credential' = [credential EXCEPT ![new] = row, ![old].status = "revoked",
                                                 ![old].successor = @ \cup {new}]
    <3>1. old # new /\ credential[old].status \in {"active", "expired"}
      BY <2>2, <2>6, NoRowFacts DEF Rotatable
    <3> DEFINE gone == [credential[old] EXCEPT !.status = "revoked",
                                               !.successor = @ \cup {new}]
    <3>2. /\ gone \in Rows /\ gone.agent = credential[old].agent
          /\ gone.status = "revoked" /\ gone.successor = credential[old].successor \cup {new}
      <4> DEFINE r == credential[old]
      <4>1. r \in Rows /\ new \in Credentials /\ r.successor \in SUBSET Credentials
        BY <1>0, <2>6
      <4>2. gone = [r EXCEPT !.status = "revoked", !.successor = r.successor \cup {new}]
        OBVIOUS
      <4> HIDE DEF r, gone
      <4>3. /\ gone \in Rows /\ gone.agent = r.agent
            /\ gone.status = "revoked" /\ gone.successor = r.successor \cup {new}
        BY <4>1, <4>2 DEF Rows
      <4> QED
        BY <4>3 DEF r
    <3>3. credential[old].successor = {}
      BY <2>6, <3>1 DEF ReplacedIsRevoked
    <3>4. gone # NoRow
      BY <3>2, NoRowFacts
    <3>5. /\ credential'[new] = row /\ credential'[old] = gone
          /\ \A c \in Credentials : c # new /\ c # old => credential'[c] = credential[c]
          /\ DOMAIN credential' = Credentials
          /\ credential' = [c \in Credentials |-> credential'[c]]
      BY <1>0, <2>6, <3>1 DEF CredentialTyped
    <3> HIDE DEF gone
    <3>6. credential' \in [Credentials -> Rows]
      BY <1>0, <2>1, <3>2, <3>5
    <3>7. ReplacedIsRevoked'
      <4>1. gone.status = "revoked" /\ gone.successor = {new}
        BY <3>2, <3>3
      <4>2. ASSUME NEW c \in Credentials
            PROVE  \/ credential'[c].successor = {}
                   \/ credential'[c].status = "revoked"
                      /\ \E n : credential'[c].successor = {n}
        <5>1. CASE c = new
          BY <2>1, <3>5, <5>1
        <5>2. CASE c = old
          BY <3>5, <4>1, <5>2
        <5>3. CASE c # new /\ c # old
          BY <3>5, <5>3 DEF ReplacedIsRevoked
        <5> QED
          BY <5>1, <5>2, <5>3
      <4> QED
        BY <4>2 DEF ReplacedIsRevoked
    <3>8. SameKey
      BY <2>2, <3>2, <3>4, <3>5
    <3> QED
      BY <2>2, <3>6, <3>7, <3>8 DEF CredentialTyped
  <2> QED
    BY <2>3, <2>4, <2>5, <2>6
<1>3. ASSUME NEW c \in Credentials, NEW status \in {"revoked", "expired"},
             credential[c].status # "revoked" \/ status = "revoked",
             credential' = [credential EXCEPT ![c].status = status],
             UNCHANGED <<enabled, admin>>
      PROVE  CredentialTyped' /\ ReplacedIsRevoked' /\ SameKey
  <2> DEFINE row == [credential[c] EXCEPT !.status = status]
  <2>1. /\ row \in Rows /\ row.agent = credential[c].agent /\ row.status = status
        /\ row.successor = credential[c].successor
    BY <1>0 DEF Rows
  <2>2. row # NoRow
    BY <2>1, NoRowFacts
  <2>3. credential' = [credential EXCEPT ![c] = row]
    BY <1>3
  <2> HIDE DEF row
  <2>4. /\ credential'[c] = row
        /\ \A d \in Credentials : d # c => credential'[d] = credential[d]
        /\ credential' \in [Credentials -> Rows]
    BY <1>0, <2>1, <2>3 DEF CredentialTyped
  <2>5. ASSUME NEW d \in Credentials
        PROVE  \/ credential'[d].successor = {}
               \/ credential'[d].status = "revoked"
                  /\ \E n : credential'[d].successor = {n}
    <3>1. CASE d = c
      <4>1. \/ credential[c].successor = {}
            \/ credential[c].status = "revoked" /\ \E n : credential[c].successor = {n}
        BY DEF ReplacedIsRevoked
      <4> QED
        BY <1>3, <2>1, <2>4, <3>1, <4>1
    <3>2. CASE d # c
      BY <2>4, <3>2 DEF ReplacedIsRevoked
    <3> QED
      BY <3>1, <3>2
  <2>6. SameKey
    BY <2>1, <2>2, <2>4
  <2> QED
    BY <1>3, <2>4, <2>5, <2>6 DEF CredentialTyped, ReplacedIsRevoked
<1>4. ASSUME NEW c \in Credentials, NEW a \in Agents, Revoke(c, a)
      PROVE  CredentialTyped' /\ ReplacedIsRevoked' /\ SameKey
  BY <1>3, <1>4 DEF Revoke
<1>5. ASSUME NEW c \in Credentials, Expire(c)
      PROVE  CredentialTyped' /\ ReplacedIsRevoked' /\ SameKey
  BY <1>3, <1>5 DEF Expire, Active
<1>6. ASSUME NEW a \in Agents, SwitchAgent(a)
      PROVE  CredentialTyped' /\ ReplacedIsRevoked' /\ SameKey
  BY <1>6 DEF SwitchAgent, CredentialTyped, ReplacedIsRevoked
<1> QED
  BY <1>1, <1>2, <1>4, <1>5, <1>6 DEF CredentialNext

-----------------------------------------------------------------------------
(* Requests.                                                                *)

\* Observing a step brings a request up to date and changes nothing else of it.
LEMMA WitnessedIsSound ==
    ASSUME NEW q \in Passes, Established(q, credential')
    PROVE  /\ Witnessed(q) \in Passes /\ Witnessed(q).pc = q.pc
           /\ Established(Witnessed(q), credential')
           /\ UpToDate(Witnessed(q), credential', enabled', open')
<1>1. CASE q.pc \in {"off", "sent", "done"}
  <2>1. Witnessed(q) = q
    BY <1>1 DEF Witnessed
  <2> QED
    BY <1>1, <2>1 DEF UpToDate, Live
<1>2. CASE q.pc \notin {"off", "sent", "done"}
  <2> DEFINE key == q.pc \in {"lookup", "agent"}
             more ==
               (IF key /\ credential'[q.key].status = "active" THEN {"active"} ELSE {}) \cup
               (IF key /\ credential'[q.key].agent \in enabled' THEN {"enabled"} ELSE {}) \cup
               (IF open' THEN {"open"} ELSE {})
             w == [q EXCEPT !.since = q.since \cup more]
  <2>1. Witnessed(q) = w
    BY <1>2 DEF Witnessed
  <2>2. /\ more \subseteq Reasons
        /\ key => /\ credential'[q.key].status = "active" => "active" \in more
                  /\ credential'[q.key].agent \in enabled' => "enabled" \in more
        /\ open' => "open" \in more
    BY DEF Reasons
  <2> HIDE DEF more
  <2>3. /\ w \in Passes /\ w.pc = q.pc /\ w.key = q.key /\ w.agent = q.agent
        /\ w.sent = q.sent /\ w.since = q.since \cup more
    BY <2>2 DEF Passes
  <2> HIDE DEF w
  <2>4. q.pc \in Live /\ q.sent = 0
    BY <1>2 DEF Passes, Pcs, Established
  <2>5. Established(w, credential')
    BY <2>3, <2>4 DEF Established
  <2>6. UpToDate(w, credential', enabled', open')
    BY <2>2, <2>3 DEF UpToDate
  <2> QED
    BY <2>1, <2>3, <2>5, <2>6
<1> QED
  BY <1>1, <1>2

\* One request goes on, or none: the others observe.
Moves(next) ==
    /\ next \in [Requests -> Passes]
    /\ request' = [x \in Requests |-> Witnessed(next[x])]
    /\ \A x \in Requests : Established(next[x], credential')

\* Such a step keeps what is known of every request.
LEMMA MovesAreSound ==
    ASSUME NEW next, Moves(next), open' \in BOOLEAN
    PROVE  /\ RequestsSound'
           /\ \A x \in Requests : request'[x].pc = next[x].pc
<1>1. \A x \in Requests :
        /\ next[x] \in Passes /\ Established(next[x], credential')
        /\ request'[x] = Witnessed(next[x])
  BY DEF Moves
<1>2. \A x \in Requests :
        /\ request'[x] \in Passes /\ request'[x].pc = next[x].pc
        /\ Established(request'[x], credential')
        /\ UpToDate(request'[x], credential', enabled', open')
  BY <1>1, WitnessedIsSound
<1>3. request' \in [Requests -> Passes]
  <2>1. request' = [x \in Requests |-> request'[x]]
    BY DEF Moves
  <2> QED
    BY <1>2, <2>1
<1> QED
  BY <1>2, <1>3 DEF RequestsSound

\* Nobody moves: what is established stays so, as keys keep their rows and owners.
LEMMA ObserveMoves ==
    ASSUME RequestsSound, Observe,
           \A c \in Credentials : credential[c] # NoRow =>
             credential'[c] # NoRow /\ credential'[c].agent = credential[c].agent
    PROVE  Moves(request)
<1>1. ASSUME NEW x \in Requests
      PROVE  Established(request[x], credential')
  BY <1>1 DEF RequestsSound, Established
<1> QED
  BY <1>1 DEF Moves, Observe, RequestsSound

\* Request r becomes q, where nothing changes the keys.
LEMMA BecomesMoves ==
    ASSUME RequestsSound, NEW r \in Requests, NEW q \in Passes, Becomes(r, q),
           UNCHANGED credential, Established(q, credential)
    PROVE  Moves([request EXCEPT ![r] = q])
<1> DEFINE next == [request EXCEPT ![r] = q]
<1>1. next \in [Requests -> Passes]
  BY DEF RequestsSound
<1>2. \A x \in Requests : next[x] = IF x = r THEN q ELSE request[x]
  BY DEF RequestsSound
<1>3. \A x \in Requests : Established(next[x], credential')
  BY <1>2 DEF RequestsSound
<1>4. request' = [x \in Requests |-> Witnessed(next[x])]
  BY <1>2 DEF Becomes
<1> QED
  BY <1>1, <1>3, <1>4 DEF Moves

\* How a request's step changes the slots.
SlotStep(from, to) ==
    \/ /\ from \notin {"held", "sent"} /\ to \notin {"waiting", "held", "sent"}
       /\ free' = free
    \/ from = "admit" /\ to = "waiting" /\ Cardinality(Waiters) < Slots /\ free' = free
    \/ from \in {"admit", "waiting"} /\ to = "held" /\ free # 0 /\ free' = free - 1
    \/ from = "held" /\ to = "sent" /\ free' = free
    \/ from \in {"held", "sent"} /\ to = "done" /\ free' = free + 1

RequestStep(r) ==
    \/ \E c \in Credentials : Arrive(r, c)
    \/ Lookup(r) \/ LookupAgent(r)
    \/ Refuse(r) \/ Take(r) \/ Wait(r) \/ Wake(r) \/ GiveUp(r)
    \/ Send(r) \/ Finish(r)

\* A request that is answered keeps what it was sent with, or nothing.
LEMMA AnsweredIsEstablished ==
    ASSUME RequestsSound, NEW r \in Requests
    PROVE  /\ Answered(r) \in Passes /\ Answered(r).pc = "done"
           /\ Established(Answered(r), credential)
<1>1. /\ NoRequest \in Passes /\ NoRequest.sent = 0 /\ NoRequest.since = {}
      /\ NoRequest.pc = "off"
  BY DEF NoRequest, Passes, Pcs, Owners, NoAgent, Reasons
<1>2. /\ request[r] \in Passes /\ request[r].sent \in {0, 1}
      /\ request[r].since \in SUBSET Reasons
      /\ request[r].sent = 1 => request[r].since = Reasons
  BY DEF RequestsSound, Passes, Established
<1>3. CASE request[r].sent = 0
  <2> DEFINE q == [NoRequest EXCEPT !.pc = "done"]
  <2>1. Answered(r) = q
    BY <1>3 DEF Answered
  <2>2. q \in Passes /\ q.pc = "done" /\ q.sent = 0
    BY <1>1 DEF Passes, Pcs
  <2> HIDE DEF q
  <2> QED
    BY <2>1, <2>2 DEF Established, Live
<1>4. CASE request[r].sent # 0
  <2> DEFINE q == [NoRequest EXCEPT !.pc = "done", !.sent = request[r].sent,
                                    !.since = request[r].since]
  <2>1. Answered(r) = q
    BY <1>4 DEF Answered
  <2>2. /\ q \in Passes /\ q.pc = "done" /\ q.sent = request[r].sent
        /\ q.since = request[r].since
    BY <1>1, <1>2 DEF Passes, Pcs
  <2> HIDE DEF q
  <2> QED
    BY <1>2, <2>1, <2>2 DEF Established, Live
<1> QED
  BY <1>3, <1>4

\* Every step of forward establishes what the next one relies on.
LEMMA RequestStepMoves ==
    ASSUME CredentialTyped, RequestsSound, NEW r \in Requests, RequestStep(r)
    PROVE  /\ UNCHANGED <<credentialVars, open>>
           /\ \E q \in Passes : /\ Becomes(r, q) /\ Established(q, credential)
                                /\ SlotStep(request[r].pc, q.pc)
<1> DEFINE Goal == \E q \in Passes : /\ Becomes(r, q) /\ Established(q, credential)
                                     /\ SlotStep(request[r].pc, q.pc)
           old == request[r]
<1>0. UNCHANGED <<credentialVars, open>>
  BY DEF RequestStep, Arrive, Lookup, LookupAgent, Refuse, Take, Wait, Wake, GiveUp,
     Send, Finish
<1>1. /\ old \in Passes /\ old.pc \in Pcs /\ old.sent \in {0, 1} /\ old.agent \in Owners
      /\ old.since \in SUBSET Reasons
      /\ Established(old, credential) /\ UpToDate(old, credential, enabled, open)
  BY DEF RequestsSound, Passes
<1>2. /\ NoRequest \in Passes /\ NoRequest.sent = 0 /\ NoRequest.since = {}
      /\ NoRequest.pc = "off"
  BY DEF NoRequest, Passes, Pcs, Owners, NoAgent, Reasons
<1>3. Answered(r) \in Passes /\ Answered(r).pc = "done" /\ Established(Answered(r), credential)
  BY AnsweredIsEstablished
<1>4. ASSUME Becomes(r, Answered(r)), old.pc \notin {"held", "sent"}, free' = free
      PROVE  Goal
  BY <1>3, <1>4 DEF SlotStep
<1>5. ASSUME NEW step \in Live \cup {"sent"}, NEW n \in {0, 1},
             Becomes(r, [old EXCEPT !.pc = step, !.sent = n]),
             SlotStep(old.pc, step),
             step = "sent" => n = 1 /\ old.since = Reasons,
             step \in {"waiting", "held"} => n = 0 /\ Reasons \subseteq old.since,
             step \in {"sent", "waiting", "held"}
      PROVE  Goal
  <2> DEFINE q == [old EXCEPT !.pc = step, !.sent = n]
  <2>1. q \in Passes /\ q.pc = step /\ q.sent = n /\ q.since = old.since
    BY <1>1, <1>5 DEF Passes, Pcs
  <2>2. Becomes(r, q)
    BY <1>5
  <2> HIDE DEF q
  <2>3. Established(q, credential)
    BY <1>1, <1>5, <2>1 DEF Established, Live, Reasons
  <2> QED
    BY <1>5, <2>1, <2>2, <2>3
<1>6. ASSUME NEW c \in Credentials, Arrive(r, c)
      PROVE  Goal
  <2> DEFINE q == [NoRequest EXCEPT !.pc = "lookup", !.key = c]
  <2>1. Becomes(r, q) /\ old.pc = "off" /\ credential[c] # NoRow /\ free' = free
    BY <1>6 DEF Arrive, At
  <2>2. q \in Passes /\ q.pc = "lookup" /\ q.key = c /\ q.sent = 0
    BY <1>2 DEF Passes, Pcs, Live
  <2> HIDE DEF q
  <2> QED
    BY <2>1, <2>2 DEF Established, SlotStep, Live
<1>7. CASE Lookup(r)
  <2>1. old.pc = "lookup" /\ free' = free /\ old.key \in Credentials
    BY <1>1, <1>7 DEF Lookup, At, Established
  <2>2. CASE ~Active(old.key)
    BY <1>4, <1>7, <2>1, <2>2 DEF Lookup
  <2>3. CASE Active(old.key)
    <3> DEFINE a == credential[old.key].agent
               q == [old EXCEPT !.pc = "agent", !.agent = a]
    <3>1. Becomes(r, q)
      BY <1>7, <2>3 DEF Lookup
    <3>2. a \in Owners
      BY <2>1 DEF CredentialTyped, Rows
    <3>3. "active" \in old.since /\ old.sent = 0 /\ credential[old.key] # NoRow
      BY <1>1, <2>1, <2>3 DEF Active, UpToDate, Established, Live
    <3> HIDE DEF a
    <3>4. /\ q \in Passes /\ q.pc = "agent" /\ q.agent = a /\ q.key = old.key
          /\ q.since = old.since /\ q.sent = old.sent
      BY <1>1, <3>2 DEF Passes, Pcs, Live
    <3> HIDE DEF q
    <3>5. Established(q, credential)
      BY <2>1, <3>3, <3>4 DEF Established, Live, a
    <3>6. SlotStep(old.pc, q.pc)
      BY <2>1, <3>4 DEF SlotStep
    <3> QED
      BY <1>0, <3>1, <3>4, <3>5, <3>6
  <2> QED
    BY <2>2, <2>3
<1>8. CASE LookupAgent(r)
  <2>1. old.pc = "agent" /\ free' = free
    BY <1>1, <1>8 DEF LookupAgent, At
  <2>2. CASE ~Enabled(old.agent)
    BY <1>4, <1>8, <2>1, <2>2 DEF LookupAgent
  <2>3. CASE Enabled(old.agent)
    <3> DEFINE q == [NoRequest EXCEPT !.pc = "admit", !.since = old.since]
    <3>1. Becomes(r, q)
      BY <1>8, <2>3 DEF LookupAgent
    <3>2. {"active", "enabled"} \subseteq old.since
      BY <1>1, <2>1, <2>3 DEF Enabled, UpToDate, Established
    <3>3. q \in Passes /\ q.pc = "admit" /\ q.since = old.since /\ q.sent = 0
      BY <1>1, <1>2 DEF Passes, Pcs, Live
    <3> HIDE DEF q
    <3>4. Established(q, credential)
      BY <3>2, <3>3 DEF Established
    <3>5. SlotStep(old.pc, q.pc)
      BY <2>1, <3>3 DEF SlotStep
    <3> QED
      BY <1>0, <3>1, <3>3, <3>4, <3>5
  <2> QED
    BY <2>2, <2>3
<1>9. CASE Refuse(r) \/ GiveUp(r)
  BY <1>4, <1>9 DEF Refuse, GiveUp, At
<1>10. ASSUME NEW step \in {"waiting", "held"}, Becomes(r, [old EXCEPT !.pc = step]),
              old.pc \in {"admit", "waiting"}, open \/ old.pc = "waiting",
              SlotStep(old.pc, step)
       PROVE  Goal
  <2> DEFINE q == [old EXCEPT !.pc = step]
  <2>1. q \in Passes /\ q.pc = step /\ q.since = old.since /\ q.sent = old.sent
    BY <1>1 DEF Passes, Pcs, Live
  <2>2. Becomes(r, q)
    BY <1>10
  <2>3. {"active", "enabled", "open"} \subseteq old.since /\ old.sent = 0
    BY <1>1, <1>10 DEF UpToDate, Established, Live
  <2> HIDE DEF q
  <2>4. Established(q, credential)
    BY <2>1, <2>3 DEF Established
  <2> QED
    BY <1>10, <2>1, <2>2, <2>4
<1>11. CASE Take(r)
  BY <1>10, <1>11 DEF Take, At, Full, SlotStep
<1>12. CASE Wait(r)
  BY <1>10, <1>12 DEF Wait, At, SlotStep
<1>13. CASE Wake(r)
  BY <1>10, <1>13 DEF Wake, At, SlotStep
<1>14. CASE Send(r)
  <2> DEFINE n == old.sent + 1
             q == [old EXCEPT !.pc = "sent", !.sent = n]
  <2>1. Becomes(r, q) /\ old.pc = "held" /\ free' = free
    BY <1>14 DEF Send, At
  <2>2. old.sent = 0 /\ old.since = Reasons
    BY <1>1, <2>1 DEF Established, Live, Reasons
  <2>3. n = 1
    BY <2>2
  <2> HIDE DEF n
  <2>4. q \in Passes /\ q.pc = "sent" /\ q.since = old.since /\ q.sent = 1
    BY <1>1, <2>3 DEF Passes, Pcs
  <2> HIDE DEF q
  <2>5. Established(q, credential)
    BY <2>2, <2>4 DEF Established, Live
  <2>6. SlotStep(old.pc, q.pc)
    BY <2>1, <2>4 DEF SlotStep
  <2> QED
    BY <1>0, <2>1, <2>4, <2>5, <2>6
<1>15. CASE Finish(r)
  BY <1>3, <1>15 DEF Finish, SlotStep
<1> QED
  BY <1>0, <1>6, <1>7, <1>8, <1>9, <1>11, <1>12, <1>13, <1>14, <1>15 DEF RequestStep

\* One request's pc changes: the sets of those in flight and waiting follow it.
LEMMA SlotsFollow ==
    ASSUME SlotsConserved, NEW r \in Requests, NEW to,
           \A x \in Requests : request'[x].pc = IF x = r THEN to ELSE request[x].pc,
           SlotStep(request[r].pc, to)
    PROVE  SlotsConserved'
<1> DEFINE from == request[r].pc
<1>1. /\ free \in Nat /\ IsFiniteSet(InFlight) /\ IsFiniteSet(Waiters)
      /\ Cardinality(InFlight) + free = Slots /\ Cardinality(Waiters) <= Slots
      /\ Cardinality(InFlight) \in Nat /\ Cardinality(Waiters) \in Nat /\ Slots \in Nat
  BY FS_CardinalityType, SlotsAssumption DEF SlotsConserved
<1>2. /\ InFlight' = IF to \in {"held", "sent"} THEN InFlight \cup {r} ELSE InFlight \ {r}
      /\ Waiters' = IF to = "waiting" THEN Waiters \cup {r} ELSE Waiters \ {r}
      /\ r \in InFlight <=> from \in {"held", "sent"}
      /\ r \in Waiters <=> from = "waiting"
  BY DEF InFlight, Waiters, At
<1>3. /\ IsFiniteSet(InFlight \cup {r}) /\ IsFiniteSet(InFlight \ {r})
      /\ IsFiniteSet(Waiters \cup {r}) /\ IsFiniteSet(Waiters \ {r})
      /\ Cardinality(InFlight \cup {r}) =
           IF r \in InFlight THEN Cardinality(InFlight) ELSE Cardinality(InFlight) + 1
      /\ Cardinality(InFlight \ {r}) =
           IF r \in InFlight THEN Cardinality(InFlight) - 1 ELSE Cardinality(InFlight)
      /\ Cardinality(Waiters \cup {r}) =
           IF r \in Waiters THEN Cardinality(Waiters) ELSE Cardinality(Waiters) + 1
      /\ Cardinality(Waiters \ {r}) =
           IF r \in Waiters THEN Cardinality(Waiters) - 1 ELSE Cardinality(Waiters)
  BY <1>1, FS_AddElement, FS_RemoveElement
<1> HIDE DEF from
<1>4. /\ IsFiniteSet(InFlight') /\ IsFiniteSet(Waiters')
  BY <1>2, <1>3
<1>5. Cardinality(Waiters') <= Slots
  <2>1. CASE to = "waiting"
    <3>1. Cardinality(Waiters) < Slots /\ from = "admit"
      BY <2>1 DEF SlotStep, from
    <3>2. r \notin Waiters
      BY <1>2, <3>1
    <3> QED
      BY <1>1, <1>2, <1>3, <2>1, <3>1, <3>2
  <2>2. CASE to # "waiting"
    BY <1>1, <1>2, <1>3, <2>2
  <2> QED
    BY <2>1, <2>2
<1>6. free' \in Nat /\ Cardinality(InFlight') + free' = Slots
  <2>1. CASE from \notin {"held", "sent"} /\ to \notin {"held", "sent"} /\ free' = free
    BY <1>1, <1>2, <1>3, <2>1
  <2>2. CASE from \in {"admit", "waiting"} /\ to = "held" /\ free # 0 /\ free' = free - 1
    BY <1>1, <1>2, <1>3, <2>2
  <2>3. CASE from = "held" /\ to = "sent" /\ free' = free
    BY <1>1, <1>2, <1>3, <2>3
  <2>4. CASE from \in {"held", "sent"} /\ to = "done" /\ free' = free + 1
    BY <1>1, <1>2, <1>3, <2>4
  <2> QED
    BY <2>1, <2>2, <2>3, <2>4 DEF SlotStep, from
<1> QED
  BY <1>4, <1>5, <1>6 DEF SlotsConserved

-----------------------------------------------------------------------------
(* The invariant and what it says.                                          *)

\* No key, no request and all slots free.
LEMMA InvariantInit ==
    Init => IInv
<1> SUFFICES ASSUME Init PROVE IInv
  OBVIOUS
<1>1. /\ credential = [c \in Credentials |-> NoRow] /\ enabled = Agents
      /\ admin = [m \in Admins |-> NoAgent]
      /\ request = [r \in Requests |-> NoRequest] /\ free = Slots /\ open = TRUE
  BY DEF Init, CredentialInit
<1>2. CredentialTyped /\ ReplacedIsRevoked
  BY <1>1, NoRowFacts DEF CredentialTyped, ReplacedIsRevoked, Owners
<1>3. /\ NoRequest \in Passes /\ NoRequest.sent = 0 /\ NoRequest.pc = "off"
  BY DEF NoRequest, Passes, Pcs, Owners, NoAgent, Reasons
<1>4. RequestsSound
  BY <1>1, <1>3 DEF RequestsSound, Established, UpToDate, Live
<1>5. InFlight = {} /\ Waiters = {}
  BY <1>1, <1>3 DEF InFlight, Waiters, At
<1>6. SlotsConserved
  BY <1>1, <1>5, FS_EmptySet, SlotsAssumption DEF SlotsConserved
<1> QED
  BY <1>2, <1>4, <1>6 DEF IInv

\* Every step of a request, of admission and of the administrators keeps the invariant.
LEMMA InvariantStep ==
    IInv /\ [Next]_vars => IInv'
<1> SUFFICES ASSUME IInv, [Next]_vars PROVE IInv'
  OBVIOUS
<1>0. CredentialTyped /\ ReplacedIsRevoked /\ RequestsSound /\ SlotsConserved
  BY DEF IInv
<1>1. ASSUME NEW r \in Requests, RequestStep(r)
      PROVE  IInv'
  <2>1. UNCHANGED <<credential, enabled, admin, open>>
    BY <1>0, <1>1, RequestStepMoves DEF credentialVars
  <2>2. PICK q \in Passes : /\ Becomes(r, q) /\ Established(q, credential)
                            /\ SlotStep(request[r].pc, q.pc)
    BY <1>0, <1>1, RequestStepMoves
  <2> DEFINE next == [request EXCEPT ![r] = q]
  <2>3. Moves(next)
    BY <1>0, <2>1, <2>2, BecomesMoves
  <2>4. \A x \in Requests : next[x] = IF x = r THEN q ELSE request[x]
    BY <1>0 DEF RequestsSound
  <2> HIDE DEF next
  <2>5. RequestsSound' /\ \A x \in Requests : request'[x].pc = next[x].pc
    BY <1>0, <2>1, <2>3, MovesAreSound DEF RequestsSound
  <2>6. SlotsConserved'
    BY <1>0, <2>2, <2>4, <2>5, SlotsFollow
  <2>7. CredentialTyped' /\ ReplacedIsRevoked'
    BY <1>0, <2>1 DEF CredentialTyped, ReplacedIsRevoked
  <2> QED
    BY <2>5, <2>6, <2>7 DEF IInv
<1>2. ASSUME Observe, UNCHANGED free, open' \in BOOLEAN,
             CredentialTyped' /\ ReplacedIsRevoked',
             \A c \in Credentials : credential[c] # NoRow =>
               credential'[c] # NoRow /\ credential'[c].agent = credential[c].agent
      PROVE  IInv'
  <2>1. RequestsSound' /\ \A x \in Requests : request'[x].pc = request[x].pc
    <3>1. Moves(request)
      BY <1>0, <1>2, ObserveMoves
    <3> QED
      BY <1>2, <3>1, MovesAreSound
  <2>2. InFlight' = InFlight /\ Waiters' = Waiters
    BY <2>1 DEF InFlight, Waiters, At
  <2>3. SlotsConserved'
    BY <1>0, <1>2, <2>2 DEF SlotsConserved
  <2> QED
    BY <1>2, <2>1, <2>3 DEF IInv
<1>3. CASE Toggle
  <2>1. Observe /\ UNCHANGED <<free, credential, enabled, admin>> /\ open' \in BOOLEAN
    BY <1>3 DEF Toggle, credentialVars
  <2> QED
    BY <1>0, <1>2, <2>1 DEF CredentialTyped, ReplacedIsRevoked
<1>4. CASE Administer
  <2>1. Observe /\ UNCHANGED <<free, open>> /\ CredentialNext
    BY <1>4 DEF Administer
  <2> QED
    BY <1>0, <1>2, <2>1, CredentialStep DEF RequestsSound
<1>5. CASE UNCHANGED vars
  <2>1. UNCHANGED <<request, free, open, credential, enabled, admin>>
    BY <1>5 DEF vars, credentialVars
  <2> QED
    BY <1>0, <2>1 DEF IInv, CredentialTyped, ReplacedIsRevoked, RequestsSound,
       SlotsConserved, InFlight, Waiters, At
<1> QED
  BY <1>1, <1>3, <1>4, <1>5 DEF Next, RequestStep

\* What is established about every request, key and slot, in every reachable state.
THEOREM InvariantHolds == Spec => []IInv
  BY InvariantInit, InvariantStep, PTL DEF Spec

\* Slots are conserved, however requests are refused, give up, fail or time out
\* (gateway.py admission and forward).
THEOREM SlotsAreConserved == Spec => []TypeOK
<1>1. IInv => TypeOK
  <2> SUFFICES ASSUME IInv PROVE TypeOK
    OBVIOUS
  <2>1. /\ free \in Nat /\ IsFiniteSet(InFlight)
        /\ Cardinality(InFlight) + free = Slots /\ Cardinality(Waiters) <= Slots
    BY DEF IInv, SlotsConserved
  <2>2. Cardinality(InFlight) \in Nat /\ Slots \in Nat
    BY <2>1, FS_CardinalityType, SlotsAssumption
  <2>3. free \in 0 .. Slots
    BY <2>1, <2>2
  <2>4. \A r \in Requests : request[r].pc \in
          {"off", "lookup", "agent", "admit", "waiting", "held", "sent", "done"}
    BY DEF IInv, RequestsSound, Passes, Pcs, Live
  <2> QED
    BY <2>1, <2>3, <2>4 DEF TypeOK, InFlight
<1> QED
  BY <1>1, InvariantHolds, PTL

\* What reached Envoy had an active key, an enabled agent and open admission at some
\* moment after it came, and was sent once (auth.py, gateway.py forward).
THEOREM OnlyAllowedIsSent == Spec => []SentWasAllowed
<1>1. IInv => SentWasAllowed
  <2> SUFFICES ASSUME IInv, NEW r \in Requests
               PROVE  /\ request[r].sent <= 1
                      /\ request[r].sent = 1 => request[r].since = Reasons
    BY DEF SentWasAllowed, Reasons
  <2>1. request[r] \in Passes /\ Established(request[r], credential)
    BY DEF IInv, RequestsSound
  <2>2. request[r].sent \in {0, 1}
    BY <2>1 DEF Passes
  <2>3. request[r].sent = 0 \/ request[r].sent = 1
    BY <2>2
  <2>4. request[r].sent <= 1
    BY <2>3
  <2>5. request[r].sent = 1 => request[r].since = Reasons
    BY <2>1 DEF Established
  <2> QED
    BY <2>4, <2>5
<1> QED
  BY <1>1, InvariantHolds, PTL

\* Two rotations of a key never both succeed (agent_credentials.py issue).
THEOREM KeysAreRotatedOnce == Spec => []RotatedOnce
<1>1. IInv => RotatedOnce
  <2> SUFFICES ASSUME IInv, NEW c \in Credentials
               PROVE  Cardinality(credential[c].successor) <= 1
    BY DEF RotatedOnce
  <2>1. credential[c].successor = {} \/ \E n : credential[c].successor = {n}
    BY DEF IInv, ReplacedIsRevoked
  <2>2. Cardinality({}) = 0 /\ \A n : Cardinality({n}) = 1
    BY FS_EmptySet, FS_Singleton
  <2>3. Cardinality(credential[c].successor) \in {0, 1}
    BY <2>1, <2>2
  <2> QED
    BY <2>3
<1> QED
  BY <1>1, InvariantHolds, PTL

-----------------------------------------------------------------------------
(* The attestation that is signed for a request on its way.                 *)

\* The initial state satisfies the inductive invariant.
LEMMA AttestationInitIInv == AttestationInit => AttestationIInv
  BY TimeAssumption
  DEF AttestationInit, AttestationIInv, AttestationTypeOK, Clocks, Inserted, RememberedWhileFresh, OneLiveInsert,
      ReleasedOnce, MayRelease

\* Every step preserves the shape of the state.
LEMMA AttestationTypeStep == AttestationTypeOK /\ [AttestationNext]_attestation => AttestationTypeOK'
<1> SUFFICES ASSUME AttestationTypeOK, [AttestationNext]_attestation PROVE AttestationTypeOK'
  OBVIOUS
<1> USE TimeAssumption DEF AttestationTypeOK
<1>1. CASE Tick
  BY <1>1 DEF Tick
<1>2. ASSUME NEW n \in Nonces, NEW at \in 0 .. Horizon, Sign(n, at) PROVE AttestationTypeOK'
  BY <1>2 DEF Sign
<1>3. ASSUME NEW t \in Threads, NEW n \in Nonces, Start(t, n) PROVE AttestationTypeOK'
  BY <1>3 DEF Start
<1>4. ASSUME NEW t \in Threads, Check(t) PROVE AttestationTypeOK'
  BY <1>4 DEF Check
<1>5. ASSUME NEW t \in Threads, Consume(t) PROVE AttestationTypeOK'
  BY <1>5 DEF Consume, Kept
<1>6. ASSUME NEW t \in Threads, BackendFails(t) PROVE AttestationTypeOK'
  BY <1>6 DEF BackendFails
<1>7. ASSUME NEW t \in Threads, Release(t) PROVE AttestationTypeOK'
  BY <1>7 DEF Release
<1>8. ASSUME NEW t \in Threads, Late(t) PROVE AttestationTypeOK'
  BY <1>8 DEF Late
<1>9. CASE UNCHANGED attestation
  BY <1>9 DEF attestation
<1> QED
  BY <1>1, <1>2, <1>3, <1>4, <1>5, <1>6, <1>7, <1>8, <1>9 DEF AttestationNext

\* The step that matters: a thread that finds its nonce gone although it was
\* inserted before is past its deadline, so what it inserts is never released.
LEMMA SecondInsertIsLate ==
  ASSUME AttestationIInv, NEW t \in Threads, pc[t] = "checked", nonce[t] \in inserted,
         nonce[t] \notin Kept(read[t])
  PROVE  now - started[t] >= Deadline
<1> DEFINE n == nonce[t]
<1>1. /\ issued[n] \in Int /\ issued[n] # None
      /\ read[t] \in Int /\ started[t] \in Int /\ now \in Int
      /\ started[t] <= read[t] /\ read[t] <= now /\ read[t] < expires(n)
  BY TimeAssumption DEF AttestationIInv, AttestationTypeOK, Clocks
<1>2. expires(n) \in Int
  BY <1>1, TimeAssumption DEF expires
<1>3. now > expires(n) + Grace
  <2>1. CASE n \in table
    BY <2>1, <1>1, <1>2, TimeAssumption DEF Kept
  <2>2. CASE n \notin table
    BY <2>2 DEF AttestationIInv, RememberedWhileFresh
  <2> QED
    BY <2>1, <2>2
<1> QED
  BY <1>1, <1>2, <1>3, TimeAssumption, DeadlineAssumption

\* Every step preserves the inductive invariant.
LEMMA AttestationStep == AttestationIInv /\ [AttestationNext]_attestation => AttestationIInv'
<1> SUFFICES ASSUME AttestationIInv, [AttestationNext]_attestation PROVE AttestationIInv'
  OBVIOUS
<1>t. AttestationTypeOK /\ AttestationTypeOK'
  BY AttestationTypeStep DEF AttestationIInv
<1>c. /\ Clocks /\ Inserted /\ RememberedWhileFresh /\ OneLiveInsert /\ ReleasedOnce
  BY DEF AttestationIInv
<1>i. \A n \in Nonces : issued[n] # None => expires(n) \in Int
  BY <1>t, TimeAssumption DEF AttestationTypeOK, expires
<1>1. CASE Tick
  <2>1. Clocks'
    BY <1>1, <1>t, <1>c DEF Tick, Clocks, AttestationTypeOK, expires
  <2>2. Inserted'
    BY <1>1, <1>c DEF Tick, Inserted
  <2>3. RememberedWhileFresh'
    BY <1>1, <1>t, <1>c, <1>i, TimeAssumption
    DEF Tick, RememberedWhileFresh, Inserted, AttestationTypeOK, expires
  <2>4. OneLiveInsert'
    BY <1>1, <1>t, <1>c, TimeAssumption DEF Tick, OneLiveInsert, MayRelease, AttestationTypeOK
  <2>5. ReleasedOnce'
    BY <1>1, <1>c DEF Tick, ReleasedOnce
  <2> QED
    BY <1>t, <2>1, <2>2, <2>3, <2>4, <2>5 DEF AttestationIInv
<1>2. ASSUME NEW n \in Nonces, NEW at \in 0 .. Horizon, Sign(n, at) PROVE AttestationIInv'
  <2>1. Clocks'
    BY <1>2, <1>t, <1>c, TimeAssumption DEF Sign, Clocks, AttestationTypeOK, expires
  <2>2. Inserted'
    BY <1>2, <1>t, <1>c, TimeAssumption DEF Sign, Inserted, AttestationTypeOK
  <2>3. RememberedWhileFresh'
    BY <1>2, <1>t, <1>c DEF Sign, RememberedWhileFresh, Inserted, AttestationTypeOK, expires
  <2>4. OneLiveInsert' /\ ReleasedOnce'
    BY <1>2, <1>c DEF Sign, OneLiveInsert, MayRelease, ReleasedOnce
  <2> QED
    BY <1>t, <2>1, <2>2, <2>3, <2>4 DEF AttestationIInv
<1>3. ASSUME NEW t \in Threads, NEW n \in Nonces, Start(t, n) PROVE AttestationIInv'
  <2>1. Clocks'
    BY <1>3, <1>t, <1>c DEF Start, Clocks, AttestationTypeOK, expires
  <2>2. Inserted' /\ RememberedWhileFresh' /\ ReleasedOnce'
    BY <1>3, <1>t, <1>c DEF Start, Inserted, RememberedWhileFresh, ReleasedOnce, AttestationTypeOK, expires
  <2>3. OneLiveInsert'
    BY <1>3, <1>t, <1>c DEF Start, OneLiveInsert, MayRelease, AttestationTypeOK
  <2> QED
    BY <1>t, <2>1, <2>2, <2>3 DEF AttestationIInv
<1>4. ASSUME NEW t \in Threads, Check(t) PROVE AttestationIInv'
  <2>1. Clocks'
    BY <1>4, <1>t, <1>c DEF Check, Fresh, Clocks, AttestationTypeOK, expires
  <2>2. Inserted' /\ RememberedWhileFresh' /\ ReleasedOnce'
    BY <1>4, <1>t, <1>c DEF Check, Inserted, RememberedWhileFresh, ReleasedOnce, AttestationTypeOK, expires
  <2>3. OneLiveInsert'
    BY <1>4, <1>t, <1>c DEF Check, OneLiveInsert, MayRelease, AttestationTypeOK
  <2> QED
    BY <1>t, <2>1, <2>2, <2>3 DEF AttestationIInv
<1>5. ASSUME NEW t \in Threads, Consume(t) PROVE AttestationIInv'
  <2>1. CASE nonce[t] \in Kept(read[t])
    <3>1. Clocks'
      BY <1>5, <2>1, <1>t, <1>c DEF Consume, Clocks, AttestationTypeOK, expires
    <3>2. Inserted' /\ RememberedWhileFresh' /\ ReleasedOnce'
      BY <1>5, <2>1, <1>t, <1>c
      DEF Consume, Inserted, RememberedWhileFresh, ReleasedOnce, AttestationTypeOK, expires
    <3>3. OneLiveInsert'
      BY <1>5, <2>1, <1>t, <1>c DEF Consume, OneLiveInsert, MayRelease, AttestationTypeOK
    <3> QED
      BY <1>t, <3>1, <3>2, <3>3 DEF AttestationIInv
  <2>2. CASE nonce[t] \notin Kept(read[t])
    <3>0. /\ pc[t] = "checked"
          /\ table' = Kept(read[t]) \cup {nonce[t]}
          /\ inserted' = inserted \cup {nonce[t]}
          /\ pc' = [pc EXCEPT ![t] = "consumed"]
          /\ UNCHANGED <<now, issued, nonce, started, read, released>>
      BY <1>5, <2>2 DEF Consume
    <3>1. Clocks'
      BY <3>0, <1>t, <1>c DEF Clocks, AttestationTypeOK, expires
    <3>2. Inserted'
      BY <3>0, <1>t, <1>c DEF Inserted, Clocks, Kept, AttestationTypeOK
    <3>3. RememberedWhileFresh'
      BY <3>0, <1>t, <1>c, <1>i, TimeAssumption
      DEF RememberedWhileFresh, Inserted, Clocks, Kept, AttestationTypeOK, expires
    <3>4. OneLiveInsert'
      <4>1. CASE nonce[t] \in inserted
        <5>1. now - started[t] >= Deadline
          BY <4>1, <3>0, <2>2, SecondInsertIsLate
        <5>2. ~MayRelease(t, nonce[t])'
          BY <5>1, <3>0, <1>t, TimeAssumption DEF MayRelease, AttestationTypeOK
        <5>3. \A u \in Threads, n \in Nonces : MayRelease(u, n)' => MayRelease(u, n)
          BY <5>2, <3>0, <1>t DEF MayRelease, AttestationTypeOK
        <5> QED
          BY <5>3, <3>0, <1>c DEF OneLiveInsert
      <4>2. CASE nonce[t] \notin inserted
        <5>1. released[nonce[t]] = 0
          BY <4>2, <1>t, <1>c DEF Inserted, AttestationTypeOK
        <5>2. \A u \in Threads : u # t => ~MayRelease(u, nonce[t])'
          BY <4>2, <3>0, <1>t, <1>c DEF Inserted, MayRelease, AttestationTypeOK
        <5>3. \A u \in Threads, n \in Nonces :
                (u # t \/ n # nonce[t]) => (MayRelease(u, n)' => MayRelease(u, n))
          BY <3>0, <1>t DEF MayRelease, AttestationTypeOK
        <5> QED
          BY <5>1, <5>2, <5>3, <3>0, <1>t, <1>c DEF OneLiveInsert, AttestationTypeOK
      <4> QED
        BY <4>1, <4>2
    <3>5. ReleasedOnce'
      BY <3>0, <1>c DEF ReleasedOnce
    <3> QED
      BY <1>t, <3>1, <3>2, <3>3, <3>4, <3>5 DEF AttestationIInv
  <2> QED
    BY <2>1, <2>2
<1>6. ASSUME NEW t \in Threads, BackendFails(t) \/ Late(t) PROVE AttestationIInv'
  <2>0. /\ pc' = [pc EXCEPT ![t] = "idle"]
        /\ UNCHANGED <<now, issued, table, nonce, started, read, inserted, released>>
    BY <1>6 DEF BackendFails, Late
  <2>1. Clocks'
    BY <2>0, <1>t, <1>c DEF Clocks, AttestationTypeOK, expires
  <2>2. Inserted' /\ RememberedWhileFresh' /\ ReleasedOnce'
    BY <2>0, <1>t, <1>c DEF Inserted, RememberedWhileFresh, ReleasedOnce, AttestationTypeOK, expires
  <2>3. OneLiveInsert'
    BY <2>0, <1>t, <1>c DEF OneLiveInsert, MayRelease, AttestationTypeOK
  <2> QED
    BY <1>t, <2>1, <2>2, <2>3 DEF AttestationIInv
<1>7. ASSUME NEW t \in Threads, Release(t) PROVE AttestationIInv'
  <2>0. /\ MayRelease(t, nonce[t]) /\ nonce[t] \in Nonces
        /\ released[nonce[t]] = 0
    BY <1>7, <1>t, <1>c DEF Release, MayRelease, OneLiveInsert, AttestationTypeOK
  <2>1. Clocks'
    BY <1>7, <1>t, <1>c DEF Release, Clocks, AttestationTypeOK, expires
  <2>2. Inserted'
    BY <1>7, <1>t, <1>c DEF Release, Inserted, AttestationTypeOK
  <2>3. RememberedWhileFresh'
    BY <1>7, <1>t, <1>c DEF Release, RememberedWhileFresh, AttestationTypeOK, expires
  <2>4. \A u \in Threads, n \in Nonces : MayRelease(u, n)' => MayRelease(u, n) /\ u # t
    BY <1>7, <1>t DEF Release, MayRelease, AttestationTypeOK
  <2>5. OneLiveInsert'
    BY <2>0, <2>4, <1>7, <1>t, <1>c DEF Release, OneLiveInsert, AttestationTypeOK
  <2>6. ReleasedOnce'
    BY <2>0, <1>7, <1>t, <1>c DEF Release, ReleasedOnce, AttestationTypeOK
  <2> QED
    BY <1>t, <2>1, <2>2, <2>3, <2>5, <2>6 DEF AttestationIInv
<1>8. CASE UNCHANGED attestation
  BY <1>8, <1>t, <1>c
  DEF attestation, AttestationIInv, Clocks, Inserted, RememberedWhileFresh, OneLiveInsert, ReleasedOnce, MayRelease, expires
<1> QED
  BY <1>1, <1>2, <1>3, <1>4, <1>5, <1>6, <1>7, <1>8 DEF AttestationNext

\* The inductive invariant holds in every reachable state of the verifier.
THEOREM AttestationInvariantHolds == AttestationSpec => []AttestationIInv
  BY AttestationInitIInv, AttestationStep, PTL DEF AttestationSpec

\* One attestation releases at most one request (AttestationVerifier.verify under
\* the inspection deadline), for all constants that satisfy the assumptions.
THEOREM AttestationReleasedOnce == AttestationSpec => []ReleasedOnce
<1>1. AttestationIInv => ReleasedOnce
  BY DEF AttestationIInv
<1> QED
  BY <1>1, AttestationInvariantHolds, PTL

\* No nonce is purged before the grace period after its expiry is over.
THEOREM NonceRemembered == AttestationSpec => []RememberedWhileFresh
<1>1. AttestationIInv => RememberedWhileFresh
  BY DEF AttestationIInv
<1> QED
  BY <1>1, AttestationInvariantHolds, PTL

=============================================================================
