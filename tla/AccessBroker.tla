---------------------------- MODULE AccessBroker ----------------------------
(***************************************************************************)
(* The policy engine of the built-in Agent Access Broker                    *)
(* (access_broker/broker.py, models.py): registered agents, delegations     *)
(* from users to agents, human approvals and the allow decisions that issue *)
(* a JIT token.  An operation that runs inside one store transaction is one *)
(* step here; that the file store makes it one is the subject of module     *)
(* BrokerStore.  The legacy entry point reads the store without a           *)
(* transaction, so it takes two steps.                                      *)
(*                                                                         *)
(* Blocking decisions and dry-run evaluations change no record (they only   *)
(* append or omit audit text), so they are stuttering steps.  The allow     *)
(* decisions are kept, in order, in `grants': the audit trail restricted to *)
(* what let a request through.                                              *)
(***************************************************************************)
EXTENDS Integers, Sequences

CONSTANTS
    AgentIds, DelegationIds, ApprovalIds,
    AgentRecords,       \* the agent records an administrator may register
    DelegationPayloads, \* the delegations a user may create (with their ttl)
    Requests,           \* the access requests that may arrive
    Digests,            \* well-formed request digests
    HighRiskActions,    \* HIGH_RISK_ACTIONS
    ApprovalTTL, TokenTTL,
    Horizon,            \* bound: the clock stops here
    MaxGrants,          \* bound: allow decisions recorded in one behaviour
    Star,                \* the "*" pattern
    None                \* Python's None, and the empty string of an optional field

VARIABLES
    now,         \* utc_now()
    agents,      \* store.agents
    delegations, \* store.delegations
    approvals,   \* store.approvals
    grants,      \* the allow decisions, each with its token's expiry
    legacy       \* the call of decide in progress, with what it has read, or None

vars == <<now, agents, delegations, approvals, grants, legacy>>

ASSUME BoundsAssumption ==
    /\ ApprovalTTL \in Nat \ {0}
    /\ TokenTTL \in Nat \ {0}
    /\ Horizon \in Nat
    /\ MaxGrants \in Nat

\* model_copy(update={'enabled': ...})
WithStatus(a, enabled) == [a EXCEPT !.enabled = enabled]

ASSUME RecordAssumption ==
    /\ \A a \in AgentRecords :
         /\ a.agent_id \in AgentIds
         /\ a.enabled \in BOOLEAN
         /\ \A e \in BOOLEAN : WithStatus(a, e) \in AgentRecords
    /\ \A p \in DelegationPayloads :
         p.delegation_id \in DelegationIds /\ p.ttl_seconds \in Nat \ {0}
    /\ \A r \in Requests :
         /\ r.agent_id \in AgentIds
         /\ r.delegation_id \in DelegationIds \cup {None}
         /\ r.mode \in {"delegated", "agent"}

\* A request is what its fields say, those that approvals are bound to.
ASSUME RequestAssumption ==
    \A r, s \in Requests :
      (   /\ r.mode = s.mode           /\ r.tenant_id = s.tenant_id
          /\ r.user_id = s.user_id     /\ r.agent_id = s.agent_id
          /\ r.delegation_id = s.delegation_id
          /\ r.task_id = s.task_id     /\ r.tool_name = s.tool_name
          /\ r.resource_id = s.resource_id
          /\ r.action = s.action       /\ r.digest = s.digest
          /\ r.instance = s.instance) => r = s

-----------------------------------------------------------------------------
(* Records.                                                                 *)

Smaller(a, b) == IF a <= b THEN a ELSE b

\* DelegationRecord: the payload it was created from and its expiry.  Nothing in
\* the code ever writes another status than "active", so it is left out.
DelegationRecords == [terms : DelegationPayloads, expires_at : Nat]

\* ApprovalRecord: the request it is bound to (its identity, task, tool,
\* resource, action and, for a strict one, digest and instance), its status and
\* the times the strict checks read.
ApprovalRecords ==
    [bound : Requests, status : {"pending", "approved", "denied"},
     expires_at : Nat \cup {None}, consumed_at : Nat \cup {None}]

Grants ==
    [request : Requests, approval_id : ApprovalIds \cup {None}, at : Nat,
     token_expires : Nat, strict : BOOLEAN]

\* A call of decide between its two steps.
LegacyCalls ==
    [request : Requests, approval_id : ApprovalIds \cup {None}, risky : BOOLEAN,
     delegated_until : Nat]

\* The absent value is none of the values it stands in for.
ASSUME NoneAssumption ==
    /\ None \notin AgentIds /\ None \notin DelegationIds /\ None \notin ApprovalIds
    /\ None \notin Digests  /\ None \notin Nat          /\ None \notin AgentRecords
    /\ None \notin DelegationRecords /\ None \notin ApprovalRecords
    /\ None \notin LegacyCalls

\* ApprovalRecord.request_digest is not None
IsStrict(p) == p.bound.digest # None

Patterns(value, patterns) == Star \in patterns \/ value \in patterns

\* The fields models.py compares for every approval.
SameContext(b, r) ==
    /\ b.mode = r.mode           /\ b.tenant_id = r.tenant_id
    /\ b.user_id = r.user_id     /\ b.agent_id = r.agent_id
    /\ b.delegation_id = r.delegation_id
    /\ b.task_id = r.task_id     /\ b.tool_name = r.tool_name
    /\ b.resource_id = r.resource_id
    /\ b.action = r.action

ContextOnly(p, r) == SameContext(p.bound, r)

Matches(p, r) ==
    /\ SameContext(p.bound, r)
    /\ IsStrict(p) => /\ p.bound.digest = r.digest
                      /\ p.bound.instance = r.instance

RequiresApproval(r) ==
    agents[r.agent_id].risk_tier = "high" \/ r.action \in HighRiskActions

\* The claims _delegation_mismatch compares; an empty scope restricts nothing.
DelegationFits(r, d) ==
    /\ d.terms.user_id = r.user_id
    /\ d.terms.agent_id = r.agent_id
    /\ d.terms.task_id = r.task_id
    /\ d.terms.resources = {} \/ Patterns(r.resource_id, d.terms.resources)
    /\ d.terms.actions = {} \/ Patterns(r.action, d.terms.actions)

-----------------------------------------------------------------------------
(* Strict evaluation (_evaluate_strict), the early returns as conjuncts.    *)

AgentAdmits(r) ==
    /\ r.tenant_id # None
    /\ r.digest \in Digests
    /\ agents[r.agent_id] # None
    /\ LET a == agents[r.agent_id] IN
         /\ a.tenant_id = r.tenant_id
         /\ a.enabled
         /\ Patterns(r.tool_name, a.tools)
         /\ Patterns(r.resource_id, a.resources)

Autonomous(r) ==
    LET a == agents[r.agent_id] IN
    /\ r.user_id = None /\ r.delegation_id = None /\ r.task_id = None
    /\ a.allow_autonomous
    /\ Patterns(r.action, a.actions)

Delegated(r) ==
    /\ r.user_id # None /\ r.delegation_id # None /\ r.task_id # None
    /\ delegations[r.delegation_id] # None
    /\ LET d == delegations[r.delegation_id] IN
         /\ d.terms.tenant_id = r.tenant_id
         /\ d.expires_at > now
         /\ DelegationFits(r, d)
         /\ Patterns(r.resource_id, d.terms.resources)
         /\ Patterns(r.action, d.terms.actions)

Admits(r) == AgentAdmits(r) /\ IF r.mode = "agent" THEN Autonomous(r) ELSE Delegated(r)

\* The approval can still decide the request: bound to it, unspent, not expired.
LiveApproval(p, r) ==
    /\ p # None
    /\ IsStrict(p)
    /\ Matches(p, r)
    /\ p.consumed_at = None
    /\ p.expires_at > now

DelegationLimitIgnored(r, t) == t

\* The expiry that bounds what the request may obtain.
DelegationLimit(r, t) ==
    IF r.mode = "agent" THEN t ELSE Smaller(t, delegations[r.delegation_id].expires_at)

-----------------------------------------------------------------------------
(* Operations.                                                              *)

Init ==
    /\ now = 0
    /\ agents = [a \in AgentIds |-> None]
    /\ delegations = [d \in DelegationIds |-> None]
    /\ approvals = [p \in ApprovalIds |-> None]
    /\ grants = <<>>
    /\ legacy = None

Tick ==
    /\ now < Horizon
    /\ now' = now + 1
    /\ UNCHANGED <<agents, delegations, approvals, grants, legacy>>

\* register_agent: an upsert, whatever was registered before.
RegisterAgent(rec) ==
    /\ agents' = [agents EXCEPT ![rec.agent_id] = rec]
    /\ UNCHANGED <<now, delegations, approvals, grants, legacy>>

\* The console's enable/disable switch: read and upsert in one transaction.
SetAgentStatus(a, enabled) ==
    /\ agents[a] # None
    /\ agents' = [agents EXCEPT ![a] = WithStatus(agents[a], enabled)]
    /\ UNCHANGED <<now, delegations, approvals, grants, legacy>>

\* create_delegation replaces a delegation of the same id (how a demo renews one).
CreateDelegation(payload) ==
    /\ delegations' = [delegations EXCEPT ![payload.delegation_id] =
                         [terms |-> payload, expires_at |-> now + payload.ttl_seconds]]
    /\ UNCHANGED <<now, agents, approvals, grants, legacy>>

\* A new pending approval under an unused id.
OpenApproval(r, expires) ==
    \E id \in ApprovalIds :
      /\ approvals[id] = None
      /\ approvals' = [approvals EXCEPT ![id] =
           [bound |-> r, status |-> "pending", expires_at |-> expires,
            consumed_at |-> None]]

Entry(r, id, at, strict, limit) ==
    [request |-> r, approval_id |-> id, at |-> at, strict |-> strict,
     token_expires |-> limit]

\* An allow decision.  The token's lifetime starts at a second reading of the
\* clock, `later', taken after the decision's own.
Grant(r, id, strict, later, limit) ==
    /\ Len(grants) < MaxGrants
    /\ later \in now .. Horizon
    /\ now' = later
    /\ grants' = Append(grants, Entry(r, id, now, strict, limit))

\* authorize: high-risk and no approval named, so a bound approval is opened.
AuthorizeOpen(r) ==
    /\ Admits(r)
    /\ RequiresApproval(r)
    /\ OpenApproval(r, DelegationLimit(r, now + ApprovalTTL))
    /\ UNCHANGED <<now, agents, delegations, grants, legacy>>

\* authorize: nothing risky, allowed at once.
AuthorizeAllow(r, later) ==
    /\ Admits(r)
    /\ ~RequiresApproval(r)
    /\ Grant(r, None, TRUE, later, DelegationLimit(r, later + TokenTTL))
    /\ UNCHANGED <<agents, delegations, approvals, legacy>>

SpendWithoutConsuming(r, id, later) ==
    /\ Admits(r)
    /\ LiveApproval(approvals[id], r)
    /\ approvals[id].status = "approved"
    /\ Grant(r, id, TRUE, later, DelegationLimit(r, later + TokenTTL))
    /\ UNCHANGED <<agents, delegations, approvals, legacy>>

SpendPending(r, id, later) ==
    /\ Admits(r)
    /\ LiveApproval(approvals[id], r)
    /\ approvals[id].status # "denied"
    /\ approvals' = [approvals EXCEPT ![id].consumed_at = now]
    /\ Grant(r, id, TRUE, later, DelegationLimit(r, later + TokenTTL))
    /\ UNCHANGED <<agents, delegations, legacy>>

\* authorize with an approval id: the approval is spent in the same transaction.
AuthorizeSpend(r, id, later) ==
    /\ Admits(r)
    /\ LiveApproval(approvals[id], r)
    /\ approvals[id].status = "approved"
    /\ approvals' = [approvals EXCEPT ![id].consumed_at = now]
    /\ Grant(r, id, TRUE, later, DelegationLimit(r, later + TokenTTL))
    /\ UNCHANGED <<agents, delegations, legacy>>

ReviewableTwice(p) == IsStrict(p) => p.consumed_at = None /\ p.expires_at > now

\* A strict approval is decided once, in time; a legacy one may be re-decided.
Reviewable(p) ==
    IsStrict(p) => p.consumed_at = None /\ p.status = "pending" /\ p.expires_at > now

\* approve and deny (_set_approval_status).
Review(id, status) ==
    /\ approvals[id] # None
    /\ Reviewable(approvals[id])
    /\ approvals' = [approvals EXCEPT ![id].status = status]
    /\ UNCHANGED <<now, agents, delegations, grants, legacy>>

-----------------------------------------------------------------------------
(* The legacy entry point (decide) for requests without a strict binding;   *)
(* every other request it receives goes to authorize.                       *)

Legacy(r, id) ==
    /\ r.mode = "delegated"
    /\ r.digest = None
    /\ id # None => (approvals[id] # None => ~IsStrict(approvals[id]))

LegacyAdmits(r) ==
    /\ agents[r.agent_id] # None
    /\ LET a == agents[r.agent_id] IN
         /\ a.enabled
         /\ a.tools = {} \/ Patterns(r.tool_name, a.tools)
         /\ a.resources = {} \/ Patterns(r.resource_id, a.resources)
    /\ r.delegation_id # None
    /\ delegations[r.delegation_id] # None
    /\ delegations[r.delegation_id].expires_at > now
    /\ DelegationFits(r, delegations[r.delegation_id])

\* decide up to the delegation's checks: the records it read may change before it
\* answers.
DecideRead(r, id) ==
    /\ legacy = None
    /\ Legacy(r, id)
    /\ LegacyAdmits(r)
    /\ legacy' = [request |-> r, approval_id |-> id, risky |-> RequiresApproval(r),
                  delegated_until |-> delegations[r.delegation_id].expires_at]
    /\ UNCHANGED <<now, agents, delegations, approvals, grants>>

\* _approved_record: approved and bound to the same context; never spent.
LegacyApproved ==
    /\ legacy.approval_id # None
    /\ approvals[legacy.approval_id] # None
    /\ approvals[legacy.approval_id].status = "approved"
    /\ Matches(approvals[legacy.approval_id], legacy.request)

\* decide opens an approval without digest and expiry; the agent instance, which it
\* does not record either, is not read for such an approval.
DecideOpen ==
    /\ legacy # None
    /\ legacy.risky /\ ~LegacyApproved
    /\ OpenApproval(legacy.request, None)
    /\ legacy' = None
    /\ UNCHANGED <<now, agents, delegations, grants>>

DecideAllow(later) ==
    /\ legacy # None
    /\ legacy.risky => LegacyApproved
    /\ Grant(legacy.request, IF legacy.risky THEN legacy.approval_id ELSE None, FALSE, later,
             Smaller(later + TokenTTL, legacy.delegated_until))
    /\ legacy' = None
    /\ UNCHANGED <<agents, delegations, approvals>>

-----------------------------------------------------------------------------
Next ==
    \/ Tick
    \/ \E rec \in AgentRecords : RegisterAgent(rec)
    \/ \E a \in AgentIds, e \in BOOLEAN : SetAgentStatus(a, e)
    \/ \E p \in DelegationPayloads : CreateDelegation(p)
    \/ \E r \in Requests : AuthorizeOpen(r)
    \/ \E r \in Requests, t \in 0 .. Horizon : AuthorizeAllow(r, t)
    \/ \E r \in Requests, id \in ApprovalIds, t \in 0 .. Horizon : AuthorizeSpend(r, id, t)
    \/ \E id \in ApprovalIds, s \in {"approved", "denied"} : Review(id, s)
    \/ \E r \in Requests, id \in ApprovalIds \cup {None} : DecideRead(r, id)
    \/ DecideOpen
    \/ \E t \in 0 .. Horizon : DecideAllow(t)

Spec == Init /\ [][Next]_vars

-----------------------------------------------------------------------------
(* Properties.                                                              *)

\* Every record is of the shape models.py declares.
TypeOK ==
    /\ now \in 0 .. Horizon
    /\ agents \in [AgentIds -> AgentRecords \cup {None}]
    /\ delegations \in [DelegationIds -> DelegationRecords \cup {None}]
    /\ approvals \in [ApprovalIds -> ApprovalRecords \cup {None}]
    /\ grants \in Seq(Grants)
    /\ legacy \in LegacyCalls \cup {None}

\* The grant rests on a strict approval among the records ps.
OnStrict(ps, g) == g.approval_id # None /\ (ps[g.approval_id] # None => IsStrict(ps[g.approval_id]))

\* A strict approval lets one request through, however requests, reviews, renewed
\* delegations and the legacy entry point interleave ("one-time approval
\* consumption", broker.py decide).
SpentOnce ==
    \A i, j \in 1 .. Len(grants) :
      (OnStrict(approvals, grants[i]) /\ grants[j].approval_id = grants[i].approval_id) => i = j

\* The grant names an approved approval among the records ps, granted within its
\* lifetime and bound to the same request.
Reviewed(ps, g) ==
    /\ g.approval_id # None
    /\ ps[g.approval_id] # None
    /\ LET p == ps[g.approval_id] IN
         /\ p.status = "approved"
         /\ g.at < p.expires_at
         /\ SameContext(p.bound, g.request)
         /\ p.bound.digest = g.request.digest
         /\ p.bound.instance = g.request.instance

\* What strict authorization lets through as a high-risk action was reviewed: the grant
\* names an approval that a human approved, that was running when it was granted,
\* and that is bound to this very request, down to its digest and agent instance.  Other
\* actions of an agent whose own risk tier is high go the same way, but a grant does not
\* keep the tier of its moment, so nothing is claimed of them.
ReviewedBeforeGrant ==
    \A i \in 1 .. Len(grants) :
      (grants[i].strict /\ grants[i].request.action \in HighRiskActions) =>
        Reviewed(approvals, grants[i])

\* What a step may do to a strict approval.
KeepsReview(id) ==
    LET p == approvals[id]
        q == approvals'[id]
    IN  /\ q # None
        /\ q.bound = p.bound /\ q.expires_at = p.expires_at
        /\ p.status # "pending" => q.status = p.status
        /\ p.consumed_at # None => q.consumed_at = p.consumed_at
        /\ q.consumed_at # p.consumed_at => p.status = "approved" /\ now < p.expires_at

\* No step rewrites what a reviewer saw: once opened, a strict approval keeps its
\* binding and lifetime, its verdict never changes, and only an approved,
\* unexpired one is ever marked consumed.
ReviewIsFinal ==
    [][\A id \in ApprovalIds :
         (approvals[id] # None /\ IsStrict(approvals[id])) => KeepsReview(id)]_vars

\* An approval opened by the step does not outlive the delegation it is based on.
OpensWithinDelegation(id) ==
    LET q == approvals'[id] IN
    (approvals[id] = None /\ q # None /\ IsStrict(q) /\ q.bound.mode = "delegated") =>
      q.expires_at <= delegations[q.bound.delegation_id].expires_at

\* Nor does the token of a grant made by the step, which is made while it lasts.
GrantsWithinDelegation(g) ==
    (g.strict /\ g.request.mode = "delegated") =>
      /\ g.token_expires <= delegations[g.request.delegation_id].expires_at
      /\ g.at < delegations[g.request.delegation_id].expires_at

\* Nothing that strict authorization bases on a delegation outlives it, although
\* delegations are replaced under the same id and the token reads the clock a
\* second time: when it is issued, an approval or a token expires no later than the
\* delegation in the store, which is still running at the decision.
NothingOutlivesDelegation ==
    [][/\ \A id \in ApprovalIds : OpensWithinDelegation(id)
       /\ \A i \in (Len(grants) + 1) .. Len(grants') : GrantsWithinDelegation(grants'[i])]_vars

-----------------------------------------------------------------------------
(* The broker implements OneTimeApproval: legacy approvals, which are not   *)
(* one-time, are invisible there.                                           *)

Stage(p) ==
    IF p = None THEN "none"
    ELSE IF ~IsStrict(p) THEN "none"
    ELSE IF p.consumed_at # None THEN "spent"
    ELSE p.status

Subject(p) == IF p = None THEN None ELSE IF IsStrict(p) THEN p.bound ELSE None

StrictUses ==
    {<<i, grants[i].approval_id, grants[i].request>> :
       i \in {j \in 1 .. Len(grants) : grants[j].strict /\ grants[j].approval_id # None}}

OTA == INSTANCE OneTimeApproval WITH
    Ids <- ApprovalIds, Subjects <- Requests, UseIds <- 1 .. MaxGrants,
    stage <- [id \in ApprovalIds |-> Stage(approvals[id])],
    subject <- [id \in ApprovalIds |-> Subject(approvals[id])],
    uses <- StrictUses

\* Every behaviour of the broker, seen through its strict approvals, is one the
\* one-time approval allows.
ImplementsOneTimeApproval == OTA!ASpec
=============================================================================
