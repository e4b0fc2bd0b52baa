------------------------- MODULE AccessBrokerProofs -------------------------
(***************************************************************************)
(* Proofs about AccessBroker for every set of agents, delegations, requests *)
(* and approvals, every lifetime and every bound, and about the store under *)
(* it, whose names begin with Store where the two modules share one.        *)
(***************************************************************************)
EXTENDS AccessBroker, BrokerStore, TLAPS

\* A call of decide in progress carries no digest, so no strict approval matches it.
LegacyUnbound == legacy # None => legacy.request.digest = None

\* An approval that the grant names exists among the records ps; a strict grant rests
\* on a strict one; and if it is strict, it is spent.
Rests(ps, g) ==
    g.approval_id # None =>
      LET p == ps[g.approval_id] IN
      /\ p # None
      /\ g.strict => IsStrict(p)
      /\ IsStrict(p) => p.consumed_at # None

NamedApprovals == \A i \in 1 .. Len(grants) : Rests(approvals, grants[i])

\* The inductive invariant.  SpentOnce alone is not inductive: that an unspent
\* approval has no grant yet is what NamedApprovals adds.
IInv == TypeOK /\ LegacyUnbound /\ NamedApprovals /\ SpentOnce /\ ReviewedBeforeGrant

-----------------------------------------------------------------------------
\* A delegated request that is admitted has a delegation in the store, still running.
LEMMA AdmittedDelegation ==
    ASSUME TypeOK, NEW r \in Requests, Admits(r), r.mode # "agent"
    PROVE  /\ r.delegation_id \in DelegationIds
           /\ delegations[r.delegation_id] \in DelegationRecords
           /\ delegations[r.delegation_id].expires_at \in Nat
           /\ now < delegations[r.delegation_id].expires_at
  <1>1. r.delegation_id \in DelegationIds /\ delegations[r.delegation_id] # None
    BY RecordAssumption DEF Admits, Delegated
  <1>2. delegations[r.delegation_id] \in DelegationRecords
    BY <1>1 DEF TypeOK
  <1>3. delegations[r.delegation_id].expires_at \in Nat
    BY <1>2 DEF DelegationRecords
  <1>4. now < delegations[r.delegation_id].expires_at
    BY <1>3, BoundsAssumption DEF Admits, Delegated, TypeOK
  <1>. QED BY <1>1, <1>2, <1>3, <1>4

\* DelegationLimit never exceeds the time it is given nor the delegation.
LEMMA LimitIsBounded ==
    ASSUME TypeOK, NEW r \in Requests, Admits(r), NEW t \in Nat
    PROVE  /\ DelegationLimit(r, t) \in Nat
           /\ DelegationLimit(r, t) <= t
           /\ r.mode = "delegated" =>
                DelegationLimit(r, t) <= delegations[r.delegation_id].expires_at
  BY AdmittedDelegation, RecordAssumption DEF DelegationLimit, Smaller

\* An empty store satisfies the inductive invariant.
LEMMA InitIInv == Init => IInv
  BY BoundsAssumption
  DEF Init, IInv, TypeOK, LegacyUnbound, NamedApprovals, SpentOnce, ReviewedBeforeGrant

-----------------------------------------------------------------------------
\* Opening an approval: the store gets one more record, under an id that was free.
LEMMA OpenApprovalType ==
    ASSUME TypeOK, NEW r \in Requests, NEW e \in Nat \cup {None}, OpenApproval(r, e)
    PROVE  approvals' \in [ApprovalIds -> ApprovalRecords \cup {None}]
  <1>1. PICK id \in ApprovalIds :
          approvals' = [approvals EXCEPT ![id] =
             [bound |-> r, status |-> "pending", expires_at |-> e, consumed_at |-> None]]
    BY DEF OpenApproval
  <1>2. [bound |-> r, status |-> "pending", expires_at |-> e, consumed_at |-> None]
          \in ApprovalRecords
    BY DEF ApprovalRecords
  <1>. QED BY <1>1, <1>2 DEF TypeOK

\* A grant moves the clock within its range and adds one entry to the trail.
LEMMA GrantType ==
    ASSUME TypeOK, NEW r \in Requests, NEW id \in ApprovalIds \cup {None},
           NEW s \in BOOLEAN, NEW later, NEW limit \in Nat, Grant(r, id, s, later, limit)
    PROVE  /\ now' \in 0 .. Horizon
           /\ grants' \in Seq(Grants)
           /\ Len(grants') = Len(grants) + 1
           /\ \A i \in 1 .. Len(grants) : grants'[i] = grants[i]
           /\ grants'[Len(grants) + 1] = Entry(r, id, now, s, limit)
  <1>. DEFINE g == Entry(r, id, now, s, limit)
  <1>1. g \in Grants
    BY BoundsAssumption DEF TypeOK, Grants, Entry
  <1>2. grants' = Append(grants, g) /\ grants \in Seq(Grants)
    BY DEF Grant, TypeOK
  <1>3. now' \in 0 .. Horizon
    BY BoundsAssumption DEF Grant, TypeOK
  <1>. HIDE DEF g
  <1>4. /\ grants' \in Seq(Grants) /\ Len(grants') = Len(grants) + 1
        /\ \A i \in 1 .. Len(grants) : grants'[i] = grants[i]
        /\ grants'[Len(grants) + 1] = g
    BY <1>1, <1>2
  <1>. QED BY <1>3, <1>4 DEF g
-----------------------------------------------------------------------------
\* What a step does to the approvals that earlier grants rest on: they stay bound as
\* they were, and the strict ones do not change at all.
KeepsNamed ==
    \A i \in 1 .. Len(grants) :
      grants[i].approval_id # None =>
        LET p == approvals[grants[i].approval_id]
            q == approvals'[grants[i].approval_id]
        IN  q # None /\ q.bound = p.bound /\ (IsStrict(p) => q = p)

\* Such a step preserves what the invariant says of each earlier grant.
LEMMA EarlierGrants ==
    ASSUME IInv, KeepsNamed, NEW i \in 1 .. Len(grants)
    PROVE  /\ Rests(approvals', grants[i])
           /\ OnStrict(approvals', grants[i]) => OnStrict(approvals, grants[i])
           /\ (grants[i].strict /\ grants[i].request.action \in HighRiskActions) =>
                Reviewed(approvals', grants[i])
  <1>1. CASE grants[i].approval_id = None
    BY <1>1 DEF IInv, ReviewedBeforeGrant, Rests, OnStrict, Reviewed
  <1>2. CASE grants[i].approval_id # None
    <2>. DEFINE p == approvals[grants[i].approval_id]
                q == approvals'[grants[i].approval_id]
    <2>1. Rests(approvals, grants[i]) /\ p # None
      BY <1>2 DEF IInv, NamedApprovals, Rests
    <2>2. q # None /\ q.bound = p.bound /\ (IsStrict(p) => q = p)
      BY <1>2 DEF KeepsNamed
    <2>3. IsStrict(q) <=> IsStrict(p)
      BY <2>2 DEF IsStrict
    <2>4. Rests(approvals', grants[i])
      BY <2>1, <2>2, <2>3 DEF Rests
    <2>5. OnStrict(approvals', grants[i]) => OnStrict(approvals, grants[i])
      BY <2>1, <2>2, <2>3 DEF OnStrict
    <2>6. ASSUME grants[i].strict, grants[i].request.action \in HighRiskActions
          PROVE  Reviewed(approvals', grants[i])
      <3>1. q = p
        BY <2>1, <2>2, <2>6, <1>2 DEF Rests
      <3>2. Reviewed(approvals, grants[i])
        BY <2>6 DEF IInv, ReviewedBeforeGrant
      <3>. QED BY <3>1, <3>2 DEF Reviewed
    <2>. QED BY <2>4, <2>5, <2>6
  <1>. QED BY <1>1, <1>2

\* A step that grants nothing and keeps the named approvals preserves the three
\* invariants about grants.
LEMMA NoNewGrant ==
    ASSUME IInv, KeepsNamed, UNCHANGED grants
    PROVE  NamedApprovals' /\ SpentOnce' /\ ReviewedBeforeGrant'
  <1>1. NamedApprovals'
    BY EarlierGrants DEF NamedApprovals
  <1>2. SpentOnce'
    BY EarlierGrants DEF IInv, SpentOnce
  <1>3. ReviewedBeforeGrant'
    BY EarlierGrants DEF ReviewedBeforeGrant
  <1>. QED BY <1>1, <1>2, <1>3

\* A step that adds one grant preserves them if the new grant is sound and no
\* earlier grant rests on its approval.
LEMMA OneNewGrant ==
    ASSUME IInv, KeepsNamed, grants \in Seq(Grants), NEW g,
           Len(grants') = Len(grants) + 1,
           \A i \in 1 .. Len(grants) : grants'[i] = grants[i],
           grants'[Len(grants) + 1] = g,
           Rests(approvals', g),
           OnStrict(approvals', g) =>
             \A i \in 1 .. Len(grants) : grants[i].approval_id # g.approval_id,
           (g.strict /\ g.request.action \in HighRiskActions) => Reviewed(approvals', g)
    PROVE  NamedApprovals' /\ SpentOnce' /\ ReviewedBeforeGrant'
  <1>. DEFINE n == Len(grants) + 1
  <1>1. n \in Nat /\ 1 .. Len(grants') = (1 .. Len(grants)) \cup {n}
    OBVIOUS
  <1>. HIDE DEF n
  <1>0. grants'[n] = g
    BY DEF n
  <1>2. NamedApprovals'
    BY <1>0, <1>1, EarlierGrants DEF NamedApprovals
  <1>3. SpentOnce'
    <2>. SUFFICES ASSUME NEW i \in 1 .. Len(grants'), NEW j \in 1 .. Len(grants'),
                         OnStrict(approvals', grants'[i]),
                         grants'[j].approval_id = grants'[i].approval_id
                  PROVE  i = j
      BY DEF SpentOnce
    <2>1. CASE i \in 1 .. Len(grants) /\ j \in 1 .. Len(grants)
      BY <2>1, EarlierGrants DEF IInv, SpentOnce
    <2>2. CASE i = n /\ j \in 1 .. Len(grants)
      BY <2>2, <1>0
    <2>3. CASE i \in 1 .. Len(grants) /\ j = n
      <3>1. OnStrict(approvals', g)
        BY <2>3, <1>0 DEF OnStrict
      <3>. QED BY <3>1, <2>3, <1>0
    <2>. QED BY <1>1, <2>1, <2>2, <2>3
  <1>4. ReviewedBeforeGrant'
    BY <1>0, <1>1, EarlierGrants DEF ReviewedBeforeGrant
  <1>. QED BY <1>2, <1>3, <1>4

-----------------------------------------------------------------------------
(* One lemma per kind of operation.                                         *)

\* The clock and the administrator's operations touch no approval, grant or call.
LEMMA AdministrationStep ==
    ASSUME IInv, Tick \/ (\E rec \in AgentRecords : RegisterAgent(rec))
                 \/ (\E a \in AgentIds, e \in BOOLEAN : SetAgentStatus(a, e))
                 \/ (\E p \in DelegationPayloads : CreateDelegation(p))
    PROVE  IInv'
  <1>1. UNCHANGED <<approvals, grants, legacy>>
    BY DEF Tick, RegisterAgent, SetAgentStatus, CreateDelegation
  <1>2. NamedApprovals' /\ SpentOnce' /\ ReviewedBeforeGrant' /\ LegacyUnbound'
    BY <1>1 DEF IInv, NamedApprovals, SpentOnce, ReviewedBeforeGrant, LegacyUnbound
  <1>3. TypeOK'
    <2>1. CASE Tick
      BY <2>1, BoundsAssumption DEF IInv, TypeOK, Tick
    <2>2. ASSUME NEW rec \in AgentRecords, RegisterAgent(rec) PROVE TypeOK'
      BY <2>2, RecordAssumption DEF IInv, TypeOK, RegisterAgent
    <2>3. ASSUME NEW a \in AgentIds, NEW e \in BOOLEAN, SetAgentStatus(a, e) PROVE TypeOK'
      <3>1. WithStatus(agents[a], e) \in AgentRecords
        BY <2>3, RecordAssumption DEF IInv, TypeOK, SetAgentStatus
      <3>. QED BY <2>3, <3>1 DEF IInv, TypeOK, SetAgentStatus
    <2>4. ASSUME NEW p \in DelegationPayloads, CreateDelegation(p) PROVE TypeOK'
      <3>1. [terms |-> p, expires_at |-> now + p.ttl_seconds] \in DelegationRecords
        BY RecordAssumption, BoundsAssumption DEF IInv, TypeOK, DelegationRecords
      <3>. QED BY <2>4, <3>1, RecordAssumption DEF IInv, TypeOK, CreateDelegation
    <2>. QED BY <2>1, <2>2, <2>3, <2>4
  <1>. QED BY <1>2, <1>3 DEF IInv

\* The approval a grant names is one of the store's.
LEMMA NamedId ==
    ASSUME TypeOK, NEW i \in 1 .. Len(grants), grants[i].approval_id # None
    PROVE  grants[i].approval_id \in ApprovalIds
  <1>1. grants[i] \in Grants
    BY DEF TypeOK
  <1>. QED BY <1>1 DEF Grants

\* A new approval takes an id that no grant can name yet.
LEMMA OpenKeepsNamed ==
    ASSUME IInv, NEW r \in Requests, NEW e \in Nat \cup {None}, OpenApproval(r, e)
    PROVE  KeepsNamed
  <1>. SUFFICES ASSUME NEW i \in 1 .. Len(grants), grants[i].approval_id # None
                PROVE  /\ approvals[grants[i].approval_id] # None
                       /\ approvals'[grants[i].approval_id] = approvals[grants[i].approval_id]
    BY DEF KeepsNamed
  <1>1. approvals[grants[i].approval_id] # None
    BY DEF IInv, NamedApprovals, Rests
  <1>2. grants[i].approval_id \in ApprovalIds
    BY NamedId DEF IInv
  <1>3. PICK id \in ApprovalIds :
          /\ approvals[id] = None
          /\ approvals' = [approvals EXCEPT ![id] =
             [bound |-> r, status |-> "pending", expires_at |-> e, consumed_at |-> None]]
    BY DEF OpenApproval
  <1>. QED BY <1>1, <1>2, <1>3 DEF IInv, TypeOK

\* authorize opening an approval preserves the invariant.
LEMMA AuthorizeOpenStep ==
    ASSUME IInv, NEW r \in Requests, AuthorizeOpen(r)
    PROVE  IInv'
  <1>. DEFINE e == DelegationLimit(r, now + ApprovalTTL)
  <1>1. e \in Nat
    BY LimitIsBounded, BoundsAssumption DEF IInv, TypeOK, AuthorizeOpen
  <1>2. OpenApproval(r, e) /\ UNCHANGED <<now, agents, delegations, grants, legacy>>
    BY DEF AuthorizeOpen
  <1>. HIDE DEF e
  <1>3. TypeOK'
    BY <1>1, <1>2, OpenApprovalType DEF IInv, TypeOK
  <1>4. NamedApprovals' /\ SpentOnce' /\ ReviewedBeforeGrant'
    BY <1>1, <1>2, OpenKeepsNamed, NoNewGrant
  <1>. QED BY <1>2, <1>3, <1>4 DEF IInv, LegacyUnbound

\* authorize allowing a harmless request preserves the invariant: the new grant names
\* no approval and its action is not a high-risk one.
LEMMA AuthorizeAllowStep ==
    ASSUME IInv, NEW r \in Requests, NEW t \in 0 .. Horizon, AuthorizeAllow(r, t)
    PROVE  IInv'
  <1>. DEFINE limit == DelegationLimit(r, t + TokenTTL)
              g == Entry(r, None, now, TRUE, limit)
  <1>1. limit \in Nat
    BY LimitIsBounded, BoundsAssumption DEF IInv, TypeOK, AuthorizeAllow
  <1>2. /\ Grant(r, None, TRUE, t, limit) /\ ~RequiresApproval(r)
        /\ UNCHANGED <<agents, delegations, approvals, legacy>>
    BY DEF AuthorizeAllow
  <1>. HIDE DEF limit
  <1>3. /\ now' \in 0 .. Horizon /\ grants' \in Seq(Grants)
        /\ Len(grants') = Len(grants) + 1
        /\ \A i \in 1 .. Len(grants) : grants'[i] = grants[i]
        /\ grants'[Len(grants) + 1] = g
    <2>1. TypeOK /\ TRUE \in BOOLEAN
      BY DEF IInv
    <2>. QED BY <1>1, <1>2, <2>1, GrantType
  <1>4. KeepsNamed
    BY <1>2 DEF KeepsNamed, IInv, NamedApprovals, Rests
  <1>5. /\ Rests(approvals', g) /\ ~OnStrict(approvals', g)
        /\ g.request.action \notin HighRiskActions
    BY <1>2 DEF Rests, OnStrict, RequiresApproval, Entry
  <1>. HIDE DEF g
  <1>6. grants \in Seq(Grants)
    BY DEF IInv, TypeOK
  <1>7. NamedApprovals' /\ SpentOnce' /\ ReviewedBeforeGrant'
    BY <1>3, <1>4, <1>5, <1>6, OneNewGrant
  <1>8. TypeOK'
    BY <1>2, <1>3 DEF IInv, TypeOK
  <1>. QED BY <1>2, <1>7, <1>8 DEF IInv, LegacyUnbound

\* A live approval is unspent, so no earlier grant names it; spending it makes the
\* new grant the only one.
LEMMA AuthorizeSpendStep ==
    ASSUME IInv, NEW r \in Requests, NEW id \in ApprovalIds, NEW t \in 0 .. Horizon,
           AuthorizeSpend(r, id, t)
    PROVE  IInv'
  <1>. DEFINE limit == DelegationLimit(r, t + TokenTTL)
              g == Entry(r, id, now, TRUE, limit)
              p == approvals[id]
  <1>1. limit \in Nat
    BY LimitIsBounded, BoundsAssumption DEF IInv, TypeOK, AuthorizeSpend
  <1>2. /\ Grant(r, id, TRUE, t, limit) /\ LiveApproval(p, r) /\ p.status = "approved"
        /\ approvals' = [approvals EXCEPT ![id].consumed_at = now]
        /\ UNCHANGED <<agents, delegations, legacy>>
    BY DEF AuthorizeSpend
  <1>. HIDE DEF limit
  <1>3. /\ now' \in 0 .. Horizon /\ grants' \in Seq(Grants)
        /\ Len(grants') = Len(grants) + 1
        /\ \A i \in 1 .. Len(grants) : grants'[i] = grants[i]
        /\ grants'[Len(grants) + 1] = g
    <2>1. TypeOK /\ TRUE \in BOOLEAN
      BY DEF IInv
    <2>. QED BY <1>1, <1>2, <2>1, GrantType
  <1>4. /\ p \in ApprovalRecords /\ IsStrict(p) /\ Matches(p, r)
        /\ p.consumed_at = None /\ now < p.expires_at
    <2>1. p \in ApprovalRecords
      BY <1>2 DEF LiveApproval, IInv, TypeOK
    <2>. QED BY <1>2, <2>1 DEF LiveApproval
  <1>5. \A i \in 1 .. Len(grants) : grants[i].approval_id # id
    BY <1>4, NoneAssumption DEF IInv, NamedApprovals, Rests
  <1>6. /\ approvals'[id] \in ApprovalRecords
        /\ approvals'[id] = [p EXCEPT !.consumed_at = now]
        /\ \A k \in ApprovalIds : k # id => approvals'[k] = approvals[k]
        /\ approvals' \in [ApprovalIds -> ApprovalRecords \cup {None}]
    BY <1>2, <1>4, BoundsAssumption DEF IInv, TypeOK, ApprovalRecords
  <1>7. /\ approvals'[id] # None /\ approvals'[id].bound = p.bound
        /\ approvals'[id].status = "approved" /\ approvals'[id].expires_at = p.expires_at
        /\ approvals'[id].consumed_at = now /\ now # None
    BY <1>2, <1>4, <1>6, NoneAssumption, BoundsAssumption DEF IInv, TypeOK, ApprovalRecords
  <1>8. KeepsNamed
    <2>. SUFFICES ASSUME NEW i \in 1 .. Len(grants), grants[i].approval_id # None
                  PROVE  /\ approvals[grants[i].approval_id] # None
                         /\ approvals'[grants[i].approval_id] = approvals[grants[i].approval_id]
      BY DEF KeepsNamed
    <2>1. approvals[grants[i].approval_id] # None
      BY DEF IInv, NamedApprovals, Rests
    <2>2. grants[i].approval_id \in ApprovalIds /\ grants[i].approval_id # id
      BY <1>5, NamedId DEF IInv
    <2>. QED BY <1>6, <2>1, <2>2
  <1>9. Rests(approvals', g)
    BY <1>4, <1>7 DEF Rests, IsStrict, Entry
  <1>10. Reviewed(approvals', g)
    BY <1>4, <1>7, NoneAssumption DEF Reviewed, Matches, Entry
  <1>11. grants \in Seq(Grants) /\ g.approval_id = id
    BY DEF IInv, TypeOK, Entry
  <1>. HIDE DEF g
  <1>12. NamedApprovals' /\ SpentOnce' /\ ReviewedBeforeGrant'
    BY <1>3, <1>5, <1>8, <1>9, <1>10, <1>11, OneNewGrant
  <1>13. TypeOK'
    BY <1>2, <1>3, <1>6 DEF IInv, TypeOK
  <1>. QED BY <1>2, <1>12, <1>13 DEF IInv, LegacyUnbound

\* A spent strict approval cannot be reviewed any more; a legacy one can.
LEMMA ReviewStep ==
    ASSUME IInv, NEW id \in ApprovalIds, NEW s \in {"approved", "denied"}, Review(id, s)
    PROVE  IInv'
  <1>1. /\ approvals[id] # None /\ Reviewable(approvals[id])
        /\ approvals' = [approvals EXCEPT ![id].status = s]
        /\ UNCHANGED <<now, agents, delegations, grants, legacy>>
    BY DEF Review
  <1>2. approvals[id] \in ApprovalRecords
    BY <1>1 DEF IInv, TypeOK
  <1>3. /\ approvals'[id] \in ApprovalRecords /\ approvals'[id].bound = approvals[id].bound
        /\ \A k \in ApprovalIds : k # id => approvals'[k] = approvals[k]
        /\ approvals' \in [ApprovalIds -> ApprovalRecords \cup {None}]
    BY <1>1, <1>2 DEF IInv, TypeOK, ApprovalRecords
  <1>4. KeepsNamed
    <2>. SUFFICES ASSUME NEW i \in 1 .. Len(grants), grants[i].approval_id # None
                  PROVE  LET p == approvals[grants[i].approval_id]
                             q == approvals'[grants[i].approval_id]
                         IN  q # None /\ q.bound = p.bound /\ (IsStrict(p) => q = p)
      BY DEF KeepsNamed
    <2>1. /\ grants[i].approval_id \in ApprovalIds
          /\ Rests(approvals, grants[i])
      BY NamedId DEF IInv, NamedApprovals
    <2>2. CASE grants[i].approval_id = id
      BY <1>1, <1>3, <2>1, <2>2, NoneAssumption DEF Rests, Reviewable
    <2>3. CASE grants[i].approval_id # id
      BY <1>3, <2>1, <2>3 DEF Rests
    <2>. QED BY <2>2, <2>3
  <1>5. NamedApprovals' /\ SpentOnce' /\ ReviewedBeforeGrant'
    BY <1>1, <1>4, NoNewGrant
  <1>6. TypeOK'
    BY <1>1, <1>3 DEF IInv, TypeOK
  <1>. QED BY <1>1, <1>5, <1>6 DEF IInv, LegacyUnbound

\* The call of decide that is in progress.
LEMMA LegacyCall ==
    ASSUME TypeOK, legacy # None
    PROVE  /\ legacy.request \in Requests /\ legacy.approval_id \in ApprovalIds \cup {None}
           /\ legacy.delegated_until \in Nat
  <1>1. legacy \in LegacyCalls
    BY DEF TypeOK
  <1>. QED BY <1>1 DEF LegacyCalls

\* What a legacy call is admitted by is a delegation in the store.
LEMMA DecideReadStep ==
    ASSUME IInv, NEW r \in Requests, NEW id \in ApprovalIds \cup {None}, DecideRead(r, id)
    PROVE  IInv'
  <1>1. UNCHANGED <<now, agents, delegations, approvals, grants>>
    BY DEF DecideRead
  <1>2. NamedApprovals' /\ SpentOnce' /\ ReviewedBeforeGrant'
    BY <1>1 DEF IInv, NamedApprovals, SpentOnce, ReviewedBeforeGrant
  <1>. DEFINE e == delegations[r.delegation_id].expires_at
              risky == RequiresApproval(r)
  <1>3. e \in Nat
    <2>1. r.delegation_id \in DelegationIds /\ delegations[r.delegation_id] # None
      BY RecordAssumption DEF DecideRead, LegacyAdmits
    <2>2. delegations[r.delegation_id] \in DelegationRecords
      BY <2>1 DEF IInv, TypeOK
    <2>. QED BY <2>2 DEF DelegationRecords
  <1>4. risky \in BOOLEAN
    BY DEF RequiresApproval
  <1>5. /\ legacy' = [request |-> r, approval_id |-> id, risky |-> risky,
                      delegated_until |-> e]
        /\ r.digest = None
    BY DEF DecideRead, Legacy
  <1>. HIDE DEF e, risky
  <1>6. legacy' \in LegacyCalls
    BY <1>3, <1>4, <1>5 DEF LegacyCalls
  <1>7. TypeOK'
    BY <1>1, <1>6 DEF IInv, TypeOK
  <1>8. LegacyUnbound'
    BY <1>5 DEF LegacyUnbound
  <1>. QED BY <1>2, <1>7, <1>8 DEF IInv

\* decide opening an approval preserves the invariant.
LEMMA DecideOpenStep ==
    ASSUME IInv, DecideOpen
    PROVE  IInv'
  <1>1. /\ legacy.request \in Requests /\ OpenApproval(legacy.request, None)
        /\ legacy' = None /\ UNCHANGED <<now, agents, delegations, grants>>
    BY LegacyCall DEF IInv, DecideOpen
  <1>2. TypeOK'
    BY <1>1, OpenApprovalType DEF IInv, TypeOK
  <1>3. NamedApprovals' /\ SpentOnce' /\ ReviewedBeforeGrant'
    BY <1>1, OpenKeepsNamed, NoNewGrant
  <1>. QED BY <1>1, <1>2, <1>3 DEF IInv, LegacyUnbound

\* A legacy call cannot lean on a strict approval, even one that was opened under
\* the id it names after it looked: it has no digest that could match.
LEMMA DecideAllowStep ==
    ASSUME IInv, NEW t \in 0 .. Horizon, DecideAllow(t)
    PROVE  IInv'
  <1>. DEFINE limit == Smaller(t + TokenTTL, legacy.delegated_until)
              r == legacy.request
              id == IF legacy.risky THEN legacy.approval_id ELSE None
              g == Entry(r, id, now, FALSE, limit)
  <1>1. r \in Requests /\ id \in ApprovalIds \cup {None} /\ r.digest = None
    BY LegacyCall DEF IInv, DecideAllow, LegacyUnbound
  <1>2. limit \in Nat
    BY LegacyCall, BoundsAssumption DEF IInv, DecideAllow, Smaller
  <1>3. /\ Grant(r, id, FALSE, t, limit) /\ legacy' = None
        /\ UNCHANGED <<agents, delegations, approvals>>
    BY DEF DecideAllow
  <1>4. id # None => approvals[id] # None /\ ~IsStrict(approvals[id])
    BY <1>1 DEF DecideAllow, LegacyApproved, Matches, IsStrict
  <1>. HIDE DEF limit, r, id
  <1>5. /\ now' \in 0 .. Horizon /\ grants' \in Seq(Grants)
        /\ Len(grants') = Len(grants) + 1
        /\ \A i \in 1 .. Len(grants) : grants'[i] = grants[i]
        /\ grants'[Len(grants) + 1] = g
    <2>1. TypeOK /\ FALSE \in BOOLEAN
      BY DEF IInv
    <2>. QED BY <1>1, <1>2, <1>3, <2>1, GrantType
  <1>6. KeepsNamed
    BY <1>3 DEF KeepsNamed, IInv, NamedApprovals, Rests
  <1>7. g.approval_id = id /\ g.strict = FALSE
    BY DEF Entry
  <1>8. Rests(approvals', g) /\ ~OnStrict(approvals', g)
    BY <1>3, <1>4, <1>7 DEF Rests, OnStrict
  <1>9. grants \in Seq(Grants)
    BY DEF IInv, TypeOK
  <1>. HIDE DEF g
  <1>10. NamedApprovals' /\ SpentOnce' /\ ReviewedBeforeGrant'
    BY <1>5, <1>6, <1>7, <1>8, <1>9, OneNewGrant
  <1>11. TypeOK'
    BY <1>3, <1>5 DEF IInv, TypeOK
  <1>. QED BY <1>3, <1>10, <1>11 DEF IInv, LegacyUnbound

\* Every step of the broker preserves the inductive invariant.
LEMMA NextIInv == IInv /\ [Next]_vars => IInv'
  <1>. SUFFICES ASSUME IInv, [Next]_vars PROVE IInv'
    OBVIOUS
  <1>1. ASSUME NEW r \in Requests, AuthorizeOpen(r) PROVE IInv'
    BY <1>1, AuthorizeOpenStep
  <1>2. ASSUME NEW r \in Requests, NEW t \in 0 .. Horizon, AuthorizeAllow(r, t) PROVE IInv'
    BY <1>2, AuthorizeAllowStep
  <1>3. ASSUME NEW r \in Requests, NEW id \in ApprovalIds, NEW t \in 0 .. Horizon,
               AuthorizeSpend(r, id, t)
        PROVE  IInv'
    BY <1>3, AuthorizeSpendStep
  <1>4. ASSUME NEW id \in ApprovalIds, NEW s \in {"approved", "denied"}, Review(id, s)
        PROVE  IInv'
    BY <1>4, ReviewStep
  <1>5. ASSUME NEW r \in Requests, NEW id \in ApprovalIds \cup {None}, DecideRead(r, id)
        PROVE  IInv'
    BY <1>5, DecideReadStep
  <1>6. CASE DecideOpen
    BY <1>6, DecideOpenStep
  <1>7. ASSUME NEW t \in 0 .. Horizon, DecideAllow(t) PROVE IInv'
    BY <1>7, DecideAllowStep
  <1>8. CASE UNCHANGED vars
    BY <1>8 DEF vars, IInv, TypeOK, LegacyUnbound, NamedApprovals, SpentOnce,
                ReviewedBeforeGrant
  <1>. QED BY <1>1, <1>2, <1>3, <1>4, <1>5, <1>6, <1>7, <1>8, AdministrationStep DEF Next

-----------------------------------------------------------------------------
\* The inductive invariant holds in every reachable state, in particular every
\* record keeps the shape models.py declares.
THEOREM InvariantHolds == Spec => []IInv
  BY InitIInv, NextIInv, PTL DEF Spec

\* Every record is of the shape models.py declares, whatever is registered,
\* delegated, requested and reviewed.
THEOREM RecordsWellFormed == Spec => []TypeOK
  <1>1. IInv => TypeOK
    BY DEF IInv
  <1>. QED BY <1>1, InvariantHolds, PTL

\* A strict approval lets one request through (broker.py authorize, decide).
THEOREM ApprovalSpentOnce == Spec => []SpentOnce
  <1>1. IInv => SpentOnce
    BY DEF IInv
  <1>. QED BY <1>1, InvariantHolds, PTL

\* No high-risk request gets past strict authorization without a human's approval
\* of this very request (broker.py _evaluate_strict).
THEOREM HighRiskIsReviewed == Spec => []ReviewedBeforeGrant
  <1>1. IInv => ReviewedBeforeGrant
    BY DEF IInv
  <1>. QED BY <1>1, InvariantHolds, PTL

-----------------------------------------------------------------------------
(* Action properties.                                                       *)

\* The steps that touch approvals are the ones that open, spend or review one.
LEMMA ApprovalSteps ==
    ASSUME [Next]_vars
    PROVE  \/ UNCHANGED approvals
           \/ \E r \in Requests : AuthorizeOpen(r)
           \/ DecideOpen
           \/ \E r \in Requests, id \in ApprovalIds, t \in 0 .. Horizon : AuthorizeSpend(r, id, t)
           \/ \E id \in ApprovalIds, s \in {"approved", "denied"} : Review(id, s)
  BY DEF Next, vars, Tick, RegisterAgent, SetAgentStatus, CreateDelegation, AuthorizeAllow,
         DecideRead, DecideAllow

\* Opening an approval leaves the ones that exist alone.
LEMMA OpenLeavesOthers ==
    ASSUME TypeOK, NEW r, NEW e, OpenApproval(r, e), NEW id \in ApprovalIds, approvals[id] # None
    PROVE  approvals'[id] = approvals[id]
  BY DEF OpenApproval, TypeOK

\* No step rewrites a strict approval's binding, lifetime, verdict or consumption.
LEMMA StepKeepsReview ==
    ASSUME IInv, [Next]_vars, NEW id \in ApprovalIds,
           approvals[id] # None, IsStrict(approvals[id])
    PROVE  KeepsReview(id)
  <1>0. approvals[id] \in ApprovalRecords /\ TypeOK
    BY DEF IInv, TypeOK
  <1>1. ASSUME approvals'[id] = approvals[id] PROVE KeepsReview(id)
    BY <1>1 DEF KeepsReview
  <1>2. ASSUME NEW r \in Requests, AuthorizeOpen(r) PROVE KeepsReview(id)
    BY <1>0, <1>1, <1>2, OpenLeavesOthers DEF AuthorizeOpen
  <1>3. CASE DecideOpen
    BY <1>0, <1>1, <1>3, OpenLeavesOthers DEF DecideOpen
  <1>4. ASSUME NEW r \in Requests, NEW k \in ApprovalIds, NEW t \in 0 .. Horizon,
               AuthorizeSpend(r, k, t)
        PROVE  KeepsReview(id)
    <2>1. CASE k # id
      BY <1>0, <1>1, <1>4, <2>1 DEF AuthorizeSpend, TypeOK
    <2>2. CASE k = id
      <3>1. /\ approvals' = [approvals EXCEPT ![id].consumed_at = now]
            /\ approvals[id].status = "approved" /\ approvals[id].consumed_at = None
            /\ approvals[id].expires_at > now
        BY <1>4, <2>2 DEF AuthorizeSpend, LiveApproval
      <3>2. approvals'[id] = [approvals[id] EXCEPT !.consumed_at = now]
        BY <1>0, <3>1 DEF TypeOK
      <3>3. approvals'[id] \in ApprovalRecords
        BY <1>0, <3>2, BoundsAssumption DEF TypeOK, ApprovalRecords
      <3>4. /\ approvals'[id].bound = approvals[id].bound
            /\ approvals'[id].expires_at = approvals[id].expires_at
            /\ approvals'[id].status = approvals[id].status
        BY <1>0, <3>2 DEF ApprovalRecords
      <3>5. now < approvals[id].expires_at
        BY <3>1
      <3>. QED BY <3>1, <3>3, <3>4, <3>5, NoneAssumption DEF KeepsReview
    <2>. QED BY <2>1, <2>2
  <1>5. ASSUME NEW k \in ApprovalIds, NEW s \in {"approved", "denied"}, Review(k, s)
        PROVE  KeepsReview(id)
    <2>1. CASE k # id
      BY <1>0, <1>1, <1>5, <2>1 DEF Review, TypeOK
    <2>2. CASE k = id
      <3>1. /\ approvals' = [approvals EXCEPT ![id].status = s]
            /\ approvals[id].status = "pending" /\ approvals[id].consumed_at = None
        BY <1>5, <2>2 DEF Review, Reviewable
      <3>2. approvals'[id] = [approvals[id] EXCEPT !.status = s]
        BY <1>0, <3>1 DEF TypeOK
      <3>3. /\ approvals'[id] \in ApprovalRecords
            /\ approvals'[id].bound = approvals[id].bound
            /\ approvals'[id].expires_at = approvals[id].expires_at
            /\ approvals'[id].consumed_at = approvals[id].consumed_at
        BY <1>0, <3>2 DEF ApprovalRecords
      <3>. QED BY <3>1, <3>3, NoneAssumption DEF KeepsReview
    <2>. QED BY <2>1, <2>2
  <1>. QED BY <1>1, <1>2, <1>3, <1>4, <1>5, ApprovalSteps

\* A reviewer's decision is final and what was decided about does not change
\* (broker.py _set_approval_status, authorize).
THEOREM ReviewsAreFinal == Spec => ReviewIsFinal
  <1>1. IInv /\ [Next]_vars =>
          [\A id \in ApprovalIds :
             (approvals[id] # None /\ IsStrict(approvals[id])) => KeepsReview(id)]_vars
    BY StepKeepsReview
  <1>. QED BY <1>1, InvariantHolds, PTL DEF Spec, ReviewIsFinal

\* An approval that a step opens is the one OpenApproval describes.
LEMMA OpenedRecord ==
    ASSUME TypeOK, NEW r \in Requests, NEW e \in Nat \cup {None}, OpenApproval(r, e),
           NEW id \in ApprovalIds, approvals[id] = None, approvals'[id] # None
    PROVE  approvals'[id] =
             [bound |-> r, status |-> "pending", expires_at |-> e, consumed_at |-> None]
  BY DEF OpenApproval, TypeOK

\* An approval that any step opens ends with the delegation in the store.
LEMMA StepOpensWithin ==
    ASSUME IInv, [Next]_vars, NEW id \in ApprovalIds
    PROVE  OpensWithinDelegation(id)
  <1>. SUFFICES ASSUME approvals[id] = None, approvals'[id] # None, IsStrict(approvals'[id]),
                       approvals'[id].bound.mode = "delegated"
                PROVE  approvals'[id].expires_at
                         <= delegations[approvals'[id].bound.delegation_id].expires_at
    BY DEF OpensWithinDelegation
  <1>0. TypeOK
    BY DEF IInv
  <1>1. ASSUME NEW r \in Requests, AuthorizeOpen(r)
        PROVE  approvals'[id].expires_at
                 <= delegations[approvals'[id].bound.delegation_id].expires_at
    <2>. DEFINE e == DelegationLimit(r, now + ApprovalTTL)
    <2>1. Admits(r) /\ OpenApproval(r, e)
      BY <1>1 DEF AuthorizeOpen
    <2>2. /\ e \in Nat
          /\ r.mode = "delegated" => e <= delegations[r.delegation_id].expires_at
      BY <1>0, <2>1, LimitIsBounded, BoundsAssumption DEF TypeOK
    <2>. HIDE DEF e
    <2>3. approvals'[id] =
            [bound |-> r, status |-> "pending", expires_at |-> e, consumed_at |-> None]
      BY <1>0, <2>1, <2>2, OpenedRecord
    <2>. QED BY <2>2, <2>3
  <1>2. ASSUME DecideOpen PROVE FALSE
    <2>1. legacy.request \in Requests /\ legacy.request.digest = None
      BY <1>0, <1>2, LegacyCall DEF DecideOpen, IInv, LegacyUnbound
    <2>2. approvals'[id] = [bound |-> legacy.request, status |-> "pending",
                            expires_at |-> None, consumed_at |-> None]
      BY <1>0, <1>2, <2>1, OpenedRecord DEF DecideOpen
    <2>. QED BY <2>1, <2>2 DEF IsStrict
  <1>3. ASSUME NEW r \in Requests, NEW k \in ApprovalIds, NEW t \in 0 .. Horizon,
               AuthorizeSpend(r, k, t)
        PROVE  FALSE
    BY <1>0, <1>3 DEF AuthorizeSpend, LiveApproval, TypeOK
  <1>4. ASSUME NEW k \in ApprovalIds, NEW s \in {"approved", "denied"}, Review(k, s)
        PROVE  FALSE
    BY <1>0, <1>4 DEF Review, TypeOK
  <1>. QED BY <1>1, <1>2, <1>3, <1>4, ApprovalSteps

\* A grant that strict authorization adds stays within the delegation.
LEMMA EntryWithin ==
    ASSUME IInv, NEW r \in Requests, Admits(r), NEW id, NEW t \in 0 .. Horizon
    PROVE  GrantsWithinDelegation(Entry(r, id, now, TRUE, DelegationLimit(r, t + TokenTTL)))
  <1>1. TypeOK /\ t + TokenTTL \in Nat
    BY BoundsAssumption DEF IInv
  <1>2. r.mode = "delegated" =>
          /\ DelegationLimit(r, t + TokenTTL) <= delegations[r.delegation_id].expires_at
          /\ now < delegations[r.delegation_id].expires_at
    BY <1>1, LimitIsBounded, AdmittedDelegation
  <1>. QED BY <1>2 DEF GrantsWithinDelegation, Entry

\* What decide grants is not a strict grant.
LEMMA LegacyGrant ==
    ASSUME IInv, NEW t \in 0 .. Horizon, DecideAllow(t)
    PROVE  /\ Len(grants') = Len(grants) + 1
           /\ \A i \in 1 .. Len(grants) : grants'[i] = grants[i]
           /\ grants'[Len(grants) + 1].strict = FALSE
  <1>. DEFINE limit == Smaller(t + TokenTTL, legacy.delegated_until)
              r == legacy.request
              id == IF legacy.risky THEN legacy.approval_id ELSE None
  <1>1. r \in Requests /\ id \in ApprovalIds \cup {None} /\ TypeOK /\ FALSE \in BOOLEAN
    BY LegacyCall DEF IInv, DecideAllow
  <1>2. limit \in Nat
    BY LegacyCall, BoundsAssumption DEF IInv, DecideAllow, Smaller
  <1>3. Grant(r, id, FALSE, t, limit)
    BY DEF DecideAllow
  <1>. HIDE DEF limit, r, id
  <1>4. /\ Len(grants') = Len(grants) + 1
        /\ \A i \in 1 .. Len(grants) : grants'[i] = grants[i]
        /\ grants'[Len(grants) + 1] = Entry(r, id, now, FALSE, limit)
    BY <1>1, <1>2, <1>3, GrantType
  <1>. QED BY <1>4 DEF Entry

\* So does the token of a grant that any step adds.
LEMMA StepGrantsWithin ==
    ASSUME IInv, [Next]_vars, NEW i \in (Len(grants) + 1) .. Len(grants')
    PROVE  GrantsWithinDelegation(grants'[i])
  <1>0. TypeOK /\ grants \in Seq(Grants) /\ TRUE \in BOOLEAN /\ FALSE \in BOOLEAN
    BY DEF IInv, TypeOK
  <1>1. ASSUME UNCHANGED grants PROVE FALSE
    BY <1>0, <1>1
  <1>2. ASSUME NEW r \in Requests, NEW id \in ApprovalIds \cup {None}, NEW t \in 0 .. Horizon,
               Admits(r), Grant(r, id, TRUE, t, DelegationLimit(r, t + TokenTTL))
        PROVE  GrantsWithinDelegation(grants'[i])
    <2>1. DelegationLimit(r, t + TokenTTL) \in Nat
      <3>1. t + TokenTTL \in Nat
        BY BoundsAssumption
      <3>. QED BY <1>0, <1>2, <3>1, LimitIsBounded
    <2>2. /\ Len(grants') = Len(grants) + 1
          /\ grants'[Len(grants) + 1] =
               Entry(r, id, now, TRUE, DelegationLimit(r, t + TokenTTL))
      BY <1>0, <1>2, <2>1, GrantType
    <2>3. i = Len(grants) + 1
      BY <1>0, <2>2
    <2>. QED BY <1>2, <2>2, <2>3, EntryWithin
  <1>3. ASSUME NEW r \in Requests, NEW t \in 0 .. Horizon, AuthorizeAllow(r, t)
        PROVE  GrantsWithinDelegation(grants'[i])
    BY <1>2, <1>3 DEF AuthorizeAllow
  <1>4. ASSUME NEW r \in Requests, NEW id \in ApprovalIds, NEW t \in 0 .. Horizon,
               AuthorizeSpend(r, id, t)
        PROVE  GrantsWithinDelegation(grants'[i])
    BY <1>2, <1>4 DEF AuthorizeSpend
  <1>5. ASSUME NEW t \in 0 .. Horizon, DecideAllow(t)
        PROVE  GrantsWithinDelegation(grants'[i])
    <2>1. /\ Len(grants') = Len(grants) + 1
          /\ grants'[Len(grants) + 1].strict = FALSE
      BY <1>5, LegacyGrant
    <2>2. i = Len(grants) + 1
      BY <1>0, <2>1
    <2>. QED BY <2>1, <2>2 DEF GrantsWithinDelegation
  <1>. QED BY <1>1, <1>3, <1>4, <1>5
       DEF Next, vars, Tick, RegisterAgent, SetAgentStatus, CreateDelegation, AuthorizeOpen,
           Review, DecideRead, DecideOpen

\* Approvals and tokens end with the delegation they are based on (broker.py
\* authorize, _issue_token).
THEOREM DelegationBoundsEverything == Spec => NothingOutlivesDelegation
  <1>1. IInv /\ [Next]_vars =>
          [/\ \A id \in ApprovalIds : OpensWithinDelegation(id)
           /\ \A i \in (Len(grants) + 1) .. Len(grants') :
                GrantsWithinDelegation(grants'[i])]_vars
    BY StepOpensWithin, StepGrantsWithin
  <1>. QED BY <1>1, InvariantHolds, PTL DEF Spec, NothingOutlivesDelegation

-----------------------------------------------------------------------------
(* The broker implements OneTimeApproval.                                   *)

\* An empty store maps to the abstract initial state.
LEMMA RefinesInit == Init => OTA!AInit
  BY DEF Init, OTA!AInit, Stage, Subject, StrictUses

\* A grant shows at the abstract level if it is strict and names an approval.
LEMMA UsesGrow ==
    ASSUME grants \in Seq(Grants), Len(grants') = Len(grants) + 1,
           \A i \in 1 .. Len(grants) : grants'[i] = grants[i]
    PROVE  LET g == grants'[Len(grants) + 1] IN
           StrictUses' = IF g.strict /\ g.approval_id # None
                         THEN StrictUses \cup {<<Len(grants) + 1, g.approval_id, g.request>>}
                         ELSE StrictUses
  <1>. DEFINE n == Len(grants) + 1
              Shown(gs) == {j \in 1 .. Len(gs) : gs[j].strict /\ gs[j].approval_id # None}
              Use(gs, i) == <<i, gs[i].approval_id, gs[i].request>>
  <1>1. n \in Nat /\ n \notin 1 .. Len(grants) /\ 1 .. Len(grants') = (1 .. Len(grants)) \cup {n}
    OBVIOUS
  <1>2. /\ StrictUses = {Use(grants, i) : i \in Shown(grants)}
        /\ StrictUses' = {Use(grants', i) : i \in Shown(grants')}
    BY DEF StrictUses
  <1>. HIDE DEF n
  <1>3. Shown(grants') = IF grants'[n].strict /\ grants'[n].approval_id # None
                         THEN Shown(grants) \cup {n} ELSE Shown(grants)
    BY <1>1
  <1>4. \A i \in Shown(grants) : Use(grants', i) = Use(grants, i)
    OBVIOUS
  <1>. HIDE DEF Shown, Use
  <1>5. CASE grants'[n].strict /\ grants'[n].approval_id # None
    <2>1. StrictUses' = StrictUses \cup {Use(grants', n)}
      BY <1>2, <1>3, <1>4, <1>5
    <2>. QED BY <1>5, <2>1 DEF Use, n
  <1>6. CASE ~(grants'[n].strict /\ grants'[n].approval_id # None)
    <2>1. StrictUses' = StrictUses
      BY <1>2, <1>3, <1>4, <1>6
    <2>. QED BY <1>6, <2>1 DEF n
  <1>. QED BY <1>5, <1>6

\* The abstract variables stay when neither strict approvals nor uses change.
LEMMA AbstractStutter ==
    ASSUME StrictUses' = StrictUses,
           \A id \in ApprovalIds : /\ Stage(approvals'[id]) = Stage(approvals[id])
                                   /\ Subject(approvals'[id]) = Subject(approvals[id])
    PROVE  UNCHANGED OTA!avars
  BY DEF OTA!avars

\* Opening an approval: visible if it is strict.
LEMMA RefinesOpen ==
    ASSUME TypeOK, NEW r \in Requests, NEW e \in Nat \cup {None}, OpenApproval(r, e),
           UNCHANGED grants
    PROVE  [OTA!ANext]_(OTA!avars)
  <1>. DEFINE q == [bound |-> r, status |-> "pending", expires_at |-> e, consumed_at |-> None]
  <1>1. PICK id \in ApprovalIds :
          approvals[id] = None /\ approvals' = [approvals EXCEPT ![id] = q]
    BY DEF OpenApproval
  <1>2. q # None /\ q.bound = r /\ q.status = "pending" /\ q.consumed_at = None
    <2>1. q \in ApprovalRecords
      BY DEF ApprovalRecords
    <2>. QED BY <2>1, NoneAssumption
  <1>. HIDE DEF q
  <1>3. /\ approvals'[id] = q
        /\ \A k \in ApprovalIds : k # id => approvals'[k] = approvals[k]
    BY <1>1 DEF TypeOK
  <1>4. StrictUses' = StrictUses
    BY DEF StrictUses
  <1>5. CASE IsStrict(q)
    <2>1. Stage(q) = "pending" /\ Subject(q) = r
      BY <1>2, <1>5 DEF Stage, Subject
    <2>2. Stage(approvals[id]) = "none"
      BY <1>1 DEF Stage
    <2>3. OTA!Open(id, r)
      BY <1>3, <1>4, <2>1, <2>2 DEF OTA!Open
    <2>. QED BY <2>3 DEF OTA!ANext
  <1>6. CASE ~IsStrict(q)
    <2>1. Stage(q) = Stage(approvals[id]) /\ Subject(q) = Subject(approvals[id])
      BY <1>1, <1>2, <1>6 DEF Stage, Subject
    <2>. QED BY <1>3, <1>4, <2>1, AbstractStutter
  <1>. QED BY <1>5, <1>6

\* A review decides a strict approval; that of a legacy one is not visible.
LEMMA RefinesReview ==
    ASSUME TypeOK, NEW id \in ApprovalIds, NEW s \in {"approved", "denied"}, Review(id, s)
    PROVE  [OTA!ANext]_(OTA!avars)
  <1>. DEFINE p == approvals[id]
              q == approvals'[id]
  <1>1. /\ p \in ApprovalRecords /\ Reviewable(p) /\ UNCHANGED grants
        /\ approvals' = [approvals EXCEPT ![id].status = s]
    BY DEF Review, TypeOK
  <1>2. /\ q \in ApprovalRecords /\ q.bound = p.bound /\ q.status = s
        /\ q.consumed_at = p.consumed_at
        /\ \A k \in ApprovalIds : k # id => approvals'[k] = approvals[k]
    BY <1>1 DEF TypeOK, ApprovalRecords
  <1>3. p # None /\ q # None
    BY <1>1, <1>2, NoneAssumption
  <1>4. StrictUses' = StrictUses
    BY <1>1 DEF StrictUses
  <1>5. Subject(q) = Subject(p)
    BY <1>2, <1>3 DEF Subject, IsStrict
  <1>6. CASE IsStrict(p)
    <2>1. Stage(p) = "pending" /\ Stage(q) = s
      BY <1>1, <1>2, <1>3, <1>6 DEF Stage, Reviewable, IsStrict
    <2>2. OTA!Decide(id, s)
      BY <1>2, <1>4, <1>5, <2>1 DEF OTA!Decide
    <2>. QED BY <2>2 DEF OTA!ANext
  <1>7. CASE ~IsStrict(p)
    <2>1. Stage(q) = Stage(p)
      BY <1>2, <1>3, <1>7 DEF Stage, IsStrict
    <2>. QED BY <1>2, <1>4, <1>5, <2>1, AbstractStutter
  <1>. QED BY <1>6, <1>7

\* Spending an approval is its one abstract use: what it matches is, field by field,
\* the request it was opened for.
LEMMA RefinesSpend ==
    ASSUME TypeOK, NEW r \in Requests, NEW id \in ApprovalIds, NEW t \in 0 .. Horizon,
           AuthorizeSpend(r, id, t)
    PROVE  [OTA!ANext]_(OTA!avars)
  <1>. DEFINE limit == DelegationLimit(r, t + TokenTTL)
              p == approvals[id]
              q == approvals'[id]
              n == Len(grants) + 1
  <1>1. /\ Admits(r) /\ Grant(r, id, TRUE, t, limit) /\ LiveApproval(p, r)
        /\ p.status = "approved" /\ approvals' = [approvals EXCEPT ![id].consumed_at = now]
    BY DEF AuthorizeSpend
  <1>2. limit \in Nat
    <2>1. t + TokenTTL \in Nat
      BY BoundsAssumption
    <2>. QED BY <1>1, <2>1, LimitIsBounded
  <1>. HIDE DEF limit
  <1>3. /\ grants \in Seq(Grants) /\ Len(grants') = n
        /\ \A i \in 1 .. Len(grants) : grants'[i] = grants[i]
        /\ grants'[n] = Entry(r, id, now, TRUE, limit)
    <2>1. TRUE \in BOOLEAN /\ grants \in Seq(Grants)
      BY DEF TypeOK
    <2>. QED BY <1>1, <1>2, <2>1, GrantType
  <1>4. grants'[n].strict /\ grants'[n].approval_id = id /\ grants'[n].request = r
    BY <1>3 DEF Entry
  <1>5. StrictUses' = StrictUses \cup {<<n, id, r>>}
    BY <1>3, <1>4, UsesGrow, NoneAssumption
  <1>6. /\ p \in ApprovalRecords /\ p # None /\ IsStrict(p) /\ p.consumed_at = None
        /\ p.bound = r
    <2>1. p \in ApprovalRecords /\ p # None /\ IsStrict(p) /\ p.consumed_at = None /\ Matches(p, r)
      BY <1>1 DEF LiveApproval, TypeOK
    <2>2. p.bound \in Requests
      BY <2>1 DEF ApprovalRecords
    <2>. QED BY <2>1, <2>2, RequestAssumption DEF Matches, SameContext
  <1>7. /\ q \in ApprovalRecords /\ q.bound = p.bound /\ q.consumed_at = now
        /\ \A k \in ApprovalIds : k # id => approvals'[k] = approvals[k]
    BY <1>1, <1>6, BoundsAssumption DEF TypeOK, ApprovalRecords
  <1>8. q # None /\ now # None
    BY <1>7, NoneAssumption, BoundsAssumption DEF TypeOK
  <1>9. Stage(p) = "approved" /\ Stage(q) = "spent" /\ Subject(p) = r /\ Subject(q) = r
    BY <1>1, <1>6, <1>7, <1>8 DEF Stage, Subject, IsStrict
  <1>10. \A u \in StrictUses : u[1] # n
    BY <1>3 DEF StrictUses
  <1>11. n \in 1 .. MaxGrants
    BY <1>1, <1>3, BoundsAssumption DEF Grant
  <1>. HIDE DEF n
  <1>12. OTA!Use(id, n)
    BY <1>5, <1>7, <1>9, <1>10 DEF OTA!Use
  <1>. QED BY <1>11, <1>12 DEF OTA!ANext

\* Allow decisions without an approval and those of the legacy entry point are not
\* visible.
LEMMA RefinesPlainGrant ==
    ASSUME IInv,
           \/ \E r \in Requests, t \in 0 .. Horizon : AuthorizeAllow(r, t)
           \/ \E t \in 0 .. Horizon : DecideAllow(t)
    PROVE  UNCHANGED OTA!avars
  <1>0. TypeOK /\ grants \in Seq(Grants) /\ TRUE \in BOOLEAN
    BY DEF IInv, TypeOK
  <1>1. UNCHANGED approvals
    BY DEF AuthorizeAllow, DecideAllow
  <1>2. ASSUME NEW r \in Requests, NEW t \in 0 .. Horizon, AuthorizeAllow(r, t)
        PROVE  StrictUses' = StrictUses
    <2>. DEFINE limit == DelegationLimit(r, t + TokenTTL)
    <2>1. Admits(r) /\ Grant(r, None, TRUE, t, limit)
      BY <1>2 DEF AuthorizeAllow
    <2>2. limit \in Nat
      <3>1. t + TokenTTL \in Nat
        BY BoundsAssumption
      <3>. QED BY <1>0, <2>1, <3>1, LimitIsBounded
    <2>. HIDE DEF limit
    <2>3. /\ Len(grants') = Len(grants) + 1
          /\ \A i \in 1 .. Len(grants) : grants'[i] = grants[i]
          /\ grants'[Len(grants) + 1] = Entry(r, None, now, TRUE, limit)
      BY <1>0, <2>1, <2>2, GrantType
    <2>4. grants'[Len(grants) + 1].approval_id = None
      BY <2>3 DEF Entry
    <2>. QED BY <1>0, <2>3, <2>4, UsesGrow
  <1>3. ASSUME NEW t \in 0 .. Horizon, DecideAllow(t) PROVE StrictUses' = StrictUses
    BY <1>0, <1>3, LegacyGrant, UsesGrow
  <1>. QED BY <1>1, <1>2, <1>3, AbstractStutter

\* Every step of the broker maps to an abstract step or a stutter.
LEMMA RefinesNext == IInv /\ [Next]_vars => [OTA!ANext]_(OTA!avars)
  <1>. SUFFICES ASSUME IInv, [Next]_vars PROVE [OTA!ANext]_(OTA!avars)
    OBVIOUS
  <1>0. TypeOK
    BY DEF IInv
  <1>1. ASSUME UNCHANGED <<approvals, grants>> PROVE UNCHANGED OTA!avars
    BY <1>1 DEF OTA!avars, StrictUses
  <1>2. ASSUME NEW r \in Requests, AuthorizeOpen(r) PROVE [OTA!ANext]_(OTA!avars)
    <2>1. /\ Admits(r) /\ now + ApprovalTTL \in Nat /\ UNCHANGED grants
          /\ OpenApproval(r, DelegationLimit(r, now + ApprovalTTL))
      BY <1>0, <1>2, BoundsAssumption DEF AuthorizeOpen, TypeOK
    <2>2. DelegationLimit(r, now + ApprovalTTL) \in Nat
      BY <1>0, <2>1, LimitIsBounded
    <2>. QED BY <1>0, <2>1, <2>2, RefinesOpen
  <1>3. ASSUME DecideOpen PROVE [OTA!ANext]_(OTA!avars)
    <2>1. legacy.request \in Requests /\ OpenApproval(legacy.request, None) /\ UNCHANGED grants
      BY <1>0, <1>3, LegacyCall DEF DecideOpen
    <2>. QED BY <1>0, <2>1, RefinesOpen
  <1>4. ASSUME NEW id \in ApprovalIds, NEW s \in {"approved", "denied"}, Review(id, s)
        PROVE  [OTA!ANext]_(OTA!avars)
    BY <1>0, <1>4, RefinesReview
  <1>5. ASSUME NEW r \in Requests, NEW id \in ApprovalIds, NEW t \in 0 .. Horizon,
               AuthorizeSpend(r, id, t)
        PROVE  [OTA!ANext]_(OTA!avars)
    BY <1>0, <1>5, RefinesSpend
  <1>6. ASSUME NEW r \in Requests, NEW t \in 0 .. Horizon, AuthorizeAllow(r, t)
        PROVE  [OTA!ANext]_(OTA!avars)
    BY <1>6, RefinesPlainGrant
  <1>7. ASSUME NEW t \in 0 .. Horizon, DecideAllow(t) PROVE [OTA!ANext]_(OTA!avars)
    BY <1>7, RefinesPlainGrant
  <1>8. \/ UNCHANGED <<approvals, grants>>
        \/ \E r \in Requests : AuthorizeOpen(r)
        \/ DecideOpen
        \/ \E id \in ApprovalIds, s \in {"approved", "denied"} : Review(id, s)
        \/ \E r \in Requests, id \in ApprovalIds, t \in 0 .. Horizon : AuthorizeSpend(r, id, t)
        \/ \E r \in Requests, t \in 0 .. Horizon : AuthorizeAllow(r, t)
        \/ \E t \in 0 .. Horizon : DecideAllow(t)
    BY DEF Next, vars, Tick, RegisterAgent, SetAgentStatus, CreateDelegation, DecideRead
  <1>. QED BY <1>1, <1>2, <1>3, <1>4, <1>5, <1>6, <1>7, <1>8

\* Seen through its strict approvals, the broker behaves like an approval that is
\* opened for one subject, decided once and used at most once, for that subject.
THEOREM BrokerImplementsOneTimeApproval == Spec => ImplementsOneTimeApproval
  BY InvariantHolds, RefinesInit, RefinesNext, PTL
  DEF Spec, ImplementsOneTimeApproval, OTA!ASpec

-----------------------------------------------------------------------------
(***************************************************************************)
(* The store under the broker.  AccessBroker takes a call of the broker as  *)
(* one step; BrokerStore shows what makes it one, when several processes    *)
(* transact on the file and any of them crashes.  An approval is spent at   *)
(* most once, and what a caller was told is stored, for every number of     *)
(* processes, approvals, calls, crashes and power losses.  The argument is  *)
(* about the process inside the flock: its copy is the file's content until *)
(* it decides, and differs from it only by the approval it spends until it  *)
(* has renamed its own file over it.                                        *)
(***************************************************************************)

\* What survives a power loss is a past state of the file, and nothing is unspent.
DurableIsOlder == durable \subseteq disk

\* The copy of the process inside, step by step.
InsideCopy ==
    \A p \in Procs :
      /\ pc[p] = "loaded" => mem[p] = disk
      /\ pc[p] \in {"changed", "written"} => mem[p] = disk \cup {want[p]}
      /\ pc[p] \in {"replaced", "synced"} => mem[p] = disk /\ want[p] \in disk
      /\ pc[p] = "synced" => durable = disk

\* Who is about to hear "allow" is the first one.
FirstToSpend ==
    \A p \in Procs :
      (pc[p] \in Inside \ {"loaded"} /\ verdict[p] = "allow") => allowed[want[p]] = 0

StoreIInv == StoreTypeOK /\ DurableIsOlder /\ InsideCopy /\ FirstToSpend
             /\ SeenIsStored /\ AllowedOnce

\* An empty store satisfies the invariant.
LEMMA StoreInitIInv == StoreInit => StoreIInv
  BY StoreAssumption
  DEF StoreInit, StoreIInv, StoreTypeOK, DurableIsOlder, InsideCopy, FirstToSpend,
      SeenIsStored, AllowedOnce, Inside

\* Every step keeps the types, and the flock with the process inside.
LEMMA StoreTypeStep == StoreTypeOK /\ [StoreNext]_store => StoreTypeOK'
<1> SUFFICES ASSUME StoreTypeOK, [StoreNext]_store PROVE StoreTypeOK'
  OBVIOUS
<1> USE StoreAssumption DEF StoreTypeOK, Inside
<1>1. ASSUME NEW p \in Procs, NEW a \in Approvals, Begin(p, a) PROVE StoreTypeOK'
  BY <1>1 DEF Begin
<1>2. ASSUME NEW p \in Procs, Acquire(p) PROVE StoreTypeOK'
  BY <1>2 DEF Acquire
<1>3. ASSUME NEW p \in Procs, Body(p) \/ WriteTemp(p) PROVE StoreTypeOK'
  BY <1>3 DEF Body, WriteTemp
<1>4. ASSUME NEW p \in Procs, Replace(p) \/ SyncDirectory(p) PROVE StoreTypeOK'
  BY <1>4 DEF Replace, SyncDirectory
<1>5. ASSUME NEW p \in Procs, Return(p) PROVE StoreTypeOK'
  BY <1>5 DEF Return
<1>6. ASSUME NEW p \in Procs, Fail(p) \/ Read(p) \/ Crash(p) PROVE StoreTypeOK'
  BY <1>6 DEF Fail, Read, Crash
<1>7. CASE PowerLoss
  BY <1>7 DEF PowerLoss
<1>8. CASE UNCHANGED store
  BY <1>8 DEF store
<1> QED
  BY <1>1, <1>2, <1>3, <1>4, <1>5, <1>6, <1>7, <1>8 DEF StoreNext, Progress

\* Every step keeps the invariant.  The one that matters is Body: the copy it decides
\* on is the file's content, in which everything that was ever allowed is found.
LEMMA StoreStep == StoreIInv /\ [StoreNext]_store => StoreIInv'
<1> SUFFICES ASSUME StoreIInv, [StoreNext]_store PROVE StoreIInv'
  OBVIOUS
<1>0. StoreTypeOK'
  BY StoreTypeStep DEF StoreIInv
<1> DEFINE Others == /\ DurableIsOlder /\ InsideCopy /\ FirstToSpend
                     /\ SeenIsStored /\ AllowedOnce
<1> SUFFICES Others'
  BY <1>0 DEF StoreIInv
<1> USE <1>0, StoreAssumption
    DEF StoreIInv, StoreTypeOK, DurableIsOlder, InsideCopy,
        FirstToSpend, SeenIsStored, AllowedOnce, Inside
<1>1. ASSUME NEW p \in Procs, NEW a \in Approvals, Begin(p, a) PROVE Others'
  BY <1>1 DEF Begin
<1>2. ASSUME NEW p \in Procs, Acquire(p) PROVE Others'
  BY <1>2 DEF Acquire
<1>3. ASSUME NEW p \in Procs, Body(p) PROVE Others'
  BY <1>3 DEF Body
<1>4. ASSUME NEW p \in Procs, WriteTemp(p) PROVE Others'
  BY <1>4 DEF WriteTemp
<1>5. ASSUME NEW p \in Procs, Replace(p) PROVE Others'
  BY <1>5 DEF Replace
<1>6. ASSUME NEW p \in Procs, SyncDirectory(p) PROVE Others'
  BY <1>6 DEF SyncDirectory
<1>7. ASSUME NEW p \in Procs, Return(p) PROVE Others'
  BY <1>7 DEF Return
<1>8. ASSUME NEW p \in Procs, Fail(p) PROVE Others'
  BY <1>8 DEF Fail
<1>9. ASSUME NEW p \in Procs, Read(p) PROVE Others'
  BY <1>9 DEF Read
<1>10. ASSUME NEW p \in Procs, Crash(p) PROVE Others'
  BY <1>10 DEF Crash
<1>11. CASE PowerLoss
  BY <1>11 DEF PowerLoss
<1>12. CASE UNCHANGED store
  BY <1>12 DEF store
<1> QED
  BY <1>1, <1>2, <1>3, <1>4, <1>5, <1>6, <1>7, <1>8, <1>9, <1>10, <1>11, <1>12
  DEF StoreNext, Progress

\* The store is well formed and its flock held by the process inside a transaction and
\* by nobody else, and the argument's other parts hold, in every reachable state.
THEOREM StoreInvariantHolds == StoreSpec => []StoreIInv
  BY StoreInitIInv, StoreStep, PTL DEF StoreSpec

\* Two processes never both obtain "allow" for one approval (transaction in store.py),
\* whatever fails or crashes between their steps.
THEOREM ApprovalAllowedOnce == StoreSpec => []AllowedOnce
<1>1. StoreIInv => AllowedOnce
  BY DEF StoreIInv
<1> QED  BY <1>1, StoreInvariantHolds, PTL

\* A decision anyone was told is on disk and survives power losses; readers without a
\* lock see committed content only.
THEOREM DecisionsAreStored == StoreSpec => []SeenIsStored
<1>1. StoreIInv => SeenIsStored
  BY DEF StoreIInv
<1> QED  BY <1>1, StoreInvariantHolds, PTL
=============================================================================
