--------------------------- MODULE MCAccessBroker ---------------------------
(***************************************************************************)
(* A small instance of AccessBroker: one tenant with one agent, one         *)
(* delegation id that two payloads compete for, and requests that differ in *)
(* exactly one respect each.                                                *)
(***************************************************************************)
EXTENDS AccessBroker, TLC

CONSTANTS any, none, p1, p2

MCAgent(tier, autonomous, enabled) ==
    [agent_id |-> "agent", tenant_id |-> "t", enabled |-> enabled, risk_tier |-> tier,
     tools |-> {"deployer"}, resources |-> {any}, actions |-> {"read"},
     allow_autonomous |-> autonomous]

\* An autonomous-capable agent that may be switched off and on.
MCAgentRecords == {MCAgent("medium", TRUE, e) : e \in BOOLEAN}

\* The same delegation id, once short for the operator's task and once longer.
MCDelegationPayloads ==
    {[delegation_id |-> "d", tenant_id |-> "t", user_id |-> "u", agent_id |-> "agent",
      task_id |-> "task", resources |-> {"staging"}, actions |-> {"deploy"},
      ttl_seconds |-> n] : n \in {1, 2}}

MCRequest(mode, action, digest) ==
    [mode |-> mode, tenant_id |-> "t",
     user_id |-> IF mode = "agent" THEN none ELSE "u",
     agent_id |-> "agent", instance |-> "i",
     delegation_id |-> IF mode = "agent" THEN none ELSE "d",
     task_id |-> IF mode = "agent" THEN none ELSE "task",
     tool_name |-> "deployer", resource_id |-> "staging", action |-> action,
     digest |-> digest]

MCRequests ==
    {MCRequest("delegated", "deploy", "h1"), \* two requests that differ only in content
     MCRequest("delegated", "deploy", "h2"),
     MCRequest("agent", "read", "h1"),       \* autonomous and harmless
     MCRequest("delegated", "deploy", none)} \* the legacy form

Symmetry == Permutations({p1, p2})
=============================================================================
