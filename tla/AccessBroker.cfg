SPECIFICATION Spec
CONSTANTS
  any = any
  none = none
  p1 = p1
  p2 = p2
  Star = any
  None = none
  AgentIds = {"agent"}
  DelegationIds = {"d"}
  ApprovalIds = {p1, p2}
  AgentRecords <- MCAgentRecords
  DelegationPayloads <- MCDelegationPayloads
  Requests <- MCRequests
  Digests = {"h1", "h2"}
  HighRiskActions = {"deploy"}
  ApprovalTTL = 2
  TokenTTL = 2
  Horizon = 1
  MaxGrants = 2
SYMMETRY Symmetry
INVARIANTS SpentOnce ReviewedBeforeGrant
PROPERTIES ReviewIsFinal NothingOutlivesDelegation ImplementsOneTimeApproval
CHECK_DEADLOCK FALSE
