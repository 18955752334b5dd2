SPECIFICATION AccessSpec
CONSTANTS
  Clients = {c1}
  alice = alice
  staff = staff
  NoPrincipal = NoPrincipal
  Principals <- MCPrincipals
  Hosted = {alice}
  Groups <- MCGroups
  Documents <- MCDocuments
  Identities <- MCIdentities
  TTL = 1
  Asked = {"init", "create", "delete", "read", "apply", "login", "oidc", "logout", "drive"}
  MaxTokens = 3
  MaxApplies = 2
  MaxTime = 3
INVARIANT ServedByRight
INVARIANT SessionsFromStatic
PROPERTY RecoveryStays
PROPERTY NoLostPolicy
CHECK_DEADLOCK FALSE
