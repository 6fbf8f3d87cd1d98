SPECIFICATION FairSpec
CONSTANTS
  r1 = r1
  r2 = r2
  client = client
  token = token
  cookie = cookie
  None = None
  Users = {client}
  RoleOf <- MCRoleOf
  UserOf <- MCUserOf
  AccessTokens = {token}
  RefreshTokens = {cookie}
  Requests = {r1, r2}
  Served <- MCServed
  Thrown = {"BadRequest", "Error"}
INVARIANTS
  IInv
PROPERTIES
  ImplementsAccessPolicy
  EveryRequestAnswered
