SPECIFICATION FeedSpec
CONSTANTS
  client = client
  owner = owner
  r1 = r1
  r2 = r2
  o1 = o1
  k1 = k1
  t1 = t1
  t2 = t2
  None = None
  Orders = {o1}
  Drivers = {}
  Requests = {r1, r2}
  Sockets = {k1}
  Clients <- MCClients
  Owners <- MCOwners
  CustomerOf <- MCCustomerOf
  OwnerOf <- MCOwnerOf
  Tasks = {t1, t2}
  ServedOn <- MCServedOn
SYMMETRY RequestsAlike
INVARIANTS
  OwnerHears
  FollowerUpToDate
