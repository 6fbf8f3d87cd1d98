SPECIFICATION FairSpec
CONSTANTS
  client = client
  owner = owner
  None = None
  Orders = {o1, o2}
  Drivers = {}
  Requests = {r1}
  Clients <- MCClients
  Owners <- MCOwners
  CustomerOf <- MCCustomerOf
  OwnerOf <- MCOwnerOf
PROPERTIES
  RequestsAnswered
  ExpiredResolved
