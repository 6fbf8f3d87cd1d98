SPECIFICATION Spec
CONSTANTS
  client = client
  owner = owner
  None = None
  Orders = {o1}
  Drivers = {d1}
  Requests = {r1}
  Clients <- MCClients
  Owners <- MCOwners
  CustomerOf <- MCCustomerOf
  OwnerOf <- MCOwnerOf
PROPERTIES
  StatusNeverGoesBack
