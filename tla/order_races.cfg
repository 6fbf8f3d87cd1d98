SPECIFICATION Spec
CONSTANTS
  client = client
  owner = owner
  None = None
  Orders = {o1}
  Drivers = {d1, d2}
  Requests = {r1, r2}
  Clients <- MCClients
  Owners <- MCOwners
  CustomerOf <- MCCustomerOf
  OwnerOf <- MCOwnerOf
SYMMETRY DriversAndRequests
INVARIANTS
  IInv
  DriverMatchesStatus
  PaymentsConsistent
  AnnouncedCommitted
  DeliveredHeardHasDriver
PROPERTIES
  OnlyExpiredDeleted
  EditTakesEffect
  ImplementsLifecycle
