SPECIFICATION JointSpec
CONSTANTS
  client = client
  stranger = stranger
  restaurant = restaurant
  owner = owner
  None = None
  Orders = {o1}
  Drivers = {d1}
  Reviews = {v1}
  Contents = {x1}
  Requests = {r1, r2}
  OrderRequests = {p1}
  Clients <- MCClients
  Restaurants = {restaurant}
  Drafts = {}
  MaxStrayed = 0
  Owners <- MCOwners
  CustomerOf <- MCCustomerOf
  RestaurantOf <- MCRestaurantOf
  OwnerOf <- MCOwnerOf
PROPERTIES
  DeletionStands
