SPECIFICATION JointSpec
CONSTANTS
  client = client
  stranger = stranger
  restaurant = restaurant
  owner = owner
  None = None
  Orders = {o1}
  Drivers = {d1}
  Reviews = {v1, v2}
  Contents = {x1}
  Requests = {r1, r2}
  OrderRequests = {p1}
  Clients <- MCClients
  Restaurants = {restaurant}
  Drafts <- MCDrafts
  MaxStrayed = 1
  Owners <- MCOwners
  CustomerOf <- MCCustomerOf
  RestaurantOf <- MCRestaurantOf
  OwnerOf <- MCOwnerOf
SYMMETRY ReviewsAndRequests
INVARIANTS
  IInv
  OneReviewPerOrder
  ReviewKeepsOrder
PROPERTIES
  QuietDeletionFinal
  ImplementsReviews
