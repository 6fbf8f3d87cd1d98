SPECIFICATION Spec
CONSTANTS
  owner = owner
  None = None
  Restaurants = {s1}
  Dishes = {d1}
  Orders = {o1}
  Users = {owner}
  Names = {n1, n2}
  Fees = {1, 2}
  Prices = {1, 2}
  Extras = {1}
  Requests = {r1, r2}
  MaxMenus = 5
  ShopDrafts <- MCShopDrafts
  DishDrafts <- MCDishDrafts
  MaxStrayed = 1
  Carts <- MCCarts
SYMMETRY RequestsAlike
CHECK_DEADLOCK FALSE
INVARIANTS
  IInv
  PricedAtOneMoment
PROPERTIES
  RestaurantChangedAsAsked
  QuietDeletionFinal
