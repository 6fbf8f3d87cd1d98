------------------------------- MODULE Routes -------------------------------
(***************************************************************************)
(* The routes of the HTTP interface, by what the decorators of their       *)
(* controllers ask of a caller: @Public(), @UseGuards(...) and @Roles(...). *)
(***************************************************************************)
EXTENDS Integers, Sequences

CONSTANTS
  Users,
  RoleOf,        \* the role of a user; that a sign-up may name an existing
                 \* user in its body and change his role is left out
  AccessTokens, RefreshTokens,  \* tokens that earlier sign-ins have handed out
  UserOf,        \* the user an access token was signed for
  None

Role == {"Client", "Owner", "Delivery"}
Credentials == AccessTokens \cup RefreshTokens

ASSUME TokensHaveUsers ==
  /\ RoleOf \in [Users -> Role]
  /\ UserOf \in [AccessTokens -> Users]
  /\ AccessTokens \cap RefreshTokens = {}
  /\ None \notin Credentials \cup Users

\* APP_GUARD twice: every route is guarded by these two first.
GlobalGuards == <<"JwtBlacklistGuard", "AccessTokenGuard">>

\* The four ways in which the controllers decorate a route, and @Public()
\* alone. A route without @Roles() admits every role.
Open(name) == [name |-> name, public |-> TRUE, roles |-> Role,
               guards |-> GlobalGuards]
Refreshing(name) == [name |-> name, public |-> TRUE, roles |-> Role,
                     guards |-> GlobalGuards \o <<"RefreshTokenGuard">>]
Closed(name) == [name |-> name, public |-> FALSE, roles |-> Role,
                 guards |-> GlobalGuards]
SignedIn(name) == [name |-> name, public |-> FALSE, roles |-> Role,
                   guards |-> GlobalGuards \o <<"AccessTokenGuard">>]
Only(role, name) == [name |-> name, public |-> FALSE, roles |-> {role},
                     guards |-> GlobalGuards \o
                                  <<"AccessTokenGuard", "RolesGuard">>]

AppRoutes == {Open("health"), Open("root")}

AuthRoutes ==
  {Open("signUp"), Open("signIn"), Closed("signOut"), Refreshing("refresh"),
   Open("verifyEmail")}

UserRoutes == {SignedIn("updateProfile"), SignedIn("getUser")}

CategoryRoutes == {SignedIn("createCategory"), Open("getAllCategories")}

RestaurantRoutes ==
  {Only("Owner", "createRestaurant"), Only("Owner", "updateRestaurant"),
   Only("Owner", "getMyRestaurants"),
   Open("getRestaurantById"), Open("getRestaurants")}

DishRoutes ==
  {Only("Owner", "createDish"), Only("Owner", "updateDish"),
   Only("Owner", "deleteDish")}

OrderRoutes ==
  {Only("Client", "createOrder"), SignedIn("getOrders"), SignedIn("getOrder"),
   SignedIn("editOrder")}

PaymentRoutes == {Only("Client", "createPayment")}

ReviewRoutes ==
  {Only("Client", "createReview"), Only("Client", "updateReview"),
   Only("Client", "deleteReview")}

UploadRoutes == {Closed("uploadImage"), Closed("uploadMultipleImages")}

AllRoutes ==
  AppRoutes \cup AuthRoutes \cup UserRoutes \cup CategoryRoutes
    \cup RestaurantRoutes \cup DishRoutes \cup OrderRoutes \cup PaymentRoutes
    \cup ReviewRoutes \cup UploadRoutes

=============================================================================
