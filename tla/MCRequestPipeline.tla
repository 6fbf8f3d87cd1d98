------------------------- MODULE MCRequestPipeline -------------------------
(***************************************************************************)
(* Two requests in flight, on each kind of guarded route, one that admits  *)
(* the role of the caller and one that does not, with an access token in a *)
(* header of either spelling, with a refresh token or with none.           *)
(***************************************************************************)
EXTENDS RequestPipeline

CONSTANTS r1, r2, client, token, cookie

MCRoleOf == [u \in {client} |-> "Client"]
MCUserOf == [t \in {token} |-> client]

MCServed ==
  {rt \in AllRoutes :
     rt.name \in {"signOut", "refresh", "createOrder", "createDish"}}
=============================================================================
