-------------------------- MODULE MCAccountService --------------------------
(***************************************************************************)
(* Instances of AccountService for TLC: two accounts and two addresses,    *)
(* for a sign-up that names an account by its id and gives it the other    *)
(* address; one link, so that one mail is sent; two names tell an old row  *)
(* from a new one.                                                         *)
(***************************************************************************)
EXTENDS AccountService, TLC

=============================================================================
