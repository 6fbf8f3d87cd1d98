--------------------------- MODULE MCTokenService ---------------------------
(***************************************************************************)
(* Instances of TokenService for TLC. Keys and tokens of different users   *)
(* never meet, so one user suffices; a few seconds let tokens and keys     *)
(* expire at different times.                                              *)
(***************************************************************************)
EXTENDS TokenService, TLC

\* Request slots are interchangeable.
Slots == Permutations(Requests)

=============================================================================
