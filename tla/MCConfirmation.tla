--------------------------- MODULE MCConfirmation ---------------------------
(***************************************************************************)
(* A small instance of Confirmation: tokens and actors are interchangeable *)
(* (no property distinguishes them and none is a liveness property).       *)
(***************************************************************************)
EXTENDS Confirmation, TLC

CONSTANTS t1, t2, alice, bob

MCToken == {t1, t2}
MCActor == {alice, bob}
Symmetry == Permutations(MCToken) \cup Permutations(MCActor)
=============================================================================
