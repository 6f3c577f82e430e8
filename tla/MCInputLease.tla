---------------------------- MODULE MCInputLease ----------------------------
(***************************************************************************)
(* Values for the constants of InputLease: two clients hold the same key,  *)
(* one of them another one too.                                            *)
(***************************************************************************)
EXTENDS InputLease

CONSTANTS c1, c2, plain, physical

HeldKeys == {<<c1, plain>>, <<c1, physical>>, <<c2, plain>>}
=============================================================================
