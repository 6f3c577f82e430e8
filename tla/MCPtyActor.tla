----------------------------- MODULE MCPtyActor -----------------------------
(***************************************************************************)
(* Instances of PtyActor for TLC.  The writers are interchangeable.  User  *)
(* input and the controls (responses, resizes, nudges) share the actor's   *)
(* loop, its wake and its list of pending chunks; to keep the instance     *)
(* small a behaviour has more than a little of only one of the two.         *)
(***************************************************************************)
EXTENDS PtyActor, TLC

WriterSymmetry == Permutations(Writers)

Budget ==
    \/ generated = 0 /\ wanted = 0
    \/ accepted = 0 /\ call <= 1 /\ \A w \in Writers : wpc[w] = "idle"
    \/ accepted <= 1 /\ generated <= 1 /\ wanted <= 1 /\ call <= 1
=============================================================================
