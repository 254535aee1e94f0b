------------------------- MODULE MCStreamManagement -------------------------
(* The senders of StreamManagement are interchangeable. *)
EXTENDS StreamManagement, TLC

MCSymmetry == Permutations(Senders)
=============================================================================
