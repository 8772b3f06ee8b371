--------------------------- MODULE MCControlPlane ---------------------------
(* Instances of ControlPlane for TLC. *)
EXTENDS ControlPlane, TLC

(* Sessions, boards and handlers are interchangeable. *)
Symmetry == Permutations(Sessions) \cup Permutations(Boards)
                \cup Permutations(Handlers)
=============================================================================
