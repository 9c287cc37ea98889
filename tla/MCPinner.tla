------------------------------ MODULE MCPinner ------------------------------
(* Model checking of Pinner: constants shared by its configurations.       *)
EXTENDS Pinner, TLC

\* The failures whose error paths the driver gets right.
HandledFailures == Services \ {"gup", "sglist"}

\* Those that come when a pin command has something to give back.
UndoFailures == {"gup", "pinning", "sglist"}
GupOnly == {"gup"}
NoFailures == {}

Symmetry == Permutations(Threads) \cup Permutations(Pages) \cup Permutations(Pins)
=============================================================================
