--------------------------- MODULE MCPushDevices ---------------------------
(* Small instances of PushDevices: customers are interchangeable, and so are installations. *)
EXTENDS PushDevices, TLC

Symmetry == Permutations(Users) \cup Permutations(Devices)

=============================================================================
