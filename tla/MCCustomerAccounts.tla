------------------------ MODULE MCCustomerAccounts ------------------------
(* Small instances of CustomerAccounts: rows are interchangeable, and so are phones. *)
EXTENDS CustomerAccounts, TLC

Symmetry == Permutations(Customers) \cup Permutations(Orders) \cup Permutations(Deletions)
                \cup Permutations(Phones)

=============================================================================
