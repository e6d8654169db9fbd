----------------------------- MODULE MCAdminAccess -----------------------------
(* A small instance of AdminAccess; concurrent requests are interchangeable. *)
EXTENDS AdminAccess, TLC

CallSymmetry == Permutations(Logins) \cup Permutations(Requests)

=============================================================================
