---------------------------- MODULE MCAdminListing ----------------------------
(* The loads of the view, and what the filters tell apart, are alike. *)
EXTENDS AdminListing, TLC

Symmetry == Permutations(Loads) \cup Permutations(Filters)

=============================================================================
