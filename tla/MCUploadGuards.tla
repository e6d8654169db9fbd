---------------------------- MODULE MCUploadGuards ----------------------------
(* A small instance of UploadGuards. *)
EXTENDS UploadGuards

(* Administrators are interchangeable, and so are extensions. *)
Symmetry == Permutations(Admins) \cup Permutations(Exts)

=============================================================================
