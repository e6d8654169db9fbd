-------------------------------- MODULE Orm --------------------------------
(***************************************************************************)
(* What a commit of a SQLAlchemy session does to one column of a row that  *)
(* other transactions may have changed since the session loaded it.        *)
(***************************************************************************)

(***************************************************************************)
(* The flush writes a column only when its value differs from the one the  *)
(* session loaded, with UPDATE ... WHERE id = ...: no version is compared, *)
(* so whatever another transaction committed since is overwritten, and a   *)
(* column set to the value it was loaded with is left as the database now  *)
(* has it.                                                                 *)
(***************************************************************************)
Flush(loaded, assigned, stored) ==
    IF assigned = loaded THEN stored ELSE assigned

=============================================================================
