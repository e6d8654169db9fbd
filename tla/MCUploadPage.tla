----------------------------- MODULE MCUploadPage -----------------------------
(* Two chosen files and one the sender may drop on the page later. *)
EXTENDS UploadPage, TLC

CONSTANTS f1, f2, f3

TwoFiles == <<f1, f2>>

Sizes(m, n) == (f1 :> m) @@ (f2 :> n) @@ (f3 :> 1)
Named(g, h) == [f \in Files |-> IF f = g THEN h ELSE f]

(* All names differ, the chosen files share one, or the first chosen file  *)
(* and the late one do; one chosen file is empty, or both are.             *)
SmallDisks ==
    {[name |-> Named(f1, f1), size |-> Sizes(2, 1)],
     [name |-> Named(f2, f1), size |-> Sizes(2, 1)],
     [name |-> Named(f3, f1), size |-> Sizes(2, 0)],
     [name |-> Named(f1, f1), size |-> Sizes(1, 0)],
     [name |-> Named(f1, f1), size |-> Sizes(0, 0)]}

=============================================================================
