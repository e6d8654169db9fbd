------------------------------ MODULE MCTransfer ------------------------------
(* Small instances of TransferSystem. *)
EXTENDS TransferSystem, TLC

CONSTANTS f1, f2

OneByteEach == [f \in Files |-> 1]

(* The second file is empty. *)
SecondEmpty == (f1 :> 1) @@ (f2 :> 0)

(* The workers are interchangeable: no property of the run tells them apart. *)
WorkerSymmetry == Permutations(Workers)

=============================================================================
