------------------------- MODULE MCUploadReservation -------------------------
(* UploadReservation on a small instance: two documents, two confirmations   *)
(* and one sweep at a time.                                                  *)
EXTENDS UploadReservation, TLC

DocumentsAndCallsAlike == Permutations(Documents) \cup Permutations(Calls)

=============================================================================
