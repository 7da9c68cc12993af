------------------------------ MODULE MCUpload ------------------------------
(* Upload on a small instance. *)
EXTENDS Upload
=============================================================================
