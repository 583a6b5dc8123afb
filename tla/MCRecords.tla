------------------------------ MODULE MCRecords ------------------------------
(* A small instance of Records for TLC: the configurations give the constants. *)
EXTENDS Records
=============================================================================
