------------------------------ MODULE MCStore ------------------------------
(* The durable store on two kinds of records and a handful of appends.     *)
EXTENDS Store
=============================================================================
