------------------------------ MODULE MCDedup ------------------------------
(***************************************************************************)
(* The deduplicator under both handler goroutines and two keys.            *)
(***************************************************************************)
EXTENDS Dedup
=============================================================================
