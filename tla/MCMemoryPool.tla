----------------------------- MODULE MCMemoryPool -----------------------------
(* Small instances of MemoryPool for TLC. *)
EXTENDS MemoryPool
=============================================================================
