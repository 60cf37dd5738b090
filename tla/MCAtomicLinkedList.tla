-------------------------- MODULE MCAtomicLinkedList --------------------------
(* Small instances of AtomicLinkedList for TLC. *)
EXTENDS AtomicLinkedList
=============================================================================
