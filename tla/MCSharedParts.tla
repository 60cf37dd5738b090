----------------------------- MODULE MCSharedParts -----------------------------
(* A small instance of SharedParts for TLC. *)
EXTENDS SharedParts, Naturals, TLC

CONSTANTS f1, f2

\* f1 serves one request of three bytes and one of one byte, f2 is too short for three
MCSize == f1 :> 4 @@ f2 :> 2
=============================================================================
