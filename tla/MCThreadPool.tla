----------------------------- MODULE MCThreadPool -----------------------------
(* Small instances of ThreadPool for TLC. *)
EXTENDS ThreadPool

CONSTANTS j1, j2

\* the first job is a chain of two steps, the other one
MCSteps == [j \in Jobs |-> IF j = j1 THEN 2 ELSE 1]
=============================================================================
