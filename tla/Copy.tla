----------------------------------- MODULE Copy -----------------------------------
(***************************************************************************)
(* copy.h: copy moves bytes from a reader to a writer through a buffer, as *)
(* many as a size policy (size_policy.h) asks for; a reader may give less  *)
(* than is asked, and either may fail.                                     *)
(*                                                                         *)
(* `store' is copy between two turns of its loop, `contents' what the      *)
(* reader had to give.                                                     *)
(***************************************************************************)
EXTENDS Naturals, SequencesExt, FiniteSetsExt

CONSTANTS
    BufSize,    \* the copy buffer
    MaxBytes,   \* bound: bytes of the source, and bytes asked for
    Careful     \* a writer takes all of what it is given

\* of the constants
CopyAssumption == BufSize \in Nat \ {0} /\ MaxBytes \in Nat /\ Careful \in BOOLEAN

VARIABLES store, contents
vars == <<store, contents>>

----------------------------------------------------------------------------
(* Size policies: exactly, at_most, and one_of any of them.                *)

Policy(kind, value) == [kind |-> kind, value |-> value, maybe_eof |-> FALSE]
Policies == {{Policy("exactly", n)} : n \in 0..MaxBytes}
              \cup {{Policy("at_most", n)} : n \in 0..MaxBytes}
              \cup {{Policy("exactly", n), Policy("at_most", k)} : n, k \in 1..MaxBytes}

Value(policies) == Min({p.value : p \in policies})
IsComplete(policies) == \E p \in policies : p.value = 0 \/ p.maybe_eof

\* mutant: the value is not reduced
KeepsValue(p, requested, actual) == [p EXCEPT !.maybe_eof = p.kind = "at_most" /\ requested > actual]
Processed(p, requested, actual) ==
    [p EXCEPT !.value = IF actual >= @ THEN 0 ELSE @ - actual,
              !.maybe_eof = p.kind = "at_most" /\ requested > actual]

----------------------------------------------------------------------------
Init == \E length \in 0..MaxBytes, policies \in Policies :
    /\ store = [src |-> [i \in 1..length |-> i], dst |-> <<>>, bytes_to_read |-> policies,
                total_read |-> 0, short |-> FALSE, at |-> "copying"]
    /\ contents = [src |-> store.src, asked |-> Value(policies),
                   exact |-> \A p \in policies : p.kind = "exactly"]

Requested == Min({BufSize, Value(store.bytes_to_read)})

\* the buffer is filled up to `read', and of that the writer takes `written'
Turn ==
    /\ store.at = "copying" /\ ~IsComplete(store.bytes_to_read) /\ store.src # <<>>
    /\ \E read \in 1..Min({Requested, Len(store.src)}) : \E written \in 0..read :
        /\ Careful => written = read
        /\ store' = [store EXCEPT
              !.src = SubSeq(@, read + 1, Len(@)), !.dst = @ \o SubSeq(store.src, 1, written),
              !.total_read = @ + written, !.short = @ \/ read < Requested,
              !.bytes_to_read = {Processed(p, Requested, written) : p \in @}]
    /\ UNCHANGED contents

\* what was read before the writer failed is gone
Fail ==
    /\ store.at = "copying" /\ ~IsComplete(store.bytes_to_read)
    /\ \E read \in 0..Min({Requested, Len(store.src)}) :
        store' = [store EXCEPT !.src = SubSeq(@, read + 1, Len(@)), !.at = "failed"]
    /\ UNCHANGED contents

Return ==
    /\ store.at = "copying" /\ (IsComplete(store.bytes_to_read) \/ store.src = <<>>)
    /\ store' = [store EXCEPT !.at = "done"]
    /\ UNCHANGED contents

Next == Turn \/ Fail \/ Return

Spec == Init /\ [][Next]_vars

----------------------------------------------------------------------------
\* However short the reads are, the bytes arrive in order; copy takes no more from the
\* source than it passes on, returns their number, and stops early only at the end of the
\* source or, with an at_most among the policies, after a read that was cut short
\* (copy.h:18-45, size_policy.h:11-62, 86-152).
CopyExact ==
    /\ IsPrefix(store.dst, contents.src)
    /\ store.total_read = Len(store.dst) /\ store.total_read <= contents.asked
    /\ store.at = "done" =>
        /\ store.dst \o store.src = contents.src
        /\ \/ store.total_read = contents.asked
           \/ store.src = <<>>
           \/ store.short /\ ~contents.exact
=============================================================================
