--------------------------- MODULE MCSequentialParts ---------------------------
(* A small instance of SequentialParts for TLC. *)
EXTENDS SequentialParts

Alone(f) == [of |-> <<f>>, chain |-> FALSE]
Chain(fs) == [of |-> fs, chain |-> TRUE]
MCLayouts == {<<Alone(1), Alone(2), Alone(3)>>, <<Chain(<<1, 2>>), Alone(3)>>, <<Chain(<<2, 3, 1>>)>>,
              <<Chain(<<>>), Chain(<<3, 1>>), Alone(2)>>}
MCCrews == {<<"inline">>, <<"inline", "inline">>, <<"chain">>, <<"inline", "chain">>}
=============================================================================
