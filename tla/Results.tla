-------------------------------- MODULE Results --------------------------------
(***************************************************************************)
(* txl::result (result.h): a union of a value and an error, and flags that *)
(* say which of them it holds, if any.                                     *)
(*                                                                         *)
(* Two results are constructed, assigned and moved.  A value has a payload *)
(* of its own, an error is a code.  The union holds an object, of which    *)
(* only a shell is left when it was moved out; the flags are what the code *)
(* believes.  `contents' is what each result should be.                    *)
(***************************************************************************)
EXTENDS FiniteSets

CONSTANTS
    Payloads, Codes,
    Shell,
    Careful     \* whether results that hold something are assigned their like

\* of the constants
ResultAssumption ==
    /\ Payloads \cap Codes = {} /\ Shell \notin Payloads \cup Codes
    /\ Careful \in BOOLEAN

VARIABLES store, contents
vars == <<store, contents>>

Names == {"x", "y"}
Object(kind, data) == [kind |-> kind, data |-> data]
Nothing     == Object("none", Shell)
Unspecified == Object("moved", Shell)   \* a result that was moved from

\* the flags ASSIGNED and IS_ERROR, and the union
Result(assigned, error, object) == [assigned |-> assigned, error |-> error, object |-> object]
Of(object) == Result(object.kind # "none", object.kind = "error", object)

Init ==
    /\ store = [x |-> Of(Nothing), y |-> Of(Nothing), confused |-> FALSE]
    /\ contents = [x \in Names |-> Nothing]

----------------------------------------------------------------------------
\* the object that the flags name
Believed(r) == IF ~r.assigned THEN "none" ELSE IF r.error THEN "error" ELSE "value"

\* whether the destructor of one type would run on an object of the other
Confuses(r) == Believed(r) # "none" /\ Believed(r) # r.object.kind

\* move_from: the flags are swapped, the old object is destructed, the other's is
\* moved here, whose shell stays there under the flags that were here
\* mutant: the flags are copied
CopiesFlags(r, v) ==
    [to   |-> Result(v.assigned, v.error, IF v.assigned THEN v.object ELSE Nothing),
     from |-> v]
move_from(r, v) ==
    [to   |-> Result(v.assigned, v.error, IF v.assigned THEN v.object ELSE Nothing),
     from |-> Result(r.assigned, r.error,
                     IF v.assigned /\ v.object.kind = "value" THEN Object("value", Shell) ELSE v.object)]

\* the objects that a caller can construct one from
InUse == {store[x].object.data : x \in Names}
Fresh == {Object("value", p) : p \in Payloads \ InUse} \cup {Object("error", c) : c \in Codes} \cup {Nothing}

Set(x, r, object) ==
    /\ store' = [store EXCEPT ![x] = r, !.confused = @ \/ Confuses(store[x])]
    /\ contents' = [contents EXCEPT ![x] = object]

\* the destructor, and a result of a value, of an error, or of nothing
Construct(x) == \E object \in Fresh : Set(x, Of(object), object)

\* result(result const &), of an error or nothing: a value would be assigned to raw memory
CopyConstruct(x, y) ==
    /\ x # y
    /\ Believed(store[y]) # "value" /\ contents[y] # Unspecified
    /\ Set(x, Of(contents[y]), contents[y])

\* what can be assigned to what: when this held a value and the other an error or
\* nothing, or the reverse, the other is left with a flag for what it never had
Assignable(r, v) == Careful => Believed(r) \in {"none", Believed(v)}

\* move assignment; the move constructor is one to a result of nothing
MoveAssign(x, y) ==
    LET moved == move_from(store[x], store[y])
    IN  /\ x # y
        /\ Assignable(store[x], store[y])
        /\ store' = [store EXCEPT ![x] = moved.to, ![y] = moved.from]
        /\ contents' = [contents EXCEPT ![x] = contents[y], ![y] = Unspecified]

MoveConstruct(x, y) ==
    LET moved == move_from(Of(Nothing), store[y])
    IN  /\ x # y
        /\ store' = [store EXCEPT ![x] = moved.to, ![y] = moved.from,
                                  !.confused = @ \/ Confuses(store[x])]
        /\ contents' = [contents EXCEPT ![x] = contents[y],
                                        ![y] = IF contents[y] = Unspecified THEN @ ELSE Nothing]

\* release(), by or_throw, or_value, as_optional and with: the caller moves the value out
\* mutant: the flags stay
KeepsAssigned(r) == TRUE
StillAssigned(r) == FALSE
Release(x) ==
    /\ Believed(store[x]) = "value" /\ contents[x] # Unspecified
    /\ store' = [store EXCEPT ![x] = [@ EXCEPT !.assigned = StillAssigned(@), !.object = Object("value", Shell)]]
    /\ contents' = [contents EXCEPT ![x] = Nothing]

\* then(cont): a result that is no error is assigned what the continuation returns,
\* a temporary that is destructed with the flags it is left with
Then(x) == \E object \in Fresh :
    LET moved == move_from(store[x], Of(object))
    IN  /\ Believed(store[x]) = "value"
        /\ Assignable(store[x], Of(object))
        /\ store' = [store EXCEPT ![x] = moved.to, !.confused = @ \/ Confuses(moved.from)]
        /\ contents' = [contents EXCEPT ![x] = object]

Next ==
    \/ \E x \in Names : Construct(x) \/ Release(x) \/ Then(x)
    \/ \E x, y \in Names : CopyConstruct(x, y) \/ MoveAssign(x, y) \/ MoveConstruct(x, y)

Spec == Init /\ [][Next]_vars

----------------------------------------------------------------------------
\* A result holds what was last put into it, and through every move a value's
\* payload is in one result only, which will destruct it (result.h:80-110, 145-192, 233-278).
HoldsLast == \A x \in Names :
    /\ contents[x] # Unspecified =>
          Believed(store[x]) = contents[x].kind
          /\ (contents[x] # Nothing => store[x].object = contents[x])
    /\ store[x].object.data \in Payloads =>
          /\ Believed(store[x]) = "value"
          /\ \A y \in Names \ {x} : store[y].object.data # store[x].object.data

\* No destructor runs on an object of the other type (result.h:87-97, 167-182): a result that
\* a value was moved out of is not left with the flag of an error, nor the reverse.
NeverConfused == ~store.confused /\ \A x \in Names : ~Confuses(store[x])
=============================================================================
