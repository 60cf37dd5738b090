-------------------------------- MODULE Observer --------------------------------
(***************************************************************************)
(* txl::messaging (observer.h): the dispatcher's two maps, and the global  *)
(* dispatcher that puts a shared_mutex round them and keeps the observers  *)
(* it was given by shared_ptr.                                             *)
(*                                                                         *)
(* What is done under the unique lock is one action, possible while no     *)
(* dispatch holds the lock shared.  Any thread adds and removes any        *)
(* observer, and what takes the lock twice is two actions.  A dispatch     *)
(* calls one observer a step, and erases the one that answered false in    *)
(* another step, beside whatever dispatches of other threads: the lock is  *)
(* shared.  Where one of them goes through the same list this is a data    *)
(* race: from then on the list is not followed, and a dispatch of its type *)
(* may call whom it likes, as often as it likes, and end when it likes.    *)
(***************************************************************************)
EXTENDS FiniteSets, SequencesExt

CONSTANTS
    Threads, Msgs, Observers,
    Shared      \* the observers that are given by shared_ptr, not by reference

\* of the constants
ObserverAssumption == Shared \subseteq Observers

VARIABLES
    mem,    \* sub_map_, observer_to_types_, observers_, and the histories below
    pc,
    loc     \* the locals of each thread's call

vars == <<mem, pc, loc>>

\* dropped: the types from whose list an observer was erased by a dispatch; torn: the
\* types whose list was erased from while another dispatch of the type was under way;
\* crossed: the shared observers of which an add and a removal were under way at once,
\* since a removal that had no add beside it
Nothing == [subs |-> [m \in Msgs |-> <<>>], types |-> [o \in Observers |-> {}], connected |-> {},
            dropped |-> [o \in Observers |-> {}], torn |-> {}, crossed |-> {}]

\* obs, msgs: what is added or removed; the others: the type of a dispatch, its
\* iterator, whom it found in the list and whom it called
NoLocals == [obs |-> {}, msgs |-> {}, msg |-> {}, it |-> 1, to |-> <<>>, given |-> <<>>]

Init ==
    /\ mem = Nothing
    /\ pc = [t \in Threads |-> "idle"]
    /\ loc = [t \in Threads |-> NoLocals]

Goto(t, l) == pc' = [pc EXCEPT ![t] = l]
Return(t)  == Goto(t, "idle") /\ loc' = [loc EXCEPT ![t] = NoLocals]

Dispatching == {t \in Threads : pc[t] \in {"make", "deliver", "erase"}}
Unique      == Dispatching = {}     \* the unique lock can be had

----------------------------------------------------------------------------
(* add and remove_all, by reference and by shared_ptr                      *)

Adding   == {"connect", "subscribe"}
Removing == {"unsubscribe", "disconnect"}
\* o, if it is shared and one of these calls of it is under way
Beside(o, calls) ==
    {p \in Shared \cap {o} : \E t \in Threads : pc[t] \in calls /\ loc[t].obs = {p}}

\* mutant: a shared_ptr is not kept
NeverKept(o) == "subscribe"
FirstStep(o) == IF o \in Shared THEN "connect" ELSE "subscribe"
Add(t, o, msgs) ==
    /\ pc[t] = "idle"
    /\ Goto(t, FirstStep(o))
    /\ loc' = [loc EXCEPT ![t] = [NoLocals EXCEPT !.obs = {o}, !.msgs = msgs]]
    /\ mem' = [mem EXCEPT !.crossed = @ \cup Beside(o, Removing)]

Connect(t) ==
    /\ pc[t] = "connect" /\ Unique
    /\ mem' = [mem EXCEPT !.connected = @ \cup loc[t].obs]
    /\ Goto(t, "subscribe")
    /\ UNCHANGED loc

\* subscribe_one for each type: a type that is there already is left alone
\* mutant: it is appended again
NewTypes(t, o) == loc[t].msgs
AddedTypes(t, o) == loc[t].msgs \ mem.types[o]
Subscribe(t) ==
    /\ pc[t] = "subscribe" /\ Unique
    /\ \E o \in loc[t].obs :
          mem' = [mem EXCEPT
            !.types[o] = @ \cup loc[t].msgs,
            !.subs = [m \in Msgs |-> IF m \in AddedTypes(t, o) \ mem.torn THEN Append(@[m], o) ELSE @[m]]]
    /\ Return(t)

RemoveAll(t, o) ==
    /\ pc[t] = "idle"
    /\ Goto(t, "unsubscribe")
    /\ loc' = [loc EXCEPT ![t] = [NoLocals EXCEPT !.obs = {o}]]
    /\ mem' = [mem EXCEPT !.crossed = @ \cup Beside(o, Adding)]

\* unsubscribe_all: from the first place in the list of each type
UnsubscribeAll(t) ==
    /\ pc[t] = "unsubscribe" /\ Unique
    /\ \E o \in loc[t].obs :
          mem' = [mem EXCEPT
            !.subs = [m \in Msgs |-> IF m \in mem.types[o] THEN RemoveFirst(@[m], o) ELSE @[m]],
            !.types[o] = {},
            !.dropped[o] = {},
            !.crossed = @ \ ({o} \ Beside(o, Adding))]
    /\ IF loc[t].obs \subseteq Shared THEN Goto(t, "disconnect") /\ UNCHANGED loc ELSE Return(t)

Disconnect(t) ==
    /\ pc[t] = "disconnect" /\ Unique
    /\ mem' = [mem EXCEPT !.connected = @ \ loc[t].obs]
    /\ Return(t)

----------------------------------------------------------------------------
(* dispatch and lazy_dispatch                                              *)

Subs(t) == LET m == CHOOSE m \in loc[t].msg : TRUE IN mem.subs[m]
Torn(t) == loc[t].msg \subseteq mem.torn

\* with no subscriber a lazy dispatch returns without making its message
Dispatch(t, m, lazy) ==
    /\ pc[t] = "idle"
    /\ lazy => mem.subs[m] # <<>> \/ m \in mem.torn
    /\ Goto(t, IF lazy THEN "make" ELSE "deliver")
    /\ loc' = [loc EXCEPT ![t] = [NoLocals EXCEPT !.msg = {m}, !.to = mem.subs[m]]]
    /\ UNCHANGED mem

MakeMessage(t) ==
    /\ pc[t] = "make"
    /\ Goto(t, "deliver")
    /\ UNCHANGED <<mem, loc>>

\* it->func_(&msg), and ++it if it answers true
Deliver(t) ==
    /\ pc[t] = "deliver" /\ ~Torn(t)
    /\ loc[t].it <= Len(Subs(t))
    /\ LET given == Append(loc[t].given, Subs(t)[loc[t].it])
       IN  \/ /\ loc' = [loc EXCEPT ![t].it = @ + 1, ![t].given = given]
              /\ UNCHANGED pc
           \/ /\ loc' = [loc EXCEPT ![t].given = given]
              /\ Goto(t, "erase")
    /\ UNCHANGED mem

\* mutant: the iterator moves on after an erase as well
StepsOver(t) == loc[t].it + 1
NextIt(t) == loc[t].it
\* it = subs->second.erase(it)
Races(t) == \E u \in Dispatching \ {t} : loc[u].msg = loc[t].msg
Erase(t) ==
    /\ pc[t] = "erase" /\ ~Torn(t) /\ ~Races(t)
    /\ \E m \in loc[t].msg :
          mem' = [mem EXCEPT !.subs[m] = RemoveAt(@, loc[t].it),
                             !.dropped[Subs(t)[loc[t].it]] = @ \cup {m}]
    /\ loc' = [loc EXCEPT ![t].it = NextIt(t)]
    /\ Goto(t, "deliver")

\* ... beside another dispatch of the type
EraseRacing(t) ==
    /\ pc[t] = "erase" /\ ~Torn(t) /\ Races(t)
    /\ mem' = [mem EXCEPT !.subs = [m \in Msgs |-> IF m \in loc[t].msg THEN <<>> ELSE @[m]],
                          !.torn = @ \cup loc[t].msg]
    /\ Goto(t, "deliver")
    /\ UNCHANGED loc

\* a dispatch of a torn list calls someone, or erases someone
DeliverTorn(t) ==
    /\ pc[t] \in {"deliver", "erase"} /\ Torn(t)
    /\ Goto(t, IF pc[t] = "deliver" THEN "erase" ELSE "deliver")
    /\ UNCHANGED <<mem, loc>>

DispatchEnds(t) ==
    /\ pc[t] = "deliver"
    /\ Torn(t) \/ loc[t].it > Len(Subs(t))
    /\ Return(t)
    /\ UNCHANGED mem

Step(t) == Connect(t) \/ Subscribe(t) \/ UnsubscribeAll(t) \/ Disconnect(t)
           \/ MakeMessage(t) \/ Deliver(t) \/ Erase(t) \/ EraseRacing(t)
           \/ DeliverTorn(t) \/ DispatchEnds(t)

Next == \E t \in Threads :
    \/ \E o \in Observers : (\E msgs \in (SUBSET Msgs) \ {{}} : Add(t, o, msgs)) \/ RemoveAll(t, o)
    \/ \E m \in Msgs, lazy \in BOOLEAN : Dispatch(t, m, lazy)
    \/ Step(t)

Spec == Init /\ [][Next]_vars

----------------------------------------------------------------------------
TypeOK ==
    /\ \A m \in Msgs : ToSet(mem.subs[m]) \subseteq Observers
    /\ mem.types \in [Observers -> SUBSET Msgs] /\ mem.dropped \in [Observers -> SUBSET Msgs]
    /\ mem.connected \subseteq Observers /\ mem.torn \subseteq Msgs /\ mem.crossed \subseteq Shared
    /\ pc \in [Threads -> {"idle", "connect", "subscribe", "unsubscribe", "disconnect",
                           "make", "deliver", "erase"}]

\* The two maps agree: an observer is in the list of a type once when it is
\* subscribed to it, and not at all when it is not, or when it answered false: then
\* the type stays in observer_to_types_, and only remove_all lets the observer
\* subscribe to it again (observer.h:61-78, 150-174, 191-202).  A list that two
\* dispatches raced for is left out, and the race is taken to spoil no other; to erase
\* beside dispatches of other types is no race.
MapsAgree == \A o \in Observers, m \in Msgs \ mem.torn :
    Cardinality({i \in DOMAIN mem.subs[m] : mem.subs[m][i] = o})
        = (IF m \in mem.types[o] \ mem.dropped[o] THEN 1 ELSE 0)

\* An observer that was given by shared_ptr is kept alive for as long as a dispatch can
\* reach it: it is connected while it is in a list (observer.h:250-272, 314-332), unless
\* an add and a remove_all of it, each of which locks twice, ran at once; a remove_all
\* with no add beside it mends even that.
KeptAlive == \A o \in Shared \ mem.crossed, m \in Msgs \ mem.torn :
    o \in ToSet(mem.subs[m]) => o \in mem.connected

\* A dispatch calls each observer that was subscribed when it took the lock, once and
\* in order, and erases those that answered false, while dispatches of other types call
\* and erase theirs, and those of its own type call (observer.h:182-229).  Of a list that
\* two dispatches raced for nothing is said.
EachCalledOnce == \A t \in Dispatching : ~Torn(t) =>
    /\ IsPrefix(loc[t].given, loc[t].to)
    /\ pc[t] = "deliver" /\ loc[t].it > Len(Subs(t)) => loc[t].given = loc[t].to
    /\ pc[t] = "erase" => loc[t].it \in DOMAIN Subs(t) /\ Subs(t)[loc[t].it] = Last(loc[t].given)
=============================================================================
