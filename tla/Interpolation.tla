---- MODULE Interpolation ----
(***************************************************************************)
(* Mylib::InterpolationManager: a vector of running interpolations, for a  *)
(* callback or for a coroutine that waits.  process_interpolation advances *)
(* them by index while finished ones are removed by moving the last one    *)
(* into their place, and callbacks and coroutines change the vector in     *)
(* between.  Time advances by 1 in every pass.                             *)
(***************************************************************************)
EXTENDS Integers, Sequences, FiniteSets, SequencesExt, FiniteSetsExt

CONSTANTS
    Coroutines,  \* named other than 0, which stands for none
    Lengths,     \* values of max_x
    MaxEvents    \* bound: interpolations alive

InterpolationAssumption == Lengths \subseteq Nat \ {0} /\ MaxEvents \in Nat /\ 0 \notin Coroutines

VARIABLES
    interpolators, \* the vector, of addresses
    events,        \* what lies at each address: x left, place in the vector, coroutine
    promise,       \* awaiter_data of each coroutine
    index,         \* i of process_interpolation, or Idle
    finishing,     \* the finished event whose callback runs, or Null
    advanced,      \* those this pass has advanced
    present,       \* those there since it started
    removed        \* how many were removed in it, up to MaxEvents

vars == <<interpolators, events, promise, index, finishing, advanced, present, removed>>

Null == 0
Idle == -1
Addresses == 1 .. MaxEvents
Alive == DOMAIN events
InVector == {interpolators[k] : k \in 1 .. Len(interpolators)}

Init ==
    /\ interpolators = <<>> /\ events = <<>>
    /\ promise = [c \in Coroutines |-> Null]
    /\ index = Idle /\ finishing = Null
    /\ advanced = {} /\ present = {} /\ removed = 0

ProgramRuns == index = Idle \/ finishing # Null

\* push, to the vector v and the events es
Pushed(v, es, c, max_x) ==
    LET a == Min(Addresses \ DOMAIN es)
    IN  [vector |-> Append(v, a), addr |-> a,
         events |-> [x \in DOMAIN es \cup {a} |->
            IF x = a THEN [left |-> max_x, pos |-> Len(v), coroutine |-> c] ELSE es[x]]]

\* Mutant: the moved element keeps its old position.
PoppedStalePosition(v, es, a) ==
    LET i == es[a].pos + 1
    IN  [vector |-> Front([v EXCEPT ![i] = Last(v)]), events |-> [x \in DOMAIN es \ {a} |-> es[x]]]

\* pop and destroy_event: the last element takes the place of a.
Popped(v, es, a) ==
    LET i == es[a].pos + 1  last == Last(v)
    IN  [vector |-> Front([v EXCEPT ![i] = last]),
         events |-> [x \in DOMAIN es \ {a} |-> IF x = last THEN [es[x] EXCEPT !.pos = i - 1] ELSE es[x]]]

\* interpolate_linear
Add ==
    /\ ProgramRuns /\ Alive # Addresses
    /\ \E max_x \in Lengths :
        LET p == Pushed(interpolators, events, Null, max_x)
        IN  interpolators' = p.vector /\ events' = p.events
    /\ UNCHANGED <<promise, index, finishing, advanced, present, removed>>

\* co_await coroutine_wait_interpolate_linear
Await(c) ==
    /\ ProgramRuns /\ promise[c] = Null /\ Alive # Addresses
    /\ \E max_x \in Lengths :
        LET p == Pushed(interpolators, events, c, max_x)
        IN  /\ interpolators' = p.vector /\ events' = p.events
            /\ promise' = [promise EXCEPT ![c] = p.addr]
    /\ UNCHANGED <<index, finishing, advanced, present, removed>>

InPass(n) == removed' = IF index = Idle \/ removed = MaxEvents THEN removed ELSE removed + n

\* The interpolation at address a ends before its time.
Cancels(a, p) ==
    /\ interpolators' = p.vector /\ events' = p.events
    /\ present' = present \ {a} /\ advanced' = advanced \ {a}
    /\ InPass(1)
    /\ UNCHANGED <<index, finishing>>

\* remove_interpolator, with a valid descriptor.  (It names descriptor.ptr, a
\* member that is in shared_ptr, and compiles only as long as nobody calls it:
\* the model is the function its lines describe.)  A callback that removes the
\* interpolation it was called for would have it destroyed twice: no program may.
RemoveInterpolator(a) ==
    /\ ProgramRuns /\ events[a].coroutine = Null /\ a # finishing
    /\ Cancels(a, Popped(interpolators, events, a))
    /\ UNCHANGED promise

Unregister(c) ==
    /\ ProgramRuns /\ promise[c] # Null
    /\ Cancels(promise[c], Popped(interpolators, events, promise[c]))
    /\ promise' = [promise EXCEPT ![c] = Null]

\* The coroutine is resumed first: it may wait again, behind the old event in
\* the vector, before that is removed.
ForceResume(c) ==
    /\ ProgramRuns /\ promise[c] # Null
    /\ \/ /\ Cancels(promise[c], Popped(interpolators, events, promise[c]))
          /\ promise' = [promise EXCEPT ![c] = Null]
       \/ /\ Alive # Addresses
          /\ \E max_x \in Lengths :
              LET p == Pushed(interpolators, events, c, max_x)
              IN  /\ Cancels(promise[c], Popped(p.vector, p.events, promise[c]))
                  /\ promise' = [promise EXCEPT ![c] = p.addr]

----
StartPass ==
    /\ index = Idle /\ index' = 0
    /\ advanced' = {} /\ present' = InVector /\ removed' = 0
    /\ UNCHANGED <<interpolators, events, promise, finishing>>

At == interpolators[index + 1]
HasNext == index # Idle /\ index < Len(interpolators) /\ finishing = Null

Advances ==
    /\ HasNext /\ events[At].left > 1
    /\ events' = [events EXCEPT ![At].left = @ - 1]
    /\ advanced' = advanced \cup {At}
    /\ index' = index + 1
    /\ UNCHANGED <<interpolators, promise, finishing, present, removed>>

\* Its end is reached: the callback is called or the coroutine resumed.
Finishes ==
    /\ HasNext /\ events[At].left = 1
    /\ events' = [events EXCEPT ![At].left = 0]
    /\ advanced' = advanced \cup {At}
    /\ finishing' = At
    /\ promise' = [c \in Coroutines |-> IF promise[c] = At THEN Null ELSE promise[c]]
    /\ UNCHANGED <<interpolators, index, present, removed>>

\* Mutant: the pass starts over when the vector has changed.
RemovesStartsOver ==
    /\ finishing # Null
    /\ LET p == Popped(interpolators, events, finishing)
       IN  interpolators' = p.vector /\ events' = p.events
    /\ present' = present \ {finishing} /\ advanced' = advanced \ {finishing}
    /\ finishing' = Null /\ index' = 0 /\ InPass(1)
    /\ UNCHANGED promise

Removes ==
    /\ finishing # Null
    /\ LET p == Popped(interpolators, events, finishing)
       IN  interpolators' = p.vector /\ events' = p.events
    /\ present' = present \ {finishing} /\ advanced' = advanced \ {finishing}
    /\ finishing' = Null /\ index' = index + 1 /\ InPass(1)
    /\ UNCHANGED promise

EndPass ==
    /\ index # Idle /\ finishing = Null /\ index >= Len(interpolators)
    /\ index' = Idle
    /\ UNCHANGED <<interpolators, events, promise, finishing, advanced, present, removed>>

Next ==
    \/ Add \/ StartPass \/ Advances \/ Finishes \/ Removes \/ EndPass
    \/ \E a \in Alive : RemoveInterpolator(a)
    \/ \E c \in Coroutines : Await(c) \/ Unregister(c) \/ ForceResume(c)

Spec == Init /\ [][Next]_vars

----
TypeOK ==
    /\ Alive \subseteq Addresses /\ interpolators \in Seq(Alive)
    /\ \A a \in Alive : events[a].left \in 0 .. Max(Lengths) /\ events[a].pos \in 0 .. MaxEvents
    /\ promise \in [Coroutines -> Alive \cup {Null}]
    /\ index \in {Idle} \cup 0 .. MaxEvents + 1
    /\ finishing \in Alive \cup {Null}
    /\ advanced \subseteq Addresses /\ present \subseteq Addresses /\ removed \in 0 .. MaxEvents

\* Every interpolation stands in the vector once, where its vector_pos says,
\* and belongs to the coroutine whose promise names it, however removals
\* (interpolation.h:318), callbacks and resumes follow one another.
PlacesHold ==
    /\ InVector = Alive
    /\ \A k \in 1 .. Len(interpolators) : events[interpolators[k]].pos = k - 1
    /\ \A c \in Coroutines :
        promise[c] # Null => promise[c] \in Alive /\ events[promise[c]].coroutine = c

\* A pass (interpolation.h:219) advances no interpolation twice, and misses
\* at most one of those it found for each that was removed meanwhile.
PassesAdvance ==
    /\ [][Advances \/ Finishes => At \notin advanced]_vars
    /\ [][EndPass => Cardinality(present \ advanced) <= removed]_vars

====
