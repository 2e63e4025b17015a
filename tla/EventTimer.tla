---- MODULE EventTimer ----
(***************************************************************************)
(* Mylib::Event::Timer: events with a time, for a callback or for a        *)
(* coroutine that waits, fired by trigger_events.  An event that is        *)
(* unscheduled stays in the heap, disabled.  The memory of a destroyed     *)
(* event is the next one handed out, so a pointer kept too long refers to  *)
(* another event.                                                          *)
(***************************************************************************)
EXTENDS Integers, Sequences, FiniteSets, FiniteSetsExt

CONSTANTS
    Coroutines,
    MaxTime,        \* bound of the clock
    MaxEvents,      \* bound: events alive
    MaxSchedules    \* bound: calls of schedule_event

TimerAssumption == MaxTime \in Nat /\ MaxEvents \in Nat /\ MaxSchedules \in Nat

VARIABLES
    now,       \* get_current_time
    events,    \* the events alive, by address
    heap,      \* addresses in Timer::events
    points,    \* Descriptor__::ptr of each schedule_event, an address or Null
    promise,   \* awaiter_data of each coroutine, an address or Null
    coroutine, \* where each coroutine is
    limit,     \* the time trigger_events took when it started, or Idle
    firing     \* the event it has popped, or Null

vars == <<now, events, heap, points, promise, coroutine, limit, firing>>

Null == 0
Idle == -1
Times == 0 .. MaxTime
Addresses == 1 .. MaxEvents
Alive == DOMAIN events
Fresh == Min(Addresses \ Alive)
Descriptors == 1 .. Len(points)

Init ==
    /\ now = 0 /\ events = <<>> /\ heap = {} /\ points = <<>>
    /\ promise = [c \in Coroutines |-> Null]
    /\ coroutine = [c \in Coroutines |-> "created"]
    /\ limit = Idle /\ firing = Null

\* The program runs outside trigger_events and in the callback it has called.
ProgramRuns == limit = Idle \/ firing # Null

With(es, a, e) == [x \in DOMAIN es \cup {a} |-> IF x = a THEN e ELSE es[x]]
Less(es, a) == [x \in DOMAIN es \ {a} |-> es[x]]
Disabled(a) == [events EXCEPT ![a].enabled = FALSE]

Advance ==
    /\ now < MaxTime /\ now' = now + 1
    /\ UNCHANGED <<events, heap, points, promise, coroutine, limit, firing>>

Schedule(t) ==
    /\ ProgramRuns /\ Alive # Addresses /\ Len(points) < MaxSchedules
    /\ events' = With(events, Fresh, [time |-> t, enabled |-> TRUE, of |-> Len(points) + 1, kind |-> "callback"])
    /\ heap' = heap \cup {Fresh}
    /\ points' = Append(points, Fresh)
    /\ UNCHANGED <<now, promise, coroutine, limit, firing>>

\* The caller has asked is_valid: after the event is gone ptr is null.
Unschedule(d) ==
    /\ ProgramRuns /\ points[d] # Null
    /\ events' = Disabled(points[d])
    /\ points' = [points EXCEPT ![d] = Null]
    /\ UNCHANGED <<now, heap, promise, coroutine, limit, firing>>

\* The coroutine runs to its next co_await coroutine_wait, or to its end.
Awaits(c, es, t) ==
    LET a == Min(Addresses \ DOMAIN es)
    IN  /\ Addresses \ DOMAIN es # {}
        /\ events' = With(es, a, [time |-> t, enabled |-> TRUE, of |-> c, kind |-> "coroutine"])
        /\ heap' = heap \cup {a}
        /\ promise' = [promise EXCEPT ![c] = a]
        /\ coroutine' = [coroutine EXCEPT ![c] = "waiting"]

Finishes(c, es) ==
    /\ events' = es /\ UNCHANGED heap
    /\ promise' = [promise EXCEPT ![c] = Null]
    /\ coroutine' = [coroutine EXCEPT ![c] = "done"]

Runs(c, es) == Finishes(c, es) \/ \E t \in Times : Awaits(c, es, t)

\* initialize_coroutine
Initialize(c) ==
    /\ ProgramRuns /\ coroutine[c] = "created"
    /\ Runs(c, events)
    /\ UNCHANGED <<now, points, limit, firing>>

\* Mutant: the event the coroutine waited for stays enabled.
ForceResumeKeepsEvent(c) ==
    /\ ProgramRuns /\ promise[c] # Null
    /\ Runs(c, events)
    /\ UNCHANGED <<now, points, limit, firing>>

ForceResume(c) ==
    /\ ProgramRuns /\ promise[c] # Null
    /\ Runs(c, Disabled(promise[c]))
    /\ UNCHANGED <<now, points, limit, firing>>

Unregister(c) ==
    /\ ProgramRuns /\ promise[c] # Null
    /\ events' = Disabled(promise[c])
    /\ promise' = [promise EXCEPT ![c] = Null]
    /\ coroutine' = [coroutine EXCEPT ![c] = "unregistered"]
    /\ UNCHANGED <<now, heap, points, limit, firing>>

----
Trigger ==
    /\ limit = Idle /\ limit' = now
    /\ UNCHANGED <<now, events, heap, points, promise, coroutine, firing>>

\* An event at the front of the heap: none has an earlier time.
IsFront(a) == a \in heap /\ \A b \in heap : events[a].time <= events[b].time

Due(a) == limit # Idle /\ firing = Null /\ IsFront(a) /\ events[a].time <= limit

\* The callback is called, or the coroutine resumed: await_resume clears its promise.
Fire(a) ==
    /\ Due(a) /\ events[a].enabled
    /\ heap' = heap \ {a} /\ firing' = a
    /\ IF events[a].kind = "coroutine"
       THEN /\ promise' = [promise EXCEPT ![events[a].of] = Null]
            /\ coroutine' = [coroutine EXCEPT ![events[a].of] = "running"]
       ELSE UNCHANGED <<promise, coroutine>>
    /\ UNCHANGED <<now, events, points, limit>>

\* destroy_event
PointsWithout(a) ==
    IF events[a].kind = "callback" THEN [points EXCEPT ![events[a].of] = Null] ELSE points

DropDisabled(a) ==
    /\ Due(a) /\ ~events[a].enabled
    /\ heap' = heap \ {a}
    /\ events' = Less(events, a)
    /\ points' = PointsWithout(a)
    /\ UNCHANGED <<now, promise, coroutine, limit, firing>>

CallbackReturns ==
    /\ firing # Null /\ events[firing].kind = "callback"
    /\ \/ /\ events' = Less(events, firing)
          /\ points' = PointsWithout(firing)
          /\ UNCHANGED heap
       \/ \E t \in Times :            \* re_schedule
          /\ events' = [events EXCEPT ![firing].time = t]
          /\ heap' = heap \cup {firing}
          /\ UNCHANGED points
    /\ firing' = Null
    /\ UNCHANGED <<now, promise, coroutine, limit>>

\* The coroutine waits again, or ends, while the event that resumed it is alive.
CoroutineSuspends ==
    /\ firing # Null /\ events[firing].kind = "coroutine"
    /\ \/ /\ Finishes(events[firing].of, Less(events, firing))
       \/ \E t \in Times :
          LET c == events[firing].of  a == Fresh
          IN  /\ Alive # Addresses
              /\ events' = Less(With(events, a,
                    [time |-> t, enabled |-> TRUE, of |-> c, kind |-> "coroutine"]), firing)
              /\ heap' = heap \cup {a}
              /\ promise' = [promise EXCEPT ![c] = a]
              /\ coroutine' = [coroutine EXCEPT ![c] = "waiting"]
    /\ firing' = Null
    /\ UNCHANGED <<now, points, limit>>

TriggerReturns ==
    /\ limit # Idle /\ firing = Null
    /\ \A a \in heap : events[a].time > limit
    /\ limit' = Idle
    /\ UNCHANGED <<now, events, heap, points, promise, coroutine, firing>>

Next ==
    \/ Advance \/ Trigger \/ TriggerReturns \/ CallbackReturns \/ CoroutineSuspends
    \/ \E t \in Times : Schedule(t)
    \/ \E d \in Descriptors : Unschedule(d)
    \/ \E c \in Coroutines : Initialize(c) \/ ForceResume(c) \/ Unregister(c)
    \/ \E a \in Alive : Fire(a) \/ DropDisabled(a)

Spec == Init /\ [][Next]_vars

----
TypeOK ==
    /\ now \in Times /\ limit \in Times \cup {Idle} /\ firing \in Alive \cup {Null}
    /\ Alive \subseteq Addresses /\ heap \subseteq Alive
    /\ \A a \in Alive : events[a].time \in Times /\ events[a].enabled \in BOOLEAN
    /\ points \in Seq(Addresses \cup {Null})
    /\ promise \in [Coroutines -> Addresses \cup {Null}]
    /\ coroutine \in [Coroutines -> {"created", "waiting", "running", "done", "unregistered"}]

EnabledFor(kind, of) ==
    {a \in Alive : events[a].kind = kind /\ events[a].of = of /\ events[a].enabled}

\* A coroutine that waits is resumed by exactly one event of the heap, the one
\* its promise names, and no event will resume one that does not wait
\* (event-timer.h:271): forced resumes, which leave the old event in the heap,
\* never make it run twice or not at all.  A descriptor is valid exactly while
\* its event is alive and scheduled, and points to no other (event-timer.h:323).
OneWakeup ==
    /\ \A c \in Coroutines :
        IF coroutine[c] = "waiting"
        THEN EnabledFor("coroutine", c) = {promise[c]} /\ promise[c] \in heap
        ELSE promise[c] = Null /\ EnabledFor("coroutine", c) \subseteq {firing}
    /\ \A d \in Descriptors :
        EnabledFor("callback", d) = IF points[d] = Null THEN {} ELSE {points[d]}

====
