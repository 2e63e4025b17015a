---- MODULE EventHandler ----
(***************************************************************************)
(* Mylib::Event::Handler: lists of subscribers, the descriptors given out  *)
(* for them, and publish, whose callbacks may subscribe and unsubscribe    *)
(* while it walks the list.  A subscriber is its list node; a node that    *)
(* was freed is the next one handed out.                                   *)
(***************************************************************************)
EXTENDS Integers, Sequences, FiniteSets, SequencesExt, FiniteSetsExt

CONSTANTS
    Handlers,        \* named other than 0, which stands for none
    MaxDescriptors   \* bound: calls of subscribe

EventAssumption == MaxDescriptors \in Nat /\ 0 \notin Handlers

VARIABLES
    subscribers,  \* per handler, the list: node and descriptor of each
    points,       \* Descriptor__::subscriber, a node or Null
    iterator,     \* the walk of publish: handler and node
    called,       \* the descriptors whose callback this publish has called
    overwritten   \* a handler with subscribers was assigned to

vars == <<subscribers, points, iterator, called, overwritten>>

Null == 0
Nodes == 1 .. MaxDescriptors
Descriptors == 1 .. Len(points)
End == MaxDescriptors + 1        \* std::list::end()
Dangling == MaxDescriptors + 2   \* an iterator whose node was erased
Idle == [handler |-> Null, node |-> Null]

Init ==
    /\ subscribers = [h \in Handlers |-> <<>>]
    /\ points = <<>>
    /\ iterator = Idle
    /\ called = <<>>
    /\ overwritten = FALSE

NodesOf(list) == {list[k].node : k \in 1 .. Len(list)}
UsedNodes == UNION {NodesOf(subscribers[h]) : h \in Handlers}
FreshNode == Min(Nodes \ UsedNodes)

Publishing == iterator.handler # Null
\* A callback is running, or no publish is.
ProgramRuns == ~Publishing \/ iterator.node \in UsedNodes

\* Mutant: the new subscriber goes to the front of the list.
SubscribeInFront(h) ==
    /\ ProgramRuns /\ Len(points) < MaxDescriptors
    /\ subscribers' = [subscribers EXCEPT ![h] =
            <<[node |-> FreshNode, desc |-> Len(points) + 1]>> \o @]
    /\ points' = Append(points, FreshNode)
    /\ UNCHANGED <<iterator, called, overwritten>>

Subscribe(h) ==
    /\ ProgramRuns /\ Len(points) < MaxDescriptors
    /\ subscribers' = [subscribers EXCEPT ![h] =
            Append(@, [node |-> FreshNode, desc |-> Len(points) + 1])]
    /\ points' = Append(points, FreshNode)
    /\ UNCHANGED <<iterator, called, overwritten>>

Place(list, node) == CHOOSE k \in 1 .. Len(list) : list[k].node = node

\* remove_if: by the address of the subscriber, whatever descriptor it has.
Remaining(h, d) == RemoveAt(subscribers[h], Place(subscribers[h], points[d]))

\* Mutant: the shared part of the descriptor is not cleared.
ClearedOnlyHandle(d) == points

\* descriptor.shared_ptr->subscriber = nullptr, seen by every copy.
Cleared(d) == [points EXCEPT ![d] = Null]

Unsubscribe(h, d) ==
    /\ ProgramRuns
    /\ points[d] \in NodesOf(subscribers[h])
    /\ subscribers' = [subscribers EXCEPT ![h] = Remaining(h, d)]
    /\ points' = Cleared(d)
    /\ iterator' = IF iterator.node = points[d] THEN [iterator EXCEPT !.node = Dangling] ELSE iterator
    /\ UNCHANGED <<called, overwritten>>

\* EventSubscriberNotFoundException: another handler's, or unsubscribed already,
\* through a copy of d.  The very handle unsubscribe was called with is empty
\* afterwards (event.h:350); with that one it may not be called again.
UnsubscribeMissing(h, d) ==
    /\ ProgramRuns
    /\ points[d] \notin NodesOf(subscribers[h])
    /\ UNCHANGED vars

\* Handler& operator= (Handler&&) = default: the list moves with its nodes;
\* the descriptors of the list it replaces are left as they are.
MoveAssign(to, from) ==
    /\ ~Publishing /\ to # from
    /\ subscribers' = [subscribers EXCEPT ![to] = subscribers[from], ![from] = <<>>]
    /\ overwritten' = (overwritten \/ subscribers[to] # <<>>)
    /\ UNCHANGED <<points, iterator, called>>

\* ~Handler, and an empty handler in its place.
Destroy(h) ==
    /\ ~Publishing
    /\ points' = [d \in Descriptors |->
            IF \E k \in 1 .. Len(subscribers[h]) : subscribers[h][k].desc = d
            THEN Null ELSE points[d]]
    /\ subscribers' = [subscribers EXCEPT ![h] = <<>>]
    /\ UNCHANGED <<iterator, called, overwritten>>

\* The iterator comes to element k of the list, and its callback is called.
Visit(h, k) ==
    IF k <= Len(subscribers[h])
    THEN /\ iterator' = [handler |-> h, node |-> subscribers[h][k].node]
         /\ called' = Append(called, subscribers[h][k].desc)
    ELSE /\ iterator' = [handler |-> h, node |-> End]
         /\ UNCHANGED called

Publish(h) ==
    /\ ~Publishing
    /\ Visit(h, 1)
    /\ UNCHANGED <<subscribers, points, overwritten>>

CallNext ==
    /\ Publishing /\ iterator.node \in UsedNodes
    /\ Visit(iterator.handler, Place(subscribers[iterator.handler], iterator.node) + 1)
    /\ UNCHANGED <<subscribers, points, overwritten>>

PublishReturns ==
    /\ Publishing /\ iterator.node = End
    /\ iterator' = Idle /\ called' = <<>>
    /\ UNCHANGED <<subscribers, points, overwritten>>

Next ==
    \/ \E h \in Handlers :
        \/ Subscribe(h) \/ Destroy(h) \/ Publish(h)
        \/ \E from \in Handlers : MoveAssign(h, from)
        \/ \E d \in Descriptors : Unsubscribe(h, d) \/ UnsubscribeMissing(h, d)
    \/ CallNext \/ PublishReturns

Spec == Init /\ [][Next]_vars

----
TypeOK ==
    /\ \A h \in Handlers : subscribers[h] \in Seq([node : Nodes, desc : Descriptors])
    /\ points \in Seq(Nodes \cup {Null}) /\ Len(points) <= MaxDescriptors
    /\ iterator \in [handler : Handlers \cup {Null}, node : Nodes \cup {Null, End, Dangling}]
    /\ called \in Seq(Descriptors)
    /\ overwritten \in BOOLEAN

\* A publish (event.h:291) calls every subscriber once, those its callbacks
\* add included, and none again, whatever they unsubscribe but themselves.
PublishReachesAll ==
    /\ iterator.node = End =>
        \A k \in 1 .. Len(subscribers[iterator.handler]) :
            subscribers[iterator.handler][k].desc \in {called[i] : i \in 1 .. Len(called)}
    /\ \A i, j \in 1 .. Len(called) : called[i] = called[j] => i = j

\* A descriptor is valid exactly while its subscriber is in the list of some
\* handler, at the node it points to: through copies, exceptions, moved and
\* destroyed handlers (event.h:274), until a handler that has subscribers is
\* assigned to.
SubscriptionsHold ==
    ~overwritten =>
        \A d \in Descriptors :
            LET homes == {s \in UNION {{subscribers[h][k] : k \in 1 .. Len(subscribers[h])} : h \in Handlers} : s.desc = d}
            IN  IF points[d] = Null THEN homes = {} ELSE homes = {[node |-> points[d], desc |-> d]}

====
