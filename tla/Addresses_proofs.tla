---- MODULE Addresses_proofs ----
(***************************************************************************)
(* Theorems about memory that is handed out again: the event timer, whose  *)
(* coroutines and descriptors keep pointers to events that were freed; and *)
(* the memory pool, whose free lists lie in the chunks they are lists of.  *)
(***************************************************************************)
EXTENDS Library, FiniteSetTheorems, WellFoundedInduction, TLAPS

States == {"created", "waiting", "running", "done", "unregistered"}
Kinds == {"callback", "coroutine"}
TimedEvent == [time : Timer!Times, enabled : BOOLEAN, of : Nat \cup Coroutines, kind : Kinds]

(***************************************************************************)
(* The invariant, over events es, heap hp, descriptors pts, promises pr,   *)
(* coroutines co and the event fi that fires.                              *)
(***************************************************************************)
TimerTyped(es, hp, pts, pr, co, fi) ==
    /\ DOMAIN es \subseteq Timer!Addresses /\ \A a \in DOMAIN es : es[a] \in TimedEvent
    /\ pts \in Seq(Timer!Addresses \cup {0})
    /\ pr \in [Coroutines -> Timer!Addresses \cup {0}] /\ co \in [Coroutines -> States]
    /\ fi \in DOMAIN es \cup {0}

\* Every event is in the heap, or fires.
Placed(es, hp, fi) == /\ hp \subseteq DOMAIN es /\ fi \notin hp
                      /\ \A a \in DOMAIN es : a \in hp \/ a = fi

\* An event is of a coroutine or of a descriptor, and the only one of its descriptor.
Owned(es, pts) ==
    /\ \A a \in DOMAIN es : es[a].kind = "coroutine" => es[a].of \in Coroutines
    /\ \A a \in DOMAIN es : es[a].kind = "callback" => es[a].of \in 1 .. Len(pts)
    /\ \A a, b \in DOMAIN es : es[a].kind = "callback" /\ es[b].kind = "callback" /\ es[a].of = es[b].of => a = b

PromisesHold(es, hp, pr, co, fi) ==
    /\ \A c \in Coroutines : co[c] = "waiting" =>
            pr[c] \in hp /\ es[pr[c]].kind = "coroutine" /\ es[pr[c]].of = c /\ es[pr[c]].enabled
    /\ \A c \in Coroutines : co[c] # "waiting" => pr[c] = 0
    /\ \A a \in DOMAIN es : es[a].kind = "coroutine" /\ es[a].enabled /\ a # fi =>
            co[es[a].of] = "waiting" /\ pr[es[a].of] = a
    /\ fi # 0 /\ es[fi].kind = "coroutine" => co[es[fi].of] = "running"

DescriptorsHold(es, pts) ==
    /\ \A d \in 1 .. Len(pts) : pts[d] # 0 =>
            pts[d] \in DOMAIN es /\ es[pts[d]].kind = "callback" /\ es[pts[d]].of = d /\ es[pts[d]].enabled
    /\ \A a \in DOMAIN es : es[a].kind = "callback" /\ es[a].enabled => pts[es[a].of] = a

Wakes(es, hp, pts, pr, co, fi) ==
    /\ TimerTyped(es, hp, pts, pr, co, fi) /\ Placed(es, hp, fi) /\ Owned(es, pts)
    /\ PromisesHold(es, hp, pr, co, fi) /\ DescriptorsHold(es, pts)

TimerInv == Wakes(timers, heap, timer_points, timer_promise, coroutine, firing)

----------------------------------------------------------------------------
(***************************************************************************)
(* A set of numbers has a least one: what the addresses handed out are.    *)
(***************************************************************************)
LEMMA Least ==
    ASSUME NEW S, S \subseteq Nat, S # {}
    PROVE  \E m \in S : \A z \in S : m <= z
<1> DEFINE R == {ss \in Nat \X Nat : ss[1] < ss[2]}
<1>1. IsWellFoundedOn(R, Nat)
  BY Zenon, NatLessThanWellFounded DEF OpToRel
<1>2. \E m \in S : \A z \in S : ~(<<z, m>> \in R)
  <2> HIDE DEF R
  <2> QED
    BY <1>1, WFMin
<1>3. \A z, m \in S : ~(<<z, m>> \in R) => m <= z
  OBVIOUS
<1> QED
  BY <1>2, <1>3

----------------------------------------------------------------------------
(***************************************************************************)
(* What the operations of the timer keep.                                  *)
(***************************************************************************)
LEMMA NullIsNoEvent ==
    ASSUME NEW es, DOMAIN es \subseteq Timer!Addresses
    PROVE  0 \notin DOMAIN es
  BY DEF Timer!Addresses

LEMMA DisabledEvents ==
    ASSUME NEW es, NEW a \in DOMAIN es, \A x0 \in DOMAIN es : es[x0] \in TimedEvent,
           NEW ds, ds = [es EXCEPT ![a].enabled = FALSE]
    PROVE  /\ DOMAIN ds = DOMAIN es
           /\ \A b \in DOMAIN es :
                /\ ds[b] \in TimedEvent
                /\ ds[b].kind = es[b].kind /\ ds[b].of = es[b].of
                /\ ds[b].enabled <=> (es[b].enabled /\ b # a)
<1>1. DOMAIN ds = DOMAIN es
  OBVIOUS
<1>2. ASSUME NEW b \in DOMAIN es
      PROVE  /\ ds[b] \in TimedEvent
             /\ ds[b].kind = es[b].kind /\ ds[b].of = es[b].of
             /\ ds[b].enabled <=> (es[b].enabled /\ b # a)
  <2>1. CASE b = a
    BY <2>1 DEF TimedEvent
  <2>2. CASE b # a
    BY <2>2
  <2> QED
    BY <2>1, <2>2
<1> QED
  BY <1>1, <1>2

\* The event a coroutine waits for is disabled, and the coroutine is elsewhere.
LEMMA WaitEnds ==
    ASSUME NEW es, NEW hp, NEW pts, NEW pr, NEW co, NEW fi, Wakes(es, hp, pts, pr, co, fi),
           NEW c \in Coroutines, pr[c] # 0, NEW st \in States \ {"waiting"},
           NEW es2, es2 = [es EXCEPT ![pr[c]].enabled = FALSE],
           NEW pr2, pr2 = [pr EXCEPT ![c] = 0], NEW co2, co2 = [co EXCEPT ![c] = st]
    PROVE  Wakes(es2, hp, pts, pr2, co2, fi)
<1> USE DEF Wakes
<1> DEFINE a == pr[c]
<1>1. co[c] = "waiting" /\ a \in hp /\ a \in DOMAIN es /\ es[a].kind = "coroutine" /\ es[a].of = c /\ a # fi
  BY DEF PromisesHold, Placed
<1>2. /\ DOMAIN es2 = DOMAIN es
      /\ \A b \in DOMAIN es :
            /\ es2[b] \in TimedEvent
            /\ es2[b].kind = es[b].kind /\ es2[b].of = es[b].of
            /\ es2[b].enabled <=> (es[b].enabled /\ b # a)
  <2>1. \A x0 \in DOMAIN es : es[x0] \in TimedEvent
    BY DEF TimerTyped
  <2>2. es2 = [es EXCEPT ![a].enabled = FALSE] /\ a \in DOMAIN es
    BY <1>1
  <2> HIDE DEF a, Wakes
  <2> QED
    BY <2>1, <2>2, DisabledEvents
<1>3. /\ pr2 \in [Coroutines -> Timer!Addresses \cup {0}] /\ co2 \in [Coroutines -> States]
      /\ \A k \in Coroutines : pr2[k] = (IF k = c THEN 0 ELSE pr[k]) /\ co2[k] = (IF k = c THEN st ELSE co[k])
  BY DEF TimerTyped
<1> HIDE DEF a
<1>4. TimerTyped(es2, hp, pts, pr2, co2, fi)
  BY <1>2, <1>3 DEF TimerTyped
<1>5. Placed(es2, hp, fi)
  BY <1>2 DEF Placed
<1>6. Owned(es2, pts)
  BY <1>2 DEF Owned
<1>7. PromisesHold(es2, hp, pr2, co2, fi)
  <2>1. ASSUME NEW k \in Coroutines, co2[k] = "waiting"
        PROVE  pr2[k] \in hp /\ es2[pr2[k]].kind = "coroutine" /\ es2[pr2[k]].of = k /\ es2[pr2[k]].enabled
    <3>1. k # c /\ co[k] = "waiting" /\ pr2[k] = pr[k]
      BY <1>3, <2>1
    <3>2. pr[k] \in hp /\ es[pr[k]].kind = "coroutine" /\ es[pr[k]].of = k /\ es[pr[k]].enabled
      BY <3>1 DEF PromisesHold
    <3>3. pr[k] \in DOMAIN es /\ pr[k] # a
      BY <1>1, <3>1, <3>2 DEF Placed
    <3> QED
      BY <1>2, <3>1, <3>2, <3>3
  <2>2. \A k \in Coroutines : co2[k] # "waiting" => pr2[k] = 0
    BY <1>3 DEF PromisesHold
  <2>3. ASSUME NEW b \in DOMAIN es2, es2[b].kind = "coroutine", es2[b].enabled, b # fi
        PROVE  co2[es2[b].of] = "waiting" /\ pr2[es2[b].of] = b
    <3>1. es[b].kind = "coroutine" /\ es[b].enabled /\ b # a /\ es2[b].of = es[b].of
      BY <1>2, <2>3
    <3>2. co[es[b].of] = "waiting" /\ pr[es[b].of] = b /\ es[b].of \in Coroutines
      BY <1>2, <2>3, <3>1 DEF PromisesHold, Owned
    <3> QED
      BY <1>3, <3>1, <3>2 DEF a
  <2>4. ASSUME fi # 0, es2[fi].kind = "coroutine" PROVE co2[es2[fi].of] = "running"
    <3>1. fi \in DOMAIN es /\ es[fi].kind = "coroutine" /\ es2[fi].of = es[fi].of /\ es[fi].of \in Coroutines
      BY <1>2, <2>4 DEF TimerTyped, Owned
    <3>2. co[es[fi].of] = "running"
      BY <2>4, <3>1 DEF PromisesHold
    <3> QED
      BY <1>1, <1>3, <3>1, <3>2
  <2> QED
    BY <2>1, <2>2, <2>3, <2>4 DEF PromisesHold
<1>8. DescriptorsHold(es2, pts)
  <2>1. ASSUME NEW d \in 1 .. Len(pts), pts[d] # 0
        PROVE  pts[d] \in DOMAIN es2 /\ es2[pts[d]].kind = "callback" /\ es2[pts[d]].of = d /\ es2[pts[d]].enabled
    <3>1. pts[d] \in DOMAIN es /\ es[pts[d]].kind = "callback" /\ es[pts[d]].of = d /\ es[pts[d]].enabled
      BY <2>1 DEF DescriptorsHold
    <3> QED
      BY <1>1, <1>2, <3>1
  <2>2. ASSUME NEW b \in DOMAIN es2, es2[b].kind = "callback", es2[b].enabled
        PROVE  pts[es2[b].of] = b
    BY <1>2, <2>2 DEF DescriptorsHold
  <2> QED
    BY <2>1, <2>2 DEF DescriptorsHold
<1> QED
  BY <1>4, <1>5, <1>6, <1>7, <1>8

\* A coroutine that has not begun runs to its end.
LEMMA NeverWaits ==
    ASSUME NEW es, NEW hp, NEW pts, NEW pr, NEW co, NEW fi, Wakes(es, hp, pts, pr, co, fi),
           NEW c \in Coroutines, co[c] = "created",
           NEW pr2, pr2 = [pr EXCEPT ![c] = 0], NEW co2, co2 = [co EXCEPT ![c] = "done"]
    PROVE  Wakes(es, hp, pts, pr2, co2, fi)
<1> USE DEF Wakes
<1>1. /\ pr2 \in [Coroutines -> Timer!Addresses \cup {0}] /\ co2 \in [Coroutines -> States]
      /\ \A k \in Coroutines : pr2[k] = (IF k = c THEN 0 ELSE pr[k]) /\ co2[k] = (IF k = c THEN "done" ELSE co[k])
  BY DEF TimerTyped, States
<1>2. TimerTyped(es, hp, pts, pr2, co2, fi)
  BY <1>1 DEF TimerTyped
<1>3. PromisesHold(es, hp, pr2, co2, fi)
  <2>1. \A a \in DOMAIN es : es[a].kind = "coroutine" => es[a].of \in Coroutines
    BY DEF Owned
  <2>2. fi # 0 => fi \in DOMAIN es
    BY DEF TimerTyped
  <2> QED
    BY <1>1, <2>1, <2>2 DEF PromisesHold
<1> QED
  BY <1>2, <1>3

\* A coroutine that is done waits again: an event more.
LEMMA WaitBegins ==
    ASSUME NEW es, NEW hp, NEW pts, NEW pr, NEW co, NEW fi, Wakes(es, hp, pts, pr, co, fi),
           NEW c \in Coroutines, co[c] = "done", NEW a \in Timer!Addresses \ DOMAIN es,
           NEW e \in TimedEvent, e.kind = "coroutine", e.of = c, e.enabled,
           NEW es2, es2 = Timer!With(es, a, e), NEW hp2, hp2 = hp \cup {a},
           NEW pr2, pr2 = [pr EXCEPT ![c] = a], NEW co2, co2 = [co EXCEPT ![c] = "waiting"]
    PROVE  Wakes(es2, hp2, pts, pr2, co2, fi)
<1> USE DEF Wakes
<1>0. fi # a /\ a # 0 /\ a \notin hp
  BY NullIsNoEvent DEF TimerTyped, Placed, Timer!Addresses
<1>1. /\ DOMAIN es2 = DOMAIN es \cup {a} /\ es2[a] = e
      /\ \A b \in DOMAIN es : es2[b] = es[b] /\ b # a
  BY DEF Timer!With
<1>2. /\ pr2 \in [Coroutines -> Timer!Addresses \cup {0}] /\ co2 \in [Coroutines -> States]
      /\ \A k \in Coroutines : pr2[k] = (IF k = c THEN a ELSE pr[k])
                               /\ co2[k] = (IF k = c THEN "waiting" ELSE co[k])
  BY DEF TimerTyped, States
<1>3. TimerTyped(es2, hp2, pts, pr2, co2, fi)
  BY <1>1, <1>2 DEF TimerTyped
<1>4. Placed(es2, hp2, fi)
  BY <1>0, <1>1 DEF Placed
<1>5. Owned(es2, pts)
  BY <1>1 DEF Owned
<1>6. PromisesHold(es2, hp2, pr2, co2, fi)
  <2>1. ASSUME NEW k \in Coroutines, co2[k] = "waiting"
        PROVE  pr2[k] \in hp2 /\ es2[pr2[k]].kind = "coroutine" /\ es2[pr2[k]].of = k /\ es2[pr2[k]].enabled
    <3>1. CASE k = c
      BY <1>1, <1>2, <3>1
    <3>2. CASE k # c
      <4>1. pr[k] \in hp /\ es[pr[k]].kind = "coroutine" /\ es[pr[k]].of = k /\ es[pr[k]].enabled
        BY <1>2, <2>1, <3>2 DEF PromisesHold
      <4>2. pr[k] \in DOMAIN es
        BY <4>1 DEF Placed
      <4> QED
        BY <1>1, <1>2, <3>2, <4>1, <4>2
    <3> QED
      BY <3>1, <3>2
  <2>2. \A k \in Coroutines : co2[k] # "waiting" => pr2[k] = 0
    BY <1>2 DEF PromisesHold
  <2>3. ASSUME NEW b \in DOMAIN es2, es2[b].kind = "coroutine", es2[b].enabled, b # fi
        PROVE  co2[es2[b].of] = "waiting" /\ pr2[es2[b].of] = b
    <3>1. CASE b = a
      BY <1>1, <1>2, <3>1
    <3>2. CASE b # a
      <4>1. b \in DOMAIN es /\ es2[b] = es[b]
        BY <1>1, <3>2
      <4>2. co[es[b].of] = "waiting" /\ pr[es[b].of] = b /\ es[b].of \in Coroutines
        BY <2>3, <4>1 DEF PromisesHold, Owned
      <4>3. es[b].of # c
        BY <4>2
      <4> QED
        BY <1>2, <4>1, <4>2, <4>3
    <3> QED
      BY <3>1, <3>2
  <2>4. ASSUME fi # 0, es2[fi].kind = "coroutine" PROVE co2[es2[fi].of] = "running"
    <3>1. fi \in DOMAIN es /\ es2[fi] = es[fi] /\ es[fi].of \in Coroutines
      BY <1>1, <2>4 DEF TimerTyped, Owned
    <3>2. co[es[fi].of] = "running"
      BY <2>4, <3>1 DEF PromisesHold
    <3> QED
      BY <1>2, <3>1, <3>2
  <2> QED
    BY <2>1, <2>2, <2>3, <2>4 DEF PromisesHold
<1>7. DescriptorsHold(es2, pts)
  <2>1. \A d \in 1 .. Len(pts) : pts[d] # 0 => pts[d] \in DOMAIN es
    BY DEF DescriptorsHold
  <2> QED
    BY <1>1, <2>1 DEF DescriptorsHold
<1> QED
  BY <1>3, <1>4, <1>5, <1>6, <1>7

\* The event that resumed a coroutine is destroyed behind it, and the coroutine has ended.
LEMMA ResumeEnds ==
    ASSUME NEW es, NEW hp, NEW pts, NEW pr, NEW co, NEW fi, Wakes(es, hp, pts, pr, co, fi),
           fi # 0, es[fi].kind = "coroutine", NEW c, c = es[fi].of,
           NEW es2, es2 = Timer!Less(es, fi),
           NEW pr2, pr2 = [pr EXCEPT ![c] = 0], NEW co2, co2 = [co EXCEPT ![c] = "done"]
    PROVE  Wakes(es2, hp, pts, pr2, co2, 0)
<1> USE DEF Wakes
<1>0. fi \in DOMAIN es /\ c \in Coroutines /\ co[c] = "running" /\ fi \notin hp /\ 0 \notin DOMAIN es
  BY NullIsNoEvent DEF TimerTyped, Owned, PromisesHold, Placed
<1>1. DOMAIN es2 = DOMAIN es \ {fi} /\ \A b \in DOMAIN es2 : es2[b] = es[b] /\ b # fi /\ b \in DOMAIN es
  BY DEF Timer!Less
<1>2. /\ pr2 \in [Coroutines -> Timer!Addresses \cup {0}] /\ co2 \in [Coroutines -> States]
      /\ \A k \in Coroutines : pr2[k] = (IF k = c THEN 0 ELSE pr[k]) /\ co2[k] = (IF k = c THEN "done" ELSE co[k])
  BY DEF TimerTyped, States
<1>3. TimerTyped(es2, hp, pts, pr2, co2, 0)
  BY <1>1, <1>2 DEF TimerTyped
<1>4. Placed(es2, hp, 0)
  BY <1>0, <1>1 DEF Placed
<1>5. Owned(es2, pts)
  BY <1>1 DEF Owned
<1>6. PromisesHold(es2, hp, pr2, co2, 0)
  <2>1. ASSUME NEW k \in Coroutines, co2[k] = "waiting"
        PROVE  pr2[k] \in hp /\ es2[pr2[k]].kind = "coroutine" /\ es2[pr2[k]].of = k /\ es2[pr2[k]].enabled
    <3>1. k # c /\ co[k] = "waiting" /\ pr2[k] = pr[k]
      BY <1>2, <2>1
    <3>2. pr[k] \in hp /\ es[pr[k]].kind = "coroutine" /\ es[pr[k]].of = k /\ es[pr[k]].enabled
      BY <3>1 DEF PromisesHold
    <3>3. pr[k] \in DOMAIN es2
      BY <1>0, <1>1, <3>2 DEF Placed
    <3> QED
      BY <1>1, <3>1, <3>2, <3>3
  <2>2. \A k \in Coroutines : co2[k] # "waiting" => pr2[k] = 0
    BY <1>2 DEF PromisesHold
  <2>3. ASSUME NEW b \in DOMAIN es2, es2[b].kind = "coroutine", es2[b].enabled
        PROVE  co2[es2[b].of] = "waiting" /\ pr2[es2[b].of] = b
    <3>1. b \in DOMAIN es /\ es2[b] = es[b] /\ b # fi
      BY <1>1
    <3>2. co[es[b].of] = "waiting" /\ pr[es[b].of] = b /\ es[b].of \in Coroutines
      BY <2>3, <3>1 DEF PromisesHold, Owned
    <3>3. es[b].of # c
      BY <1>0, <3>2
    <3> QED
      BY <1>2, <3>1, <3>2, <3>3
  <2> QED
    BY <2>1, <2>2, <2>3 DEF PromisesHold
<1>7. DescriptorsHold(es2, pts)
  <2>1. \A d \in 1 .. Len(pts) : pts[d] # 0 => pts[d] \in DOMAIN es2
    BY <1>0, <1>1 DEF DescriptorsHold
  <2> QED
    BY <1>1, <2>1 DEF DescriptorsHold
<1> QED
  BY <1>3, <1>4, <1>5, <1>6, <1>7

\* schedule_event: an event more, and its descriptor.
LEMMA ScheduleWakes ==
    ASSUME NEW es, NEW hp, NEW pts, NEW pr, NEW co, NEW fi, Wakes(es, hp, pts, pr, co, fi),
           NEW a \in Timer!Addresses \ DOMAIN es,
           NEW e \in TimedEvent, e.kind = "callback", e.of = Len(pts) + 1, e.enabled,
           NEW es2, es2 = Timer!With(es, a, e), NEW hp2, hp2 = hp \cup {a},
           NEW pts2, pts2 = Append(pts, a)
    PROVE  Wakes(es2, hp2, pts2, pr, co, fi)
<1> USE DEF Wakes
<1>0. fi # a /\ a # 0 /\ a \notin hp
  BY NullIsNoEvent DEF TimerTyped, Placed, Timer!Addresses
<1>1. /\ DOMAIN es2 = DOMAIN es \cup {a} /\ es2[a] = e
      /\ \A b \in DOMAIN es : es2[b] = es[b] /\ b # a
  BY DEF Timer!With
<1>2. Len(pts) \in Nat /\ pts \in Seq(Timer!Addresses \cup {0})
  BY DEF TimerTyped
<1>3. /\ pts2 \in Seq(Timer!Addresses \cup {0}) /\ Len(pts2) = Len(pts) + 1
      /\ pts2[Len(pts) + 1] = a /\ \A d \in 1 .. Len(pts) : pts2[d] = pts[d]
  BY <1>2
<1>4. TimerTyped(es2, hp2, pts2, pr, co, fi)
  BY <1>1, <1>3 DEF TimerTyped
<1>5. Placed(es2, hp2, fi)
  BY <1>0, <1>1 DEF Placed
<1>6. Owned(es2, pts2)
  <2>1. \A b \in DOMAIN es : es[b].kind = "callback" => es[b].of \in 1 .. Len(pts)
    BY DEF Owned
  <2>2. \A b \in DOMAIN es2 : es2[b].kind = "coroutine" => es2[b].of \in Coroutines
    BY <1>1 DEF Owned
  <2>3. \A b \in DOMAIN es2 : es2[b].kind = "callback" => es2[b].of \in 1 .. Len(pts2)
    BY <1>1, <1>2, <1>3, <2>1
  <2>4. \A b \in DOMAIN es : es[b].kind = "callback" => es[b].of # Len(pts) + 1
    BY <1>2, <2>1
  <2>5. ASSUME NEW b1 \in DOMAIN es2, NEW b2 \in DOMAIN es2, es2[b1].kind = "callback",
               es2[b2].kind = "callback", es2[b1].of = es2[b2].of
        PROVE  b1 = b2
    <3>1. CASE b1 \in DOMAIN es /\ b2 \in DOMAIN es
      BY <1>1, <2>5, <3>1 DEF Owned
    <3>2. CASE b1 = a \/ b2 = a
      BY <1>1, <2>4, <2>5, <3>2
    <3> QED
      BY <1>1, <3>1, <3>2
  <2> QED
    BY <2>2, <2>3, <2>5 DEF Owned
<1>7. PromisesHold(es2, hp2, pr, co, fi)
  <2>1. ASSUME NEW k \in Coroutines, co[k] = "waiting"
        PROVE  pr[k] \in hp2 /\ es2[pr[k]].kind = "coroutine" /\ es2[pr[k]].of = k /\ es2[pr[k]].enabled
    <3>1. pr[k] \in hp /\ es[pr[k]].kind = "coroutine" /\ es[pr[k]].of = k /\ es[pr[k]].enabled
      BY <2>1 DEF PromisesHold
    <3>2. pr[k] \in DOMAIN es
      BY <3>1 DEF Placed
    <3> QED
      BY <1>1, <3>1, <3>2
  <2>2. \A b \in DOMAIN es2 : es2[b].kind = "coroutine" => b \in DOMAIN es /\ es2[b] = es[b]
    BY <1>1
  <2>3. fi # 0 => fi \in DOMAIN es2
    BY <1>1 DEF TimerTyped
  <2> QED
    BY <2>1, <2>2, <2>3 DEF PromisesHold
<1>8. DescriptorsHold(es2, pts2)
  <2>1. ASSUME NEW d \in 1 .. Len(pts2), pts2[d] # 0
        PROVE  pts2[d] \in DOMAIN es2 /\ es2[pts2[d]].kind = "callback" /\ es2[pts2[d]].of = d /\ es2[pts2[d]].enabled
    <3>1. CASE d \in 1 .. Len(pts)
      BY <1>1, <1>3, <2>1, <3>1 DEF DescriptorsHold
    <3>2. CASE d = Len(pts) + 1
      BY <1>1, <1>3, <3>2
    <3> QED
      BY <1>2, <1>3, <3>1, <3>2
  <2>2. ASSUME NEW b \in DOMAIN es2, es2[b].kind = "callback", es2[b].enabled
        PROVE  pts2[es2[b].of] = b
    <3>1. CASE b = a
      BY <1>1, <1>3, <3>1
    <3>2. CASE b # a
      <4>1. b \in DOMAIN es /\ es2[b] = es[b]
        BY <1>1, <3>2
      <4>2. es[b].of \in 1 .. Len(pts) /\ pts[es[b].of] = b
        BY <2>2, <4>1 DEF Owned, DescriptorsHold
      <4> QED
        BY <1>3, <4>1, <4>2
    <3> QED
      BY <3>1, <3>2
  <2> QED
    BY <2>1, <2>2 DEF DescriptorsHold
<1> QED
  BY <1>4, <1>5, <1>6, <1>7, <1>8

\* unschedule_event
LEMMA UnscheduleWakes ==
    ASSUME NEW es, NEW hp, NEW pts, NEW pr, NEW co, NEW fi, Wakes(es, hp, pts, pr, co, fi),
           NEW d \in 1 .. Len(pts), pts[d] # 0,
           NEW es2, es2 = [es EXCEPT ![pts[d]].enabled = FALSE], NEW pts2, pts2 = [pts EXCEPT ![d] = 0]
    PROVE  Wakes(es2, hp, pts2, pr, co, fi)
<1> USE DEF Wakes
<1> DEFINE a == pts[d]
<1>0. a \in DOMAIN es /\ es[a].kind = "callback" /\ es[a].of = d
  BY DEF DescriptorsHold
<1>1. /\ DOMAIN es2 = DOMAIN es
      /\ \A b \in DOMAIN es :
            /\ es2[b] \in TimedEvent
            /\ es2[b].kind = es[b].kind /\ es2[b].of = es[b].of
            /\ es2[b].enabled <=> (es[b].enabled /\ b # a)
  <2>1. \A x0 \in DOMAIN es : es[x0] \in TimedEvent
    BY DEF TimerTyped
  <2>2. es2 = [es EXCEPT ![a].enabled = FALSE] /\ a \in DOMAIN es
    BY <1>0
  <2> HIDE DEF a, Wakes
  <2> QED
    BY <2>1, <2>2, DisabledEvents
<1>2. /\ pts2 \in Seq(Timer!Addresses \cup {0}) /\ Len(pts2) = Len(pts) /\ Len(pts) \in Nat
      /\ \A k \in 1 .. Len(pts) : pts2[k] = (IF k = d THEN 0 ELSE pts[k])
  BY DEF TimerTyped
<1> HIDE DEF a
<1>3. TimerTyped(es2, hp, pts2, pr, co, fi)
  BY <1>1, <1>2 DEF TimerTyped
<1>4. Placed(es2, hp, fi)
  BY <1>1 DEF Placed
<1>5. Owned(es2, pts2)
  BY <1>1, <1>2 DEF Owned
<1>6. PromisesHold(es2, hp, pr, co, fi)
  <2>1. ASSUME NEW k \in Coroutines, co[k] = "waiting"
        PROVE  pr[k] \in hp /\ es2[pr[k]].kind = "coroutine" /\ es2[pr[k]].of = k /\ es2[pr[k]].enabled
    <3>1. pr[k] \in hp /\ es[pr[k]].kind = "coroutine" /\ es[pr[k]].of = k /\ es[pr[k]].enabled
      BY <2>1 DEF PromisesHold
    <3>2. pr[k] \in DOMAIN es
      BY <3>1 DEF Placed
    <3> QED
      BY <1>0, <1>1, <3>1, <3>2
  <2>2. fi # 0 => fi \in DOMAIN es
    BY DEF TimerTyped
  <2> QED
    BY <1>1, <2>1, <2>2 DEF PromisesHold
<1>7. DescriptorsHold(es2, pts2)
  <2>1. ASSUME NEW k \in 1 .. Len(pts2), pts2[k] # 0
        PROVE  pts2[k] \in DOMAIN es2 /\ es2[pts2[k]].kind = "callback" /\ es2[pts2[k]].of = k /\ es2[pts2[k]].enabled
    <3>1. k # d /\ pts2[k] = pts[k] /\ k \in 1 .. Len(pts)
      BY <1>2, <2>1
    <3>2. pts[k] \in DOMAIN es /\ es[pts[k]].kind = "callback" /\ es[pts[k]].of = k /\ es[pts[k]].enabled
      BY <2>1, <3>1 DEF DescriptorsHold
    <3> QED
      BY <1>0, <1>1, <3>1, <3>2
  <2>2. ASSUME NEW b \in DOMAIN es2, es2[b].kind = "callback", es2[b].enabled
        PROVE  pts2[es2[b].of] = b
    <3>1. es[b].kind = "callback" /\ es[b].enabled /\ b # a /\ es2[b].of = es[b].of
      BY <1>1, <2>2
    <3>2. es[b].of \in 1 .. Len(pts) /\ pts[es[b].of] = b
      BY <1>1, <2>2, <3>1 DEF Owned, DescriptorsHold
    <3> QED
      BY <1>2, <3>1, <3>2 DEF a
  <2> QED
    BY <2>1, <2>2 DEF DescriptorsHold
<1> QED
  BY <1>3, <1>4, <1>5, <1>6, <1>7

\* A callback's event leaves the heap and is called.
LEMMA CallWakes ==
    ASSUME NEW es, NEW hp, NEW pts, NEW pr, NEW co, Wakes(es, hp, pts, pr, co, 0),
           NEW a \in hp, es[a].kind = "callback", NEW hp2, hp2 = hp \ {a}
    PROVE  Wakes(es, hp2, pts, pr, co, a)
<1> USE DEF Wakes
<1>1. a \in DOMAIN es /\ 0 \notin DOMAIN es
  BY NullIsNoEvent DEF TimerTyped, Placed
<1>2. TimerTyped(es, hp2, pts, pr, co, a) /\ Placed(es, hp2, a)
  BY <1>1 DEF TimerTyped, Placed
<1>3. PromisesHold(es, hp2, pr, co, a)
  BY <1>1 DEF PromisesHold
<1> QED
  BY <1>2, <1>3

\* A coroutine's event leaves the heap and resumes it.
LEMMA ResumeWakes ==
    ASSUME NEW es, NEW hp, NEW pts, NEW pr, NEW co, Wakes(es, hp, pts, pr, co, 0),
           NEW a \in hp, es[a].kind = "coroutine", es[a].enabled, NEW c, c = es[a].of, NEW hp2, hp2 = hp \ {a},
           NEW pr2, pr2 = [pr EXCEPT ![c] = 0], NEW co2, co2 = [co EXCEPT ![c] = "running"]
    PROVE  Wakes(es, hp2, pts, pr2, co2, a)
<1> USE DEF Wakes
<1>1. a \in DOMAIN es /\ 0 \notin DOMAIN es /\ a # 0 /\ c \in Coroutines
  BY NullIsNoEvent DEF TimerTyped, Placed, Owned
<1>2. co[c] = "waiting" /\ pr[c] = a
  BY <1>1 DEF PromisesHold
<1>3. /\ pr2 \in [Coroutines -> Timer!Addresses \cup {0}] /\ co2 \in [Coroutines -> States]
      /\ \A k \in Coroutines : pr2[k] = (IF k = c THEN 0 ELSE pr[k]) /\ co2[k] = (IF k = c THEN "running" ELSE co[k])
  BY DEF TimerTyped, States
<1>4. TimerTyped(es, hp2, pts, pr2, co2, a) /\ Placed(es, hp2, a)
  BY <1>1, <1>3 DEF TimerTyped, Placed
<1>5. PromisesHold(es, hp2, pr2, co2, a)
  <2>1. ASSUME NEW k \in Coroutines, co2[k] = "waiting"
        PROVE  pr2[k] \in hp2 /\ es[pr2[k]].kind = "coroutine" /\ es[pr2[k]].of = k /\ es[pr2[k]].enabled
    <3>1. k # c /\ co[k] = "waiting" /\ pr2[k] = pr[k]
      BY <1>3, <2>1
    <3>2. pr[k] \in hp /\ es[pr[k]].kind = "coroutine" /\ es[pr[k]].of = k /\ es[pr[k]].enabled
      BY <3>1 DEF PromisesHold
    <3> QED
      BY <3>1, <3>2
  <2>2. \A k \in Coroutines : co2[k] # "waiting" => pr2[k] = 0
    BY <1>3 DEF PromisesHold
  <2>3. ASSUME NEW b \in DOMAIN es, es[b].kind = "coroutine", es[b].enabled, b # a
        PROVE  co2[es[b].of] = "waiting" /\ pr2[es[b].of] = b
    <3>1. co[es[b].of] = "waiting" /\ pr[es[b].of] = b /\ es[b].of \in Coroutines
      BY <1>1, <2>3 DEF PromisesHold, Owned
    <3> QED
      BY <1>2, <1>3, <2>3, <3>1
  <2>4. co2[es[a].of] = "running"
    BY <1>1, <1>3
  <2> QED
    BY <2>1, <2>2, <2>3, <2>4 DEF PromisesHold
<1> QED
  BY <1>4, <1>5

\* destroy_event: a disabled event of the heap, or the callback's that was called.
LEMMA DestroyWakes ==
    ASSUME NEW es, NEW hp, NEW pts, NEW pr, NEW co, NEW fi, Wakes(es, hp, pts, pr, co, fi),
           NEW a \in DOMAIN es, ~es[a].enabled \/ (a = fi /\ es[a].kind = "callback"), fi \in {0, a},
           NEW es2, es2 = Timer!Less(es, a), NEW hp2, hp2 = hp \ {a},
           NEW pts2, pts2 = IF es[a].kind = "callback" THEN [pts EXCEPT ![es[a].of] = 0] ELSE pts
    PROVE  Wakes(es2, hp2, pts2, pr, co, 0)
<1> USE DEF Wakes
<1>0. 0 \notin DOMAIN es
  BY NullIsNoEvent DEF TimerTyped
<1>1. DOMAIN es2 = DOMAIN es \ {a} /\ \A b \in DOMAIN es2 : es2[b] = es[b] /\ b # a /\ b \in DOMAIN es
  BY DEF Timer!Less
<1>2. /\ pts2 \in Seq(Timer!Addresses \cup {0}) /\ Len(pts2) = Len(pts) /\ Len(pts) \in Nat
      /\ \A k \in 1 .. Len(pts) : pts2[k] = (IF es[a].kind = "callback" /\ k = es[a].of THEN 0 ELSE pts[k])
  <2>1. pts \in Seq(Timer!Addresses \cup {0})
    BY DEF TimerTyped
  <2>2. CASE es[a].kind = "callback"
    <3>1. es[a].of \in 1 .. Len(pts)
      BY <2>2 DEF Owned
    <3>2. pts2 = [pts EXCEPT ![es[a].of] = 0]
      BY <2>2
    <3> QED
      BY <2>1, <2>2, <3>1, <3>2
  <2>3. CASE es[a].kind # "callback"
    BY <2>1, <2>3
  <2> QED
    BY <2>2, <2>3
<1>3. TimerTyped(es2, hp2, pts2, pr, co, 0)
  BY <1>1, <1>2 DEF TimerTyped
<1>4. Placed(es2, hp2, 0)
  BY <1>0, <1>1 DEF Placed
<1>5. Owned(es2, pts2)
  BY <1>1, <1>2 DEF Owned
<1>6. PromisesHold(es2, hp2, pr, co, 0)
  <2>1. ASSUME NEW k \in Coroutines, co[k] = "waiting"
        PROVE  pr[k] \in hp2 /\ es2[pr[k]].kind = "coroutine" /\ es2[pr[k]].of = k /\ es2[pr[k]].enabled
    <3>1. pr[k] \in hp /\ es[pr[k]].kind = "coroutine" /\ es[pr[k]].of = k /\ es[pr[k]].enabled
      BY <2>1 DEF PromisesHold
    <3>2. pr[k] # a /\ pr[k] \in DOMAIN es
      BY <3>1 DEF Placed
    <3> QED
      BY <1>1, <3>1, <3>2
  <2>2. ASSUME NEW b \in DOMAIN es2, es2[b].kind = "coroutine", es2[b].enabled
        PROVE  co[es2[b].of] = "waiting" /\ pr[es2[b].of] = b
    <3>1. b \in DOMAIN es /\ es2[b] = es[b] /\ b # a /\ b # fi
      BY <1>0, <1>1
    <3> QED
      BY <2>2, <3>1 DEF PromisesHold
  <2> QED
    BY <2>1, <2>2 DEF PromisesHold
<1>7. DescriptorsHold(es2, pts2)
  <2>1. ASSUME NEW k \in 1 .. Len(pts2), pts2[k] # 0
        PROVE  pts2[k] \in DOMAIN es2 /\ es2[pts2[k]].kind = "callback" /\ es2[pts2[k]].of = k /\ es2[pts2[k]].enabled
    <3>1. k \in 1 .. Len(pts) /\ pts2[k] = pts[k] /\ ~(es[a].kind = "callback" /\ k = es[a].of)
      BY <1>2, <2>1
    <3>2. pts[k] \in DOMAIN es /\ es[pts[k]].kind = "callback" /\ es[pts[k]].of = k /\ es[pts[k]].enabled
      BY <2>1, <3>1 DEF DescriptorsHold
    <3>3. pts[k] # a
      BY <3>1, <3>2
    <3> QED
      BY <1>1, <3>1, <3>2, <3>3
  <2>2. ASSUME NEW b \in DOMAIN es2, es2[b].kind = "callback", es2[b].enabled
        PROVE  pts2[es2[b].of] = b
    <3>1. b \in DOMAIN es /\ es2[b] = es[b] /\ b # a
      BY <1>1
    <3>2. es[b].of \in 1 .. Len(pts) /\ pts[es[b].of] = b
      BY <2>2, <3>1 DEF Owned, DescriptorsHold
    <3>3. ~(es[a].kind = "callback" /\ es[b].of = es[a].of)
      BY <2>2, <3>1 DEF Owned
    <3> QED
      BY <1>2, <3>1, <3>2, <3>3
  <2> QED
    BY <2>1, <2>2 DEF DescriptorsHold
<1> QED
  BY <1>3, <1>4, <1>5, <1>6, <1>7

\* re_schedule: the event goes back, enabled or not.
LEMMA RescheduleWakes ==
    ASSUME NEW es, NEW hp, NEW pts, NEW pr, NEW co, NEW fi, Wakes(es, hp, pts, pr, co, fi),
           fi # 0, es[fi].kind = "callback", NEW t \in Timer!Times,
           NEW es2, es2 = [es EXCEPT ![fi].time = t], NEW hp2, hp2 = hp \cup {fi}
    PROVE  Wakes(es2, hp2, pts, pr, co, 0)
<1> USE DEF Wakes
<1>0. fi \in DOMAIN es /\ 0 \notin DOMAIN es
  BY NullIsNoEvent DEF TimerTyped
<1>1. /\ DOMAIN es2 = DOMAIN es
      /\ \A b \in DOMAIN es :
            /\ es2[b] \in TimedEvent
            /\ es2[b].kind = es[b].kind /\ es2[b].of = es[b].of /\ es2[b].enabled = es[b].enabled
  <2>1. \A b \in DOMAIN es : es[b] \in TimedEvent
    BY DEF TimerTyped
  <2>2. ASSUME NEW b \in DOMAIN es
        PROVE  /\ es2[b] \in TimedEvent
               /\ es2[b].kind = es[b].kind /\ es2[b].of = es[b].of /\ es2[b].enabled = es[b].enabled
    <3>1. CASE b = fi
      BY <2>1, <3>1 DEF TimedEvent
    <3>2. CASE b # fi
      BY <2>1, <3>2
    <3> QED
      BY <3>1, <3>2
  <2> QED
    BY <2>2
<1>2. TimerTyped(es2, hp2, pts, pr, co, 0)
  BY <1>1 DEF TimerTyped
<1>3. Placed(es2, hp2, 0)
  BY <1>0, <1>1 DEF Placed
<1>4. Owned(es2, pts)
  BY <1>1 DEF Owned
<1>5. PromisesHold(es2, hp2, pr, co, 0)
  <2>1. \A k \in Coroutines : co[k] = "waiting" => pr[k] \in DOMAIN es
    BY DEF PromisesHold, Placed
  <2>2. \A b \in DOMAIN es : es[b].kind = "coroutine" => b # fi
    OBVIOUS
  <2> QED
    BY <1>1, <2>1, <2>2 DEF PromisesHold
<1>6. DescriptorsHold(es2, pts)
  BY <1>1 DEF DescriptorsHold
<1> QED
  BY <1>2, <1>3, <1>4, <1>5, <1>6

----------------------------------------------------------------------------
LEMMA FreshAddress ==
    ASSUME NEW S, S \subseteq Timer!Addresses, S # {}
    PROVE  Timer!Min(S) \in S
<1>1. S \subseteq Nat
  BY DEF Timer!Addresses
<1>2. \E m \in S : \A z \in S : m <= z
  BY <1>1, Least
<1> QED
  BY <1>2 DEF Timer!Min

\* The coroutine c runs, after what its last event left.
LEMMA RunsWakes ==
    ASSUME NEW es, NEW pr, NEW co, NEW fi, NEW c \in Coroutines,
           Wakes(es, heap, timer_points, [pr EXCEPT ![c] = 0], [co EXCEPT ![c] = "done"], fi),
           pr = timer_promise, co = coroutine, Timer!Runs(c, es), timer_points' = timer_points, firing' = fi,
           co \in [Coroutines -> States], pr \in [Coroutines -> Timer!Addresses \cup {0}]
    PROVE  TimerInv'
<1> DEFINE pr1 == [pr EXCEPT ![c] = 0]  co1 == [co EXCEPT ![c] = "done"]
<1>1. CASE Timer!Finishes(c, es)
  <2>1. timers' = es /\ heap' = heap /\ timer_promise' = pr1 /\ coroutine' = co1
    BY <1>1 DEF Timer!Finishes, Timer!Null
  <2> HIDE DEF pr1, co1
  <2> QED
    BY <2>1 DEF TimerInv, pr1, co1
<1>2. ASSUME NEW t \in Timer!Times, Timer!Awaits(c, es, t) PROVE TimerInv'
  <2> DEFINE a == Timer!Min(Timer!Addresses \ DOMAIN es)
             e == [time |-> t, enabled |-> TRUE, of |-> c, kind |-> "coroutine"]
  <2>1. /\ Timer!Addresses \ DOMAIN es # {} /\ timers' = Timer!With(es, a, e) /\ heap' = heap \cup {a}
        /\ timer_promise' = [pr EXCEPT ![c] = a] /\ coroutine' = [co EXCEPT ![c] = "waiting"]
    BY <1>2 DEF Timer!Awaits
  <2>2. a \in Timer!Addresses \ DOMAIN es
    BY <2>1, FreshAddress
  <2>3. e \in TimedEvent /\ e.kind = "coroutine" /\ e.of = c /\ e.enabled
    BY DEF TimedEvent, Kinds
  <2> HIDE DEF a, e
  <2>4. timer_promise' = [pr1 EXCEPT ![c] = a] /\ coroutine' = [co1 EXCEPT ![c] = "waiting"] /\ co1[c] = "done"
    BY <2>1
  <2> HIDE DEF pr1, co1
  <2>5. Wakes(es, heap, timer_points, pr1, co1, fi)
    BY DEF pr1, co1
  <2>6. ASSUME NEW es2, es2 = Timer!With(es, a, e), NEW hp2, hp2 = heap \cup {a},
               NEW pr2, pr2 = [pr1 EXCEPT ![c] = a], NEW co2, co2 = [co1 EXCEPT ![c] = "waiting"]
        PROVE  Wakes(es2, hp2, timer_points, pr2, co2, fi)
    BY <2>2, <2>3, <2>4, <2>5, <2>6, WaitBegins
  <2>7. Wakes(timers', heap', timer_points, timer_promise', coroutine', fi)
    BY <2>1, <2>4, <2>6
  <2> QED
    BY <2>7 DEF TimerInv
<1> QED
  BY <1>1, <1>2 DEF Timer!Runs

LEMMA TimerInit == Timer!Init => TimerInv
<1> SUFFICES ASSUME Timer!Init PROVE TimerInv
  OBVIOUS
<1>1. /\ timers = <<>> /\ heap = {} /\ timer_points = <<>> /\ firing = 0
      /\ timer_promise = [c \in Coroutines |-> 0] /\ coroutine = [c \in Coroutines |-> "created"]
  BY DEF Timer!Init, Timer!Null
<1>2. DOMAIN timers = {} /\ Len(timer_points) = 0 /\ timer_points \in Seq(Timer!Addresses \cup {0})
  BY <1>1
<1>3. 1 .. Len(timer_points) = {}
  BY <1>2
<1>4. TimerTyped(timers, heap, timer_points, timer_promise, coroutine, firing)
  BY <1>1, <1>2 DEF TimerTyped, States
<1>5. Placed(timers, heap, firing) /\ Owned(timers, timer_points)
  BY <1>1, <1>2 DEF Placed, Owned
<1>6. PromisesHold(timers, heap, timer_promise, coroutine, firing)
  BY <1>1, <1>2 DEF PromisesHold
<1>7. DescriptorsHold(timers, timer_points)
  BY <1>2, <1>3 DEF DescriptorsHold
<1> QED
  BY <1>4, <1>5, <1>6, <1>7 DEF TimerInv, Wakes

LEMMA TimerNext == TimerInv /\ [Timer!Next]_Timer!vars => TimerInv'
<1> SUFFICES ASSUME TimerInv, [Timer!Next]_Timer!vars PROVE TimerInv'
  OBVIOUS
<1> USE DEF Timer!Null
<1>0. /\ Wakes(timers, heap, timer_points, timer_promise, coroutine, firing)
      /\ timer_promise \in [Coroutines -> Timer!Addresses \cup {0}] /\ coroutine \in [Coroutines -> States]
      /\ DOMAIN timers \subseteq Timer!Addresses /\ Len(timer_points) \in Nat
      /\ heap \subseteq DOMAIN timers /\ firing \in DOMAIN timers \cup {0} /\ firing \notin heap
      /\ \A a \in DOMAIN timers : timers[a] \in TimedEvent
      /\ 0 \notin DOMAIN timers
  BY DEF TimerInv, Wakes, TimerTyped, Placed, Timer!Addresses
<1>1. ASSUME UNCHANGED <<timers, heap, timer_points, timer_promise, coroutine, firing>> PROVE TimerInv'
  BY <1>1 DEF TimerInv
<1>2. ASSUME NEW t \in Timer!Times, Timer!Schedule(t) PROVE TimerInv'
  <2> DEFINE a == Timer!Fresh
             e == [time |-> t, enabled |-> TRUE, of |-> Len(timer_points) + 1, kind |-> "callback"]
  <2>1. /\ Timer!Alive # Timer!Addresses /\ timers' = Timer!With(timers, a, e) /\ heap' = heap \cup {a}
        /\ timer_points' = Append(timer_points, a)
        /\ timer_promise' = timer_promise /\ coroutine' = coroutine /\ firing' = firing
    BY <1>2 DEF Timer!Schedule
  <2>2. a \in Timer!Addresses \ DOMAIN timers
    BY <1>0, <2>1, FreshAddress DEF Timer!Fresh, Timer!Alive
  <2>3. e \in TimedEvent /\ e.kind = "callback" /\ e.of = Len(timer_points) + 1 /\ e.enabled
    BY <1>0 DEF TimedEvent, Kinds
  <2> HIDE DEF a, e
  <2> QED
    BY <1>0, <2>1, <2>2, <2>3, ScheduleWakes DEF TimerInv
<1>3. ASSUME NEW d \in Timer!Descriptors, Timer!Unschedule(d) PROVE TimerInv'
  <2>1. d \in 1 .. Len(timer_points)
    BY DEF Timer!Descriptors
  <2>2. /\ timer_points[d] # 0 /\ timers' = [timers EXCEPT ![timer_points[d]].enabled = FALSE]
        /\ timer_points' = [timer_points EXCEPT ![d] = 0]
        /\ heap' = heap /\ timer_promise' = timer_promise /\ coroutine' = coroutine /\ firing' = firing
    BY <1>3 DEF Timer!Unschedule, Timer!Disabled
  <2> QED
    BY <1>0, <2>1, <2>2, UnscheduleWakes DEF TimerInv
<1>4. ASSUME NEW c \in Coroutines, Timer!Initialize(c) PROVE TimerInv'
  <2>1. coroutine[c] = "created" /\ Timer!Runs(c, timers) /\ timer_points' = timer_points /\ firing' = firing
    BY <1>4 DEF Timer!Initialize
  <2>2. Wakes(timers, heap, timer_points, [timer_promise EXCEPT ![c] = 0], [coroutine EXCEPT ![c] = "done"], firing)
    BY <1>0, <2>1, NeverWaits
  <2> QED
    BY <1>0, <2>1, <2>2, RunsWakes
<1>5. ASSUME NEW c \in Coroutines, Timer!ForceResume(c) PROVE TimerInv'
  <2> DEFINE es == [timers EXCEPT ![timer_promise[c]].enabled = FALSE]
  <2>1. timer_promise[c] # 0 /\ Timer!Runs(c, es) /\ timer_points' = timer_points /\ firing' = firing
    BY <1>5 DEF Timer!ForceResume, Timer!Disabled
  <2>2. "done" \in States \ {"waiting"}
    BY DEF States
  <2>3. Wakes(es, heap, timer_points, [timer_promise EXCEPT ![c] = 0], [coroutine EXCEPT ![c] = "done"], firing)
    BY <1>0, <2>1, <2>2, WaitEnds
  <2> HIDE DEF es
  <2> QED
    BY <1>0, <2>1, <2>3, RunsWakes
<1>6. ASSUME NEW c \in Coroutines, Timer!Unregister(c) PROVE TimerInv'
  <2>1. /\ timer_promise[c] # 0 /\ timers' = [timers EXCEPT ![timer_promise[c]].enabled = FALSE]
        /\ timer_promise' = [timer_promise EXCEPT ![c] = 0]
        /\ coroutine' = [coroutine EXCEPT ![c] = "unregistered"]
        /\ heap' = heap /\ timer_points' = timer_points /\ firing' = firing
    BY <1>6 DEF Timer!Unregister, Timer!Disabled
  <2>2. "unregistered" \in States \ {"waiting"}
    BY DEF States
  <2> QED
    BY <1>0, <2>1, <2>2, WaitEnds DEF TimerInv
<1>7. ASSUME NEW a \in Timer!Alive, Timer!Fire(a) PROVE TimerInv'
  <2>1. /\ firing = 0 /\ a \in heap /\ timers[a].enabled /\ heap' = heap \ {a} /\ firing' = a
        /\ timers' = timers /\ timer_points' = timer_points
    BY <1>7 DEF Timer!Fire, Timer!Due, Timer!IsFront
  <2>2. CASE timers[a].kind = "coroutine"
    <3>1. /\ timer_promise' = [timer_promise EXCEPT ![timers[a].of] = 0]
          /\ coroutine' = [coroutine EXCEPT ![timers[a].of] = "running"]
      BY <1>7, <2>2 DEF Timer!Fire
    <3>2. Wakes(timers, heap, timer_points, timer_promise, coroutine, 0)
      BY <1>0, <2>1
    <3> QED
      BY <2>1, <2>2, <3>1, <3>2, ResumeWakes DEF TimerInv
  <2>3. CASE timers[a].kind # "coroutine"
    <3>1. timer_promise' = timer_promise /\ coroutine' = coroutine
      BY <1>7, <2>3 DEF Timer!Fire
    <3>2. Wakes(timers, heap, timer_points, timer_promise, coroutine, 0) /\ timers[a].kind = "callback"
      BY <1>0, <2>1, <2>3 DEF TimedEvent, Kinds
    <3> QED
      BY <2>1, <3>1, <3>2, CallWakes DEF TimerInv
  <2> QED
    BY <2>2, <2>3
<1>8. ASSUME NEW a \in Timer!Alive, Timer!DropDisabled(a) PROVE TimerInv'
  <2>1. /\ firing = 0 /\ a \in heap /\ ~timers[a].enabled /\ heap' = heap \ {a} /\ firing' = 0
        /\ timers' = Timer!Less(timers, a) /\ timer_promise' = timer_promise /\ coroutine' = coroutine
        /\ timer_points' = IF timers[a].kind = "callback" THEN [timer_points EXCEPT ![timers[a].of] = 0]
                           ELSE timer_points
    BY <1>8 DEF Timer!DropDisabled, Timer!Due, Timer!IsFront, Timer!PointsWithout
  <2>2. Wakes(timers, heap, timer_points, timer_promise, coroutine, 0) /\ a \in DOMAIN timers
    BY <1>0, <2>1
  <2> QED
    BY <2>1, <2>2, DestroyWakes DEF TimerInv
<1>9. ASSUME Timer!CallbackReturns PROVE TimerInv'
  <2>0. /\ firing # 0 /\ timers[firing].kind = "callback" /\ firing \in DOMAIN timers /\ firing' = 0
        /\ timer_promise' = timer_promise /\ coroutine' = coroutine
    BY <1>0, <1>9 DEF Timer!CallbackReturns
  <2>1. CASE /\ timers' = Timer!Less(timers, firing)
             /\ timer_points' = Timer!PointsWithout(firing)
             /\ heap' = heap
    <3> DEFINE a == firing
    <3>1. a \in DOMAIN timers /\ (~timers[a].enabled \/ (a = firing /\ timers[a].kind = "callback"))
      BY <2>0
    <3>2. firing \in {0, a} /\ timers' = Timer!Less(timers, a)
      BY <2>1
    <3>3. heap' = heap \ {a}
      BY <1>0, <2>1
    <3>4. timer_points' = IF timers[a].kind = "callback"
                          THEN [timer_points EXCEPT ![timers[a].of] = 0] ELSE timer_points
      BY <2>1 DEF Timer!PointsWithout
    <3> HIDE DEF a
    <3>5. Wakes(timers', heap', timer_points', timer_promise, coroutine, 0)
      BY <1>0, <3>1, <3>2, <3>3, <3>4, DestroyWakes
    <3> QED
      BY <2>0, <3>5 DEF TimerInv
  <2>2. ASSUME NEW t \in Timer!Times, timers' = [timers EXCEPT ![firing].time = t],
               heap' = heap \cup {firing}, timer_points' = timer_points
        PROVE  TimerInv'
    BY <1>0, <2>0, <2>2, RescheduleWakes DEF TimerInv
  <2> QED
    BY <1>9, <2>1, <2>2 DEF Timer!CallbackReturns
<1>10. ASSUME Timer!CoroutineSuspends PROVE TimerInv'
  <2> DEFINE c == timers[firing].of  es == Timer!Less(timers, firing)
             pr1 == [timer_promise EXCEPT ![c] = 0]  co1 == [coroutine EXCEPT ![c] = "done"]
  <2>0. /\ firing # 0 /\ timers[firing].kind = "coroutine" /\ firing \in DOMAIN timers /\ firing' = 0
        /\ timer_points' = timer_points
    BY <1>0, <1>10 DEF Timer!CoroutineSuspends
  <2>1. c \in Coroutines
    BY <1>0, <2>0 DEF Wakes, Owned
  <2>2. Wakes(es, heap, timer_points, pr1, co1, 0)
    BY <1>0, <2>0, ResumeEnds
  <2>3. CASE Timer!Finishes(c, es)
    <3>1. timers' = es /\ heap' = heap /\ timer_promise' = pr1 /\ coroutine' = co1
      BY <2>3 DEF Timer!Finishes
    <3> HIDE DEF es, pr1, co1
    <3> QED
      BY <2>0, <2>2, <3>1 DEF TimerInv
  <2>4. ASSUME NEW t \in Timer!Times, Timer!Alive # Timer!Addresses,
               timers' = Timer!Less(Timer!With(timers, Timer!Fresh,
                    [time |-> t, enabled |-> TRUE, of |-> c, kind |-> "coroutine"]), firing),
               heap' = heap \cup {Timer!Fresh}, timer_promise' = [timer_promise EXCEPT ![c] = Timer!Fresh],
               coroutine' = [coroutine EXCEPT ![c] = "waiting"]
        PROVE  TimerInv'
    <3> DEFINE a == Timer!Fresh
               e == [time |-> t, enabled |-> TRUE, of |-> c, kind |-> "coroutine"]
    <3>1. a \in Timer!Addresses \ DOMAIN timers
      BY <1>0, <2>4, FreshAddress DEF Timer!Fresh, Timer!Alive
    <3>2. e \in TimedEvent /\ e.kind = "coroutine" /\ e.of = c /\ e.enabled
      BY <2>1 DEF TimedEvent, Kinds
    <3> HIDE DEF a, e
    <3>3. timers' = Timer!Less(Timer!With(timers, a, e), firing)
      BY <2>4 DEF a, e
    <3>4. timers' = Timer!With(es, a, e) /\ a \in Timer!Addresses \ DOMAIN es
      BY <2>0, <3>1, <3>3 DEF Timer!Less, Timer!With
    <3>5. timer_promise' = [pr1 EXCEPT ![c] = a] /\ coroutine' = [co1 EXCEPT ![c] = "waiting"] /\ co1[c] = "done"
      <4> HIDE DEF c
      <4> QED
        BY <1>0, <2>1, <2>4 DEF a
    <3>6. heap' = heap \cup {a}
      BY <2>4 DEF a
    <3> HIDE DEF es, pr1, co1, c
    <3> QED
      BY <2>0, <2>1, <2>2, <3>2, <3>4, <3>5, <3>6, WaitBegins DEF TimerInv
  <2> QED
    BY <1>10, <2>3, <2>4 DEF Timer!CoroutineSuspends
<1>11. CASE UNCHANGED Timer!vars
  BY <1>1, <1>11 DEF Timer!vars
<1>12. CASE Timer!Advance \/ Timer!Trigger \/ Timer!TriggerReturns
  BY <1>1, <1>12 DEF Timer!Advance, Timer!Trigger, Timer!TriggerReturns
<1> QED
  BY <1>2, <1>3, <1>4, <1>5, <1>6, <1>7, <1>8, <1>9, <1>10, <1>11, <1>12 DEF Timer!Next

\* A coroutine that waits is resumed once, by the event its promise names, and a descriptor
\* points to its own event or to none, though addresses of destroyed events are handed out
\* again: for any number of coroutines, events and times (event-timer.h:271, 323).
THEOREM WakeupsAreUnique == Timer!Spec => []OneWakeup
<1>1. TimerInv => OneWakeup
  <2> SUFFICES ASSUME TimerInv PROVE OneWakeup
    OBVIOUS
  <2> USE DEF Timer!EnabledFor, Timer!Alive, Timer!Null
  <2>0. Wakes(timers, heap, timer_points, timer_promise, coroutine, firing) /\ heap \subseteq DOMAIN timers
    BY DEF TimerInv, Wakes, Placed
  <2>1. ASSUME NEW c \in Coroutines, coroutine[c] = "waiting"
        PROVE  Timer!EnabledFor("coroutine", c) = {timer_promise[c]} /\ timer_promise[c] \in heap
    <3>1. timer_promise[c] \in heap /\ timer_promise[c] \in Timer!EnabledFor("coroutine", c)
      BY <2>0, <2>1 DEF Wakes, PromisesHold
    <3>2. ASSUME NEW a \in Timer!EnabledFor("coroutine", c) PROVE a = timer_promise[c]
      <4>1. a \in DOMAIN timers /\ timers[a].kind = "coroutine" /\ timers[a].enabled /\ timers[a].of = c
        OBVIOUS
      <4>2. a # firing \/ firing = 0
        BY <2>0, <2>1, <4>1 DEF Wakes, PromisesHold
      <4>3. 0 \notin DOMAIN timers
        BY <2>0, NullIsNoEvent DEF Wakes, TimerTyped
      <4> QED
        BY <2>0, <4>1, <4>2, <4>3 DEF Wakes, PromisesHold
    <3> QED
      BY <3>1, <3>2
  <2>2. ASSUME NEW c \in Coroutines, coroutine[c] # "waiting"
        PROVE  timer_promise[c] = 0 /\ Timer!EnabledFor("coroutine", c) \subseteq {firing}
    BY <2>0, <2>2 DEF Wakes, PromisesHold
  <2>3. ASSUME NEW d \in 1 .. Len(timer_points)
        PROVE  Timer!EnabledFor("callback", d) = IF timer_points[d] = 0 THEN {} ELSE {timer_points[d]}
    <3>1. 0 \notin DOMAIN timers
      BY <2>0, NullIsNoEvent DEF Wakes, TimerTyped
    <3>2. \A a \in Timer!EnabledFor("callback", d) : timer_points[d] = a /\ a # 0
      BY <2>0, <3>1 DEF Wakes, DescriptorsHold
    <3>3. timer_points[d] # 0 => timer_points[d] \in Timer!EnabledFor("callback", d)
      BY <2>0 DEF Wakes, DescriptorsHold
    <3> HIDE DEF Timer!EnabledFor
    <3> QED
      BY <3>2, <3>3
  <2> QED
    BY <2>1, <2>2, <2>3 DEF OneWakeup, Timer!OneWakeup, Timer!Descriptors
<1> QED
  BY <1>1, TimerInit, TimerNext, PTL DEF Timer!Spec

----------------------------------------------------------------------------
(***************************************************************************)
(* The memory pool: its constants, and the arithmetic of chunks.           *)
(***************************************************************************)
\* Min and Max of FiniteSetsExt, for the sets the pools take them of.
LEMMA MinIsLeast ==
    ASSUME NEW S, S \subseteq Nat, S # {}
    PROVE  Pool!Min(S) \in S
<1>1. \E m \in S : \A z \in S : m <= z
  BY Least
<1> QED
  BY <1>1 DEF Pool!Min

LEMMA MaxIsGreatest ==
    ASSUME NEW S, S \subseteq Nat, S # {}, NEW b \in Nat, \A z \in S : z <= b
    PROVE  Pool!Max(S) \in S /\ \A z \in S : z <= Pool!Max(S)
<1> DEFINE T == {b - z : z \in S}
<1>1. T \subseteq Nat /\ T # {}
  <2>1. \A z \in S : z \in Nat /\ b - z \in Nat
    OBVIOUS
  <2> QED
    BY <2>1
<1>2. PICK t \in T : \A u \in T : t <= u
  BY <1>1, Least
<1>3. PICK m \in S : t = b - m
  OBVIOUS
<1>4. \A z \in S : m \in Nat /\ z \in Nat /\ b - m <= b - z
  BY <1>2, <1>3
<1>5. \A z \in S : z <= m
  BY <1>4
<1> HIDE DEF T
<1> QED
  BY <1>3, <1>5 DEF Pool!Max

PoolSizes == Pool!PoolSizes

LEMMA PoolConstants ==
    /\ Lowest \in Nat \ {0} /\ HeapSize \in Nat /\ MaxObjects \in Nat /\ ObjectSizes \subseteq Nat \ {0}
    /\ PoolSizes \subseteq Nat \ {0}
    /\ \A c \in PoolSizes : Lowest <= c /\ c <= BlockSize /\ c <= Pool!MaxTypeSize
    /\ Pool!MaxTypeSize \in PoolSizes
    /\ Pool!Null = -1 /\ Pool!Bytes = 0 .. HeapSize - 1
<1>1. /\ Lowest \in Nat \ {0} /\ HeapSize \in Nat /\ MaxObjects \in Nat /\ BlockSize \in Nat
      /\ ObjectSizes \subseteq Nat \ {0} /\ TypeSizes \subseteq Nat /\ TypeSizes # {}
      /\ \A s \in TypeSizes \cup {Lowest} : s <= BlockSize
  BY PoolAssumption DEF Pool!PoolAssumption
<1>2. PoolSizes \subseteq Nat \ {0} /\ PoolSizes # {} /\ \A c \in PoolSizes : Lowest <= c /\ c <= BlockSize
  <2> DEFINE clamped(s) == IF s < Lowest THEN Lowest ELSE s
  <2>1. \A s \in TypeSizes : clamped(s) \in Nat \ {0} /\ Lowest <= clamped(s) /\ clamped(s) <= BlockSize
    BY <1>1
  <2>2. PoolSizes = {clamped(s) : s \in TypeSizes}
    BY DEF PoolSizes, Pool!PoolSizes
  <2> HIDE DEF clamped
  <2>3. PoolSizes # {}
    BY <1>1, <2>2
  <2>4. \A c \in PoolSizes : \E s \in TypeSizes : c = clamped(s)
    BY <2>2
  <2> QED
    BY <2>1, <2>3, <2>4
<1>3. PoolSizes \subseteq Nat
  BY <1>2
<1>4. Pool!MaxTypeSize \in PoolSizes /\ \A c \in PoolSizes : c <= Pool!MaxTypeSize
  BY <1>1, <1>2, <1>3, MaxIsGreatest DEF Pool!MaxTypeSize, PoolSizes
<1> QED
  BY <1>1, <1>2, <1>4 DEF Pool!Null, Pool!Bytes

LEMMA PoolFits ==
    ASSUME NEW size \in Nat, size <= Pool!MaxTypeSize
    PROVE  Pool!PoolOf(size) \in PoolSizes /\ size <= Pool!PoolOf(size)
<1> DEFINE S == {c \in PoolSizes : size <= c}
<1>1. S \subseteq Nat /\ S # {}
  BY PoolConstants
<1>2. Pool!Min(S) \in S
  BY <1>1, MinIsLeast
<1> QED
  BY <1>2 DEF Pool!PoolOf, PoolSizes

LEMMA Chunked ==
    ASSUME NEW c \in PoolSizes
    PROVE  Pool!ChunksPerBlock(c) \in Nat \ {0}
<1>1. c \in Nat \ {0} /\ BlockSize \in Nat /\ c <= BlockSize
  BY PoolConstants, PoolAssumption DEF Pool!PoolAssumption
<1>2. BlockSize \div c \in Nat \ {0}
  BY <1>1
<1> QED
  BY <1>2 DEF Pool!ChunksPerBlock

LEMMA Multiples ==
    ASSUME NEW c \in Nat \ {0}, NEW i \in Nat, NEW j \in Nat
    PROVE  /\ i * c \in Nat /\ (i + 1) * c = i * c + c /\ 0 * c = 0 /\ c * i = i * c
           /\ i < j => i * c + c <= j * c
           /\ (i * c) % c = 0
<1>1. i * c \in Nat /\ (i + 1) * c = i * c + c /\ 0 * c = 0 /\ c * i = i * c
  OBVIOUS
<1>2. i < j => i * c + c <= j * c
  OBVIOUS
<1>3. (i * c) % c = 0
  OBVIOUS
<1> QED
  BY <1>1, <1>2, <1>3

----------------------------------------------------------------------------
(***************************************************************************)
(* Free lists.  From first on, the n chunks L are all those in F, and each *)
(* holds the pointer to the one behind it.                                 *)
(***************************************************************************)
Chain(first, m, F, n, L) ==
    /\ n \in Nat /\ L \in [1 .. n -> F]
    /\ first = IF n = 0 THEN Pool!Null ELSE L[1]
    /\ \A i \in 1 .. n : m[L[i]] = Pool!Pointer(IF i = n THEN Pool!Null ELSE L[i + 1])
    /\ \A i, j \in 1 .. n : L[i] = L[j] => i = j
    /\ \A p \in F : \E i \in 1 .. n : L[i] = p

Chained(first, m, F) == \E n \in Nat : \E L \in [1 .. n -> F] : Chain(first, m, F, n, L)

\* The bytes of F hold the same in m and in m2.
Same(m, m2, F) == \A p \in F : m2[p] = m[p]

LEMMA ChainStays ==
    ASSUME NEW first, NEW m, NEW F, Chained(first, m, F), NEW m2, Same(m, m2, F)
    PROVE  Chained(first, m2, F)
<1>0. PICK n \in Nat : \E L \in [1 .. n -> F] : Chain(first, m, F, n, L)
  BY DEF Chained
<1>1. PICK L \in [1 .. n -> F] : Chain(first, m, F, n, L)
  BY <1>0
<1>2. \A i \in 1 .. n : m2[L[i]] = m[L[i]]
  BY DEF Same
<1>3. Chain(first, m2, F, n, L)
  BY <1>1, <1>2 DEF Chain
<1> QED
  BY <1>3 DEF Chained

LEMMA ChainEmpty ==
    ASSUME NEW m, NEW F
    PROVE  Chained(Pool!Null, m, F) /\ F \subseteq Nat => F = {}
<1> SUFFICES ASSUME Chained(Pool!Null, m, F), F \subseteq Nat PROVE F = {}
  OBVIOUS
<1>0. PICK n \in Nat : \E L \in [1 .. n -> F] : Chain(Pool!Null, m, F, n, L)
  BY DEF Chained
<1>1. PICK L \in [1 .. n -> F] : Chain(Pool!Null, m, F, n, L)
  BY <1>0
<1>2. n = 0
  <2> SUFFICES ASSUME n # 0 PROVE FALSE
    OBVIOUS
  <2>1. 1 \in 1 .. n /\ L[1] = Pool!Null
    BY <1>1 DEF Chain
  <2>2. L[1] \in Nat
    BY <2>1
  <2> QED
    BY <2>1, <2>2, PoolConstants
<1> QED
  BY <1>1, <1>2 DEF Chain

LEMMA NoChain ==
    ASSUME NEW m
    PROVE  Chained(Pool!Null, m, {})
<1> DEFINE L == [i \in 1 .. 0 |-> 0]
<1>1. 1 .. 0 = {} /\ L \in [1 .. 0 -> {}]
  OBVIOUS
<1> HIDE DEF L
<1>2. Chain(Pool!Null, m, {}, 0, L)
  BY <1>1 DEF Chain
<1> QED
  BY <1>1, <1>2 DEF Chained

\* deallocate: one more, in front.
LEMMA ChainPush ==
    ASSUME NEW first, NEW m, NEW F, Chained(first, m, F), NEW p, p \notin F,
           NEW m2, Same(m, m2, F), m2[p] = Pool!Pointer(first)
    PROVE  Chained(p, m2, F \cup {p})
<1>0. PICK n \in Nat : \E L \in [1 .. n -> F] : Chain(first, m, F, n, L)
  BY DEF Chained
<1>1. PICK L \in [1 .. n -> F] : Chain(first, m, F, n, L)
  BY <1>0
<1> DEFINE G == F \cup {p}  K == [i \in 1 .. n + 1 |-> IF i = 1 THEN p ELSE L[i - 1]]
<1>2. n + 1 \in Nat /\ \A i \in 1 .. n + 1 : i # 1 => i - 1 \in 1 .. n
  OBVIOUS
<1>3. /\ K[1] = p /\ \A i \in 1 .. n + 1 : i # 1 => K[i] = L[i - 1] /\ K[i] \in F
      /\ \A i \in 1 .. n : i + 1 \in 1 .. n + 1 /\ K[i + 1] = L[i]
  <2>1. K[1] = p /\ \A i \in 1 .. n + 1 : i # 1 => K[i] = L[i - 1]
    OBVIOUS
  <2>2. \A i \in 1 .. n + 1 : i # 1 => L[i - 1] \in F
    BY <1>2
  <2>3. \A i \in 1 .. n : i + 1 \in 1 .. n + 1 /\ i + 1 # 1 /\ (i + 1) - 1 = i
    OBVIOUS
  <2> HIDE DEF K
  <2> QED
    BY <2>1, <2>2, <2>3
<1>4. K \in [1 .. n + 1 -> G]
  BY <1>2
<1> HIDE DEF K, G
<1>5. \A i \in 1 .. n + 1 : m2[K[i]] = Pool!Pointer(IF i = n + 1 THEN Pool!Null ELSE K[i + 1])
  <2> SUFFICES ASSUME NEW i \in 1 .. n + 1
               PROVE  m2[K[i]] = Pool!Pointer(IF i = n + 1 THEN Pool!Null ELSE K[i + 1])
    OBVIOUS
  <2>1. CASE i = 1
    <3>1. CASE n = 0
      BY <1>1, <1>3, <2>1, <3>1 DEF Chain
    <3>2. CASE n # 0
      <4>1. 1 \in 1 .. n /\ K[1 + 1] = L[1]
        BY <1>3, <3>2
      <4> QED
        BY <1>1, <1>3, <2>1, <3>2, <4>1 DEF Chain
    <3> QED
      BY <3>1, <3>2
  <2>2. CASE i # 1
    <3>1. i - 1 \in 1 .. n /\ K[i] = L[i - 1] /\ m2[K[i]] = m[L[i - 1]]
      BY <1>2, <1>3, <2>2 DEF Same
    <3>2. m[L[i - 1]] = Pool!Pointer(IF i - 1 = n THEN Pool!Null ELSE L[(i - 1) + 1])
      BY <1>1, <3>1 DEF Chain
    <3>3. CASE i = n + 1
      BY <3>1, <3>2, <3>3
    <3>4. CASE i # n + 1
      <4>1. i \in 1 .. n /\ i - 1 # n /\ (i - 1) + 1 = i
        BY <3>4
      <4>2. K[i + 1] = L[i]
        BY <1>3, <4>1
      <4> QED
        BY <3>1, <3>2, <3>4, <4>1, <4>2
    <3> QED
      BY <3>3, <3>4
  <2> QED
    BY <2>1, <2>2
<1>6. \A i, j \in 1 .. n + 1 : K[i] = K[j] => i = j
  <2> SUFFICES ASSUME NEW i \in 1 .. n + 1, NEW j \in 1 .. n + 1, K[i] = K[j]
               PROVE  i = j
    OBVIOUS
  <2>1. CASE i = 1 \/ j = 1
    BY <1>3, <2>1
  <2>2. CASE i # 1 /\ j # 1
    <3>1. i - 1 \in 1 .. n /\ j - 1 \in 1 .. n /\ L[i - 1] = L[j - 1]
      BY <1>2, <1>3, <2>2
    <3>2. i - 1 = j - 1
      BY <1>1, <3>1 DEF Chain
    <3> QED
      BY <3>2
  <2> QED
    BY <2>1, <2>2
<1>7. \A q \in G : \E i \in 1 .. n + 1 : K[i] = q
  <2> SUFFICES ASSUME NEW q \in G PROVE \E i \in 1 .. n + 1 : K[i] = q
    OBVIOUS
  <2>1. CASE q = p
    BY <1>3, <2>1
  <2>2. CASE q \in F
    <3>1. PICK i \in 1 .. n : L[i] = q
      BY <1>1, <2>2 DEF Chain
    <3> QED
      BY <1>3, <3>1
  <2> QED
    BY <2>1, <2>2 DEF G
<1>8. p = IF n + 1 = 0 THEN Pool!Null ELSE K[1]
  BY <1>3
<1>9. Chain(p, m2, G, n + 1, K)
  BY <1>2, <1>4, <1>5, <1>6, <1>7, <1>8 DEF Chain
<1> QED
  BY <1>2, <1>4, <1>9 DEF Chained, G

\* allocate: the first one is taken.
LEMMA ChainPop ==
    ASSUME NEW first, NEW m, NEW F, Chained(first, m, F), first # Pool!Null
    PROVE  first \in F /\ Chained(Pool!NextChunk(m, first), m, F \ {first})
<1>0. PICK n \in Nat : \E L \in [1 .. n -> F] : Chain(first, m, F, n, L)
  BY DEF Chained
<1>1. PICK L \in [1 .. n -> F] : Chain(first, m, F, n, L)
  BY <1>0
<1>2. n # 0 /\ first = L[1] /\ 1 \in 1 .. n /\ n - 1 \in Nat
  <2>1. n # 0 /\ first = L[1]
    BY <1>1 DEF Chain
  <2> QED
    BY <2>1
<1> DEFINE G == F \ {first}  K == [i \in 1 .. n - 1 |-> L[i + 1]]
<1>3. \A i \in 1 .. n - 1 : i + 1 \in 1 .. n /\ i + 1 # 1 /\ K[i] = L[i + 1]
  BY <1>2
<1>4. \A i \in 1 .. n - 1 : L[i + 1] \in G
  BY <1>1, <1>2, <1>3 DEF Chain
<1>5. K \in [1 .. n - 1 -> G]
  BY <1>3, <1>4
<1> HIDE DEF K, G
<1>6. \A i \in 1 .. n - 1 : m[K[i]] = Pool!Pointer(IF i = n - 1 THEN Pool!Null ELSE K[i + 1])
  <2> SUFFICES ASSUME NEW i \in 1 .. n - 1
               PROVE  m[K[i]] = Pool!Pointer(IF i = n - 1 THEN Pool!Null ELSE K[i + 1])
    OBVIOUS
  <2>1. m[K[i]] = Pool!Pointer(IF i + 1 = n THEN Pool!Null ELSE L[(i + 1) + 1])
    BY <1>1, <1>3 DEF Chain
  <2>2. CASE i = n - 1
    <3>1. i + 1 = n
      BY <2>2
    <3> QED
      BY <2>1, <2>2, <3>1
  <2>3. CASE i # n - 1
    <3>1. i + 1 \in 1 .. n - 1 /\ i + 1 # n
      BY <2>3
    <3>2. K[i + 1] = L[(i + 1) + 1]
      BY <1>3, <3>1
    <3> QED
      BY <2>1, <2>3, <3>1, <3>2
  <2> QED
    BY <2>2, <2>3
<1>7. \A i, j \in 1 .. n - 1 : K[i] = K[j] => i = j
  <2> SUFFICES ASSUME NEW i \in 1 .. n - 1, NEW j \in 1 .. n - 1, K[i] = K[j]
               PROVE  i = j
    OBVIOUS
  <2>1. i + 1 = j + 1
    BY <1>1, <1>3 DEF Chain
  <2> QED
    BY <2>1
<1>8. \A q \in G : \E i \in 1 .. n - 1 : K[i] = q
  <2> SUFFICES ASSUME NEW q \in G PROVE \E i \in 1 .. n - 1 : K[i] = q
    OBVIOUS
  <2>1. PICK i \in 1 .. n : L[i] = q
    BY <1>1 DEF Chain, G
  <2>2. i # 1
    BY <1>2, <2>1 DEF G
  <2>3. i - 1 \in 1 .. n - 1 /\ (i - 1) + 1 = i
    BY <2>2
  <2> QED
    BY <1>3, <2>1, <2>3
<1>9. Pool!NextChunk(m, first) = IF n - 1 = 0 THEN Pool!Null ELSE K[1]
  <2>1. m[first] = Pool!Pointer(IF 1 = n THEN Pool!Null ELSE L[1 + 1])
    BY <1>1, <1>2 DEF Chain
  <2>2. Pool!NextChunk(m, first) = IF 1 = n THEN Pool!Null ELSE L[1 + 1]
    BY <2>1 DEF Pool!NextChunk, Pool!Pointer
  <2>3. n # 1 => 1 \in 1 .. n - 1
    BY <1>2
  <2>4. n # 1 => K[1] = L[1 + 1]
    BY <1>3, <2>3
  <2> QED
    BY <2>2, <2>4
<1>10. Chain(Pool!NextChunk(m, first), m, G, n - 1, K)
  BY <1>2, <1>5, <1>6, <1>7, <1>8, <1>9 DEF Chain
<1> QED
  BY <1>2, <1>5, <1>10 DEF Chained, G

\* alloc_new_block: the chunks of a block at base, linked one behind the other.
BlockChunks(c, base) == {base + i * c : i \in 0 .. Pool!ChunksPerBlock(c) - 1}

LEMMA ChunksOfBlock ==
    ASSUME NEW c \in PoolSizes, NEW base \in Nat
    PROVE  /\ base \in BlockChunks(c, base)
           /\ \A p \in BlockChunks(c, base) :
                p \in Nat /\ base <= p /\ p + c <= base + c * Pool!ChunksPerBlock(c)
           /\ \A p, q \in BlockChunks(c, base) : p = q \/ p + c <= q \/ q + c <= p
<1> DEFINE K == Pool!ChunksPerBlock(c)
<1>1. c \in Nat \ {0} /\ K \in Nat \ {0}
  BY PoolConstants, Chunked
<1> HIDE DEF K
<1>2. ASSUME NEW i \in 0 .. K - 1
      PROVE  i \in Nat /\ i * c \in Nat /\ i * c + c <= c * K
  <2>1. i \in Nat /\ K \in Nat /\ i < K
    BY <1>1
  <2>2. i * c \in Nat /\ i * c + c <= K * c /\ c * K = K * c
    BY <1>1, <2>1, Multiples
  <2> QED
    BY <2>1, <2>2
<1>3. ASSUME NEW i \in 0 .. K - 1, NEW j \in 0 .. K - 1
      PROVE  i * c = j * c \/ i * c + c <= j * c \/ j * c + c <= i * c
  <2>1. i \in Nat /\ j \in Nat
    BY <1>1
  <2>2. i < j => i * c + c <= j * c
    BY <1>1, <2>1, Multiples
  <2>3. j < i => j * c + c <= i * c
    BY <1>1, <2>1, Multiples
  <2> QED
    BY <2>1, <2>2, <2>3
<1>4. 0 \in 0 .. K - 1 /\ base + 0 * c = base
  BY <1>1
<1>5. base \in BlockChunks(c, base)
  BY <1>4 DEF BlockChunks, K
<1>6. ASSUME NEW p \in BlockChunks(c, base)
      PROVE  \E i \in 0 .. K - 1 : p = base + i * c
  BY DEF BlockChunks, K
<1>7. ASSUME NEW p \in BlockChunks(c, base)
      PROVE  p \in Nat /\ base <= p /\ p + c <= base + c * K
  <2>1. PICK i \in 0 .. K - 1 : p = base + i * c
    BY <1>6
  <2>2. i * c \in Nat /\ i * c + c <= c * K /\ c * K \in Int
    BY <1>1, <1>2
  <2> HIDE DEF K
  <2> QED
    BY <1>1, <2>1, <2>2
<1>8. ASSUME NEW p \in BlockChunks(c, base), NEW q \in BlockChunks(c, base)
      PROVE  p = q \/ p + c <= q \/ q + c <= p
  <2>1. PICK i \in 0 .. K - 1 : p = base + i * c
    BY <1>6
  <2>2. PICK j \in 0 .. K - 1 : q = base + j * c
    BY <1>6
  <2>3. i * c \in Nat /\ j * c \in Nat
    BY <1>2
  <2> QED
    BY <1>1, <1>3, <2>1, <2>2, <2>3
<1> QED
  BY <1>5, <1>7, <1>8 DEF K

\* m holds the free list of a new block at base.
LinkedUp(m, c, base) ==
    \A i \in 0 .. Pool!ChunksPerBlock(c) - 1 :
        m[base + i * c] =
            Pool!Pointer(IF i = Pool!ChunksPerBlock(c) - 1 THEN Pool!Null ELSE base + (i + 1) * c)

LEMMA ChainOfBlock ==
    ASSUME NEW c \in PoolSizes, NEW base \in Nat, NEW m, LinkedUp(m, c, base)
    PROVE  Chained(base, m, BlockChunks(c, base))
<1> DEFINE n == Pool!ChunksPerBlock(c)
           at(i) == base + i * c
           F == BlockChunks(c, base)
           L == [i \in 1 .. n |-> at(i - 1)]
<1>1. c \in Nat \ {0} /\ n \in Nat \ {0}
  BY PoolConstants, Chunked
<1>2. F = {at(i) : i \in 0 .. n - 1}
  BY DEF BlockChunks
<1>3. \A i \in 0 .. n - 1 : m[at(i)] = Pool!Pointer(IF i = n - 1 THEN Pool!Null ELSE at(i + 1))
  BY DEF LinkedUp
<1>4. ASSUME NEW i \in 0 .. n - 1, NEW j \in 0 .. n - 1, at(i) = at(j)
      PROVE  i = j
  <2> HIDE DEF n
  <2>1. i \in Nat /\ j \in Nat
    BY <1>1
  <2>2. i * c \in Nat /\ j * c \in Nat
    BY <1>1, <2>1, Multiples
  <2>3. i * c = j * c
    BY <1>4, <2>2
  <2>4. i < j => i * c + c <= j * c
    BY <1>1, <2>1, Multiples
  <2>5. j < i => j * c + c <= i * c
    BY <1>1, <2>1, Multiples
  <2> QED
    BY <1>1, <2>1, <2>2, <2>3, <2>4, <2>5
<1>5. at(0) = base
  BY <1>1
<1> HIDE DEF n, at, F
<1>6. \A i \in 1 .. n : i - 1 \in 0 .. n - 1 /\ L[i] = at(i - 1) /\ at(i - 1) \in F
  BY <1>1, <1>2
<1>7. L \in [1 .. n -> F]
  BY <1>6
<1>8. \A i \in 1 .. n - 1 : i + 1 \in 1 .. n /\ (i + 1) - 1 = i
  BY <1>1
<1>9. \A i \in 1 .. n - 1 : L[i + 1] = at(i)
  BY <1>8
<1> HIDE DEF L
<1>10. \A i \in 1 .. n : m[L[i]] = Pool!Pointer(IF i = n THEN Pool!Null ELSE L[i + 1])
  <2> SUFFICES ASSUME NEW i \in 1 .. n
               PROVE  m[L[i]] = Pool!Pointer(IF i = n THEN Pool!Null ELSE L[i + 1])
    OBVIOUS
  <2>1. m[L[i]] = Pool!Pointer(IF i - 1 = n - 1 THEN Pool!Null ELSE at((i - 1) + 1))
    BY <1>3, <1>6
  <2>2. (i - 1) + 1 = i /\ (i - 1 = n - 1 <=> i = n) /\ (i # n => i \in 1 .. n - 1)
    BY <1>1
  <2> QED
    BY <1>9, <2>1, <2>2
<1>11. \A i, j \in 1 .. n : L[i] = L[j] => i = j
  <2> SUFFICES ASSUME NEW i \in 1 .. n, NEW j \in 1 .. n, L[i] = L[j] PROVE i = j
    OBVIOUS
  <2>1. i - 1 = j - 1
    BY <1>4, <1>6
  <2> QED
    BY <1>1, <2>1
<1>12. \A p \in F : \E i \in 1 .. n : L[i] = p
  <2> SUFFICES ASSUME NEW p \in F PROVE \E i \in 1 .. n : L[i] = p
    OBVIOUS
  <2>1. PICK i \in 0 .. n - 1 : p = at(i)
    BY <1>2
  <2>2. i + 1 \in 1 .. n /\ (i + 1) - 1 = i
    BY <1>1
  <2> QED
    BY <1>6, <2>1, <2>2
<1>13. base = IF n = 0 THEN Pool!Null ELSE L[1]
  <2>1. 1 \in 1 .. n /\ 1 - 1 = 0
    BY <1>1
  <2> QED
    BY <1>1, <1>5, <1>6, <2>1
<1>14. Chain(base, m, F, n, L)
  BY <1>1, <1>7, <1>10, <1>11, <1>12, <1>13 DEF Chain
<1> QED
  BY <1>1, <1>7, <1>14 DEF Chained, F

LEMMA LinkedLinksUp ==
    ASSUME NEW c \in PoolSizes, free_chunks[c] = Pool!Null,
           NEW base \in Nat, base + c * Pool!ChunksPerBlock(c) <= HeapSize
    PROVE  /\ LinkedUp(Pool!Linked(c, base), c, base)
           /\ DOMAIN Pool!Linked(c, base) = Pool!Bytes
           /\ \A a \in Pool!Bytes : a < base => Pool!Linked(c, base)[a] = memory[a]
<1> DEFINE K == Pool!ChunksPerBlock(c)  m == Pool!Linked(c, base)  end == base + c * K
<1>1. c \in Nat \ {0} /\ K \in Nat \ {0} /\ Lowest \in Nat \ {0} /\ HeapSize \in Nat /\ Pool!Bytes = 0 .. HeapSize - 1
  BY PoolConstants, Chunked
<1>2. c * K \in Nat /\ c * K = K * c
  BY <1>1
<1> HIDE DEF K
<1>3. ASSUME NEW i \in 0 .. K - 1
      PROVE  m[base + i * c] = Pool!Pointer(IF i = K - 1 THEN Pool!Null ELSE base + (i + 1) * c)
  <2> DEFINE a == base + i * c
  <2>1. i \in Nat /\ i < K
    BY <1>1
  <2>2. /\ i * c \in Nat /\ i * c + c <= K * c /\ (i + 1) * c = i * c + c /\ (i * c) % c = 0
    BY <1>1, <2>1, Multiples
  <2>3. a \in Nat /\ base <= a /\ a + c <= end /\ a - base = i * c
    <3>1. c * K \in Nat /\ i * c \in Nat /\ i * c + c <= c * K
      BY <1>2, <2>2
    <3> QED
      BY <1>1, <3>1
  <2>4. (a - base) % c = 0 /\ a - ((a - base) % c) = a
    BY <2>2, <2>3
  <2>5. a + c < end <=> i # K - 1
    <3>1. CASE i = K - 1
      <4>1. i + 1 = K
        BY <1>1, <3>1
      <4>2. a + c = base + (i + 1) * c
        BY <1>1, <2>2
      <4> QED
        BY <1>2, <3>1, <4>1, <4>2
    <3>2. CASE i # K - 1
      <4>1. i + 1 \in Nat /\ i + 1 < K
        BY <1>1, <2>1, <3>2
      <4>2. (i + 1) * c + c <= K * c
        BY <1>1, <4>1, Multiples
      <4> QED
        BY <1>1, <1>2, <2>2, <3>2, <4>2
    <3> QED
      BY <3>1, <3>2
  <2>6. a + c = base + (i + 1) * c
    BY <1>1, <2>2
  <2>7. a \in Pool!Bytes /\ a \in Pool!Span(base, c * K)
    <3>1. a \in base .. base + c * K - 1
      BY <1>1, <1>2, <2>3
    <3>2. a <= HeapSize - 1
      BY <1>1, <1>2, <2>3 DEF K
    <3> QED
      BY <1>1, <2>3, <3>1, <3>2 DEF Pool!Span
  <2> HIDE DEF a
  <2>8. m[a] = Pool!Pointer(IF a + c < end THEN a + c ELSE free_chunks[c])
    <3>1. (a - base) % c < Lowest
      BY <1>1, <2>4
    <3> HIDE DEF m
    <3>2. m[a] = (LET chunk == a - ((a - base) % c)
                  IN  Pool!Pointer(IF chunk + c < end THEN chunk + c ELSE free_chunks[c]))
      BY <2>7, <3>1 DEF m, Pool!Linked, K
    <3> QED
      BY <2>4, <3>2
  <2>9. m[a] = Pool!Pointer(IF i = K - 1 THEN Pool!Null ELSE base + (i + 1) * c)
    <3> HIDE DEF m, end
    <3> QED
      BY <2>5, <2>6, <2>8
  <2> HIDE DEF m
  <2> QED
    BY <2>9 DEF a
<1>4. \A a \in Pool!Bytes : a < base => a \notin Pool!Span(base, c * K)
  BY <1>1, <1>2 DEF Pool!Span
<1>5. ASSUME NEW a \in Pool!Bytes, a < base PROVE m[a] = memory[a]
  BY <1>4, <1>5 DEF Pool!Linked, K
<1>6. DOMAIN m = Pool!Bytes
  BY DEF Pool!Linked
<1> HIDE DEF m
<1> QED
  BY <1>3, <1>5, <1>6 DEF m, LinkedUp, K

LEMMA CardinalityOf ==
    ASSUME NEW S
    PROVE  Pool!Cardinality(S) = Cardinality(S)
  BY Zenon DEF Pool!Cardinality, Cardinality

\* A walk of a whole free list meets its n chunks, then Null.
LEMMA WalkMeets ==
    ASSUME NEW c, NEW F, F \subseteq Pool!Bytes, NEW n, NEW L, Chain(free_chunks[c], memory, F, n, L),
           NEW N, N = Cardinality(Pool!Chunks(c)), N \in Nat, n <= N
    PROVE  \A k \in 0 .. N : Pool!Walk(c)[k] = IF k < n THEN L[k + 1] ELSE Pool!Null
<1> DEFINE step(p) == IF p \in Pool!Bytes /\ memory[p][1] = "next_chunk"
                      THEN Pool!NextChunk(memory, p) ELSE Pool!Null
           W == Pool!Walk(c)
           f == [k \in 0 .. N |-> IF k < n THEN L[k + 1] ELSE Pool!Null]
<1>1. n \in Nat /\ L \in [1 .. n -> F] /\ Pool!Null \notin Pool!Bytes
  BY PoolConstants DEF Chain
<1>2. \A i \in 1 .. n : step(L[i]) = IF i = n THEN Pool!Null ELSE L[i + 1]
  <2>1. \A i \in 1 .. n : L[i] \in Pool!Bytes /\ memory[L[i]] = Pool!Pointer(IF i = n THEN Pool!Null ELSE L[i + 1])
    BY <1>1 DEF Chain
  <2> QED
    BY <2>1 DEF Pool!Pointer, Pool!NextChunk
<1>3. step(Pool!Null) = Pool!Null
  BY <1>1
<1> HIDE DEF step
<1>4. f = [k \in 0 .. N |-> IF k = 0 THEN free_chunks[c] ELSE step(f[k - 1])]
  <2>1. ASSUME NEW k \in 0 .. N
        PROVE  f[k] = IF k = 0 THEN free_chunks[c] ELSE step(f[k - 1])
    <3>1. CASE k = 0
      <4>1. f[k] = IF 0 < n THEN L[0 + 1] ELSE Pool!Null
        BY <3>1
      <4>2. 0 < n <=> n # 0
        BY <1>1
      <4> QED
        BY <3>1, <4>1, <4>2 DEF Chain
    <3>2. CASE k # 0
      <4>1. k - 1 \in 0 .. N /\ (k - 1) + 1 = k
        BY <3>2
      <4>2. f[k - 1] = IF k - 1 < n THEN L[k] ELSE Pool!Null
        BY <4>1
      <4>3. f[k] = IF k < n THEN L[k + 1] ELSE Pool!Null
        OBVIOUS
      <4> HIDE DEF f
      <4>4. CASE k - 1 < n
        <5>1. k \in 1 .. n /\ (k < n <=> k # n)
          BY <1>1, <3>2, <4>4
        <5> QED
          BY <1>2, <3>2, <4>2, <4>3, <4>4, <5>1
      <4>5. CASE ~(k - 1 < n)
        <5>1. ~(k < n)
          BY <1>1, <4>5
        <5> QED
          BY <1>3, <3>2, <4>2, <4>3, <4>5, <5>1
      <4> QED
        BY <4>4, <4>5
    <3> QED
      BY <3>1, <3>2
  <2> QED
    BY <2>1
<1>5. W = [k \in 0 .. N |-> IF k = 0 THEN free_chunks[c] ELSE step(W[k - 1])]
  <2>1. W = CHOOSE g : g = [k \in 0 .. N |-> IF k = 0 THEN free_chunks[c] ELSE step(g[k - 1])]
    BY Zenon, CardinalityOf DEF Pool!Walk, step
  <2>2. \E g : g = [k \in 0 .. N |-> IF k = 0 THEN free_chunks[c] ELSE step(g[k - 1])]
    <3> HIDE DEF f
    <3> QED
      BY Zenon, <1>4
  <2> HIDE DEF W
  <2> QED
    BY Zenon, <2>1, <2>2
<1> HIDE DEF W
<1>6. ASSUME {k \in 0 .. N : W[k] # f[k]} # {} PROVE FALSE
  <2> DEFINE S == {k \in 0 .. N : W[k] # f[k]}
  <2>1. S \subseteq Nat /\ S # {}
    BY <1>6
  <2>2. PICK k \in S : \A z \in S : k <= z
    BY <2>1, Least
  <2>3. k \in 0 .. N /\ W[k] # f[k]
    OBVIOUS
  <2>4. W[k] = IF k = 0 THEN free_chunks[c] ELSE step(W[k - 1])
    BY <1>5, <2>3
  <2>5. f[k] = IF k = 0 THEN free_chunks[c] ELSE step(f[k - 1])
    <3> HIDE DEF f
    <3> QED
      BY <1>4, <2>3
  <2> HIDE DEF f
  <2>6. CASE k = 0
    BY <2>3, <2>4, <2>5, <2>6
  <2>7. CASE k # 0
    <3>1. k - 1 \in 0 .. N /\ ~(k <= k - 1)
      BY <2>3, <2>7
    <3>2. k - 1 \notin S
      BY <2>2, <3>1
    <3>3. W[k - 1] = f[k - 1]
      BY <3>1, <3>2
    <3> QED
      BY <2>3, <2>4, <2>5, <2>7, <3>3
  <2> QED
    BY <2>6, <2>7
<1>7. \A k \in 0 .. N : W[k] = f[k]
  <2> HIDE DEF f
  <2> QED
    BY <1>6
<1> QED
  BY <1>7 DEF W

\* Such a list, walked as many steps as it has chunks.
LEMMA WholeListIsWalked ==
    ASSUME NEW c, NEW F, F \subseteq Pool!Chunks(c), Pool!Chunks(c) \subseteq Pool!Bytes,
           Chained(free_chunks[c], memory, F)
    PROVE  /\ {Pool!Walk(c)[k] : k \in 0 .. Pool!Cardinality(F)} \ {Pool!Null} = F
           /\ Pool!Walk(c)[Pool!Cardinality(F)] = Pool!Null
<1>1. PICK n \in Nat : \E L \in [1 .. n -> F] : Chain(free_chunks[c], memory, F, n, L)
  BY DEF Chained
<1>2. PICK L \in [1 .. n -> F] : Chain(free_chunks[c], memory, F, n, L)
  BY <1>1
<1> DEFINE N == Cardinality(Pool!Chunks(c))  W == Pool!Walk(c)
<1>3. IsFiniteSet(Pool!Chunks(c)) /\ N \in Nat
  <2>1. HeapSize - 1 \in Int
    BY PoolConstants
  <2>2. IsFiniteSet(Pool!Bytes)
    BY <2>1, PoolConstants, FS_Interval
  <2>3. IsFiniteSet(Pool!Chunks(c))
    BY <2>2, FS_Subset
  <2> QED
    BY <2>3, FS_CardinalityType
<1>4. Cardinality(F) = n /\ n <= N
  <2>1. IsFiniteSet(1 .. n) /\ Cardinality(1 .. n) = n
    <3>1. \A i \in Nat : IsFiniteSet(1 .. i) /\ Cardinality(1 .. i) = IF 1 > i THEN 0 ELSE i - 1 + 1
      BY FS_Interval
    <3>2. \A i \in Nat : (IF 1 > i THEN 0 ELSE i - 1 + 1) = i
      OBVIOUS
    <3> QED
      BY <3>1, <3>2
  <2>2. L \in Bijection(1 .. n, F)
    <3>1. L \in Injection(1 .. n, F)
      BY <1>2 DEF Chain, Injection, IsInjective
    <3>2. L \in Surjection(1 .. n, F)
      BY <1>2 DEF Chain, Surjection
    <3> QED
      BY <3>1, <3>2 DEF Bijection
  <2>3. ExistsBijection(1 .. n, F)
    BY <2>2 DEF ExistsBijection
  <2>4. Cardinality(F) = n
    BY <2>1, <2>3, FS_Bijection
  <2>5. Cardinality(F) <= N
    BY <1>3, FS_Subset
  <2> QED
    BY <2>4, <2>5
<1> HIDE DEF N
<1>5. \A k \in 0 .. N : W[k] = IF k < n THEN L[k + 1] ELSE Pool!Null
  BY <1>2, <1>3, <1>4, WalkMeets DEF N
<1> HIDE DEF W
<1>6. \A k \in 0 .. n : W[k] = IF k < n THEN L[k + 1] ELSE Pool!Null
  BY <1>3, <1>4, <1>5
<1>7. W[n] = Pool!Null
  BY <1>6
<1>8. ASSUME NEW k \in 0 .. n, W[k] # Pool!Null PROVE W[k] \in F
  <2>1. k < n /\ k + 1 \in 1 .. n
    BY <1>6, <1>8
  <2> QED
    BY <1>6, <2>1
<1>9. ASSUME NEW p \in F PROVE p # Pool!Null /\ \E k \in 0 .. n : W[k] = p
  <2>1. PICK i \in 1 .. n : L[i] = p
    BY <1>2 DEF Chain
  <2>2. i - 1 \in 0 .. n /\ i - 1 < n /\ (i - 1) + 1 = i
    OBVIOUS
  <2>3. W[i - 1] = p
    BY <1>6, <2>1, <2>2
  <2> QED
    BY <2>2, <2>3, PoolConstants
<1>10. {W[k] : k \in 0 .. n} \ {Pool!Null} = F
  BY <1>8, <1>9
<1> QED
  BY <1>4, <1>7, <1>10, CardinalityOf DEF W

----------------------------------------------------------------------------
(***************************************************************************)
(* The heap, seen as cells: <<address, width>>, one for each chunk of each *)
(* pool and one for each object that has memory of its own.                *)
(***************************************************************************)
Object == [addr : Pool!Bytes, size : ObjectSizes, deleter : ObjectSizes]

\* The cell an object lies in.
House(b) == <<b.addr, IF b.size <= Pool!MaxTypeSize THEN Pool!PoolOf(b.size) ELSE b.size>>

Within(z) == Pool!Span(z[1], z[2])

\* The cells C lie below t and do not overlap.
Tiled(C, t) ==
    /\ C \subseteq Nat \X (Nat \ {0})
    /\ \A z \in C : z[1] + z[2] <= t
    /\ \A z, w \in C : z = w \/ z[1] + z[2] <= w[1] \/ w[1] + w[2] <= z[1]

\* Each of the objects has a cell of its own.
Housed(C, obs) ==
    /\ \A o \in DOMAIN obs : obs[o] \in Object /\ obs[o].deleter = obs[o].size /\ House(obs[o]) \in C
    /\ \A o, q \in DOMAIN obs : House(obs[o]) = House(obs[q]) => o = q

Vacant(obs, z) == \A o \in DOMAIN obs : House(obs[o]) # z

Intact(m, obs) ==
    \A o \in DOMAIN obs :
        \A a \in Pool!Span(obs[o].addr, obs[o].size) : a \in Pool!Bytes /\ m[a] = Pool!Data(o)

FreeIn(C, obs, c) == {p \in Nat : <<p, c>> \in C /\ Vacant(obs, <<p, c>>)}

Listed(fc, C, m, obs) == \A c \in PoolSizes : Chained(fc[c], m, FreeIn(C, obs, c))

Managed(fc, C, m, t, obs) ==
    /\ fc \in [PoolSizes -> Pool!Bytes \cup {Pool!Null}] /\ DOMAIN m = Pool!Bytes
    /\ t \in 0 .. HeapSize /\ DOMAIN obs \subseteq Pool!Ids
    /\ Tiled(C, t) /\ Housed(C, obs) /\ Intact(m, obs) /\ Listed(fc, C, m, obs)

LEMMA HouseFits ==
    ASSUME NEW b \in Object
    PROVE  /\ b.addr \in Nat /\ b.size \in Nat \ {0} /\ b.deleter \in Nat \ {0}
           /\ House(b)[1] = b.addr /\ House(b)[2] \in Nat \ {0} /\ b.size <= House(b)[2]
           /\ House(b) = <<House(b)[1], House(b)[2]>>
           /\ b.size <= Pool!MaxTypeSize => Pool!PoolOf(b.size) \in PoolSizes /\ House(b) = <<b.addr, Pool!PoolOf(b.size)>>
           /\ b.size > Pool!MaxTypeSize => House(b) = <<b.addr, b.size>> /\ b.size \notin PoolSizes
<1>1. b.addr \in Nat /\ b.size \in Nat \ {0} /\ b.deleter \in Nat \ {0}
  <2>1. b.addr \in Pool!Bytes /\ b.size \in ObjectSizes /\ b.deleter \in ObjectSizes
    BY DEF Object
  <2>2. \A a \in Pool!Bytes : a \in Nat
    BY PoolConstants
  <2> QED
    BY <2>1, <2>2, PoolConstants
<1>2. Pool!MaxTypeSize \in Nat /\ PoolSizes \subseteq Nat \ {0}
  BY PoolConstants
<1>3. CASE b.size <= Pool!MaxTypeSize
  <2>1. Pool!PoolOf(b.size) \in PoolSizes /\ b.size <= Pool!PoolOf(b.size)
    BY <1>1, <1>3, PoolFits
  <2>2. House(b) = <<b.addr, Pool!PoolOf(b.size)>>
    BY <1>3 DEF House
  <2>3. ~(b.size > Pool!MaxTypeSize)
    BY <1>1, <1>2, <1>3
  <2> QED
    BY <1>1, <1>2, <2>1, <2>2, <2>3
<1>4. CASE ~(b.size <= Pool!MaxTypeSize)
  <2>1. House(b) = <<b.addr, b.size>>
    BY <1>4 DEF House
  <2>2. b.size \notin PoolSizes
    BY <1>4, PoolConstants
  <2>3. b.size <= b.size
    BY <1>1
  <2> QED
    BY <1>1, <1>4, <2>1, <2>2, <2>3
<1> QED
  BY <1>3, <1>4

LEMMA CellFacts ==
    ASSUME NEW C, NEW t \in Int, Tiled(C, t), NEW z \in C
    PROVE  /\ z = <<z[1], z[2]>> /\ z[1] \in Nat /\ z[2] \in Nat \ {0} /\ z[1] + z[2] <= t
           /\ z[1] \in Within(z) /\ \A a \in Within(z) : a \in Nat /\ z[1] <= a /\ a < z[1] + z[2]
<1>1. z \in Nat \X (Nat \ {0}) /\ z[1] + z[2] <= t
  BY DEF Tiled
<1>2. z = <<z[1], z[2]>> /\ z[1] \in Nat /\ z[2] \in Nat \ {0}
  BY <1>1
<1>3. z[1] \in Within(z) /\ \A a \in Within(z) : a \in Nat /\ z[1] <= a /\ a < z[1] + z[2]
  BY <1>2 DEF Within, Pool!Span
<1> QED
  BY <1>1, <1>2, <1>3

LEMMA CellsApart ==
    ASSUME NEW C, NEW t \in Int, Tiled(C, t), NEW z \in C, NEW w \in C, z # w, NEW a \in Within(z)
    PROVE  a \notin Within(w)
<1>1. z[1] + z[2] <= w[1] \/ w[1] + w[2] <= z[1]
  BY DEF Tiled
<1>2. z[1] \in Nat /\ z[2] \in Nat /\ w[1] \in Nat /\ w[2] \in Nat /\ a \in Nat /\ z[1] <= a /\ a < z[1] + z[2]
  BY CellFacts
<1>3. \A b \in Within(w) : b \in Nat /\ w[1] <= b /\ b < w[1] + w[2]
  BY CellFacts
<1> QED
  BY <1>1, <1>2, <1>3

LEMMA ObjectWithin ==
    ASSUME NEW C, NEW obs, Housed(C, obs), NEW o \in DOMAIN obs, NEW a \in Pool!Span(obs[o].addr, obs[o].size)
    PROVE  a \in Within(House(obs[o]))
<1> DEFINE b == obs[o]
<1>1. b \in Object
  BY DEF Housed
<1> HIDE DEF b
<1>2. b.addr \in Nat /\ b.size \in Nat /\ House(b)[1] = b.addr /\ House(b)[2] \in Nat /\ b.size <= House(b)[2]
  BY <1>1, HouseFits
<1>3. a \in Pool!Span(b.addr, b.size)
  BY DEF b
<1>4. a \in Within(House(b))
  BY <1>2, <1>3 DEF Within, Pool!Span
<1> QED
  BY <1>4 DEF b

\* What is written into a cell is seen in no other.
Outside(m, m2, z) == \A a \in Pool!Bytes : a \notin Within(z) => m2[a] = m[a]

LEMMA ObjectsStay ==
    ASSUME NEW C, NEW t \in Int, Tiled(C, t), NEW obs, Housed(C, obs), NEW m, Intact(m, obs),
           NEW z \in C, Vacant(obs, z), NEW m2, Outside(m, m2, z)
    PROVE  Intact(m2, obs)
<1> SUFFICES ASSUME NEW o \in DOMAIN obs, NEW a \in Pool!Span(obs[o].addr, obs[o].size)
             PROVE  a \in Pool!Bytes /\ m2[a] = Pool!Data(o)
  BY DEF Intact
<1>1. House(obs[o]) \in C /\ House(obs[o]) # z
  BY DEF Housed, Vacant
<1>2. a \in Within(House(obs[o]))
  BY ObjectWithin
<1>3. a \notin Within(z)
  BY <1>1, <1>2, CellsApart
<1>4. a \in Pool!Bytes /\ m[a] = Pool!Data(o)
  BY DEF Intact
<1> QED
  BY <1>3, <1>4 DEF Outside

LEMMA OtherCellsStay ==
    ASSUME NEW C, NEW t \in 0 .. HeapSize, Tiled(C, t), NEW z \in C, NEW m, NEW m2, Outside(m, m2, z),
           NEW c \in PoolSizes, NEW F, F \subseteq Nat, \A p \in F : <<p, c>> \in C /\ <<p, c>> # z
    PROVE  Same(m, m2, F)
<1> SUFFICES ASSUME NEW p \in F PROVE m2[p] = m[p]
  BY DEF Same
<1> DEFINE w == <<p, c>>
<1>1. w \in C /\ w # z /\ w[1] = p
  OBVIOUS
<1> HIDE DEF w
<1>2. t \in Int /\ t <= HeapSize /\ HeapSize \in Nat
  BY PoolConstants
<1>3. p \in Within(w) /\ w[1] + w[2] <= t /\ p \in Nat /\ w[2] \in Nat \ {0}
  BY <1>1, <1>2, CellFacts
<1>4. p \notin Within(z)
  BY <1>1, <1>2, <1>3, CellsApart
<1>5. p \in Pool!Bytes
  BY <1>1, <1>2, <1>3, PoolConstants
<1> QED
  BY <1>4, <1>5 DEF Outside

----------------------------------------------------------------------------
(***************************************************************************)
(* The operations.                                                         *)
(***************************************************************************)
\* The list of pool c starts at p now.
Relinked(fc, fc2, c, p) ==
    /\ DOMAIN fc2 = PoolSizes /\ fc2 = [d \in PoolSizes |-> fc2[d]]
    /\ fc2[c] = p /\ \A d \in PoolSizes \ {c} : fc2[d] = fc[d]

\* Object o is built as b, and o is gone.
Joined(obs, obs2, o, b) ==
    /\ DOMAIN obs2 = DOMAIN obs \cup {o} /\ obs2[o] = b
    /\ \A q \in DOMAIN obs : obs2[q] = obs[q]

Left(obs, obs2, o) ==
    /\ DOMAIN obs2 = DOMAIN obs \ {o}
    /\ \A q \in DOMAIN obs2 : obs2[q] = obs[q]

LEMMA RelinkedType ==
    ASSUME NEW fc \in [PoolSizes -> Pool!Bytes \cup {Pool!Null}], NEW c \in PoolSizes,
           NEW p \in Pool!Bytes \cup {Pool!Null}, NEW fc2, Relinked(fc, fc2, c, p)
    PROVE  fc2 \in [PoolSizes -> Pool!Bytes \cup {Pool!Null}]
<1>1. \A d \in PoolSizes : fc2[d] \in Pool!Bytes \cup {Pool!Null}
  BY DEF Relinked
<1>2. fc2 = [d \in PoolSizes |-> fc2[d]]
  BY DEF Relinked
<1> QED
  BY <1>1, <1>2

\* The pointer behind a free chunk is one to a chunk, or Null.
LEMMA ChainStarts ==
    ASSUME NEW first, NEW m, NEW F, Chained(first, m, F)
    PROVE  first \in F \cup {Pool!Null}
<1>0. PICK n \in Nat : \E L \in [1 .. n -> F] : Chain(first, m, F, n, L)
  BY DEF Chained
<1>1. PICK L \in [1 .. n -> F] : Chain(first, m, F, n, L)
  BY <1>0
<1>2. n # 0 => 1 \in 1 .. n
  OBVIOUS
<1> QED
  BY <1>1, <1>2 DEF Chain

LEMMA FreeFacts ==
    ASSUME NEW C, NEW obs, NEW t \in 0 .. HeapSize, Tiled(C, t), NEW c \in PoolSizes, NEW p \in FreeIn(C, obs, c)
    PROVE  p \in Nat /\ p \in Pool!Bytes /\ <<p, c>> \in C /\ Vacant(obs, <<p, c>>) /\ p + c <= t
<1>1. p \in Nat /\ <<p, c>> \in C /\ Vacant(obs, <<p, c>>)
  BY DEF FreeIn
<1> DEFINE w == <<p, c>>
<1>2. w[1] = p /\ w[2] = c /\ w \in C
  BY <1>1
<1> HIDE DEF w
<1>3. t \in Int /\ t <= HeapSize /\ HeapSize \in Nat
  BY PoolConstants
<1>4. p + c <= t /\ c \in Nat \ {0}
  BY <1>2, <1>3, CellFacts
<1>5. p \in Pool!Bytes
  BY <1>1, <1>3, <1>4, PoolConstants
<1> QED
  BY <1>1, <1>4, <1>5

\* An object built in a vacant cell.
LEMMA Settles ==
    ASSUME NEW C, NEW t \in 0 .. HeapSize, Tiled(C, t), NEW obs, Housed(C, obs), NEW m, Intact(m, obs),
           NEW b \in Object, b.deleter = b.size, House(b) \in C, Vacant(obs, House(b)),
           NEW o, o \notin DOMAIN obs, NEW obs2, Joined(obs, obs2, o, b),
           NEW m2, m2 = Pool!Written(m, b.addr, b.size, Pool!Data(o))
    PROVE  Housed(C, obs2) /\ Intact(m2, obs2) /\ Outside(m, m2, House(b))
<1>1. /\ b.addr \in Nat /\ b.size \in Nat \ {0} /\ House(b)[1] = b.addr
      /\ House(b)[2] \in Nat \ {0} /\ b.size <= House(b)[2]
  BY HouseFits
<1>2. t \in Int /\ t <= HeapSize /\ HeapSize \in Nat
  BY PoolConstants
<1>3. House(b)[1] + House(b)[2] <= t
  BY <1>2, CellFacts
<1>4. \A a \in Pool!Span(b.addr, b.size) : a \in Pool!Bytes /\ a \in Within(House(b))
  <2>1. \A a \in Pool!Span(b.addr, b.size) : a \in Nat /\ b.addr <= a /\ a < b.addr + b.size
    BY <1>1 DEF Pool!Span
  <2>2. ASSUME NEW a \in Pool!Span(b.addr, b.size) PROVE a \in Pool!Bytes
    BY <1>1, <1>2, <1>3, <2>1, PoolConstants
  <2>3. ASSUME NEW a \in Pool!Span(b.addr, b.size) PROVE a \in Within(House(b))
    <3>1. a \in House(b)[1] .. House(b)[1] + House(b)[2] - 1
      BY <1>1, <2>1
    <3> QED
      BY <3>1 DEF Within, Pool!Span
  <2> QED
    BY <2>2, <2>3
<1>5. Outside(m, m2, House(b))
  BY <1>4 DEF Outside, Pool!Written
<1>6. Intact(m2, obs)
  BY <1>2, <1>5, ObjectsStay
<1>7. \A a \in Pool!Span(b.addr, b.size) : m2[a] = Pool!Data(o)
  BY <1>4 DEF Pool!Written
<1>8. Intact(m2, obs2)
  <2> SUFFICES ASSUME NEW q \in DOMAIN obs2, NEW a \in Pool!Span(obs2[q].addr, obs2[q].size)
               PROVE  a \in Pool!Bytes /\ m2[a] = Pool!Data(q)
    BY DEF Intact
  <2>1. CASE q = o
    BY <1>4, <1>7, <2>1 DEF Joined
  <2>2. CASE q # o
    <3>1. q \in DOMAIN obs /\ obs2[q] = obs[q]
      BY <2>2 DEF Joined
    <3> QED
      BY <1>6, <3>1 DEF Intact
  <2> QED
    BY <2>1, <2>2
<1>9. Housed(C, obs2)
  <2>1. ASSUME NEW q \in DOMAIN obs2
        PROVE  obs2[q] \in Object /\ obs2[q].deleter = obs2[q].size /\ House(obs2[q]) \in C
    <3>1. CASE q = o
      BY <3>1 DEF Joined
    <3>2. CASE q # o
      <4>1. q \in DOMAIN obs /\ obs2[q] = obs[q]
        BY <3>2 DEF Joined
      <4> QED
        BY <4>1 DEF Housed
    <3> QED
      BY <3>1, <3>2
  <2>2. ASSUME NEW q \in DOMAIN obs2, NEW r \in DOMAIN obs2, House(obs2[q]) = House(obs2[r])
        PROVE  q = r
    <3>1. \A u \in DOMAIN obs2 : (u = o /\ obs2[u] = b) \/ (u # o /\ u \in DOMAIN obs /\ obs2[u] = obs[u])
      BY DEF Joined
    <3>2. \A u \in DOMAIN obs : House(obs[u]) # House(b)
      BY DEF Vacant
    <3>3. \A u, v \in DOMAIN obs : House(obs[u]) = House(obs[v]) => u = v
      BY DEF Housed
    <3> QED
      BY <2>2, <3>1, <3>2, <3>3
  <2> QED
    BY <2>1, <2>2 DEF Housed
<1> QED
  BY <1>5, <1>8, <1>9

\* An object more takes its cell from the free ones, and no other.
LEMMA FreeWhenJoined ==
    ASSUME NEW C, NEW obs, NEW o, o \notin DOMAIN obs, NEW b, NEW obs2, Joined(obs, obs2, o, b), NEW c
    PROVE  FreeIn(C, obs2, c) = {p \in FreeIn(C, obs, c) : House(b) # <<p, c>>}
<1>1. \A z : Vacant(obs2, z) <=> Vacant(obs, z) /\ House(b) # z
  <2> TAKE z
  <2>1. ASSUME Vacant(obs2, z) PROVE Vacant(obs, z) /\ House(b) # z
    <3>1. o \in DOMAIN obs2 /\ obs2[o] = b /\ \A q \in DOMAIN obs : q \in DOMAIN obs2 /\ obs2[q] = obs[q]
      BY DEF Joined
    <3>2. \A q \in DOMAIN obs2 : House(obs2[q]) # z
      BY <2>1 DEF Vacant
    <3> QED
      BY <3>1, <3>2 DEF Vacant
  <2>2. ASSUME Vacant(obs, z), House(b) # z PROVE Vacant(obs2, z)
    <3>1. \A u \in DOMAIN obs2 : obs2[u] = b \/ (u \in DOMAIN obs /\ obs2[u] = obs[u])
      BY DEF Joined
    <3>2. \A q \in DOMAIN obs : House(obs[q]) # z
      BY <2>2 DEF Vacant
    <3> QED
      BY <2>2, <3>1, <3>2 DEF Vacant
  <2> QED
    BY <2>1, <2>2
<1> QED
  BY <1>1 DEF FreeIn

\* allocate from a pool that has a free chunk.
LEMMA TakesChunk ==
    ASSUME NEW fc, NEW C, NEW m, NEW t, NEW obs, Managed(fc, C, m, t, obs),
           NEW b \in Object, b.deleter = b.size, b.size <= Pool!MaxTypeSize,
           NEW c \in PoolSizes, c = Pool!PoolOf(b.size), fc[c] # Pool!Null, b.addr = fc[c],
           NEW o \in Pool!Ids, o \notin DOMAIN obs, NEW obs2, Joined(obs, obs2, o, b),
           NEW m2, m2 = Pool!Written(m, fc[c], b.size, Pool!Data(o)),
           NEW fc2, Relinked(fc, fc2, c, Pool!NextChunk(m, fc[c]))
    PROVE  Managed(fc2, C, m2, t, obs2)
<1> DEFINE F(d) == FreeIn(C, obs, d)  first == fc[c]
<1>1. /\ t \in 0 .. HeapSize /\ Tiled(C, t) /\ Housed(C, obs) /\ Intact(m, obs) /\ Listed(fc, C, m, obs)
      /\ fc \in [PoolSizes -> Pool!Bytes \cup {Pool!Null}] /\ DOMAIN obs \subseteq Pool!Ids
  BY DEF Managed
<1>2. \A d \in PoolSizes : Chained(fc[d], m, F(d))
  BY <1>1 DEF Listed
<1> HIDE DEF F
<1>3. first \in F(c) /\ Chained(Pool!NextChunk(m, first), m, F(c) \ {first})
  <2>1. Chained(first, m, F(c))
    BY <1>2
  <2> HIDE DEF first
  <2> QED
    BY <2>1, ChainPop DEF first
<1>4. House(b) = <<first, c>>
  BY HouseFits
<1>5. \A d \in PoolSizes : \A p \in F(d) : p \in Nat /\ p \in Pool!Bytes /\ <<p, d>> \in C /\ Vacant(obs, <<p, d>>)
  BY <1>1, FreeFacts DEF F
<1>6. House(b) \in C /\ Vacant(obs, House(b))
  BY <1>3, <1>4, <1>5
<1>7. Housed(C, obs2) /\ Intact(m2, obs2) /\ Outside(m, m2, House(b))
  BY <1>1, <1>6, Settles
<1>8. \A d : FreeIn(C, obs2, d) = {p \in F(d) : House(b) # <<p, d>>}
  BY FreeWhenJoined DEF F
<1>9. FreeIn(C, obs2, c) = F(c) \ {first}
  <2>1. \A p : House(b) # <<p, c>> <=> p # first
    BY <1>4
  <2> QED
    BY <1>8, <2>1
<1>10. ASSUME NEW d \in PoolSizes, d # c PROVE FreeIn(C, obs2, d) = F(d)
  <2>1. \A p : House(b) # <<p, d>>
    BY <1>4, <1>10
  <2> QED
    BY <1>8, <2>1
<1>11. ASSUME NEW d \in PoolSizes PROVE Same(m, m2, FreeIn(C, obs2, d))
  <2>1. FreeIn(C, obs2, d) \subseteq Nat
    BY DEF FreeIn
  <2>2. \A p \in FreeIn(C, obs2, d) : <<p, d>> \in C /\ <<p, d>> # House(b)
    BY <1>5, <1>8
  <2> QED
    BY <1>1, <1>6, <1>7, <2>1, <2>2, OtherCellsStay
<1>12. Listed(fc2, C, m2, obs2)
  <2> SUFFICES ASSUME NEW d \in PoolSizes PROVE Chained(fc2[d], m2, FreeIn(C, obs2, d))
    BY DEF Listed
  <2>1. Chained(fc2[d], m, FreeIn(C, obs2, d))
    <3>1. CASE d = c
      BY <1>3, <1>9, <3>1 DEF Relinked
    <3>2. CASE d # c
      BY <1>2, <1>10, <3>2 DEF Relinked
    <3> QED
      BY <3>1, <3>2
  <2> QED
    BY <1>11, <2>1, ChainStays
<1>13. fc2 \in [PoolSizes -> Pool!Bytes \cup {Pool!Null}]
  <2>1. Pool!NextChunk(m, first) \in (F(c) \ {first}) \cup {Pool!Null}
    BY <1>3, ChainStarts
  <2>2. Pool!NextChunk(m, first) \in Pool!Bytes \cup {Pool!Null}
    BY <1>5, <2>1
  <2> QED
    BY <1>1, <2>2, RelinkedType
<1>14. DOMAIN obs2 \subseteq Pool!Ids /\ DOMAIN m2 = Pool!Bytes
  BY <1>1 DEF Joined, Pool!Written
<1> QED
  BY <1>1, <1>7, <1>12, <1>13, <1>14 DEF Managed

\* An object that gets memory of its own.
LEMMA TakesOwn ==
    ASSUME NEW fc, NEW C, NEW m, NEW t, NEW obs, Managed(fc, C, m, t, obs),
           NEW b \in Object, b.deleter = b.size, b.size > Pool!MaxTypeSize, b.addr = t, t + b.size <= HeapSize,
           NEW o \in Pool!Ids, o \notin DOMAIN obs, NEW obs2, Joined(obs, obs2, o, b),
           NEW m2, m2 = Pool!Written(m, t, b.size, Pool!Data(o))
    PROVE  Managed(fc, C \cup {<<t, b.size>>}, m2, t + b.size, obs2)
<1> DEFINE z == <<t, b.size>>  C2 == C \cup {z}  t2 == t + b.size
<1>1. /\ t \in 0 .. HeapSize /\ Tiled(C, t) /\ Housed(C, obs) /\ Intact(m, obs) /\ Listed(fc, C, m, obs)
      /\ fc \in [PoolSizes -> Pool!Bytes \cup {Pool!Null}] /\ DOMAIN obs \subseteq Pool!Ids
  BY DEF Managed
<1>2. b.size \in Nat \ {0} /\ b.size \notin PoolSizes /\ House(b) = z
  BY HouseFits
<1>3. t2 \in 0 .. HeapSize /\ t \in Int /\ t <= t2 /\ z[1] = t /\ z[2] = b.size /\ z \in Nat \X (Nat \ {0})
  BY <1>1, <1>2, PoolConstants
<1>4. ASSUME NEW w \in C PROVE w[1] + w[2] <= z[1] /\ w[1] + w[2] <= t2 /\ w # z
  <2>1. w[1] \in Nat /\ w[2] \in Nat \ {0} /\ w[1] + w[2] <= t
    BY <1>1, <1>3, CellFacts
  <2> HIDE DEF z, t2
  <2> QED
    BY <1>1, <1>3, <2>1
<1> HIDE DEF z
<1>5. Tiled(C2, t2)
  <2>1. C2 \subseteq Nat \X (Nat \ {0})
    BY <1>1, <1>3 DEF Tiled
  <2>2. \A w \in C2 : w[1] + w[2] <= t2
    BY <1>3, <1>4
  <2>3. ASSUME NEW v \in C2, NEW w \in C2 PROVE v = w \/ v[1] + v[2] <= w[1] \/ w[1] + w[2] <= v[1]
    <3>1. CASE v = z \/ w = z
      BY <1>4, <3>1
    <3>2. CASE v \in C /\ w \in C
      BY <1>1, <3>2 DEF Tiled
    <3> QED
      BY <3>1, <3>2
  <2> QED
    BY <2>1, <2>2, <2>3 DEF Tiled
<1>6. Housed(C2, obs)
  BY <1>1 DEF Housed
<1>7. Vacant(obs, House(b)) /\ House(b) \in C2
  <2>1. \A q \in DOMAIN obs : House(obs[q]) \in C
    BY <1>1 DEF Housed
  <2> QED
    BY <1>2, <1>4, <2>1 DEF Vacant
<1> HIDE DEF C2, t2
<1>8. Housed(C2, obs2) /\ Intact(m2, obs2) /\ Outside(m, m2, House(b))
  BY <1>1, <1>3, <1>5, <1>6, <1>7, Settles
<1>9. ASSUME NEW d \in PoolSizes PROVE FreeIn(C2, obs2, d) = FreeIn(C, obs, d)
  <2>1. \A p : House(b) # <<p, d>>
    BY <1>2 DEF z
  <2>2. FreeIn(C2, obs2, d) = FreeIn(C2, obs, d)
    <3>1. FreeIn(C2, obs2, d) = {p \in FreeIn(C2, obs, d) : House(b) # <<p, d>>}
      BY FreeWhenJoined
    <3> QED
      BY <2>1, <3>1
  <2>3. \A p : <<p, d>> \in C2 <=> <<p, d>> \in C
    BY <1>2, <2>1 DEF C2
  <2> QED
    BY <2>2, <2>3 DEF FreeIn
<1>10. ASSUME NEW d \in PoolSizes PROVE Same(m, m2, FreeIn(C, obs, d))
  <2>1. FreeIn(C, obs, d) \subseteq Nat
    BY DEF FreeIn
  <2>2. \A p \in FreeIn(C, obs, d) : <<p, d>> \in C2 /\ <<p, d>> # House(b)
    BY <1>2, <1>4 DEF FreeIn, C2
  <2> QED
    BY <1>3, <1>5, <1>7, <1>8, <2>1, <2>2, OtherCellsStay
<1>11. Listed(fc, C2, m2, obs2)
  <2> SUFFICES ASSUME NEW d \in PoolSizes PROVE Chained(fc[d], m2, FreeIn(C2, obs2, d))
    BY DEF Listed
  <2>1. Chained(fc[d], m, FreeIn(C, obs, d))
    BY <1>1 DEF Listed
  <2>2. Chained(fc[d], m2, FreeIn(C, obs, d))
    BY <1>10, <2>1, ChainStays
  <2> QED
    BY <1>9, <2>2
<1>12. DOMAIN obs2 \subseteq Pool!Ids /\ DOMAIN m2 = Pool!Bytes
  BY <1>1 DEF Joined, Pool!Written
<1>13. Managed(fc, C2, m2, t2, obs2)
  BY <1>1, <1>3, <1>5, <1>8, <1>11, <1>12 DEF Managed
<1> QED
  BY <1>13 DEF C2, z, t2

\* A block more for pool c, whose list was empty.
NewCells(c, base) == {<<p, c>> : p \in BlockChunks(c, base)}

LEMMA AddsBlock ==
    ASSUME NEW fc, NEW C, NEW m, NEW t, NEW obs, Managed(fc, C, m, t, obs),
           NEW c \in PoolSizes, fc[c] = Pool!Null,
           NEW t2, t2 = t + c * Pool!ChunksPerBlock(c), t2 <= HeapSize,
           NEW m2, LinkedUp(m2, c, t), DOMAIN m2 = Pool!Bytes, \A a \in Pool!Bytes : a < t => m2[a] = m[a],
           NEW fc2, Relinked(fc, fc2, c, t)
    PROVE  Managed(fc2, C \cup NewCells(c, t), m2, t2, obs)
<1> DEFINE B == BlockChunks(c, t)  N == NewCells(c, t)  C2 == C \cup N
<1>1. /\ t \in 0 .. HeapSize /\ Tiled(C, t) /\ Housed(C, obs) /\ Intact(m, obs) /\ Listed(fc, C, m, obs)
      /\ fc \in [PoolSizes -> Pool!Bytes \cup {Pool!Null}] /\ DOMAIN obs \subseteq Pool!Ids
  BY DEF Managed
<1>2. c \in Nat \ {0} /\ HeapSize \in Nat /\ t \in Nat
  BY <1>1, PoolConstants
<1>3. t \in B /\ \A p \in B : p \in Nat /\ t <= p /\ p + c <= t2
  BY <1>2, ChunksOfBlock
<1>4. \A p, q \in B : p = q \/ p + c <= q \/ q + c <= p
  BY <1>2, ChunksOfBlock
<1>5. t2 \in 0 .. HeapSize /\ t < t2
  <2>1. t + c <= t2
    BY <1>3
  <2>2. c * Pool!ChunksPerBlock(c) \in Int
    BY <1>2, Chunked
  <2>3. t2 \in Int
    BY <1>2, <2>2
  <2> QED
    BY <1>2, <2>1, <2>3
<1> HIDE DEF B
<1>6. ASSUME NEW w \in C PROVE w[1] \in Nat /\ w[2] \in Nat \ {0} /\ w[1] + w[2] <= t /\ w[1] + w[2] <= t2
  <2>1. w[1] \in Nat /\ w[2] \in Nat \ {0} /\ w[1] + w[2] <= t
    BY <1>1, <1>2, CellFacts
  <2> QED
    BY <1>2, <1>5, <2>1
<1>7. ASSUME NEW z \in N
      PROVE  /\ z[1] \in B /\ z[2] = c /\ z = <<z[1], c>> /\ z \in Nat \X (Nat \ {0})
             /\ t <= z[1] /\ z[1] + z[2] <= t2 /\ z \notin C
  <2>1. PICK p \in B : z = <<p, c>>
    BY DEF NewCells, B
  <2>2. z[1] = p /\ z[2] = c /\ p \in Nat /\ t <= p /\ p + c <= t2
    BY <1>3, <2>1
  <2>3. z \notin C
    BY <1>2, <1>6, <2>2
  <2> QED
    BY <1>2, <2>1, <2>2, <2>3
<1> HIDE DEF N
<1>8. Tiled(C2, t2)
  <2>1. C2 \subseteq Nat \X (Nat \ {0})
    BY <1>1, <1>7 DEF Tiled
  <2>2. \A w \in C2 : w[1] + w[2] <= t2
    BY <1>6, <1>7
  <2>3. ASSUME NEW v \in C2, NEW w \in C2 PROVE v = w \/ v[1] + v[2] <= w[1] \/ w[1] + w[2] <= v[1]
    <3>1. CASE v \in C /\ w \in C
      BY <1>1, <3>1 DEF Tiled
    <3>2. CASE v \in C /\ w \in N
      <4>1. v[1] \in Nat /\ v[2] \in Nat /\ v[1] + v[2] <= t /\ t <= w[1] /\ w[1] \in B
        BY <1>6, <1>7, <3>2
      <4>2. w[1] \in Nat
        BY <1>3, <4>1
      <4>3. v[1] + v[2] <= w[1]
        BY <1>2, <4>1, <4>2
      <4> QED
        BY <4>3
    <3>3. CASE v \in N /\ w \in C
      <4>1. w[1] \in Nat /\ w[2] \in Nat /\ w[1] + w[2] <= t /\ t <= v[1] /\ v[1] \in B
        BY <1>6, <1>7, <3>3
      <4>2. v[1] \in Nat
        BY <1>3, <4>1
      <4>3. w[1] + w[2] <= v[1]
        BY <1>2, <4>1, <4>2
      <4> QED
        BY <4>3
    <3>4. CASE v \in N /\ w \in N
      <4>1. v = <<v[1], c>> /\ w = <<w[1], c>> /\ v[2] = c /\ w[2] = c /\ v[1] \in B /\ w[1] \in B
        BY <1>7, <3>4
      <4>2. v[1] = w[1] \/ v[1] + c <= w[1] \/ w[1] + c <= v[1]
        BY <1>4, <4>1
      <4> QED
        BY <4>1, <4>2
    <3> QED
      BY <3>1, <3>2, <3>3, <3>4
  <2> QED
    BY <2>1, <2>2, <2>3 DEF Tiled
<1>9. Housed(C2, obs)
  BY <1>1 DEF Housed
<1>10. Intact(m2, obs)
  <2> SUFFICES ASSUME NEW o \in DOMAIN obs, NEW a \in Pool!Span(obs[o].addr, obs[o].size)
               PROVE  a \in Pool!Bytes /\ m2[a] = Pool!Data(o)
    BY DEF Intact
  <2>1. House(obs[o]) \in C /\ a \in Within(House(obs[o]))
    BY <1>1, ObjectWithin DEF Housed
  <2>2. a < t
    <3>1. a \in Nat /\ a < House(obs[o])[1] + House(obs[o])[2]
      BY <1>1, <1>2, <2>1, CellFacts
    <3>2. /\ House(obs[o])[1] \in Nat /\ House(obs[o])[2] \in Nat
          /\ House(obs[o])[1] + House(obs[o])[2] <= t
      BY <1>6, <2>1
    <3> QED
      BY <1>2, <3>1, <3>2
  <2>3. a \in Pool!Bytes /\ m[a] = Pool!Data(o)
    BY <1>1 DEF Intact
  <2> QED
    BY <2>2, <2>3
<1>11. FreeIn(C, obs, c) = {}
  <2>1. Chained(Pool!Null, m, FreeIn(C, obs, c))
    BY <1>1 DEF Listed
  <2>2. FreeIn(C, obs, c) \subseteq Nat
    BY DEF FreeIn
  <2> QED
    BY <2>1, <2>2, ChainEmpty
<1>12. FreeIn(C2, obs, c) = B
  <2>1. ASSUME NEW p \in FreeIn(C2, obs, c) PROVE p \in B
    <3>1. <<p, c>> \in C2 /\ p \notin FreeIn(C, obs, c) /\ p \in Nat /\ Vacant(obs, <<p, c>>)
      BY <1>11 DEF FreeIn
    <3>2. <<p, c>> \in N
      BY <3>1 DEF FreeIn
    <3> QED
      BY <3>2 DEF N, NewCells, B
  <2>2. ASSUME NEW p \in B PROVE p \in FreeIn(C2, obs, c)
    <3>1. <<p, c>> \in N /\ p \in Nat
      BY <1>3 DEF N, NewCells, B
    <3>2. Vacant(obs, <<p, c>>)
      BY <1>1, <1>7, <3>1 DEF Vacant, Housed
    <3> QED
      BY <3>1, <3>2 DEF FreeIn
  <2> QED
    BY <2>1, <2>2
<1>13. ASSUME NEW d \in PoolSizes, d # c PROVE FreeIn(C2, obs, d) = FreeIn(C, obs, d)
  <2>1. \A p : <<p, d>> \notin N
    <3> TAKE p
    <3>1. ASSUME <<p, d>> \in N PROVE FALSE
      <4>1. <<p, d>>[2] = c
        BY <1>7, <3>1
      <4> QED
        BY <1>13, <4>1
    <3> QED
      BY <3>1
  <2> QED
    BY <2>1 DEF FreeIn
<1>14. ASSUME NEW d \in PoolSizes PROVE Same(m, m2, FreeIn(C, obs, d))
  <2>1. \A p \in FreeIn(C, obs, d) : p \in Nat /\ p \in Pool!Bytes /\ p + d <= t /\ d \in Nat \ {0}
    BY <1>1, FreeFacts, PoolConstants
  <2>2. \A p \in FreeIn(C, obs, d) : p < t /\ p \in Pool!Bytes
    BY <1>2, <2>1
  <2> QED
    BY <2>2 DEF Same
<1>15. Listed(fc2, C2, m2, obs)
  <2> SUFFICES ASSUME NEW d \in PoolSizes PROVE Chained(fc2[d], m2, FreeIn(C2, obs, d))
    BY DEF Listed
  <2>1. CASE d = c
    <3>1. Chained(t, m2, B)
      BY <1>2, ChainOfBlock DEF B
    <3> QED
      BY <1>12, <2>1, <3>1 DEF Relinked
  <2>2. CASE d # c
    <3>1. Chained(fc[d], m, FreeIn(C, obs, d))
      BY <1>1 DEF Listed
    <3>2. Chained(fc[d], m2, FreeIn(C, obs, d))
      BY <1>14, <3>1, ChainStays
    <3> QED
      BY <1>13, <2>2, <3>2 DEF Relinked
  <2> QED
    BY <2>1, <2>2
<1>16. fc2 \in [PoolSizes -> Pool!Bytes \cup {Pool!Null}]
  <2>1. t \in Pool!Bytes
    BY <1>2, <1>5, PoolConstants
  <2> QED
    BY <1>1, <2>1, RelinkedType
<1>17. Managed(fc2, C2, m2, t2, obs)
  BY <1>1, <1>5, <1>8, <1>9, <1>10, <1>15, <1>16 DEF Managed
<1> QED
  BY <1>17 DEF N

LEMMA Leaves ==
    ASSUME NEW obs, NEW o \in DOMAIN obs, NEW obs2, Left(obs, obs2, o), NEW C, Housed(C, obs)
    PROVE  /\ Housed(C, obs2) /\ Vacant(obs2, House(obs[o]))
           /\ \A z : Vacant(obs2, z) <=> Vacant(obs, z) \/ z = House(obs[o])
           /\ \A m : Intact(m, obs) => Intact(m, obs2)
<1>1. \A q \in DOMAIN obs2 : q \in DOMAIN obs /\ q # o /\ obs2[q] = obs[q]
  BY DEF Left
<1>2. \A q \in DOMAIN obs : q = o \/ (q \in DOMAIN obs2 /\ obs2[q] = obs[q])
  BY DEF Left
<1>3. \A u, v \in DOMAIN obs : House(obs[u]) = House(obs[v]) => u = v
  BY DEF Housed
<1>4. Housed(C, obs2)
  <2>1. \A u, v \in DOMAIN obs2 : House(obs2[u]) = House(obs2[v]) => u = v
    BY <1>1, <1>3
  <2>2. \A u \in DOMAIN obs2 : obs2[u] \in Object /\ obs2[u].deleter = obs2[u].size /\ House(obs2[u]) \in C
    BY <1>1 DEF Housed
  <2> QED
    BY <2>1, <2>2 DEF Housed
<1>5. Vacant(obs2, House(obs[o]))
  BY <1>1, <1>3 DEF Vacant
<1>6. ASSUME NEW z PROVE Vacant(obs2, z) <=> Vacant(obs, z) \/ z = House(obs[o])
  BY <1>1, <1>2, <1>5 DEF Vacant
<1>7. ASSUME NEW m, Intact(m, obs) PROVE Intact(m, obs2)
  BY <1>1, <1>7 DEF Intact
<1> QED
  BY <1>4, <1>5, <1>6, <1>7

\* deallocate: the chunk goes to the front of its pool's list.
LEMMA GivesChunk ==
    ASSUME NEW fc, NEW C, NEW m, NEW t, NEW obs, Managed(fc, C, m, t, obs),
           NEW o \in DOMAIN obs, obs[o].deleter <= Pool!MaxTypeSize,
           NEW c, c = Pool!PoolOf(obs[o].deleter), NEW p, p = obs[o].addr,
           NEW obs2, Left(obs, obs2, o),
           NEW m2, m2 = Pool!Written(m, p, Lowest, Pool!Pointer(fc[c])),
           NEW fc2, Relinked(fc, fc2, c, p)
    PROVE  Managed(fc2, C, m2, t, obs2)
<1> DEFINE b == obs[o]  z == <<p, c>>
<1>1. /\ t \in 0 .. HeapSize /\ Tiled(C, t) /\ Housed(C, obs) /\ Intact(m, obs) /\ Listed(fc, C, m, obs)
      /\ fc \in [PoolSizes -> Pool!Bytes \cup {Pool!Null}] /\ DOMAIN obs \subseteq Pool!Ids
  BY DEF Managed
<1>2. b \in Object /\ b.deleter = b.size /\ House(b) \in C
  BY <1>1 DEF Housed
<1>3. House(b) = z /\ c \in PoolSizes /\ p \in Nat /\ p \in Pool!Bytes
  <2> HIDE DEF b
  <2>1. b.size <= Pool!MaxTypeSize /\ c = Pool!PoolOf(b.size) /\ p = b.addr
    BY <1>2 DEF b
  <2>2. House(b) = <<b.addr, Pool!PoolOf(b.size)>> /\ Pool!PoolOf(b.size) \in PoolSizes /\ b.addr \in Nat
    BY <1>2, <2>1, HouseFits
  <2>3. b.addr \in Pool!Bytes
    BY <1>2 DEF Object
  <2> QED
    BY <2>1, <2>2, <2>3
<1> HIDE DEF b
<1>4. /\ Housed(C, obs2) /\ Vacant(obs2, z) /\ Intact(m, obs2)
      /\ \A w : Vacant(obs2, w) <=> Vacant(obs, w) \/ w = z
  BY <1>1, <1>3, Leaves DEF b
<1>5. z \in C /\ z[1] = p /\ z[2] = c /\ t \in Int /\ t <= HeapSize /\ HeapSize \in Nat
  BY <1>1, <1>2, <1>3, PoolConstants
<1>6. p + c <= t /\ c \in Nat \ {0} /\ Lowest \in Nat \ {0} /\ Lowest <= c
  BY <1>1, <1>3, <1>5, CellFacts, PoolConstants
<1>7. Outside(m, m2, z) /\ m2[p] = Pool!Pointer(fc[c]) /\ DOMAIN m2 = Pool!Bytes
  <2>1. \A a \in Pool!Span(p, Lowest) : a \in Within(z)
    BY <1>3, <1>5, <1>6 DEF Within, Pool!Span
  <2>2. p \in Pool!Span(p, Lowest)
    BY <1>3, <1>6 DEF Pool!Span
  <2> QED
    BY <1>3, <2>1, <2>2 DEF Outside, Pool!Written
<1> HIDE DEF z
<1>8. Intact(m2, obs2)
  BY <1>1, <1>4, <1>5, <1>7, ObjectsStay
<1>9. ASSUME NEW d \in PoolSizes PROVE Same(m, m2, FreeIn(C, obs, d))
  <2>1. FreeIn(C, obs, d) \subseteq Nat
    BY DEF FreeIn
  <2>2. ~Vacant(obs, z)
    BY <1>3 DEF Vacant, b
  <2>3. \A q \in FreeIn(C, obs, d) : <<q, d>> \in C /\ <<q, d>> # z
    BY <2>2 DEF FreeIn
  <2> QED
    BY <1>1, <1>5, <1>7, <2>1, <2>3, OtherCellsStay
<1>10. FreeIn(C, obs2, c) = FreeIn(C, obs, c) \cup {p} /\ p \notin FreeIn(C, obs, c)
  <2>1. \A q : <<q, c>> = z <=> q = p
    BY DEF z
  <2>2. ~Vacant(obs, <<p, c>>)
    BY <1>3 DEF Vacant, b, z
  <2>3. \A q : q \in FreeIn(C, obs2, c) <=> q \in Nat /\ <<q, c>> \in C /\ (Vacant(obs, <<q, c>>) \/ q = p)
    BY <1>4, <2>1 DEF FreeIn
  <2>4. <<p, c>> \in C
    BY <1>5 DEF z
  <2> QED
    BY <1>3, <2>2, <2>3, <2>4 DEF FreeIn
<1>11. ASSUME NEW d \in PoolSizes, d # c PROVE FreeIn(C, obs2, d) = FreeIn(C, obs, d)
  <2>1. \A q : <<q, d>> # z
    BY <1>11 DEF z
  <2> QED
    BY <1>4, <2>1 DEF FreeIn
<1>12. Listed(fc2, C, m2, obs2)
  <2> SUFFICES ASSUME NEW d \in PoolSizes PROVE Chained(fc2[d], m2, FreeIn(C, obs2, d))
    BY DEF Listed
  <2>1. Chained(fc[d], m, FreeIn(C, obs, d))
    BY <1>1 DEF Listed
  <2>2. CASE d = c
    <3>1. Chained(p, m2, FreeIn(C, obs, d) \cup {p})
      BY <1>7, <1>9, <1>10, <2>1, <2>2, ChainPush
    <3> QED
      BY <1>10, <2>2, <3>1 DEF Relinked
  <2>3. CASE d # c
    <3>1. Chained(fc[d], m2, FreeIn(C, obs, d))
      BY <1>9, <2>1, ChainStays
    <3> QED
      BY <1>11, <2>3, <3>1 DEF Relinked
  <2> QED
    BY <2>2, <2>3
<1>13. fc2 \in [PoolSizes -> Pool!Bytes \cup {Pool!Null}]
  BY <1>1, <1>3, RelinkedType
<1>14. DOMAIN obs2 \subseteq Pool!Ids
  BY <1>1 DEF Left
<1> QED
  BY <1>1, <1>4, <1>7, <1>8, <1>12, <1>13, <1>14 DEF Managed

LEMMA GivesOwn ==
    ASSUME NEW fc, NEW C, NEW m, NEW t, NEW obs, Managed(fc, C, m, t, obs),
           NEW o \in DOMAIN obs, obs[o].deleter > Pool!MaxTypeSize, NEW obs2, Left(obs, obs2, o)
    PROVE  Managed(fc, C \ {<<obs[o].addr, obs[o].size>>}, m, t, obs2)
<1> DEFINE b == obs[o]  z == <<b.addr, b.size>>  C2 == C \ {z}
<1>1. /\ t \in 0 .. HeapSize /\ Tiled(C, t) /\ Housed(C, obs) /\ Intact(m, obs) /\ Listed(fc, C, m, obs)
      /\ fc \in [PoolSizes -> Pool!Bytes \cup {Pool!Null}] /\ DOMAIN obs \subseteq Pool!Ids /\ DOMAIN m = Pool!Bytes
  BY DEF Managed
<1>2. b \in Object /\ b.deleter = b.size /\ House(b) \in C /\ b.size > Pool!MaxTypeSize
  BY <1>1 DEF Housed
<1> HIDE DEF b
<1>3. House(b) = z /\ b.size \notin PoolSizes
  BY <1>2, HouseFits
<1>4. /\ Housed(C, obs2) /\ Vacant(obs2, z) /\ Intact(m, obs2)
      /\ \A w : Vacant(obs2, w) <=> Vacant(obs, w) \/ w = z
  BY <1>1, <1>3, Leaves DEF b
<1>5. ASSUME NEW d \in PoolSizes PROVE FreeIn(C2, obs2, d) = FreeIn(C, obs, d)
  <2>1. \A q : <<q, d>> # z
    BY <1>3
  <2> HIDE DEF z
  <2> QED
    BY <1>4, <2>1 DEF FreeIn
<1> HIDE DEF z
<1>6. Tiled(C2, t)
  BY <1>1 DEF Tiled
<1>7. Housed(C2, obs2)
  BY <1>4 DEF Housed, Vacant
<1>8. Listed(fc, C2, m, obs2)
  BY <1>1, <1>5 DEF Listed
<1>9. DOMAIN obs2 \subseteq Pool!Ids
  BY <1>1 DEF Left
<1>10. Managed(fc, C2, m, t, obs2)
  BY <1>1, <1>4, <1>6, <1>7, <1>8, <1>9 DEF Managed
<1> QED
  BY <1>10 DEF z, b

----------------------------------------------------------------------------
(***************************************************************************)
(* The invariant: the cells are the chunks and the objects that have       *)
(* memory of their own, and the regions are theirs.                        *)
(***************************************************************************)
ChunksIn(bl, c) ==
    {bl[c][k] + i * c : k \in 1 .. Len(bl[c]), i \in 0 .. Pool!ChunksPerBlock(c) - 1}

ChunkCell(bl, z) == z[2] \in PoolSizes /\ z[1] \in ChunksIn(bl, z[2])
OwnCell(obs, z) == \E o \in DOMAIN obs : obs[o].size > Pool!MaxTypeSize /\ z = <<obs[o].addr, obs[o].size>>
BlockRegion(bl, r) ==
    \E c \in PoolSizes : \E k \in 1 .. Len(bl[c]) : r = <<bl[c][k], c * Pool!ChunksPerBlock(c)>>

Cells(bl, obs) == {z \in Nat \X (Nat \ {0}) : ChunkCell(bl, z) \/ OwnCell(obs, z)}

Regions(bl, obs, rs) ==
    /\ rs \subseteq Pool!Bytes \X (1 .. HeapSize)
    /\ \A r : r \in rs <=> BlockRegion(bl, r) \/ OwnCell(obs, r)

Blocks == [PoolSizes -> Seq(Pool!Bytes)]

Pooled(fc, bl, m, t, rs, obs) ==
    /\ Managed(fc, Cells(bl, obs), m, t, obs)
    /\ bl \in Blocks /\ Regions(bl, obs, rs)
    /\ obs = [o \in DOMAIN obs |-> obs[o]]

PoolInv == Pooled(free_chunks, blocks, memory, top, regions, objects)

\* Pool c has a block more, at t, in front of the others.
Prepended(bl, bl2, c, t) ==
    /\ bl2 \in Blocks /\ \A d \in PoolSizes \ {c} : bl2[d] = bl[d]
    /\ Len(bl[c]) \in Nat /\ Len(bl2[c]) = Len(bl[c]) + 1 /\ bl2[c][1] = t
    /\ \A k \in 1 .. Len(bl[c]) : bl2[c][k + 1] = bl[c][k]

LEMMA BlockPrepends ==
    ASSUME NEW bl \in Blocks, NEW c \in PoolSizes, NEW t \in Pool!Bytes,
           NEW bl2, bl2 = [bl EXCEPT ![c] = <<t>> \o bl[c]]
    PROVE  Prepended(bl, bl2, c, t)
<1> DEFINE s == <<t>> \o bl[c]
<1>1. bl[c] \in Seq(Pool!Bytes)
  BY DEF Blocks
<1>2. /\ s \in Seq(Pool!Bytes) /\ Len(bl[c]) \in Nat /\ Len(s) = Len(bl[c]) + 1 /\ s[1] = t
      /\ \A k \in 1 .. Len(bl[c]) : s[k + 1] = bl[c][k]
  BY <1>1
<1> HIDE DEF s
<1>3. bl2 = [bl EXCEPT ![c] = s]
  BY DEF s
<1>4. bl2[c] = s /\ bl2 \in Blocks /\ \A d \in PoolSizes \ {c} : bl2[d] = bl[d]
  BY <1>2, <1>3 DEF Blocks
<1> QED
  BY <1>2, <1>4 DEF Prepended

LEMMA ChunkAt ==
    ASSUME NEW bl, NEW c, NEW p
    PROVE  p \in ChunksIn(bl, c) <=>
                \E k \in 1 .. Len(bl[c]) : \E i \in 0 .. Pool!ChunksPerBlock(c) - 1 : p = bl[c][k] + i * c
  BY DEF ChunksIn

LEMMA BlockAdds ==
    ASSUME NEW bl \in Blocks, NEW c \in PoolSizes, NEW t \in Pool!Bytes,
           NEW bl2, Prepended(bl, bl2, c, t), NEW obs
    PROVE  /\ bl2 \in Blocks /\ Cells(bl2, obs) = Cells(bl, obs) \cup NewCells(c, t)
           /\ \A r : BlockRegion(bl2, r) <=> BlockRegion(bl, r) \/ r = <<t, c * Pool!ChunksPerBlock(c)>>
<1> DEFINE K == Pool!ChunksPerBlock(c)  n == Len(bl[c])
<1>1. /\ bl2 \in Blocks /\ \A d \in PoolSizes \ {c} : bl2[d] = bl[d]
      /\ n \in Nat /\ Len(bl2[c]) = n + 1 /\ bl2[c][1] = t
      /\ \A k \in 1 .. n : bl2[c][k + 1] = bl[c][k]
  BY DEF Prepended
<1> HIDE DEF n
<1>2. \A k \in 1 .. n + 1 : bl2[c][k] = t \/ \E j \in 1 .. n : bl2[c][k] = bl[c][j]
  <2> SUFFICES ASSUME NEW k \in 1 .. n + 1, k # 1 PROVE \E j \in 1 .. n : bl2[c][k] = bl[c][j]
    BY <1>1
  <2>1. k - 1 \in 1 .. n /\ (k - 1) + 1 = k
    BY <1>1
  <2> QED
    BY <1>1, <2>1
<1>3. \A j \in 1 .. n : \E k \in 1 .. n + 1 : bl2[c][k] = bl[c][j]
  <2> SUFFICES ASSUME NEW j \in 1 .. n PROVE \E k \in 1 .. n + 1 : bl2[c][k] = bl[c][j]
    OBVIOUS
  <2>1. j + 1 \in 1 .. n + 1
    BY <1>1
  <2> QED
    BY <1>1, <2>1
<1>4. 1 \in 1 .. n + 1 /\ bl2[c][1] = t
  BY <1>1
<1>5. ChunksIn(bl2, c) = ChunksIn(bl, c) \cup BlockChunks(c, t)
  <2> HIDE DEF K
  <2>1. ASSUME NEW p PROVE p \in ChunksIn(bl, c) <=> \E k \in 1 .. n : \E i \in 0 .. K - 1 : p = bl[c][k] + i * c
    BY ChunkAt DEF K, n
  <2>2. ASSUME NEW p PROVE p \in ChunksIn(bl2, c) <=> \E k \in 1 .. n + 1 : \E i \in 0 .. K - 1 : p = bl2[c][k] + i * c
    <3>1. p \in ChunksIn(bl2, c) <=> \E k \in 1 .. Len(bl2[c]) : \E i \in 0 .. K - 1 : p = bl2[c][k] + i * c
      BY ChunkAt DEF K
    <3> QED
      BY Zenon, <1>1, <3>1
  <2>3. ASSUME NEW p PROVE p \in BlockChunks(c, t) <=> \E i \in 0 .. K - 1 : p = t + i * c
    BY Zenon DEF BlockChunks, K
  <2>4. ASSUME NEW p PROVE p \in ChunksIn(bl2, c) <=> p \in ChunksIn(bl, c) \/ p \in BlockChunks(c, t)
    <3>1. ASSUME p \in ChunksIn(bl2, c) PROVE p \in ChunksIn(bl, c) \/ p \in BlockChunks(c, t)
      <4>1. PICK k \in 1 .. n + 1 : \E i \in 0 .. K - 1 : p = bl2[c][k] + i * c
        BY <2>2, <3>1
      <4> QED
        BY Zenon, <1>2, <2>1, <2>3, <4>1
    <3>2. ASSUME p \in ChunksIn(bl, c) PROVE p \in ChunksIn(bl2, c)
      <4>1. PICK k \in 1 .. n : \E i \in 0 .. K - 1 : p = bl[c][k] + i * c
        BY <2>1, <3>2
      <4> QED
        BY Zenon, <1>3, <2>2, <4>1
    <3>3. ASSUME p \in BlockChunks(c, t) PROVE p \in ChunksIn(bl2, c)
      BY Zenon, <1>4, <2>2, <2>3, <3>3
    <3> QED
      BY <3>1, <3>2, <3>3
  <2> QED
    BY <2>4
<1>6. ASSUME NEW d \in PoolSizes, d # c
      PROVE  \A p : p \in ChunksIn(bl2, d) <=> p \in ChunksIn(bl, d)
  <2>1. bl2[d] = bl[d]
    BY <1>1, <1>6
  <2> QED
    BY <2>1, ChunkAt
<1>7. c \in Nat \ {0} /\ t \in Nat
  <2>1. \A a \in Pool!Bytes : a \in Nat
    BY PoolConstants
  <2> QED
    BY <2>1, PoolConstants
<1>8. \A p \in BlockChunks(c, t) : p \in Nat
  BY <1>7, ChunksOfBlock
<1>9. ASSUME NEW z \in Nat \X (Nat \ {0})
      PROVE  ChunkCell(bl2, z) <=> ChunkCell(bl, z) \/ z \in NewCells(c, t)
  <2>1. z = <<z[1], z[2]>>
    OBVIOUS
  <2>2. z \in NewCells(c, t) <=> z[2] = c /\ z[1] \in BlockChunks(c, t)
    BY <2>1 DEF NewCells
  <2>3. CASE z[2] = c
    BY <1>5, <2>2, <2>3 DEF ChunkCell
  <2>4. CASE z[2] # c
    BY <1>6, <2>2, <2>4 DEF ChunkCell
  <2> QED
    BY <2>3, <2>4
<1>10. NewCells(c, t) \subseteq Nat \X (Nat \ {0})
  BY <1>7, <1>8 DEF NewCells
<1>11. Cells(bl2, obs) = Cells(bl, obs) \cup NewCells(c, t)
  BY <1>9, <1>10 DEF Cells
<1>12. ASSUME NEW r PROVE BlockRegion(bl2, r) <=> BlockRegion(bl, r) \/ r = <<t, c * K>>
  <2> DEFINE At(b, d) == \E k \in 1 .. Len(b[d]) : r = <<b[d][k], d * Pool!ChunksPerBlock(d)>>
  <2>1. At(bl2, c) <=> At(bl, c) \/ r = <<t, c * K>>
    <3>1. At(bl2, c) <=> \E k \in 1 .. n + 1 : r = <<bl2[c][k], c * K>>
      BY <1>1
    <3>2. At(bl, c) <=> \E k \in 1 .. n : r = <<bl[c][k], c * K>>
      BY DEF n
    <3> HIDE DEF At, K
    <3>3. ASSUME At(bl2, c) PROVE At(bl, c) \/ r = <<t, c * K>>
      <4>1. PICK k \in 1 .. n + 1 : r = <<bl2[c][k], c * K>>
        BY <3>1, <3>3
      <4>2. bl2[c][k] = t \/ \E j \in 1 .. n : bl2[c][k] = bl[c][j]
        BY <1>2
      <4> QED
        BY <3>2, <4>1, <4>2
    <3>4. ASSUME At(bl, c) PROVE At(bl2, c)
      <4>1. PICK j \in 1 .. n : r = <<bl[c][j], c * K>>
        BY <3>2, <3>4
      <4>2. PICK k \in 1 .. n + 1 : bl2[c][k] = bl[c][j]
        BY <1>3
      <4> QED
        BY <3>1, <4>1, <4>2
    <3>5. ASSUME r = <<t, c * K>> PROVE At(bl2, c)
      BY <1>4, <3>1, <3>5
    <3> QED
      BY <3>3, <3>4, <3>5
  <2>2. \A d \in PoolSizes \ {c} : At(bl2, d) <=> At(bl, d)
    BY <1>1
  <2>3. \A b : BlockRegion(b, r) <=> \E d \in PoolSizes : At(b, d)
    BY DEF BlockRegion
  <2> HIDE DEF At, K
  <2> QED
    BY <2>1, <2>2, <2>3
<1> QED
  BY <1>1, <1>11, <1>12

With(C, z) == C \cup {z}

LEMMA CellsJoined ==
    ASSUME NEW bl, NEW obs, NEW o, o \notin DOMAIN obs, NEW b \in Object, NEW obs2, Joined(obs, obs2, o, b)
    PROVE  /\ \A z : OwnCell(obs2, z) <=> OwnCell(obs, z) \/ (b.size > Pool!MaxTypeSize /\ z = <<b.addr, b.size>>)
           /\ b.size > Pool!MaxTypeSize => Cells(bl, obs2) = With(Cells(bl, obs), <<b.addr, b.size>>)
<1>1. b.addr \in Nat /\ b.size \in Nat \ {0} /\ Pool!MaxTypeSize \in Nat
  BY HouseFits, PoolConstants
<1>2. ASSUME NEW z
      PROVE  OwnCell(obs2, z) <=> OwnCell(obs, z) \/ (b.size > Pool!MaxTypeSize /\ z = <<b.addr, b.size>>)
  <2>1. /\ o \in DOMAIN obs2 /\ obs2[o] = b /\ \A q \in DOMAIN obs : q \in DOMAIN obs2 /\ obs2[q] = obs[q]
        /\ \A q \in DOMAIN obs2 : q = o \/ (q \in DOMAIN obs /\ obs2[q] = obs[q])
    BY DEF Joined
  <2> QED
    BY Zenon, <2>1 DEF OwnCell
<1>3. CASE b.size <= Pool!MaxTypeSize
  <2>1. ~(b.size > Pool!MaxTypeSize)
    BY <1>1, <1>3
  <2> QED
    BY <1>2, <2>1
<1>4. CASE b.size > Pool!MaxTypeSize
  <2>1. <<b.addr, b.size>> \in Nat \X (Nat \ {0})
    BY <1>1, <1>4
  <2>2. Cells(bl, obs2) = With(Cells(bl, obs), <<b.addr, b.size>>)
    BY <1>2, <1>4, <2>1 DEF Cells, With
  <2> QED
    BY <1>2, <2>1, <2>2
<1>5. b.size <= Pool!MaxTypeSize \/ b.size > Pool!MaxTypeSize
  BY <1>1
<1> QED
  BY <1>3, <1>4, <1>5

LEMMA CellsJoinedChunk ==
    ASSUME NEW obs, NEW o, o \notin DOMAIN obs, NEW b \in Object, NEW obs2, Joined(obs, obs2, o, b),
           b.size <= Pool!MaxTypeSize, NEW bl
    PROVE  Cells(bl, obs2) = Cells(bl, obs)
<1>1. \A z : OwnCell(obs2, z) <=> OwnCell(obs, z) \/ (b.size > Pool!MaxTypeSize /\ z = <<b.addr, b.size>>)
  BY CellsJoined
<1>2. ~(b.size > Pool!MaxTypeSize)
  BY HouseFits, PoolConstants
<1> QED
  BY <1>1, <1>2 DEF Cells

LEMMA CellsLeft ==
    ASSUME NEW bl \in Blocks, NEW obs, NEW t \in 0 .. HeapSize, Tiled(Cells(bl, obs), t),
           Housed(Cells(bl, obs), obs), NEW o \in DOMAIN obs, NEW obs2, Left(obs, obs2, o)
    PROVE  /\ obs[o].size <= Pool!MaxTypeSize =>
                /\ Cells(bl, obs2) = Cells(bl, obs)
                /\ \A z : OwnCell(obs2, z) <=> OwnCell(obs, z)
           /\ obs[o].size > Pool!MaxTypeSize =>
                /\ Cells(bl, obs2) = Cells(bl, obs) \ {<<obs[o].addr, obs[o].size>>}
                /\ \A z : OwnCell(obs2, z) <=> OwnCell(obs, z) /\ z # <<obs[o].addr, obs[o].size>>
                /\ ~BlockRegion(bl, <<obs[o].addr, obs[o].size>>)
<1> DEFINE C == Cells(bl, obs)  b == obs[o]  own == <<obs[o].addr, obs[o].size>>
<1>0. own = <<b.addr, b.size>> /\ own[1] = b.addr /\ own[2] = b.size
  OBVIOUS
<1> HIDE DEF own
<1>1. b \in Object /\ House(b) \in C
  BY DEF Housed
<1>2. b.addr \in Nat /\ b.size \in Nat \ {0} /\ Pool!MaxTypeSize \in Nat
  BY <1>1, HouseFits, PoolConstants
<1>3. /\ \A q \in DOMAIN obs2 : q \in DOMAIN obs /\ q # o /\ obs2[q] = obs[q]
      /\ \A q \in DOMAIN obs : q = o \/ (q \in DOMAIN obs2 /\ obs2[q] = obs[q])
  BY DEF Left
<1>4. ASSUME b.size <= Pool!MaxTypeSize
      PROVE  Cells(bl, obs2) = C /\ \A z : OwnCell(obs2, z) <=> OwnCell(obs, z)
  <2>1. ~(b.size > Pool!MaxTypeSize)
    BY <1>2, <1>4
  <2>2. \A z : OwnCell(obs2, z) <=> OwnCell(obs, z)
    BY Zenon, <1>3, <2>1 DEF OwnCell
  <2> QED
    BY <2>2 DEF Cells
<1>5. ASSUME b.size > Pool!MaxTypeSize
      PROVE  /\ Cells(bl, obs2) = C \ {own} /\ ~BlockRegion(bl, own)
             /\ \A z : OwnCell(obs2, z) <=> OwnCell(obs, z) /\ z # own
  <2>1. House(b) = own /\ b.size \notin PoolSizes /\ own[1] = b.addr /\ own[2] = b.size
    <3> HIDE DEF b
    <3>1. House(b) = <<b.addr, b.size>> /\ b.size \notin PoolSizes
      BY <1>1, <1>5, HouseFits
    <3> QED
      BY <1>0, <3>1
  <2>2. ASSUME NEW q \in DOMAIN obs, obs[q].size > Pool!MaxTypeSize, own = <<obs[q].addr, obs[q].size>>
        PROVE  q = o
    <3>1. obs[q] \in Object
      BY DEF Housed
    <3>2. House(obs[q]) = own
      BY <2>2, <3>1, HouseFits
    <3> QED
      BY <2>1, <3>2 DEF Housed
  <2>3. ASSUME NEW z PROVE OwnCell(obs2, z) <=> OwnCell(obs, z) /\ z # own
    <3>1. ASSUME OwnCell(obs2, z) PROVE OwnCell(obs, z) /\ z # own
      <4>1. PICK q \in DOMAIN obs2 : obs2[q].size > Pool!MaxTypeSize /\ z = <<obs2[q].addr, obs2[q].size>>
        BY <3>1 DEF OwnCell
      <4>2. q \in DOMAIN obs /\ q # o /\ obs2[q] = obs[q]
        BY <1>3
      <4>3. z # own
        BY <2>2, <4>1, <4>2
      <4>4. OwnCell(obs, z)
        BY Zenon, <4>1, <4>2 DEF OwnCell
      <4> QED
        BY <4>3, <4>4
    <3>2. ASSUME OwnCell(obs, z), z # own PROVE OwnCell(obs2, z)
      <4>1. PICK q \in DOMAIN obs : obs[q].size > Pool!MaxTypeSize /\ z = <<obs[q].addr, obs[q].size>>
        BY <3>2 DEF OwnCell
      <4>2. q # o
        BY <1>0, <3>2, <4>1
      <4>3. q \in DOMAIN obs2 /\ obs2[q] = obs[q]
        BY <1>3, <4>2
      <4> QED
        BY Zenon, <4>1, <4>3 DEF OwnCell
    <3> QED
      BY <3>1, <3>2
  <2>4. ~ChunkCell(bl, own)
    BY <2>1 DEF ChunkCell
  <2>5. Cells(bl, obs2) = C \ {own}
    BY <2>3, <2>4 DEF Cells
  <2>6. ASSUME BlockRegion(bl, own) PROVE FALSE
    <3>1. PICK c \in PoolSizes : \E k \in 1 .. Len(bl[c]) : own = <<bl[c][k], c * Pool!ChunksPerBlock(c)>>
      BY <2>6 DEF BlockRegion
    <3>2. PICK k \in 1 .. Len(bl[c]) : own = <<bl[c][k], c * Pool!ChunksPerBlock(c)>>
      BY <3>1
    <3>3. bl[c][k] = b.addr
      BY <1>0, <3>2
    <3>4. c \in Nat \ {0} /\ Pool!ChunksPerBlock(c) \in Nat \ {0}
      BY PoolConstants, Chunked
    <3>5. 0 \in 0 .. Pool!ChunksPerBlock(c) - 1 /\ b.addr = bl[c][k] + 0 * c
      BY <1>2, <3>3, <3>4
    <3>6. b.addr \in ChunksIn(bl, c)
      BY <3>5, ChunkAt
    <3> DEFINE z == <<b.addr, c>>
    <3>7. z[1] = b.addr /\ z[2] = c /\ z \in Nat \X (Nat \ {0})
      BY <1>2, <3>4
    <3>8. z \in C
      BY <3>6, <3>7 DEF Cells, ChunkCell
    <3> HIDE DEF z
    <3>9. z # own
      BY <2>1, <3>7
    <3>10. z[1] + z[2] <= own[1] \/ own[1] + own[2] <= z[1]
      BY <1>1, <2>1, <3>8, <3>9 DEF Tiled
    <3> HIDE DEF b
    <3> QED
      BY <1>2, <2>1, <3>4, <3>7, <3>10
  <2> QED
    BY <2>3, <2>5, <2>6
<1> QED
  BY <1>4, <1>5 DEF own

----------------------------------------------------------------------------
(***************************************************************************)
(* The steps.                                                              *)
(***************************************************************************)
LEMMA PoolInit == Pool!Init => PoolInv
<1> SUFFICES ASSUME Pool!Init PROVE PoolInv
  OBVIOUS
<1>1. /\ free_chunks = [c \in PoolSizes |-> Pool!Null] /\ blocks = [c \in PoolSizes |-> <<>>]
      /\ memory = [a \in Pool!Bytes |-> Pool!Unused] /\ top = 0 /\ regions = {} /\ objects = <<>>
  BY DEF Pool!Init, PoolSizes
<1>2. DOMAIN objects = {} /\ objects = [o \in DOMAIN objects |-> objects[o]]
  <2>1. <<>> \in Seq({0}) /\ Len(<<>>) = 0
    OBVIOUS
  <2>2. \A s \in Seq({0}) : DOMAIN s = 1 .. Len(s) /\ s = [i \in DOMAIN s |-> s[i]]
    OBVIOUS
  <2>3. 1 .. 0 = {}
    OBVIOUS
  <2> QED
    BY Zenon, <1>1, <2>1, <2>2, <2>3
<1>3. blocks \in Blocks /\ \A c \in PoolSizes : Len(blocks[c]) = 0
  BY <1>1 DEF Blocks
<1>4. \A c \in PoolSizes : 1 .. Len(blocks[c]) = {}
  BY <1>3
<1> DEFINE C == Cells(blocks, objects)
<1>5. \A z : ~ChunkCell(blocks, z) /\ ~BlockRegion(blocks, z) /\ ~OwnCell(objects, z)
  <2>1. \A z : ~OwnCell(objects, z)
    BY <1>2 DEF OwnCell
  <2>2. \A z : ~BlockRegion(blocks, z)
    BY Zenon, <1>4 DEF BlockRegion
  <2>3. \A c \in PoolSizes : \A p : p \notin ChunksIn(blocks, c)
    BY <1>4, ChunkAt
  <2>4. \A z : ~ChunkCell(blocks, z)
    BY <2>3 DEF ChunkCell
  <2> QED
    BY <2>1, <2>2, <2>4
<1>6. C = {}
  BY <1>5 DEF Cells
<1> HIDE DEF C
<1>7. Regions(blocks, objects, regions)
  BY <1>1, <1>5 DEF Regions
<1>8. Listed(free_chunks, C, memory, objects)
  <2>1. \A c \in PoolSizes : FreeIn(C, objects, c) = {} /\ free_chunks[c] = Pool!Null
    BY <1>1, <1>6 DEF FreeIn
  <2> QED
    BY <2>1, NoChain DEF Listed
<1>9. Tiled(C, top) /\ Housed(C, objects) /\ Intact(memory, objects)
  BY <1>2, <1>6 DEF Tiled, Housed, Intact
<1>10. /\ free_chunks \in [PoolSizes -> Pool!Bytes \cup {Pool!Null}] /\ DOMAIN memory = Pool!Bytes
       /\ top \in 0 .. HeapSize /\ DOMAIN objects \subseteq Pool!Ids
  BY <1>1, <1>2, PoolConstants
<1>11. Managed(free_chunks, C, memory, top, objects)
  BY <1>8, <1>9, <1>10 DEF Managed
<1> QED
  BY <1>2, <1>3, <1>7, <1>11 DEF C, PoolInv, Pooled

LEMMA NewIdIsNew ==
    ASSUME Pool!Alive \subseteq Pool!Ids, Pool!Alive # Pool!Ids
    PROVE  Pool!NewId \in Pool!Ids /\ Pool!NewId \notin Pool!Alive
<1> DEFINE S == Pool!Ids \ Pool!Alive
<1>1. S \subseteq Nat
  BY PoolConstants DEF Pool!Ids
<1>2. S # {}
  OBVIOUS
<1>3. Pool!Min(S) \in S
  BY <1>1, <1>2, MinIsLeast
<1> QED
  BY <1>3 DEF Pool!NewId

LEMMA BuiltJoins ==
    ASSUME NEW o, NEW p, NEW size, NEW obs2, obs2 = Pool!Built(o, p, size), o \notin Pool!Alive
    PROVE  /\ Joined(objects, obs2, o, [addr |-> p, size |-> size, deleter |-> size])
           /\ obs2 = [q \in DOMAIN obs2 |-> obs2[q]]
  BY DEF Pool!Built, Pool!Alive, Joined

LEMMA WithoutLeaves ==
    ASSUME NEW o, NEW obs2, obs2 = Pool!Without(o)
    PROVE  Left(objects, obs2, o) /\ obs2 = [q \in DOMAIN obs2 |-> obs2[q]]
  BY DEF Pool!Without, Pool!Alive, Left

\* The invariant in its parts.
LEMMA PoolFacts ==
    ASSUME PoolInv
    PROVE  /\ Managed(free_chunks, Cells(blocks, objects), memory, top, objects)
           /\ blocks \in Blocks /\ Regions(blocks, objects, regions)
           /\ top \in 0 .. HeapSize /\ Pool!Alive \subseteq Pool!Ids
           /\ Tiled(Cells(blocks, objects), top) /\ Housed(Cells(blocks, objects), objects)
           /\ free_chunks \in [PoolSizes -> Pool!Bytes \cup {Pool!Null}]
           /\ Listed(free_chunks, Cells(blocks, objects), memory, objects)
           /\ objects = [o \in DOMAIN objects |-> objects[o]]
  BY DEF PoolInv, Pooled, Managed, Pool!Alive

\* [fc EXCEPT ![c] = p]
LEMMA ExceptRelinks ==
    ASSUME NEW fc, NEW S, fc \in [PoolSizes -> S], NEW c \in PoolSizes, NEW p, NEW fc2, fc2 = [fc EXCEPT ![c] = p]
    PROVE  Relinked(fc, fc2, c, p)
  BY DEF Relinked

LEMMA PoolAllocate ==
    ASSUME PoolInv, NEW size \in ObjectSizes, Pool!Allocate(size)
    PROVE  PoolInv'
<1> DEFINE c == Pool!PoolOf(size)
           o == Pool!NewId
           n == c * Pool!ChunksPerBlock(c)
           C == Cells(blocks, objects)
           Build(p) == [addr |-> p, size |-> size, deleter |-> size]
<1>1. /\ Managed(free_chunks, C, memory, top, objects) /\ blocks \in Blocks
      /\ Regions(blocks, objects, regions) /\ top \in 0 .. HeapSize
      /\ free_chunks \in [PoolSizes -> Pool!Bytes \cup {Pool!Null}]
      /\ Listed(free_chunks, C, memory, objects) /\ Tiled(C, top)
  BY PoolFacts
<1>2. o \in Pool!Ids /\ o \notin DOMAIN objects
  <2>1. Pool!Alive \subseteq Pool!Ids /\ Pool!Alive # Pool!Ids
    BY PoolFacts DEF Pool!Allocate
  <2> QED
    BY <2>1, NewIdIsNew DEF Pool!Alive
<1>3. size \in Nat \ {0} /\ size <= Pool!MaxTypeSize /\ c \in PoolSizes
  <2>1. size \in Nat \ {0} /\ size <= Pool!MaxTypeSize
    BY PoolConstants DEF Pool!Allocate
  <2> QED
    BY <2>1, PoolFits
<1>4. \A p \in Pool!Bytes : Build(p) \in Object
  BY DEF Object
<1>5. \A p : Build(p).addr = p /\ Build(p).size = size /\ Build(p).deleter = size
  OBVIOUS
<1>6. ASSUME free_chunks[c] # Pool!Null
      PROVE  /\ free_chunks' = [free_chunks EXCEPT ![c] = Pool!NextChunk(memory, free_chunks[c])]
             /\ memory' = Pool!Written(memory, free_chunks[c], size, Pool!Data(o))
             /\ objects' = Pool!Built(o, free_chunks[c], size)
             /\ UNCHANGED <<top, blocks, regions>>
  BY <1>6 DEF Pool!Allocate
<1>7. ASSUME free_chunks[c] = Pool!Null
      PROVE  /\ top + n <= HeapSize /\ top' = top + n
             /\ blocks' = [blocks EXCEPT ![c] = <<top>> \o blocks[c]]
             /\ regions' = regions \cup {<<top, n>>}
             /\ free_chunks' = [free_chunks EXCEPT ![c] = Pool!NextChunk(Pool!Linked(c, top), top)]
             /\ memory' = Pool!Written(Pool!Linked(c, top), top, size, Pool!Data(o))
             /\ objects' = Pool!Built(o, top, size)
  BY <1>7 DEF Pool!Allocate, Pool!Obtain
<1> HIDE DEF c, o, n, C, Build
<1>8. CASE free_chunks[c] # Pool!Null
  <2> DEFINE p == free_chunks[c]  b == Build(p)
  <2>1. p \in Pool!Bytes
    BY <1>1, <1>3, <1>8
  <2>2. b \in Object /\ b.addr = p /\ b.size = size /\ b.deleter = size
    BY <1>4, <1>5, <2>1
  <2>3. Joined(objects, objects', o, b) /\ objects' = [q \in DOMAIN objects' |-> objects'[q]]
    BY <1>2, <1>6, <1>8, BuiltJoins DEF Pool!Alive, Build
  <2>4. Relinked(free_chunks, free_chunks', c, Pool!NextChunk(memory, p))
    BY <1>1, <1>3, <1>6, <1>8, ExceptRelinks
  <2>5. memory' = Pool!Written(memory, p, size, Pool!Data(o)) /\ top' = top /\ blocks' = blocks /\ regions' = regions
    BY <1>6, <1>8
  <2> HIDE DEF b, p
  <2>6. Managed(free_chunks', C, memory', top, objects')
    BY ZenonT(40), <1>1, <1>2, <1>3, <1>8, <2>2, <2>3, <2>4, <2>5, TakesChunk DEF c, p
  <2>7. Cells(blocks, objects') = C /\ \A z : OwnCell(objects', z) <=> OwnCell(objects, z)
    <3>1. ~(size > Pool!MaxTypeSize)
      BY <1>3, PoolConstants
    <3>2. b.size <= Pool!MaxTypeSize /\ ~(b.size > Pool!MaxTypeSize)
      BY <1>3, <2>2, <3>1
    <3>3. Cells(blocks, objects') = Cells(blocks, objects)
      BY <1>2, <2>2, <2>3, <3>2, CellsJoinedChunk
    <3>4. ASSUME NEW z PROVE OwnCell(objects', z) <=> OwnCell(objects, z)
      BY <1>2, <2>2, <2>3, <3>2, CellsJoined
    <3> QED
      BY <3>3, <3>4 DEF C
  <2>8. Regions(blocks, objects', regions)
    BY <1>1, <2>7 DEF Regions
  <2> QED
    BY <1>1, <2>3, <2>5, <2>6, <2>7, <2>8 DEF PoolInv, Pooled
<1>9. CASE free_chunks[c] = Pool!Null
  <2> DEFINE b == Build(top)  m == Pool!Linked(c, top)  C2 == C \cup NewCells(c, top)
             fc == [free_chunks EXCEPT ![c] = top]
  <2>1. top' = top + n /\ top + n <= HeapSize /\ n \in Nat \ {0} /\ top \in Nat /\ top \in Pool!Bytes
    <3>1. c \in Nat \ {0} /\ Pool!ChunksPerBlock(c) \in Nat \ {0} /\ HeapSize \in Nat
      BY <1>3, Chunked, PoolConstants
    <3>2. n \in Nat \ {0}
      BY <3>1 DEF n
    <3>3. top' = top + n /\ top + n <= HeapSize
      BY <1>7, <1>9
    <3> QED
      BY <1>1, <3>1, <3>2, <3>3, PoolConstants
  <2>2. b \in Object /\ b.addr = top /\ b.size = size /\ b.deleter = size
    BY <1>4, <1>5, <2>1
  <2>3. Joined(objects, objects', o, b) /\ objects' = [q \in DOMAIN objects' |-> objects'[q]]
    BY <1>2, <1>7, <1>9, BuiltJoins DEF Pool!Alive, Build
  <2>4. /\ LinkedUp(m, c, top) /\ DOMAIN m = Pool!Bytes
        /\ \A a \in Pool!Bytes : a < top => m[a] = memory[a]
    BY <1>3, <1>9, <2>1, LinkedLinksUp DEF n
  <2>5. Relinked(free_chunks, fc, c, top) /\ fc \in [PoolSizes -> Pool!Bytes \cup {Pool!Null}]
    BY <1>1, <1>3, <2>1, ExceptRelinks
  <2>6. Relinked(fc, free_chunks', c, Pool!NextChunk(m, top)) /\ fc[c] = top
    <3>1. Relinked(free_chunks, free_chunks', c, Pool!NextChunk(m, top))
      BY <1>1, <1>3, <1>7, <1>9, ExceptRelinks
    <3> HIDE DEF fc, m
    <3> QED
      BY <2>5, <3>1 DEF Relinked
  <2>7. Prepended(blocks, blocks', c, top) /\ regions' = regions \cup {<<top, n>>}
    BY <1>1, <1>3, <1>7, <1>9, <2>1, BlockPrepends
  <2>8. memory' = Pool!Written(m, top, size, Pool!Data(o))
    BY <1>7, <1>9
  <2> HIDE DEF b, m, C2, fc
  <2>9. Managed(fc, C2, m, top + n, objects)
    BY <1>1, <1>3, <1>9, <2>1, <2>4, <2>5, AddsBlock DEF C2, n
  <2>10. top # Pool!Null
    BY <2>1, PoolConstants
  <2>11. Managed(free_chunks', C2, memory', top + n, objects')
    BY ZenonT(40), <1>2, <1>3, <2>2, <2>3, <2>6, <2>8, <2>9, <2>10, TakesChunk DEF c
  <2>12. blocks' \in Blocks /\ Cells(blocks', objects) = C2
    BY <1>1, <1>3, <2>1, <2>7, BlockAdds DEF C, C2
  <2>13. \A r : BlockRegion(blocks', r) <=> BlockRegion(blocks, r) \/ r = <<top, n>>
    BY <1>1, <1>3, <2>1, <2>7, BlockAdds DEF n
  <2>14. Cells(blocks', objects') = C2 /\ \A z : OwnCell(objects', z) <=> OwnCell(objects, z)
    <3>1. ~(size > Pool!MaxTypeSize)
      BY <1>3, PoolConstants
    <3>2. b.size <= Pool!MaxTypeSize /\ ~(b.size > Pool!MaxTypeSize)
      BY <1>3, <2>2, <3>1
    <3>3. Cells(blocks', objects') = Cells(blocks', objects)
      BY <1>2, <2>2, <2>3, <3>2, CellsJoinedChunk
    <3>4. ASSUME NEW z PROVE OwnCell(objects', z) <=> OwnCell(objects, z)
      BY <1>2, <2>2, <2>3, <3>2, CellsJoined
    <3> QED
      BY <2>12, <3>3, <3>4
  <2>15. Regions(blocks', objects', regions')
    <3>1. <<top, n>> \in Pool!Bytes \X (1 .. HeapSize)
      BY <2>1, PoolConstants
    <3>2. regions' \subseteq Pool!Bytes \X (1 .. HeapSize)
      BY <1>1, <2>7, <3>1 DEF Regions
    <3>3. \A r : r \in regions' <=> r \in regions \/ r = <<top, n>>
      BY <2>7
    <3>4. \A r : r \in regions <=> BlockRegion(blocks, r) \/ OwnCell(objects, r)
      BY <1>1 DEF Regions
    <3>5. \A r : r \in regions' <=> BlockRegion(blocks', r) \/ OwnCell(objects', r)
      BY <2>13, <2>14, <3>3, <3>4
    <3> QED
      BY <3>2, <3>5 DEF Regions
  <2> QED
    BY <2>1, <2>3, <2>11, <2>12, <2>14, <2>15 DEF PoolInv, Pooled
<1> QED
  BY <1>8, <1>9

LEMMA CellsLeftChunk ==
    ASSUME NEW bl \in Blocks, NEW obs, NEW t \in 0 .. HeapSize, Tiled(Cells(bl, obs), t),
           Housed(Cells(bl, obs), obs), NEW o \in DOMAIN obs, NEW obs2, Left(obs, obs2, o),
           obs[o].size <= Pool!MaxTypeSize
    PROVE  Cells(bl, obs2) = Cells(bl, obs) /\ \A z : OwnCell(obs2, z) <=> OwnCell(obs, z)
  BY CellsLeft

LEMMA PoolAllocateLarge ==
    ASSUME PoolInv, NEW size \in ObjectSizes, Pool!AllocateLarge(size)
    PROVE  PoolInv'
<1> DEFINE o == Pool!NewId
           C == Cells(blocks, objects)
           b == [addr |-> top, size |-> size, deleter |-> size]
           own == <<top, size>>
<1>1. /\ Managed(free_chunks, C, memory, top, objects) /\ blocks \in Blocks
      /\ Regions(blocks, objects, regions) /\ top \in 0 .. HeapSize
  BY PoolFacts
<1>2. o \in Pool!Ids /\ o \notin DOMAIN objects
  <2>1. Pool!Alive \subseteq Pool!Ids /\ Pool!Alive # Pool!Ids
    BY PoolFacts DEF Pool!AllocateLarge
  <2> QED
    BY Zenon, <2>1, NewIdIsNew DEF Pool!Alive
<1>3. /\ size > Pool!MaxTypeSize /\ top + size <= HeapSize /\ top' = top + size
      /\ regions' = regions \cup {own} /\ memory' = Pool!Written(memory, top, size, Pool!Data(o))
      /\ objects' = Pool!Built(o, top, size) /\ free_chunks' = free_chunks /\ blocks' = blocks
  BY DEF Pool!AllocateLarge, Pool!Obtain
<1>4. size \in Nat \ {0} /\ top \in Pool!Bytes /\ HeapSize \in Nat
  BY <1>1, <1>3, PoolConstants
<1>5. b \in Object /\ b.addr = top /\ b.size = size /\ b.deleter = size
  BY <1>4 DEF Object
<1> HIDE DEF o, C
<1>6. Joined(objects, objects', o, b) /\ objects' = [q \in DOMAIN objects' |-> objects'[q]]
  BY <1>2, <1>3, BuiltJoins DEF Pool!Alive
<1> HIDE DEF b
<1>7. Managed(free_chunks, C \cup {own}, memory', top + size, objects')
  <2>1. /\ b.deleter = b.size /\ b.size > Pool!MaxTypeSize /\ b.addr = top /\ top + b.size <= HeapSize
        /\ memory' = Pool!Written(memory, top, b.size, Pool!Data(o))
    BY <1>3, <1>5
  <2>2. Managed(free_chunks, C \cup {<<top, b.size>>}, memory', top + b.size, objects')
    BY <1>1, <1>2, <1>5, <1>6, <2>1, TakesOwn
  <2> QED
    BY <1>5, <2>2
<1>8. Cells(blocks, objects') = C \cup {own} /\ \A z : OwnCell(objects', z) <=> OwnCell(objects, z) \/ z = own
  <2>1. b.size > Pool!MaxTypeSize
    BY <1>3, <1>5
  <2>2. /\ Cells(blocks, objects') = C \cup {<<b.addr, b.size>>}
        /\ \A z : OwnCell(objects', z) <=>
                OwnCell(objects, z) \/ (b.size > Pool!MaxTypeSize /\ z = <<b.addr, b.size>>)
    <3>1. Cells(blocks, objects') = C \cup {<<b.addr, b.size>>}
      <4>1. Cells(blocks, objects') = With(Cells(blocks, objects), <<b.addr, b.size>>)
        BY <1>2, <1>5, <1>6, <2>1, CellsJoined
      <4> QED
        BY <4>1 DEF C, With
    <3>2. ASSUME NEW z
          PROVE  OwnCell(objects', z) <=>
                    OwnCell(objects, z) \/ (b.size > Pool!MaxTypeSize /\ z = <<b.addr, b.size>>)
      BY <1>2, <1>5, <1>6, CellsJoined
    <3> QED
      BY <3>1, <3>2
  <2> QED
    BY <1>5, <2>1, <2>2
<1>9. Regions(blocks, objects', regions')
  <2>1. own \in Pool!Bytes \X (1 .. HeapSize)
    BY <1>1, <1>3, <1>4
  <2> HIDE DEF own
  <2>2. regions' \subseteq Pool!Bytes \X (1 .. HeapSize)
    BY <1>1, <1>3, <2>1 DEF Regions
  <2>3. \A r : r \in regions' <=> r \in regions \/ r = own
    BY <1>3
  <2>4. \A r : r \in regions <=> BlockRegion(blocks, r) \/ OwnCell(objects, r)
    BY <1>1 DEF Regions
  <2>5. \A r : r \in regions' <=> BlockRegion(blocks, r) \/ OwnCell(objects', r)
    BY <1>8, <2>3, <2>4
  <2> QED
    BY <2>2, <2>5 DEF Regions
<1> HIDE DEF own
<1> QED
  BY <1>1, <1>3, <1>6, <1>7, <1>8, <1>9 DEF PoolInv, Pooled

LEMMA PoolConvert ==
    ASSUME PoolInv, NEW o \in Pool!Alive, NEW base \in ObjectSizes, Pool!Convert(o, base)
    PROVE  PoolInv'
<1>1. objects = [q \in DOMAIN objects |-> objects[q]] /\ objects[o] \in Object
  BY PoolFacts DEF Housed, Pool!Alive
<1>2. /\ objects' = [objects EXCEPT ![o].deleter = objects[o].deleter] /\ free_chunks' = free_chunks
      /\ blocks' = blocks /\ memory' = memory /\ top' = top /\ regions' = regions
  BY DEF Pool!Convert, Pool!ConvertedDeleter
<1>3. [objects[o] EXCEPT !.deleter = objects[o].deleter] = objects[o]
  BY <1>1 DEF Object
<1>4. objects' = objects
  BY <1>1, <1>2, <1>3
<1> QED
  BY <1>2, <1>4 DEF PoolInv, Pooled

LEMMA PoolDeallocate ==
    ASSUME PoolInv, NEW o \in Pool!Alive, Pool!Deallocate(o)
    PROVE  PoolInv'
<1> DEFINE C == Cells(blocks, objects)  p == objects[o].addr  c == Pool!PoolOf(objects[o].deleter)
           own == <<objects[o].addr, objects[o].size>>
<1>1. /\ Managed(free_chunks, C, memory, top, objects) /\ blocks \in Blocks
      /\ Regions(blocks, objects, regions) /\ top \in 0 .. HeapSize /\ Tiled(C, top) /\ Housed(C, objects)
      /\ free_chunks \in [PoolSizes -> Pool!Bytes \cup {Pool!Null}] /\ o \in DOMAIN objects
  BY PoolFacts DEF Pool!Alive
<1>2. /\ objects[o].deleter <= Pool!MaxTypeSize /\ objects' = Pool!Without(o)
      /\ memory' = Pool!Written(memory, p, Lowest, Pool!Pointer(free_chunks[c]))
      /\ free_chunks' = [free_chunks EXCEPT ![c] = p]
      /\ blocks' = blocks /\ top' = top /\ regions' = regions
  BY DEF Pool!Deallocate
<1>3. objects[o].size <= Pool!MaxTypeSize /\ c \in PoolSizes
  <2>1. objects[o] \in Object /\ objects[o].deleter = objects[o].size
    BY <1>1 DEF Housed
  <2>2. objects[o].size \in Nat
    BY <2>1, HouseFits
  <2> QED
    BY <1>2, <2>1, <2>2, PoolFits
<1> HIDE DEF C, p, c
<1>4. Left(objects, objects', o) /\ objects' = [q \in DOMAIN objects' |-> objects'[q]]
  BY <1>2, WithoutLeaves
<1>5. Relinked(free_chunks, free_chunks', c, p)
  BY <1>1, <1>2, <1>3, ExceptRelinks
<1>6. Managed(free_chunks', C, memory', top, objects')
  BY <1>1, <1>2, <1>4, <1>5, GivesChunk DEF c, p
<1>7. Cells(blocks, objects') = C /\ \A z : OwnCell(objects', z) <=> OwnCell(objects, z)
  <2>0. Tiled(Cells(blocks, objects), top) /\ Housed(Cells(blocks, objects), objects)
    BY <1>1 DEF C
  <2>1. Cells(blocks, objects') = Cells(blocks, objects)
    BY <1>1, <1>3, <1>4, <2>0, CellsLeftChunk
  <2>2. ASSUME NEW z PROVE OwnCell(objects', z) <=> OwnCell(objects, z)
    BY <1>1, <1>3, <1>4, <2>0, CellsLeftChunk
  <2> QED
    BY <2>1, <2>2 DEF C
<1>8. Regions(blocks, objects', regions)
  BY <1>1, <1>7 DEF Regions
<1> QED
  BY <1>1, <1>2, <1>4, <1>6, <1>7, <1>8 DEF PoolInv, Pooled

LEMMA PoolDeallocateLarge ==
    ASSUME PoolInv, NEW o \in Pool!Alive, Pool!DeallocateLarge(o)
    PROVE  PoolInv'
<1> DEFINE C == Cells(blocks, objects)  own == <<objects[o].addr, objects[o].size>>
<1>1. /\ Managed(free_chunks, C, memory, top, objects) /\ blocks \in Blocks
      /\ Regions(blocks, objects, regions) /\ top \in 0 .. HeapSize /\ Tiled(C, top) /\ Housed(C, objects)
      /\ o \in DOMAIN objects
  BY PoolFacts DEF Pool!Alive
<1>2. objects[o].deleter = objects[o].size
  BY <1>1 DEF Housed
<1>3. /\ objects[o].size > Pool!MaxTypeSize /\ objects[o].deleter > Pool!MaxTypeSize
      /\ objects' = Pool!Without(o) /\ regions' = regions \ {own}
      /\ free_chunks' = free_chunks /\ blocks' = blocks /\ memory' = memory /\ top' = top
  BY <1>2 DEF Pool!DeallocateLarge
<1>4. Left(objects, objects', o) /\ objects' = [q \in DOMAIN objects' |-> objects'[q]]
  BY <1>3, WithoutLeaves
<1> HIDE DEF C
<1>5. Managed(free_chunks, C \ {own}, memory, top, objects')
  BY <1>1, <1>3, <1>4, GivesOwn
<1>6. /\ Cells(blocks, objects') = C \ {own} /\ ~BlockRegion(blocks, own)
      /\ \A z : OwnCell(objects', z) <=> OwnCell(objects, z) /\ z # own
  BY <1>1, <1>3, <1>4, CellsLeft DEF C
<1> HIDE DEF own
<1>7. Regions(blocks, objects', regions')
  <2>1. regions' \subseteq Pool!Bytes \X (1 .. HeapSize)
    BY <1>1, <1>3 DEF Regions
  <2>2. \A r : r \in regions <=> BlockRegion(blocks, r) \/ OwnCell(objects, r)
    BY <1>1 DEF Regions
  <2>3. \A r : r \in regions' <=> r \in regions /\ r # own
    BY <1>3
  <2>4. \A r : r \in regions' <=> BlockRegion(blocks, r) \/ OwnCell(objects', r)
    BY <1>6, <2>2, <2>3
  <2> QED
    BY <2>1, <2>4 DEF Regions
<1> QED
  BY <1>1, <1>3, <1>4, <1>5, <1>6, <1>7 DEF PoolInv, Pooled

LEMMA PoolNext == PoolInv /\ [Pool!Next]_(Pool!vars) => PoolInv'
<1> SUFFICES ASSUME PoolInv, [Pool!Next]_(Pool!vars) PROVE PoolInv'
  OBVIOUS
<1>1. ASSUME NEW size \in ObjectSizes, Pool!Allocate(size) PROVE PoolInv'
  BY <1>1, PoolAllocate
<1>2. ASSUME NEW size \in ObjectSizes, Pool!AllocateLarge(size) PROVE PoolInv'
  BY <1>2, PoolAllocateLarge
<1>3. ASSUME NEW o \in Pool!Alive, Pool!Deallocate(o) PROVE PoolInv'
  BY <1>3, PoolDeallocate
<1>4. ASSUME NEW o \in Pool!Alive, Pool!DeallocateLarge(o) PROVE PoolInv'
  BY <1>4, PoolDeallocateLarge
<1>5. ASSUME NEW o \in Pool!Alive, NEW base \in ObjectSizes, Pool!Convert(o, base) PROVE PoolInv'
  BY <1>5, PoolConvert
<1>6. CASE UNCHANGED Pool!vars
  BY <1>6 DEF PoolInv, Pooled, Pool!vars
<1> QED
  BY <1>1, <1>2, <1>3, <1>4, <1>5, <1>6 DEF Pool!Next

----------------------------------------------------------------------------
\* What a program stores in an object stays there until it is deleted: the
\* pointers PoolCore keeps in free chunks (memory-pool.cpp:56) and the writes
\* into other objects never reach it, for every list of type sizes.
THEOREM ObjectsStayIntact == Pool!Spec => []ObjectsIntact
<1>1. PoolInv => ObjectsIntact
  BY PoolFacts DEF Managed, Intact, ObjectsIntact, Pool!ObjectsIntact, Pool!Alive
<1> QED
  BY <1>1, PoolInit, PoolNext, PTL DEF Pool!Spec

\* The free list of each pool (memory-pool.cpp:68) holds each chunk of its
\* blocks that no object lies in, once, and nothing else; the manager holds on
\* to the blocks and the large objects it was given, and to nothing else.
THEOREM FreeListsAreWhole == Pool!Spec => []FreeListsWhole
<1> DEFINE C == Cells(blocks, objects)
<1>1. ASSUME PoolInv, NEW c \in PoolSizes
      PROVE  LET free == Pool!Chunks(c) \ Pool!InUse(c)
             IN  /\ {Pool!Walk(c)[n] : n \in 0 .. Pool!Cardinality(free)} \ {Pool!Null} = free
                 /\ Pool!Walk(c)[Pool!Cardinality(free)] = Pool!Null
  <2> DEFINE free == Pool!Chunks(c) \ Pool!InUse(c)
  <2>1. /\ blocks \in Blocks /\ top \in 0 .. HeapSize /\ Tiled(C, top) /\ Housed(C, objects)
        /\ Listed(free_chunks, C, memory, objects)
    BY <1>1, PoolFacts
  <2>2. c \in Nat \ {0} /\ c <= Pool!MaxTypeSize /\ Pool!MaxTypeSize \in Nat /\ HeapSize \in Nat
    BY PoolConstants
  <2>3. Pool!Chunks(c) = ChunksIn(blocks, c)
    BY DEF Pool!Chunks, ChunksIn
  <2>4. ASSUME NEW p \in ChunksIn(blocks, c) PROVE p \in Nat
    <3>1. PICK k \in 1 .. Len(blocks[c]) : \E i \in 0 .. Pool!ChunksPerBlock(c) - 1 : p = blocks[c][k] + i * c
      BY ChunkAt
    <3>2. PICK i \in 0 .. Pool!ChunksPerBlock(c) - 1 : p = blocks[c][k] + i * c
      BY <3>1
    <3>3. i \in Nat
      BY Chunked
    <3>4. i * c \in Nat
      BY <2>2, <3>3, Multiples
    <3>5. blocks[c] \in Seq(Pool!Bytes)
      BY <2>1 DEF Blocks
    <3>6. blocks[c][k] \in Pool!Bytes
      BY <3>5
    <3>7. blocks[c][k] \in Nat
      BY <3>6, PoolConstants
    <3> QED
      BY <3>2, <3>4, <3>7
  <2>5. \A p : p \in ChunksIn(blocks, c) <=> <<p, c>> \in C
    <3> TAKE p
    <3>1. ASSUME p \in ChunksIn(blocks, c) PROVE <<p, c>> \in C
      BY <2>2, <2>4, <3>1 DEF Cells, ChunkCell
    <3>2. ASSUME <<p, c>> \in C PROVE p \in ChunksIn(blocks, c)
      <4>1. CASE ChunkCell(blocks, <<p, c>>)
        BY <4>1 DEF ChunkCell
      <4>2. CASE OwnCell(objects, <<p, c>>)
        <5>1. PICK o \in DOMAIN objects : objects[o].size > Pool!MaxTypeSize /\ <<p, c>> = <<objects[o].addr, objects[o].size>>
          BY <4>2 DEF OwnCell
        <5>2. objects[o].size = c
          BY <5>1
        <5> QED
          BY <2>2, <5>1, <5>2
      <4> QED
        BY <3>2, <4>1, <4>2 DEF Cells
    <3> QED
      BY <3>1, <3>2
  <2>6. Pool!Chunks(c) \subseteq Pool!Bytes
    <3> SUFFICES ASSUME NEW p \in ChunksIn(blocks, c) PROVE p \in Pool!Bytes
      BY <2>3
    <3> DEFINE z == <<p, c>>
    <3>1. z[1] = p /\ z[2] = c /\ z \in C
      BY <2>5
    <3> HIDE DEF z, C
    <3>2. p \in Nat /\ p + c <= top
      BY <2>1, <3>1, CellFacts
    <3> QED
      BY <2>1, <2>2, <3>2, PoolConstants
  <2>7. \A p \in ChunksIn(blocks, c) : p \in Pool!InUse(c) <=> ~Vacant(objects, <<p, c>>)
    <3> TAKE p \in ChunksIn(blocks, c)
    <3>1. ASSUME p \in Pool!InUse(c) PROVE ~Vacant(objects, <<p, c>>)
      <4>1. PICK o \in DOMAIN objects : objects[o].size <= c /\ objects[o].addr = p
        BY <3>1 DEF Pool!InUse, Pool!Alive
      <4> DEFINE z == <<p, c>>  w == House(objects[o])
      <4>2. objects[o] \in Object /\ w \in C
        BY <2>1 DEF Housed
      <4>3. z[1] = p /\ z[2] = c /\ z \in C
        BY <2>5
      <4>4. w[1] = p /\ w[2] \in Nat \ {0} /\ p \in Nat
        BY <4>1, <4>2, HouseFits
      <4> HIDE DEF z, w, C
      <4>5. z = w
        BY <2>1, <2>2, <4>2, <4>3, <4>4 DEF Tiled
      <4> QED
        BY <4>5 DEF Vacant, z, w
    <3>2. ASSUME ~Vacant(objects, <<p, c>>) PROVE p \in Pool!InUse(c)
      <4>1. PICK o \in DOMAIN objects : House(objects[o]) = <<p, c>>
        BY <3>2 DEF Vacant
      <4>2. objects[o] \in Object
        BY <2>1 DEF Housed
      <4>3. House(objects[o])[1] = p /\ House(objects[o])[2] = c
        BY <4>1
      <4>4. objects[o].addr = p /\ objects[o].size <= c
        BY <4>2, <4>3, HouseFits
      <4> QED
        BY <4>4 DEF Pool!InUse, Pool!Alive
    <3> QED
      BY <3>1, <3>2
  <2>8. FreeIn(C, objects, c) = free
    BY <2>3, <2>4, <2>5, <2>7 DEF FreeIn
  <2>9. Chained(free_chunks[c], memory, free)
    BY <2>1, <2>8 DEF Listed
  <2>10. free \subseteq Pool!Chunks(c)
    OBVIOUS
  <2> HIDE DEF free
  <2>11. /\ {Pool!Walk(c)[n] : n \in 0 .. Pool!Cardinality(free)} \ {Pool!Null} = free
         /\ Pool!Walk(c)[Pool!Cardinality(free)] = Pool!Null
    BY <2>6, <2>9, <2>10, WholeListIsWalked
  <2> QED
    BY <2>11 DEF free
<1>2. ASSUME PoolInv
      PROVE  regions =
                (UNION {{<<blocks[c][k], c * Pool!ChunksPerBlock(c)>> : k \in 1 .. Len(blocks[c])} : c \in PoolSizes}) \cup
                {<<objects[o].addr, objects[o].size>> : o \in {q \in Pool!Alive : objects[q].size > Pool!MaxTypeSize}}
  <2>1. \A r : r \in regions <=> BlockRegion(blocks, r) \/ OwnCell(objects, r)
    BY <1>2, PoolFacts DEF Regions
  <2>2. ASSUME NEW r
        PROVE  BlockRegion(blocks, r) <=>
                r \in UNION {{<<blocks[c][k], c * Pool!ChunksPerBlock(c)>> : k \in 1 .. Len(blocks[c])} : c \in PoolSizes}
    BY DEF BlockRegion
  <2>3. ASSUME NEW r
        PROVE  OwnCell(objects, r) <=>
                r \in {<<objects[o].addr, objects[o].size>> : o \in {q \in Pool!Alive : objects[q].size > Pool!MaxTypeSize}}
    BY DEF OwnCell, Pool!Alive
  <2> QED
    BY <2>1, <2>2, <2>3
<1>3. PoolInv => FreeListsWhole
  BY <1>1, <1>2 DEF FreeListsWhole, Pool!FreeListsWhole, PoolSizes
<1> QED
  BY <1>3, PoolInit, PoolNext, PTL DEF Pool!Spec

====
