---- MODULE ProcessManager_proofs ----
(***************************************************************************)
(* The scheduler, for every number of processes: exactly one process runs, *)
(* no pointer or iterator dangles, nobody is blocked with nothing to wake  *)
(* it, and the idle process only runs when no other can.                   *)
(*                                                                         *)
(* The invariant adds to these what is known of the idle process.  Most    *)
(* handlers end in schedule(), so the proof has one lemma about Schedule:  *)
(* from what a handler hands over (Handed) it establishes the invariant.   *)
(*                                                                         *)
(* Two more results rest on the invariant: pids are unique until next_pid  *)
(* wraps, and the scheduler implements VirtualCpu.                         *)
(***************************************************************************)
EXTENDS ProcessManager, SequenceTheorems, TLAPS

\* Nothing exists before boot; afterwards the idle process is in the table with pid 0, and
\* it never sleeps.
IdleKept ==
    IF idle_process = NoProc
    THEN process_table = <<>> /\ current_process = NoProc /\ current_rr_it = End
    ELSE idle_process \in Table /\ process[idle_process].id = 0
         /\ process[idle_process].state # "Blocked"

Inv ==
    /\ TypeOK
    /\ NoDangling
    /\ IdleKept
    /\ OneRunning
    /\ SleepersHaveTicks
    /\ IdleOnlyWhenNothingReady

\* What holds of the fields of the processes when a handler calls schedule().
Handed(table, cur, procs) ==
    /\ procs \in [Procs -> ProcessFields]
    /\ \A p \in Elements(table) : procs[p].state = "Running" => p = cur
    /\ \A p \in Elements(table) : procs[p].state = "Blocked" <=> procs[p].sleep_ticks > 0
    /\ idle_process \in Elements(table)
    /\ procs[idle_process].id = 0
    /\ procs[idle_process].state # "Blocked"

NoDuplicates(table) == \A i, j \in 1 .. Len(table) : table[i] = table[j] => i = j

----------------------------------------------------------------------------
LEMMA ElementsType ==
    ASSUME NEW table \in Seq(Procs)
    PROVE  Elements(table) \subseteq Procs
  BY DEF Elements

LEMMA NewProcessType ==
    ASSUME NEW pid \in 0 .. PidMod - 1
    PROVE  NewProcess(pid) \in ProcessFields
  BY PMAssumption DEF NewProcess, ProcessFields

LEMMA ZeroPid == 0 \in 0 .. PidMod - 1
  BY PMAssumption

\* The list a std::list::erase leaves.
LEMMA EraseIsShift ==
    ASSUME NEW table \in Seq(Procs), NEW p \in Elements(table)
    PROVE  /\ Position(table, p) \in 1 .. Len(table)
           /\ table[Position(table, p)] = p
           /\ Erase(table, p) \in Seq(Procs)
           /\ Len(Erase(table, p)) = Len(table) - 1
           /\ \A i \in 1 .. Len(table) - 1 :
                Erase(table, p)[i] = IF i < Position(table, p) THEN table[i] ELSE table[i + 1]
<1> DEFINE n == Position(table, p)
           front == SubSeq(table, 1, n - 1)
           back == SubSeq(table, n + 1, Len(table))
<1>1. n \in 1 .. Len(table) /\ table[n] = p
  BY DEF Position, Elements
<1>2. Len(table) \in Nat /\ \A i \in 1 .. Len(table) : table[i] \in Procs
  OBVIOUS
<1> HIDE DEF n
<1>3. /\ front \in Seq(Procs)
      /\ Len(front) = n - 1
      /\ \A i \in 1 .. n - 1 : front[i] = table[i]
  <2>1. \A i \in 1 .. n - 1 : table[i] \in Procs
    BY <1>1, <1>2
  <2>2. 1 \in Int /\ n - 1 \in Int
    BY <1>1
  <2>3. /\ front \in Seq(Procs)
        /\ Len(front) = IF 1 <= n - 1 THEN n - 1 - 1 + 1 ELSE 0
        /\ \A i \in 1 .. n - 1 - 1 + 1 : front[i] = table[1 + i - 1]
    BY <2>1, <2>2, SubSeqProperties
  <2> QED
    BY <1>1, <2>3
<1>4. /\ back \in Seq(Procs)
      /\ Len(back) = Len(table) - n
      /\ \A i \in 1 .. Len(table) - n : back[i] = table[n + i]
  <2>1. \A i \in n + 1 .. Len(table) : table[i] \in Procs
    BY <1>1, <1>2
  <2>2. n + 1 \in Int /\ Len(table) \in Int
    BY <1>1, <1>2
  <2>3. /\ back \in Seq(Procs)
        /\ Len(back) = IF n + 1 <= Len(table) THEN Len(table) - (n + 1) + 1 ELSE 0
        /\ \A i \in 1 .. Len(table) - (n + 1) + 1 : back[i] = table[n + 1 + i - 1]
    BY <2>1, <2>2, SubSeqProperties
  <2>4. ASSUME NEW i \in 1 .. Len(table) - n PROVE back[i] = table[n + i]
    <3>1. i \in 1 .. Len(table) - (n + 1) + 1 /\ n + 1 + i - 1 = n + i
      BY <1>1, <1>2
    <3> QED
      BY <2>3, <3>1
  <2> QED
    BY <1>1, <1>2, <2>3, <2>4
<1>5. /\ front \o back \in Seq(Procs)
      /\ Len(front \o back) = Len(front) + Len(back)
      /\ \A i \in 1 .. Len(front) + Len(back) :
            (front \o back)[i] = IF i <= Len(front) THEN front[i] ELSE back[i - Len(front)]
  <2> HIDE DEF front, back
  <2> QED
    BY <1>3, <1>4, ConcatProperties
<1>6. Erase(table, p) = front \o back
  BY DEF Erase, n
<1>7. ASSUME NEW i \in 1 .. Len(table) - 1
      PROVE  (front \o back)[i] = IF i < n THEN table[i] ELSE table[i + 1]
  <2> HIDE DEF front, back
  <2>1. i \in 1 .. Len(front) + Len(back)
    BY <1>1, <1>2, <1>3, <1>4
  <2>2. CASE i < n
    BY <1>1, <1>2, <1>3, <1>5, <2>1, <2>2
  <2>3. CASE ~(i < n)
    <3>1. i - (n - 1) \in 1 .. Len(table) - n /\ n + (i - (n - 1)) = i + 1
      BY <1>1, <1>2, <2>3
    <3>2. (front \o back)[i] = back[i - (n - 1)]
      BY <1>1, <1>2, <1>3, <1>5, <2>1, <2>3
    <3> QED
      BY <1>4, <2>3, <3>1, <3>2
  <2> QED
    BY <2>2, <2>3
<1> HIDE DEF front, back
<1>8. /\ Erase(table, p) \in Seq(Procs)
      /\ Len(Erase(table, p)) = Len(table) - 1
      /\ \A i \in 1 .. Len(table) - 1 :
            Erase(table, p)[i] = IF i < n THEN table[i] ELSE table[i + 1]
  <2> DEFINE rest == front \o back
  <2>1. rest \in Seq(Procs) /\ Len(rest) = Len(front) + Len(back)
    BY <1>5
  <2>2. \A i \in 1 .. Len(table) - 1 : rest[i] = IF i < n THEN table[i] ELSE table[i + 1]
    BY <1>7
  <2>3. Erase(table, p) = rest
    BY <1>6
  <2> HIDE DEF rest
  <2>4. Len(rest) = Len(table) - 1
    BY <1>1, <1>2, <1>3, <1>4, <2>1
  <2> QED
    BY <2>1, <2>2, <2>3, <2>4
<1> QED
  BY <1>1, <1>8 DEF n

\* Erasing a process from a table without duplicates removes it, and nothing else.
LEMMA EraseRemoves ==
    ASSUME NEW table \in Seq(Procs), NoDuplicates(table), NEW p \in Elements(table)
    PROVE  /\ Elements(Erase(table, p)) = Elements(table) \ {p}
           /\ NoDuplicates(Erase(table, p))
<1> DEFINE n == Position(table, p)
           rest == Erase(table, p)
<1>1. /\ n \in 1 .. Len(table) /\ table[n] = p /\ Len(table) \in Nat
      /\ Len(rest) = Len(table) - 1
      /\ \A i \in 1 .. Len(table) - 1 : rest[i] = IF i < n THEN table[i] ELSE table[i + 1]
  BY EraseIsShift
<1> HIDE DEF n, rest
<1>2. ASSUME NEW i \in 1 .. Len(rest) PROVE rest[i] \in Elements(table) \ {p}
  <2>1. PICK j \in 1 .. Len(table) : j # n /\ rest[i] = table[j]
    <3>1. CASE i < n
      BY <1>1, <3>1
    <3>2. CASE ~(i < n)
      <4>1. i + 1 \in 1 .. Len(table) /\ i + 1 # n /\ rest[i] = table[i + 1]
        BY <1>1, <3>2
      <4> QED
        BY <4>1
    <3> QED
      BY <3>1, <3>2
  <2> QED
    BY <1>1, <2>1 DEF Elements, NoDuplicates
<1>3. ASSUME NEW j \in 1 .. Len(table), table[j] # p PROVE \E i \in 1 .. Len(rest) : rest[i] = table[j]
  <2>1. CASE j < n
    BY <1>1, <2>1
  <2>2. CASE j > n
    <3>1. j - 1 \in 1 .. Len(rest) /\ ~(j - 1 < n) /\ j - 1 + 1 = j
      BY <1>1, <2>2
    <3> QED
      BY <1>1, <3>1
  <2> QED
    BY <1>1, <1>3, <2>1, <2>2
<1>4. NoDuplicates(rest)
  <2> SUFFICES ASSUME NEW i \in 1 .. Len(rest), NEW j \in 1 .. Len(rest), rest[i] = rest[j]
               PROVE  i = j
    BY DEF NoDuplicates
  <2> QED
    BY <1>1 DEF NoDuplicates
<1>5. Elements(rest) = Elements(table) \ {p}
  BY <1>2, <1>3 DEF Elements
<1> QED
  BY <1>4, <1>5 DEF rest

\* What erase returns, and so the round-robin iterator, is never the erased element.
LEMMA AfterEraseType ==
    ASSUME Inv, NEW p \in Table
    PROVE  AfterErase(p) \in (Table \ {p}) \cup {End}
<1>1. process_table \in Seq(Procs) /\ NoDuplicates(process_table)
  BY DEF Inv, TypeOK, NoDangling, NoDuplicates
<1>2. CASE current_rr_it # p
  BY <1>2 DEF AfterErase, Inv, NoDangling
<1>3. CASE current_rr_it = p
  <2> DEFINE n == Position(process_table, p)
  <2>1. n \in 1 .. Len(process_table) /\ process_table[n] = p /\ Len(process_table) \in Nat
    BY <1>1, EraseIsShift DEF Table
  <2>2. AfterErase(p) = IF n = Len(process_table) THEN End ELSE process_table[n + 1]
    BY <1>3 DEF AfterErase, Following
  <2> HIDE DEF n
  <2>3. CASE n = Len(process_table)
    BY <2>2, <2>3
  <2>4. CASE n # Len(process_table)
    <3>1. n + 1 \in 1 .. Len(process_table) /\ n + 1 # n
      BY <2>1, <2>4
    <3> QED
      BY <1>1, <2>1, <2>2, <2>4, <3>1 DEF NoDuplicates, Table, Elements
  <2> QED
    BY <2>3, <2>4
<1> QED
  BY <1>2, <1>3

----------------------------------------------------------------------------
LEMMA SavedType ==
    ASSUME NEW procs \in [Procs -> ProcessFields], NEW cur, cpu \in Contexts
    PROVE  Saved(procs, cur) \in [Procs -> ProcessFields]
<1> SUFFICES ASSUME NEW p \in Procs
             PROVE  (IF p = cur
                     THEN [procs[p] EXCEPT !.context = cpu,
                                           !.state = IF @ = "Running" THEN "Ready" ELSE @]
                     ELSE procs[p]) \in ProcessFields
  BY DEF Saved
<1>1. procs[p] \in ProcessFields
  OBVIOUS
<1> QED
  BY <1>1 DEF ProcessFields

\* After save_current_context nobody is Running, and otherwise only a context has changed.
LEMMA SavedFields ==
    ASSUME NEW procs \in [Procs -> ProcessFields], NEW cur, NEW p \in Procs
    PROVE  /\ Saved(procs, cur)[p].id = procs[p].id
           /\ Saved(procs, cur)[p].sleep_ticks = procs[p].sleep_ticks
           /\ Saved(procs, cur)[p].quantum_ticks = procs[p].quantum_ticks
           /\ Saved(procs, cur)[p].state =
                IF p = cur /\ procs[p].state = "Running" THEN "Ready" ELSE procs[p].state
<1>1. procs[p] \in ProcessFields
  OBVIOUS
<1> QED
  BY <1>1 DEF Saved, ProcessFields

\* restore_process_context changes one state.
LEMMA RestoreFields ==
    ASSUME NEW procs \in [Procs -> ProcessFields], NEW p \in Procs, Restore(p, procs)
    PROVE  /\ process' \in [Procs -> ProcessFields]
           /\ cpu' \in Contexts
           /\ current_process' = p
           /\ \A q \in Procs :
                /\ process'[q].id = procs[q].id
                /\ process'[q].sleep_ticks = procs[q].sleep_ticks
                /\ process'[q].quantum_ticks = procs[q].quantum_ticks
                /\ process'[q].state = IF q = p THEN "Running" ELSE procs[q].state
<1>1. \A q \in Procs : procs[q] \in ProcessFields
  OBVIOUS
<1>2. \A q \in Procs : process'[q] = IF q = p THEN [procs[q] EXCEPT !.state = "Running"] ELSE procs[q]
  BY DEF Restore
<1>3. \A q \in Procs : [procs[q] EXCEPT !.state = "Running"] \in ProcessFields
  BY <1>1 DEF ProcessFields
<1>4. process' \in [Procs -> ProcessFields]
  BY <1>1, <1>3 DEF Restore
<1>5. cpu' \in Contexts /\ current_process' = p
  BY <1>1 DEF Restore, ProcessFields
<1> QED
  BY <1>1, <1>2, <1>4, <1>5 DEF ProcessFields

\* The process chosen and the place of the iterator.
LEMMA ScheduleChoice ==
    ASSUME NEW table \in Seq(Procs), NEW it \in Elements(table) \cup {End}, NEW cur, NEW procs,
           NoProc \notin Procs, idle_process \in Elements(table), Schedule(table, it, cur, procs)
    PROVE  /\ current_rr_it' \in Elements(table)
           /\ \E p \in Elements(table) :
                /\ Restore(p, Saved(procs, cur))
                /\ \/ p \in Schedulable(table, Saved(procs, cur))
                   \/ p = idle_process /\ Schedulable(table, Saved(procs, cur)) = {}
<1>1. Elements(table) # {} => Len(table) \in Nat /\ Len(table) # 0
  BY DEF Elements
<1>2. table[1] \in Elements(table)
  BY <1>1 DEF Elements
<1>3. Schedulable(table, Saved(procs, cur)) \subseteq Elements(table)
  BY DEF Schedulable
<1> QED
  BY <1>2, <1>3 DEF Schedule

\* schedule() establishes the invariant.
LEMMA ScheduleInv ==
    ASSUME NEW table \in Seq(Procs), NoDuplicates(table),
           NEW it \in Elements(table) \cup {End}, NEW cur \in Procs \cup {NoProc}, NEW procs,
           Handed(table, cur, procs), Schedule(table, it, cur, procs),
           cpu \in Contexts, next_pid' \in 0 .. PidMod - 1,
           process_table' = table, idle_process' = idle_process
    PROVE  Inv'
<1> DEFINE saved == Saved(procs, cur)
<1>1. Elements(table) \subseteq Procs /\ idle_process \in Elements(table) /\ NoProc \notin Procs
  BY ElementsType, PMAssumption DEF Handed
<1>2. procs \in [Procs -> ProcessFields] /\ saved \in [Procs -> ProcessFields]
  BY SavedType DEF Handed
<1>3. /\ current_rr_it' \in Elements(table)
      /\ \E p \in Elements(table) :
            /\ Restore(p, saved)
            /\ \/ p \in Schedulable(table, saved)
               \/ p = idle_process /\ Schedulable(table, saved) = {}
  BY <1>1, ScheduleChoice
<1>4. PICK p \in Elements(table) :
        /\ Restore(p, saved)
        /\ p \in Schedulable(table, saved) \/ (p = idle_process /\ Schedulable(table, saved) = {})
  BY <1>3
<1>5. \A q \in Procs :
        /\ saved[q].id = procs[q].id
        /\ saved[q].sleep_ticks = procs[q].sleep_ticks
        /\ saved[q].quantum_ticks = procs[q].quantum_ticks
        /\ saved[q].state = IF q = cur /\ procs[q].state = "Running" THEN "Ready" ELSE procs[q].state
  BY <1>2, SavedFields
<1> HIDE DEF saved
<1>6. /\ process' \in [Procs -> ProcessFields]
      /\ cpu' \in Contexts
      /\ current_process' = p
      /\ \A q \in Procs :
            /\ process'[q].id = saved[q].id
            /\ process'[q].sleep_ticks = saved[q].sleep_ticks
            /\ process'[q].quantum_ticks = saved[q].quantum_ticks
            /\ process'[q].state = IF q = p THEN "Running" ELSE saved[q].state
  BY <1>1, <1>2, <1>4, RestoreFields
<1>7. Table' = Elements(table)
  BY DEF Table, Elements
<1>8. TypeOK'
  BY <1>1, <1>3, <1>6 DEF TypeOK
<1>9. NoDangling'
  BY <1>1, <1>3, <1>6, <1>7 DEF NoDangling, NoDuplicates
<1>10. p = idle_process \/ (procs[p].id # 0 /\ saved[p].state \in {"Ready", "Running"})
  BY <1>1, <1>4, <1>5 DEF Schedulable
<1>11. saved[p].state # "Blocked"
  BY <1>1, <1>5, <1>10 DEF Handed
<1>12. IdleKept'
  BY <1>1, <1>5, <1>6, <1>7 DEF IdleKept, Handed
<1>13. OneRunning'
  BY <1>1, <1>5, <1>6, <1>7 DEF OneRunning, Handed
<1>14. SleepersHaveTicks'
  <2> SUFFICES ASSUME NEW q \in Elements(table)
               PROVE  process'[q].state = "Blocked" <=> process'[q].sleep_ticks > 0
    BY <1>7 DEF SleepersHaveTicks
  <2>1. procs[q].state = "Blocked" <=> procs[q].sleep_ticks > 0
    BY DEF Handed
  <2>2. saved[q].state = "Blocked" <=> procs[q].state = "Blocked"
    BY <1>1, <1>5
  <2>3. process'[q].state = "Blocked" <=> saved[q].state = "Blocked"
    BY <1>1, <1>6, <1>11
  <2> QED
    BY <1>1, <1>5, <1>6, <2>1, <2>2, <2>3
<1>16. IdleOnlyWhenNothingReady'
  <2> SUFFICES ASSUME p = idle_process, NEW q \in Elements(table), process'[q].id # 0
               PROVE  process'[q].state = "Blocked"
    BY <1>6, <1>7 DEF IdleOnlyWhenNothingReady, IsUser
  <2>1. Schedulable(table, saved) = {}
    BY <1>1, <1>4, <1>5 DEF Schedulable, Handed
  <2>2. saved[q].id # 0 /\ q # p
    BY <1>1, <1>5, <1>6 DEF Handed
  <2>3. saved[q].state \in {"Ready", "Running", "Blocked"}
    BY <1>1, <1>2 DEF ProcessFields
  <2> QED
    BY <1>1, <1>6, <2>1, <2>2, <2>3 DEF Schedulable
<1> QED
  BY <1>8, <1>9, <1>12, <1>13, <1>14, <1>16 DEF Inv

----------------------------------------------------------------------------
LEMMA InitInv == Init => Inv
<1> SUFFICES ASSUME Init PROVE Inv
  OBVIOUS
<1>1. Table = {}
  BY DEF Init, Table, Elements
<1>2. NewProcess(0) \in ProcessFields
  BY ZeroPid, NewProcessType
<1>3. TypeOK
  BY <1>2, ZeroPid, PMAssumption DEF Init, TypeOK, End
<1>5. NoDangling
  BY <1>1 DEF NoDangling, Init, End
<1>6. OneRunning /\ SleepersHaveTicks /\ IdleOnlyWhenNothingReady /\ IdleKept
  BY <1>1 DEF OneRunning, SleepersHaveTicks, IdleOnlyWhenNothingReady, IdleKept, Init
<1> QED
  BY <1>3, <1>5, <1>6 DEF Inv

\* Once booted, the fields of the processes are what schedule() expects.
LEMMA InvHanded ==
    ASSUME Inv, current_process # NoProc
    PROVE  /\ idle_process # NoProc /\ idle_process \in Table /\ current_process \in Table
           /\ current_process \in Procs /\ Table \subseteq Procs
           /\ process_table \in Seq(Procs) /\ NoDuplicates(process_table)
           /\ current_rr_it \in Elements(process_table) \cup {End}
           /\ Handed(process_table, current_process, process)
<1>1. process_table \in Seq(Procs) /\ Table \subseteq Procs
  BY ElementsType DEF Inv, TypeOK, Table
<1>2. idle_process # NoProc
  BY DEF Inv, IdleKept
<1>3. current_process \in Table /\ idle_process \in Table
  BY <1>2 DEF Inv, IdleKept, OneRunning
<1>4. Handed(process_table, current_process, process)
  BY <1>2, <1>3
  DEF Handed, Inv, TypeOK, IdleKept, OneRunning, SleepersHaveTicks, Table
<1> QED
  BY <1>1, <1>2, <1>3, <1>4 DEF Inv, NoDangling, NoDuplicates, Table

\* Appending a new process to the table.
LEMMA AppendTable ==
    ASSUME Inv, NEW p \in Procs, p \notin Table, process_table' = Append(process_table, p)
    PROVE  /\ process_table' \in Seq(Procs)
           /\ Table' = Table \cup {p}
           /\ NoDuplicates(process_table')
<1>1. process_table \in Seq(Procs) /\ Len(process_table) \in Nat
  BY DEF Inv, TypeOK
<1>2. /\ process_table' \in Seq(Procs)
      /\ Len(process_table') = Len(process_table) + 1
      /\ \A i \in 1 .. Len(process_table) : process_table'[i] = process_table[i]
      /\ process_table'[Len(process_table) + 1] = p
  BY <1>1
<1>3. \A i \in 1 .. Len(process_table) : process_table[i] \in Table
  BY DEF Table, Elements
<1>4. Table' = Table \cup {p}
  <2>1. ASSUME NEW i \in 1 .. Len(process_table') PROVE process_table'[i] \in Table \cup {p}
    BY <1>1, <1>2, <1>3
  <2>2. ASSUME NEW q \in Table PROVE \E i \in 1 .. Len(process_table') : process_table'[i] = q
    BY <1>1, <1>2 DEF Table, Elements
  <2>3. Len(process_table') \in 1 .. Len(process_table') /\ process_table'[Len(process_table')] = p
    BY <1>1, <1>2
  <2> QED
    BY <2>1, <2>2, <2>3 DEF Table, Elements
<1>5. NoDuplicates(process_table)
  BY DEF Inv, NoDangling, NoDuplicates
<1>6. NoDuplicates(process_table')
  <2> SUFFICES ASSUME NEW i \in 1 .. Len(process_table'), NEW j \in 1 .. Len(process_table'),
                      process_table'[i] = process_table'[j]
               PROVE  i = j
    BY DEF NoDuplicates
  <2> QED
    BY <1>1, <1>2, <1>3, <1>5 DEF NoDuplicates
<1> QED
  BY <1>2, <1>4, <1>6

(***************************************************************************)
(* A load puts the new process on the CPU without calling schedule().      *)
(***************************************************************************)
LEMMA LoadInv ==
    ASSUME Inv, NEW p \in Procs, NEW pid \in 0 .. PidMod - 1, LoadAs(p, pid),
           next_pid' \in 0 .. PidMod - 1,
           \/ idle_process = NoProc /\ idle_process' = p /\ pid = 0
           \/ idle_process # NoProc /\ idle_process' = idle_process
    PROVE  Inv'
<1> DEFINE created == [process EXCEPT ![p] = NewProcess(pid)]
           saved == Saved(created, current_process)
<1>1. p \notin Table /\ Restore(p, saved) /\ current_rr_it' = current_rr_it
  BY DEF LoadAs
<1>2. process_table' \in Seq(Procs) /\ Table' = Table \cup {p} /\ NoDuplicates(process_table')
  BY <1>1, AppendTable DEF LoadAs
<1>3. NewProcess(pid) \in ProcessFields
  BY NewProcessType
<1>4. created \in [Procs -> ProcessFields] /\ saved \in [Procs -> ProcessFields]
  BY <1>3, SavedType DEF Inv, TypeOK
<1>5. /\ created[p].id = pid /\ created[p].sleep_ticks = 0 /\ created[p].quantum_ticks = 0
      /\ created[p].state = "Ready"
      /\ \A q \in Procs : q # p => created[q] = process[q]
  BY <1>4 DEF NewProcess, Inv, TypeOK
<1>6. \A q \in Procs :
        /\ saved[q].id = created[q].id
        /\ saved[q].sleep_ticks = created[q].sleep_ticks
        /\ saved[q].quantum_ticks = created[q].quantum_ticks
        /\ saved[q].state = IF q = current_process /\ created[q].state = "Running"
                            THEN "Ready" ELSE created[q].state
  BY <1>4, SavedFields
<1> HIDE DEF created, saved
<1>7. /\ process' \in [Procs -> ProcessFields]
      /\ cpu' \in Contexts
      /\ current_process' = p
      /\ \A q \in Procs :
            /\ process'[q].id = saved[q].id
            /\ process'[q].sleep_ticks = saved[q].sleep_ticks
            /\ process'[q].quantum_ticks = saved[q].quantum_ticks
            /\ process'[q].state = IF q = p THEN "Running" ELSE saved[q].state
  BY <1>1, <1>4, RestoreFields
<1>8. Table \subseteq Procs /\ NoProc \notin Procs
  BY ElementsType, PMAssumption DEF Inv, TypeOK, Table
<1>9. idle_process' \in Table' /\ idle_process' # NoProc
  BY <1>2, <1>8 DEF Inv, IdleKept
<1>10. process'[idle_process'].id = 0 /\ process'[idle_process'].state # "Blocked"
  <2>1. CASE idle_process' = p
    <3>1. process'[p].id = pid /\ process'[p].state = "Running"
      BY <1>5, <1>6, <1>7
    <3>2. pid = 0
      BY <1>1, <2>1 DEF Inv, IdleKept
    <3> QED
      BY <2>1, <3>1, <3>2
  <2>2. CASE idle_process' # p
    <3>1. idle_process \in Procs /\ idle_process' = idle_process /\ process[idle_process].id = 0
          /\ process[idle_process].state # "Blocked"
      BY <1>8, <2>2 DEF Inv, IdleKept
    <3> QED
      BY <1>5, <1>6, <1>7, <2>2, <3>1
  <2> QED
    BY <2>1, <2>2
<1>11. TypeOK'
  BY <1>2, <1>7, <1>8, <1>9, <1>1 DEF TypeOK, Inv
<1>12. NoDangling'
  BY <1>1, <1>2, <1>7, <1>9 DEF NoDangling, NoDuplicates, Inv
<1>13. IdleKept'
  BY <1>9, <1>10 DEF IdleKept
<1>14. OneRunning'
  <2> SUFFICES ASSUME NEW q \in Table, q # p PROVE process'[q].state # "Running"
    BY <1>2, <1>7, <1>8, <1>1 DEF OneRunning
  <2>1. idle_process # NoProc
    BY DEF Inv, IdleKept, Table, Elements
  <2>2. process[q].state = "Running" => q = current_process
    BY <2>1 DEF Inv, OneRunning
  <2> QED
    BY <1>5, <1>6, <1>7, <1>8, <2>2
<1>15. SleepersHaveTicks'
  <2> SUFFICES ASSUME NEW q \in Table'
               PROVE  process'[q].state = "Blocked" <=> process'[q].sleep_ticks > 0
    BY DEF SleepersHaveTicks
  <2>1. CASE q = p
    BY <1>5, <1>6, <1>7, <2>1
  <2>2. CASE q # p
    <3>1. q \in Procs /\ (process[q].state = "Blocked" <=> process[q].sleep_ticks > 0)
      BY <1>2, <1>8, <2>2 DEF Inv, SleepersHaveTicks
    <3> QED
      BY <1>5, <1>6, <1>7, <2>2, <3>1
  <2> QED
    BY <2>1, <2>2
<1>17. IdleOnlyWhenNothingReady'
  <2> SUFFICES ASSUME p = idle_process', NEW q \in Table', process'[q].id # 0
               PROVE  process'[q].state = "Blocked"
    BY <1>7 DEF IdleOnlyWhenNothingReady, IsUser
  <2>1. Table = {}
    BY <1>1 DEF Inv, IdleKept, Table, Elements
  <2> QED
    BY <1>2, <1>10, <2>1
<1> QED
  BY <1>11, <1>12, <1>13, <1>14, <1>15, <1>17 DEF Inv

----------------------------------------------------------------------------
\* The end of the process on the CPU.
LEMMA DestroyCurrentInv ==
    ASSUME Inv, NEW p \in Procs, p # idle_process, DestroyCurrent(p)
    PROVE  Inv'
<1> DEFINE rest == Erase(process_table, p)
           it == AfterErase(p)
           procs == [process EXCEPT ![p] = NewProcess(0)]
<1>1. p = current_process /\ current_process # NoProc /\ NoProc \notin Procs
  BY PMAssumption DEF DestroyCurrent
<1>2. /\ idle_process \in Table /\ p \in Table /\ Table \subseteq Procs
      /\ process_table \in Seq(Procs) /\ NoDuplicates(process_table)
      /\ Handed(process_table, p, process)
  BY <1>1, InvHanded
<1>3. /\ rest \in Seq(Procs) /\ NoDuplicates(rest)
      /\ Elements(rest) = Table \ {p}
  BY <1>2, EraseIsShift, EraseRemoves DEF Table
<1>4. it \in Elements(rest) \cup {End}
  BY <1>2, <1>3, AfterEraseType
<1>5. procs \in [Procs -> ProcessFields]
  BY ZeroPid, NewProcessType DEF Inv, TypeOK
<1>6. \A q \in Procs : procs[q] = IF q = p THEN NewProcess(0) ELSE process[q]
  BY DEF Inv, TypeOK
<1> HIDE DEF procs
<1>7. Handed(rest, NoProc, procs)
  BY <1>2, <1>3, <1>5, <1>6 DEF Handed, Table
<1>8. /\ process_table' = rest /\ Schedule(rest, it, NoProc, procs)
      /\ idle_process' = idle_process /\ next_pid' = next_pid
  BY DEF DestroyCurrent, procs
<1>9. cpu \in Contexts /\ next_pid \in 0 .. PidMod - 1
  BY DEF Inv, TypeOK
<1> HIDE DEF rest, it
<1> QED
  BY <1>3, <1>4, <1>7, <1>8, <1>9, ScheduleInv

\* The end of another process, after which the same one goes on running.
LEMMA DestroyOtherInv ==
    ASSUME Inv, NEW p \in Procs, p # idle_process, DestroyOther(p)
    PROVE  Inv'
<1>1. p \in Table /\ p # current_process
  BY DEF DestroyOther
<1>2. process_table \in Seq(Procs) /\ NoDuplicates(process_table) /\ Table \subseteq Procs
  BY ElementsType DEF Inv, TypeOK, NoDangling, NoDuplicates, Table
<1>3. /\ process_table' \in Seq(Procs) /\ NoDuplicates(process_table')
      /\ Table' = Table \ {p}
  <2>1. process_table' = Erase(process_table, p)
    BY DEF DestroyOther
  <2>2. p \in Elements(process_table) /\ Table = Elements(process_table)
        /\ Table' = Elements(process_table')
    BY <1>1 DEF Table
  <2> QED
    BY <1>2, <2>1, <2>2, EraseIsShift, EraseRemoves
<1>4. current_rr_it' \in Table' \cup {End}
  BY <1>1, <1>3, AfterEraseType DEF DestroyOther
<1>5. /\ current_process' = current_process /\ idle_process' = idle_process
      /\ next_pid' = next_pid /\ cpu' = cpu
  BY DEF DestroyOther
<1>6. NewProcess(0) \in ProcessFields
  BY ZeroPid, NewProcessType
<1>7. /\ process' \in [Procs -> ProcessFields]
      /\ \A q \in Procs : process'[q] = IF q = p THEN NewProcess(0) ELSE process[q]
  BY <1>6 DEF DestroyOther, Inv, TypeOK
<1>8. idle_process # NoProc
  BY <1>1 DEF Inv, IdleKept, Table, Elements
<1>9. TypeOK'
  BY <1>2, <1>3, <1>4, <1>5, <1>7 DEF TypeOK, Inv
<1>10. NoDangling'
  BY <1>1, <1>3, <1>4, <1>5 DEF NoDangling, NoDuplicates, Inv
<1>11. IdleKept'
  BY <1>2, <1>3, <1>5, <1>7, <1>8 DEF IdleKept, Inv
<1>12. OneRunning'
  BY <1>1, <1>2, <1>3, <1>5, <1>7, <1>8 DEF OneRunning, Inv
<1>13. SleepersHaveTicks'
  BY <1>2, <1>3, <1>7 DEF SleepersHaveTicks, Inv
<1>15. IdleOnlyWhenNothingReady'
  BY <1>2, <1>3, <1>5, <1>7 DEF IdleOnlyWhenNothingReady, IsUser, Inv
<1> QED
  BY <1>9, <1>10, <1>11, <1>12, <1>13, <1>15 DEF Inv

LEMMA KillInv ==
    ASSUME Inv, NEW pid, KillPid(pid)
    PROVE  Inv'
<1>1. PICK i \in 1 .. Len(process_table) :
        /\ process[process_table[i]].id = pid
        /\ DestroyCurrent(process_table[i]) \/ DestroyOther(process_table[i])
  BY DEF KillPid
<1>2. process_table[i] \in Table /\ process_table[i] \in Procs
  BY DEF Inv, TypeOK, Table, Elements
<1>3. process_table[i] # idle_process
  BY <1>1, <1>2 DEF KillPid, Inv, IdleKept, Table, Elements
<1> QED
  BY <1>1, <1>2, <1>3, DestroyCurrentInv, DestroyOtherInv

----------------------------------------------------------------------------
LEMMA AgedFields ==
    ASSUME NEW proc \in ProcessFields
    PROVE  /\ Aged(proc) \in ProcessFields
           /\ Aged(proc).id = proc.id
           /\ Aged(proc).quantum_ticks = proc.quantum_ticks
           /\ proc.state # "Blocked" => Aged(proc) = proc
           /\ Aged(proc).state = "Running" => proc.state = "Running"
           /\ (proc.state = "Blocked" <=> proc.sleep_ticks > 0) =>
                (Aged(proc).state = "Blocked" <=> Aged(proc).sleep_ticks > 0)
<1>1. CASE proc.state = "Blocked" /\ proc.sleep_ticks > 0
  <2> DEFINE next == IF proc.sleep_ticks = 1 THEN "Ready" ELSE "Blocked"
  <2>1. Aged(proc) = [proc EXCEPT !.sleep_ticks = proc.sleep_ticks - 1, !.state = next]
    BY <1>1 DEF Aged
  <2>2. proc.sleep_ticks - 1 \in Nat /\ next \in {"Ready", "Running", "Blocked"}
    BY <1>1 DEF ProcessFields
  <2> HIDE DEF next
  <2>3. /\ Aged(proc) \in ProcessFields
        /\ Aged(proc).id = proc.id
        /\ Aged(proc).quantum_ticks = proc.quantum_ticks
        /\ Aged(proc).sleep_ticks = proc.sleep_ticks - 1
        /\ Aged(proc).state = next
    BY <2>1, <2>2 DEF ProcessFields
  <2>4. next # "Running" /\ (next = "Blocked" <=> proc.sleep_ticks # 1)
    BY DEF next
  <2>5. proc.sleep_ticks \in Nat
    BY DEF ProcessFields
  <2> QED
    BY <1>1, <2>3, <2>4, <2>5
<1>2. CASE ~(proc.state = "Blocked" /\ proc.sleep_ticks > 0)
  BY <1>2 DEF Aged
<1> QED
  BY <1>1, <1>2

\* update_sleeping_processes keeps what schedule() expects, and the process on the CPU as
\* it is.
LEMMA UpdateSleepingHanded ==
    ASSUME Inv, current_process # NoProc
    PROVE  /\ Handed(process_table, current_process, UpdateSleeping(process))
           /\ UpdateSleeping(process)[current_process] = process[current_process]
           /\ \A p \in Procs : UpdateSleeping(process)[p].id = process[p].id
<1> DEFINE aged == UpdateSleeping(process)
<1>1. /\ idle_process \in Table /\ current_process \in Table /\ Table \subseteq Procs
      /\ Handed(process_table, current_process, process) /\ Table = Elements(process_table)
      /\ process[current_process].state # "Blocked"
  BY InvHanded DEF Table, Inv, OneRunning
<1>2. \A p \in Procs : process[p] \in ProcessFields
  BY DEF Inv, TypeOK
<1>3. \A p \in Procs : aged[p] = IF p \in Table THEN Aged(process[p]) ELSE process[p]
  BY DEF UpdateSleeping
<1>4. \A p \in Procs : aged[p] \in ProcessFields /\ aged[p].id = process[p].id
                        /\ aged[p].quantum_ticks = process[p].quantum_ticks
  <2> SUFFICES ASSUME NEW p \in Procs
               PROVE  aged[p] \in ProcessFields /\ aged[p].id = process[p].id
                      /\ aged[p].quantum_ticks = process[p].quantum_ticks
    OBVIOUS
  <2> HIDE DEF aged
  <2>1. process[p] \in ProcessFields /\ (aged[p] = Aged(process[p]) \/ aged[p] = process[p])
    BY <1>2, <1>3
  <2> QED
    BY <2>1, AgedFields
<1>5. aged \in [Procs -> ProcessFields]
  BY <1>4 DEF UpdateSleeping
<1> HIDE DEF aged
<1>6. \A p \in Table :
        /\ process[p].state # "Blocked" => aged[p] = process[p]
        /\ aged[p].state = "Running" => process[p].state = "Running"
        /\ (process[p].state = "Blocked" <=> process[p].sleep_ticks > 0) =>
                (aged[p].state = "Blocked" <=> aged[p].sleep_ticks > 0)
  <2> SUFFICES ASSUME NEW p \in Table
               PROVE  /\ process[p].state # "Blocked" => aged[p] = process[p]
                      /\ aged[p].state = "Running" => process[p].state = "Running"
                      /\ (process[p].state = "Blocked" <=> process[p].sleep_ticks > 0) =>
                            (aged[p].state = "Blocked" <=> aged[p].sleep_ticks > 0)
    OBVIOUS
  <2>1. process[p] \in ProcessFields /\ aged[p] = Aged(process[p])
    BY <1>1, <1>2, <1>3
  <2> QED
    BY <2>1, AgedFields
<1>7. Handed(process_table, current_process, aged)
  BY <1>1, <1>4, <1>5, <1>6 DEF Handed
<1> QED
  BY <1>1, <1>4, <1>6, <1>7 DEF aged

\* A tick that leaves the running process on the CPU.
LEMMA TickWithinQuantumInv == ASSUME Inv, TickWithinQuantum PROVE Inv'
<1> DEFINE aged == UpdateSleeping(process)
           cur == current_process
<1>1. cur # NoProc /\ RunsUser
  BY DEF TickWithinQuantum
<1>2. /\ cur \in Table /\ cur \in Procs /\ Table \subseteq Procs /\ idle_process # NoProc
      /\ Table = Elements(process_table) /\ process[cur].id # 0
      /\ Handed(process_table, cur, aged) /\ aged[cur] = process[cur]
  BY <1>1, InvHanded, UpdateSleepingHanded DEF Table, RunsUser, IsUser
<1>3. process' = [aged EXCEPT ![cur].quantum_ticks = @ + 1]
      /\ process[cur].quantum_ticks + 1 < Quantum
      /\ UNCHANGED <<process_table, current_rr_it, current_process, idle_process, next_pid, cpu>>
  BY DEF TickWithinQuantum
<1> HIDE DEF aged
<1>4. aged \in [Procs -> ProcessFields]
  BY <1>2 DEF Handed
<1>5. [aged[cur] EXCEPT !.quantum_ticks = @ + 1] \in ProcessFields
  BY <1>2, <1>4 DEF ProcessFields
<1>6. process' \in [Procs -> ProcessFields]
  BY <1>2, <1>3, <1>4, <1>5
<1>7. \A q \in Procs : /\ process'[q].id = aged[q].id
                       /\ process'[q].state = aged[q].state
                       /\ process'[q].sleep_ticks = aged[q].sleep_ticks
                       /\ q # cur => process'[q] = aged[q]
  <2>1. \A q \in Procs : aged[q] \in ProcessFields
    BY <1>4
  <2>2. \A q \in Procs : q # cur => process'[q] = aged[q]
    BY <1>3, <1>4
  <2>3. process'[cur] = [aged[cur] EXCEPT !.quantum_ticks = @ + 1]
    BY <1>2, <1>3, <1>4
  <2> QED
    BY <1>2, <2>1, <2>2, <2>3 DEF ProcessFields
<1>9. Table' = Table
  BY <1>3 DEF Table
<1>10. TypeOK' /\ NoDangling'
  BY <1>3, <1>6, <1>9 DEF Inv, TypeOK, NoDangling
<1>11. IdleKept'
  BY <1>2, <1>3, <1>7, <1>9 DEF IdleKept, Handed, Inv
<1>12. OneRunning'
  BY <1>2, <1>3, <1>7, <1>9 DEF OneRunning, Handed, Inv
<1>13. SleepersHaveTicks'
  BY <1>2, <1>7, <1>9 DEF SleepersHaveTicks, Handed
<1>15. IdleOnlyWhenNothingReady'
  BY <1>2, <1>3 DEF IdleOnlyWhenNothingReady, Inv, IdleKept
<1> QED
  BY <1>10, <1>11, <1>12, <1>13, <1>15 DEF Inv

\* The handlers that end in schedule() with the table as it is.
LEMMA YieldInv ==
    ASSUME Inv, current_process # NoProc, NEW procs,
           Handed(process_table, current_process, procs),
           Schedule(process_table, current_rr_it, current_process, procs),
           UNCHANGED <<process_table, idle_process, next_pid>>
    PROVE  Inv'
<1>1. /\ process_table \in Seq(Procs) /\ NoDuplicates(process_table)
      /\ current_rr_it \in Elements(process_table) \cup {End}
      /\ current_process \in Procs \cup {NoProc}
  BY InvHanded
<1>2. cpu \in Contexts /\ next_pid' \in 0 .. PidMod - 1
  BY DEF Inv, TypeOK
<1> QED
  BY <1>1, <1>2, ScheduleInv

LEMMA TickEndsQuantumInv == ASSUME Inv, TickEndsQuantum PROVE Inv'
<1> DEFINE aged == UpdateSleeping(process)
           cur == current_process
           procs == [aged EXCEPT ![cur] = [@ EXCEPT !.quantum_ticks = 0, !.state = "Ready"]]
<1>1. cur # NoProc /\ RunsUser /\ Schedule(process_table, current_rr_it, cur, procs)
      /\ UNCHANGED <<process_table, idle_process, next_pid>>
  BY DEF TickEndsQuantum
<1>2. /\ cur \in Table /\ cur \in Procs /\ Table \subseteq Procs
      /\ Table = Elements(process_table) /\ process[cur].id # 0 /\ process[cur].state = "Running"
      /\ Handed(process_table, cur, aged) /\ aged[cur] = process[cur]
  BY <1>1, InvHanded, UpdateSleepingHanded DEF Table, RunsUser, IsUser
<1> HIDE DEF aged
<1>3. aged \in [Procs -> ProcessFields]
  BY <1>2 DEF Handed
<1>4. /\ [aged[cur] EXCEPT !.quantum_ticks = 0, !.state = "Ready"] \in ProcessFields
      /\ procs \in [Procs -> ProcessFields]
  BY <1>2, <1>3 DEF ProcessFields
<1>5. \A q \in Procs : q # cur => procs[q] = aged[q]
  BY <1>3
<1>6. /\ procs[cur].id = aged[cur].id /\ procs[cur].sleep_ticks = aged[cur].sleep_ticks
      /\ procs[cur].quantum_ticks = 0 /\ procs[cur].state = "Ready"
  BY <1>2, <1>3 DEF ProcessFields
<1> HIDE DEF procs
<1>7. Handed(process_table, cur, procs)
  BY <1>2, <1>4, <1>5, <1>6, PMAssumption DEF Handed
<1> QED
  BY <1>1, <1>7, YieldInv

LEMMA TickWhileIdleInv == ASSUME Inv, TickWhileIdle PROVE Inv'
  BY UpdateSleepingHanded, YieldInv DEF TickWhileIdle

LEMMA SleepInv == ASSUME Inv, NEW t \in SleepTicks, Sleep(t) PROVE Inv'
<1> DEFINE cur == current_process
           asleep == [process EXCEPT ![cur] = [@ EXCEPT !.sleep_ticks = t, !.state = "Blocked"]]
<1>1. /\ cur # NoProc /\ process[cur].id # 0 /\ t \in Nat
      /\ Schedule(process_table, current_rr_it, cur, IF t = 0 THEN process ELSE asleep)
      /\ UNCHANGED <<process_table, idle_process, next_pid>>
  BY PMAssumption DEF Sleep, IsUser
<1>2. /\ cur \in Table /\ cur \in Procs /\ Table \subseteq Procs
      /\ Table = Elements(process_table) /\ Handed(process_table, cur, process)
  BY <1>1, InvHanded DEF Table
<1>3. CASE t = 0
  BY <1>1, <1>2, <1>3, YieldInv
<1>4. CASE t # 0
  <2>1. process \in [Procs -> ProcessFields]
    BY DEF Inv, TypeOK
  <2>2. /\ [process[cur] EXCEPT !.sleep_ticks = t, !.state = "Blocked"] \in ProcessFields
        /\ asleep \in [Procs -> ProcessFields]
    BY <1>1, <1>2, <2>1 DEF ProcessFields
  <2>3. \A q \in Procs : q # cur => asleep[q] = process[q]
    BY <2>1
  <2>4. /\ asleep[cur].id = process[cur].id /\ asleep[cur].sleep_ticks = t
        /\ asleep[cur].quantum_ticks = process[cur].quantum_ticks /\ asleep[cur].state = "Blocked"
    BY <1>2, <2>1 DEF ProcessFields
  <2>5. Schedule(process_table, current_rr_it, cur, asleep)
    BY <1>1, <1>4
  <2> HIDE DEF asleep
  <2>6. Handed(process_table, cur, asleep)
    BY <1>1, <1>2, <1>4, <2>2, <2>3, <2>4 DEF Handed
  <2> QED
    BY <1>1, <2>5, <2>6, YieldInv
<1> QED
  BY <1>3, <1>4

LEMMA InstructionInv == ASSUME Inv, Instruction PROVE Inv'
  BY DEF Instruction, Inv, TypeOK, NoDangling, IdleKept, OneRunning, SleepersHaveTicks,
         IdleOnlyWhenNothingReady, Table, IsUser

LEMMA NextInv == Inv /\ [Next]_vars => Inv'
<1> SUFFICES ASSUME Inv, [Next]_vars PROVE Inv'
  OBVIOUS
<1>1. ASSUME NEW p \in Procs, Boot(p) PROVE Inv'
  BY <1>1, ZeroPid, LoadInv DEF Boot, Inv, TypeOK
<1>2. ASSUME NEW p \in Procs, LoadUser(p) PROVE Inv'
  <2>1. next_pid' \in 0 .. PidMod - 1
    BY <1>2, PMAssumption DEF LoadUser, Inv, TypeOK
  <2> QED
    BY <1>2, <2>1, LoadInv DEF LoadUser
<1>3. ASSUME NEW p \in Procs, LoadIdleAgain(p) PROVE Inv'
  BY <1>3, ZeroPid, LoadInv DEF LoadIdleAgain, Inv, TypeOK
<1>4. ASSUME EndCurrent PROVE Inv'
  BY <1>4, DestroyCurrentInv DEF EndCurrent, Inv, TypeOK
<1>5. ASSUME NEW n \in KillArgs, Kill(n) PROVE Inv'
  BY <1>5, KillInv DEF Kill
<1>6. ASSUME Tick PROVE Inv'
  BY <1>6, TickWithinQuantumInv, TickEndsQuantumInv, TickWhileIdleInv DEF Tick
<1>7. ASSUME NEW t \in SleepTicks, Sleep(t) PROVE Inv'
  BY <1>7, SleepInv
<1>8. ASSUME Instruction PROVE Inv'
  BY <1>8, InstructionInv
<1>9. CASE UNCHANGED vars
  BY <1>9 DEF vars, Inv, TypeOK, NoDangling, IdleKept, OneRunning, SleepersHaveTicks,
              IdleOnlyWhenNothingReady, Table, IsUser
<1> QED
  BY <1>1, <1>2, <1>3, <1>4, <1>5, <1>6, <1>7, <1>8, <1>9 DEF Next

LEMMA InvAlways == Spec => []Inv
  BY InitInv, NextInv, PTL DEF Spec

----------------------------------------------------------------------------
\* Every reachable state of the process manager is well typed.
THEOREM TypeCorrect == Spec => []TypeOK
<1>1. Inv => TypeOK
  BY DEF Inv
<1> QED
  BY <1>1, InvAlways, PTL

\* Whatever is loaded, killed, preempted or put to sleep, one process is Running and it is
\* the one on the CPU.
THEOREM OneProcessRuns == Spec => []OneRunning
<1>1. Inv => OneRunning
  BY DEF Inv
<1> QED
  BY <1>1, InvAlways, PTL

\* destroy_process leaves neither the iterator nor a pointer behind.
THEOREM NothingDangles == Spec => []NoDangling
<1>1. Inv => NoDangling
  BY DEF Inv
<1> QED
  BY <1>1, InvAlways, PTL

\* Every blocked process has ticks left to count.
THEOREM SleepersAreCounted == Spec => []SleepersHaveTicks
<1>1. Inv => SleepersHaveTicks
  BY DEF Inv
<1> QED
  BY <1>1, InvAlways, PTL

\* The idle process never keeps a user process that could run from the CPU.
THEOREM IdleIsLast == Spec => []IdleOnlyWhenNothingReady
<1>1. Inv => IdleOnlyWhenNothingReady
  BY DEF Inv
<1> QED
  BY <1>1, InvAlways, PTL

(***************************************************************************)
(* What the steps do to the pids and to the contexts.  A context moves     *)
(* between the CPU and the struct, and ContextOf hides where it is.        *)
(***************************************************************************)
LEMMA RestoreContexts ==
    ASSUME NEW procs \in [Procs -> ProcessFields], NEW p \in Procs, Restore(p, procs)
    PROVE  /\ current_process' = p
           /\ \A q \in Procs : /\ process'[q].id = procs[q].id
                               /\ ContextOf(q)' = procs[q].context
<1>1. current_process' = p /\ cpu' = procs[p].context
  BY DEF Restore
<1>2. \A q \in Procs : process'[q].id = procs[q].id /\ process'[q].context = procs[q].context
  <2>1. \A q \in Procs :
          process'[q] = IF q = p THEN [procs[q] EXCEPT !.state = "Running"] ELSE procs[q]
    BY DEF Restore
  <2>2. \A q \in Procs : procs[q] \in ProcessFields
    OBVIOUS
  <2> QED
    BY <2>1, <2>2 DEF ProcessFields
<1> QED
  BY <1>1, <1>2 DEF ContextOf

LEMMA SavedContexts ==
    ASSUME NEW procs \in [Procs -> ProcessFields], NEW cur, NEW p \in Procs
    PROVE  /\ Saved(procs, cur)[p].id = procs[p].id
           /\ Saved(procs, cur)[p].context = IF p = cur THEN cpu ELSE procs[p].context
<1>1. procs[p] \in ProcessFields
  OBVIOUS
<1> QED
  BY <1>1 DEF Saved, ProcessFields

LEMMA ScheduleContexts ==
    ASSUME NEW table \in Seq(Procs), NEW it \in Elements(table) \cup {End}, NEW cur, NEW procs,
           Handed(table, cur, procs), Schedule(table, it, cur, procs), cpu \in Contexts
    PROVE  /\ current_process' \in Elements(table)
           /\ \A q \in Procs :
                /\ process'[q].id = procs[q].id
                /\ ContextOf(q)' = IF q = cur THEN cpu ELSE procs[q].context
<1> DEFINE saved == Saved(procs, cur)
<1>1. procs \in [Procs -> ProcessFields] /\ saved \in [Procs -> ProcessFields]
  BY SavedType DEF Handed
<1>2. PICK p \in Elements(table) : Restore(p, saved)
  BY ScheduleChoice, PMAssumption DEF Handed
<1>3. p \in Procs
  BY ElementsType
<1>4. \A q \in Procs : /\ saved[q].id = procs[q].id
                       /\ saved[q].context = IF q = cur THEN cpu ELSE procs[q].context
  BY <1>1, SavedContexts
<1> HIDE DEF saved
<1> QED
  BY <1>1, <1>2, <1>3, <1>4, RestoreContexts

\* The steps that switch processes or do nothing to them.
LEMMA YieldContexts ==
    ASSUME Inv, current_process # NoProc, NEW procs,
           Handed(process_table, current_process, procs),
           \A q \in Procs : procs[q].id = process[q].id /\ procs[q].context = process[q].context,
           Schedule(process_table, current_rr_it, current_process, procs)
    PROVE  /\ current_process' \in Table
           /\ \A q \in Procs : process'[q].id = process[q].id /\ ContextOf(q)' = ContextOf(q)
<1>1. /\ process_table \in Seq(Procs) /\ current_rr_it \in Elements(process_table) \cup {End}
      /\ cpu \in Contexts
  BY InvHanded DEF Inv, TypeOK
<1> QED
  BY <1>1, ScheduleContexts DEF ContextOf, Table

LEMMA AgedContext ==
    ASSUME NEW p \in Procs, process \in [Procs -> ProcessFields]
    PROVE  /\ UpdateSleeping(process)[p].id = process[p].id
           /\ UpdateSleeping(process)[p].context = process[p].context
<1>1. process[p] \in ProcessFields
  OBVIOUS
<1>2. Aged(process[p]).id = process[p].id /\ Aged(process[p]).context = process[p].context
  <2>1. CASE process[p].state = "Blocked" /\ process[p].sleep_ticks > 0
    BY <1>1, <2>1 DEF Aged, ProcessFields
  <2>2. CASE ~(process[p].state = "Blocked" /\ process[p].sleep_ticks > 0)
    BY <2>2 DEF Aged
  <2> QED
    BY <2>1, <2>2
<1> QED
  BY <1>2 DEF UpdateSleeping

LEMMA TickContexts ==
    ASSUME Inv, Tick
    PROVE  /\ process_table' = process_table /\ next_pid' = next_pid
           /\ current_process' \in Table
           /\ \A q \in Procs : process'[q].id = process[q].id /\ ContextOf(q)' = ContextOf(q)
<1> DEFINE aged == UpdateSleeping(process)
           cur == current_process
<1>1. cur # NoProc /\ process_table' = process_table /\ next_pid' = next_pid
  BY DEF Tick, TickWithinQuantum, TickEndsQuantum, TickWhileIdle
<1>2. /\ cur \in Table /\ cur \in Procs
      /\ Table = Elements(process_table)
      /\ Handed(process_table, cur, aged) /\ aged[cur] = process[cur]
  BY <1>1, InvHanded, UpdateSleepingHanded DEF Table
<1>3. process \in [Procs -> ProcessFields]
  BY DEF Inv, TypeOK
<1>4. \A q \in Procs : aged[q].id = process[q].id /\ aged[q].context = process[q].context
  BY <1>3, AgedContext
<1>5. aged \in [Procs -> ProcessFields]
  BY <1>2 DEF Handed
<1>6. CASE TickWithinQuantum
  <2> HIDE DEF aged
  <2>1. process' = [aged EXCEPT ![cur].quantum_ticks = @ + 1] /\ cpu' = cpu /\ cur' = cur
    BY <1>6 DEF TickWithinQuantum, aged
  <2>2. \A q \in Procs : process'[q].id = aged[q].id /\ process'[q].context = aged[q].context
    <3>1. \A q \in Procs : aged[q] \in ProcessFields
      BY <1>5
    <3>2. \A q \in Procs : q # cur => process'[q] = aged[q]
      BY <1>5, <2>1
    <3>3. process'[cur] = [aged[cur] EXCEPT !.quantum_ticks = @ + 1]
      BY <1>2, <1>5, <2>1
    <3> QED
      BY <1>2, <3>1, <3>2, <3>3 DEF ProcessFields
  <2> QED
    BY <1>1, <1>2, <1>4, <2>1, <2>2 DEF ContextOf
<1>7. CASE TickEndsQuantum
  <2> DEFINE procs == [aged EXCEPT ![cur] = [@ EXCEPT !.quantum_ticks = 0, !.state = "Ready"]]
  <2>1. Schedule(process_table, current_rr_it, cur, procs) /\ RunsUser
    BY <1>7 DEF TickEndsQuantum
  <2> HIDE DEF aged
  <2>2. /\ [aged[cur] EXCEPT !.quantum_ticks = 0, !.state = "Ready"] \in ProcessFields
        /\ procs \in [Procs -> ProcessFields]
    BY <1>2, <1>5 DEF ProcessFields
  <2>3. \A q \in Procs : q # cur => procs[q] = aged[q]
    BY <1>5
  <2>4. /\ procs[cur].id = aged[cur].id /\ procs[cur].sleep_ticks = aged[cur].sleep_ticks
        /\ procs[cur].quantum_ticks = 0 /\ procs[cur].state = "Ready"
        /\ procs[cur].context = aged[cur].context
    BY <1>2, <1>5 DEF ProcessFields
  <2> HIDE DEF procs
  <2>5. process[cur].state = "Running" /\ Table \subseteq Procs
    BY <1>1, <2>1, InvHanded DEF RunsUser
  <2>6. Handed(process_table, cur, procs)
    BY <1>2, <2>2, <2>3, <2>4, <2>5, PMAssumption DEF Handed
  <2>7. \A q \in Procs : procs[q].id = process[q].id /\ procs[q].context = process[q].context
    BY <1>4, <2>3, <2>4
  <2> QED
    BY <1>1, <2>1, <2>6, <2>7, YieldContexts
<1>8. CASE TickWhileIdle
  BY <1>1, <1>2, <1>4, <1>8, YieldContexts DEF TickWhileIdle
<1> QED
  BY <1>6, <1>7, <1>8 DEF Tick

LEMMA SleepContexts ==
    ASSUME Inv, NEW t \in SleepTicks, Sleep(t)
    PROVE  /\ process_table' = process_table /\ next_pid' = next_pid
           /\ current_process' \in Table
           /\ \A q \in Procs : process'[q].id = process[q].id /\ ContextOf(q)' = ContextOf(q)
<1> DEFINE cur == current_process
           asleep == [process EXCEPT ![cur] = [@ EXCEPT !.sleep_ticks = t, !.state = "Blocked"]]
<1>1. /\ cur # NoProc /\ process[cur].id # 0 /\ t \in Nat
      /\ Schedule(process_table, current_rr_it, cur, IF t = 0 THEN process ELSE asleep)
      /\ process_table' = process_table /\ next_pid' = next_pid
  BY PMAssumption DEF Sleep, IsUser
<1>2. /\ cur \in Table /\ cur \in Procs /\ Table \subseteq Procs
      /\ Table = Elements(process_table) /\ Handed(process_table, cur, process)
  BY <1>1, InvHanded DEF Table
<1>3. CASE t = 0
  BY <1>1, <1>2, <1>3, YieldContexts
<1>4. CASE t # 0
  <2>1. process \in [Procs -> ProcessFields]
    BY DEF Inv, TypeOK
  <2>2. /\ [process[cur] EXCEPT !.sleep_ticks = t, !.state = "Blocked"] \in ProcessFields
        /\ asleep \in [Procs -> ProcessFields]
    BY <1>1, <1>2, <2>1 DEF ProcessFields
  <2>3. \A q \in Procs : q # cur => asleep[q] = process[q]
    BY <2>1
  <2>4. /\ asleep[cur].id = process[cur].id /\ asleep[cur].sleep_ticks = t
        /\ asleep[cur].quantum_ticks = process[cur].quantum_ticks /\ asleep[cur].state = "Blocked"
        /\ asleep[cur].context = process[cur].context
    BY <1>2, <2>1 DEF ProcessFields
  <2>5. Schedule(process_table, current_rr_it, cur, asleep)
    BY <1>1, <1>4
  <2> HIDE DEF asleep
  <2>6. Handed(process_table, cur, asleep)
    BY <1>1, <1>2, <1>4, <2>2, <2>3, <2>4 DEF Handed
  <2>7. \A q \in Procs : asleep[q].id = process[q].id /\ asleep[q].context = process[q].context
    BY <2>3, <2>4
  <2> QED
    BY <1>1, <2>5, <2>6, <2>7, YieldContexts
<1> QED
  BY <1>3, <1>4

LEMMA LoadContexts ==
    ASSUME Inv, NEW p \in Procs, NEW pid \in 0 .. PidMod - 1, LoadAs(p, pid)
    PROVE  /\ p \notin Table /\ Table' = Table \cup {p} /\ current_process' = p
           /\ process'[p].id = pid /\ ContextOf(p)' = InitContext
           /\ \A q \in Procs : q # p => process'[q].id = process[q].id /\ ContextOf(q)' = ContextOf(q)
<1> DEFINE created == [process EXCEPT ![p] = NewProcess(pid)]
           saved == Saved(created, current_process)
<1>1. p \notin Table /\ Restore(p, saved) /\ Table' = Table \cup {p}
  BY AppendTable DEF LoadAs
<1>2. created \in [Procs -> ProcessFields] /\ saved \in [Procs -> ProcessFields]
  BY NewProcessType, SavedType DEF Inv, TypeOK
<1>3. /\ created[p].id = pid /\ created[p].context = InitContext
      /\ \A q \in Procs : q # p => created[q] = process[q]
  BY <1>2 DEF NewProcess, Inv, TypeOK
<1>4. \A q \in Procs :
        /\ saved[q].id = created[q].id
        /\ saved[q].context = IF q = current_process THEN cpu ELSE created[q].context
  <2> HIDE DEF created
  <2> QED
    BY <1>2, SavedContexts
<1> HIDE DEF created, saved
<1>5. p # current_process
  BY <1>1, PMAssumption DEF Inv, NoDangling
<1> QED
  BY <1>1, <1>2, <1>3, <1>4, <1>5, RestoreContexts DEF ContextOf

LEMMA DestroyContexts ==
    ASSUME Inv, NEW p \in Procs, p # idle_process, DestroyCurrent(p) \/ DestroyOther(p)
    PROVE  /\ p \in Table /\ Table' = Table \ {p} /\ current_process' \in Table'
           /\ current_process # p => current_process' = current_process
           /\ next_pid' = next_pid
           /\ ContextOf(p)' = InitContext
           /\ \A q \in Procs : q # p => process'[q].id = process[q].id /\ ContextOf(q)' = ContextOf(q)
<1> DEFINE rest == Erase(process_table, p)
           it == AfterErase(p)
           procs == [process EXCEPT ![p] = NewProcess(0)]
<1>1. NoProc \notin Procs
  BY PMAssumption
<1>2. process_table \in Seq(Procs) /\ NoDuplicates(process_table) /\ cpu \in Contexts
      /\ process \in [Procs -> ProcessFields] /\ Table \subseteq Procs
  BY ElementsType DEF Inv, TypeOK, NoDangling, NoDuplicates, Table
<1>3. p \in Table
  BY <1>1 DEF DestroyCurrent, DestroyOther, Inv, NoDangling
<1>4. /\ rest \in Seq(Procs) /\ Elements(rest) = Table \ {p} /\ it \in Elements(rest) \cup {End}
      /\ process_table' = rest
  BY <1>2, <1>3, EraseIsShift, EraseRemoves, AfterEraseType DEF Table, DestroyCurrent, DestroyOther
<1>5. Table' = Table \ {p} /\ next_pid' = next_pid
  <2>1. Table' = Elements(process_table')
    BY DEF Table
  <2> QED
    BY <1>4, <2>1 DEF DestroyCurrent, DestroyOther
<1>6. NewProcess(0) \in ProcessFields
      /\ NewProcess(0).context = InitContext
  BY ZeroPid, NewProcessType, PMAssumption DEF NewProcess
<1>7. procs \in [Procs -> ProcessFields]
      /\ \A q \in Procs : procs[q] = IF q = p THEN NewProcess(0) ELSE process[q]
  BY <1>2, <1>6
<1>8. idle_process \in Table /\ idle_process # NoProc /\ current_process \in Table
  BY <1>3 DEF Inv, IdleKept, OneRunning, Table, Elements
<1>9. CASE DestroyCurrent(p)
  <2>1. p = current_process /\ Schedule(rest, it, NoProc, procs)
    BY <1>9 DEF DestroyCurrent
  <2>2. Handed(process_table, p, process)
    BY <1>1, <2>1, InvHanded
  <2> HIDE DEF procs
  <2>3. Handed(rest, NoProc, procs)
    BY <1>2, <1>4, <1>6, <1>7, <1>8, <2>2 DEF Handed, Table
  <2> HIDE DEF rest, it
  <2>4. /\ current_process' \in Elements(rest)
        /\ \A q \in Procs : /\ process'[q].id = procs[q].id
                            /\ ContextOf(q)' = IF q = NoProc THEN cpu ELSE procs[q].context
    <3>1. /\ rest \in Seq(Procs) /\ it \in Elements(rest) \cup {End} /\ cpu \in Contexts
          /\ Handed(rest, NoProc, procs) /\ Schedule(rest, it, NoProc, procs)
      BY <1>2, <1>4, <2>1, <2>3
    <3> QED
      BY <3>1, ScheduleContexts DEF ContextOf
  <2> QED
    BY <1>1, <1>3, <1>4, <1>5, <1>6, <1>7, <2>1, <2>4 DEF ContextOf
<1>10. CASE DestroyOther(p)
  <2>1. p # current_process /\ process' = procs /\ current_process' = current_process /\ cpu' = cpu
    BY <1>10 DEF DestroyOther
  <2> HIDE DEF procs
  <2> QED
    BY <1>3, <1>5, <1>6, <1>7, <1>8, <2>1 DEF ContextOf
<1> QED
  BY <1>9, <1>10

\* Which process EndCurrent and Kill destroy.
LEMMA EndedProcess ==
    ASSUME Inv, EndCurrent \/ \E n \in KillArgs : Kill(n)
    PROVE  \E p \in Procs : p # idle_process /\ (DestroyCurrent(p) \/ DestroyOther(p))
<1>1. CASE EndCurrent
  BY <1>1 DEF EndCurrent, Inv, TypeOK
<1>2. ASSUME NEW pid, KillPid(pid) PROVE \E p \in Procs : p # idle_process /\ (DestroyCurrent(p) \/ DestroyOther(p))
  <2>1. PICK i \in 1 .. Len(process_table) :
          /\ process[process_table[i]].id = pid
          /\ DestroyCurrent(process_table[i]) \/ DestroyOther(process_table[i])
    BY <1>2 DEF KillPid
  <2>2. process_table[i] \in Table /\ process_table[i] \in Procs
    BY DEF Inv, TypeOK, Table, Elements
  <2>3. process_table[i] # idle_process
    BY <1>2, <2>1, <2>2 DEF KillPid, Inv, IdleKept, Table, Elements
  <2> QED
    BY <2>1, <2>2, <2>3
<1> QED
  BY <1>1, <1>2 DEF Kill

----------------------------------------------------------------------------
LEMMA InitUnique == Init => UniquePids
  BY DEF Init, UniquePids, Table, Elements

LEMMA NextUnique ==
    ASSUME MaxPid < PidMod, Inv, UniquePids, [Next]_vars
    PROVE  UniquePids'
<1>1. Table \subseteq Procs /\ next_pid \in Nat
  BY ElementsType DEF Inv, TypeOK, Table
<1>2. \A p \in Procs : process[p].id \in Nat
  BY DEF Inv, TypeOK, ProcessFields
<1>3. ASSUME Table' \subseteq Table, next_pid' = next_pid,
             \A q \in Table' : process'[q].id = process[q].id
      PROVE  UniquePids'
  BY <1>3 DEF UniquePids, IsUser
<1>4. ASSUME NEW p \in Procs, LoadAs(p, 0), next_pid' = next_pid PROVE UniquePids'
  <2>1. /\ Table' = Table \cup {p} /\ process'[p].id = 0
        /\ \A q \in Procs : q # p => process'[q].id = process[q].id
    BY <1>4, ZeroPid, LoadContexts
  <2> QED
    BY <1>1, <1>4, <2>1 DEF UniquePids, IsUser
<1>5. ASSUME NEW p \in Procs, LoadUser(p) PROVE UniquePids'
  <2>1. next_pid' = next_pid + 1 /\ next_pid' \in 0 .. PidMod - 1
    BY <1>1, <1>5, PMAssumption DEF LoadUser
  <2>2. /\ Table' = Table \cup {p} /\ process'[p].id = next_pid'
        /\ \A q \in Procs : q # p => process'[q].id = process[q].id
    BY <1>5, <2>1, LoadContexts DEF LoadUser
  <2>3. \A q \in Table : process[q].id <= next_pid
    BY <1>1, <1>2 DEF UniquePids, IsUser
  <2> QED
    BY <1>1, <1>2, <2>1, <2>2, <2>3 DEF UniquePids, IsUser
<1>6. CASE EndCurrent \/ \E n \in KillArgs : Kill(n)
  <2>1. PICK p \in Procs : p # idle_process /\ (DestroyCurrent(p) \/ DestroyOther(p))
    BY <1>6, EndedProcess
  <2> QED
    BY <1>1, <1>3, <2>1, DestroyContexts
<1>7. CASE Tick
  <2>1. Table' = Table
    BY <1>7, TickContexts DEF Table
  <2> QED
    BY <1>1, <1>3, <1>7, <2>1, TickContexts
<1>8. ASSUME NEW t \in SleepTicks, Sleep(t) PROVE UniquePids'
  <2>1. Table' = Table
    BY <1>8, SleepContexts DEF Table
  <2> QED
    BY <1>1, <1>3, <1>8, <2>1, SleepContexts
<1>9. CASE Instruction \/ UNCHANGED vars
  <2>1. Table' = Table
    BY <1>9 DEF Instruction, vars, Table
  <2> QED
    BY <1>3, <1>9, <2>1 DEF Instruction, vars
<1> QED
  BY <1>4, <1>5, <1>6, <1>7, <1>8, <1>9 DEF Next, Boot, LoadIdleAgain

\* No two processes share a pid, as long as fewer programs are loaded than there are pids:
\* without that limit next_pid wraps.
THEOREM PidsAreUnique ==
    ASSUME MaxPid < PidMod
    PROVE  Spec => []UniquePids
<1>1. Inv /\ UniquePids /\ [Next]_vars => UniquePids'
  BY NextUnique
<1> QED
  BY <1>1, InitUnique, InvAlways, PTL DEF Spec

(***************************************************************************)
(* Each process computes as if it had a CPU of its own: every step of the  *)
(* process manager is a step of VirtualCpu, under the mapping Abstract, or *)
(* leaves its variables alone.                                             *)
(***************************************************************************)
LEMMA VirtualCpuInit == Init => Abstract!Init
<1> SUFFICES ASSUME Init PROVE Abstract!Init
  OBVIOUS
<1>1. Table = {}
  BY DEF Init, Table, Elements
<1>2. \A p \in Procs : ContextOf(p) = InitContext
  BY DEF Init, ContextOf, NewProcess
<1> QED
  BY <1>1, <1>2 DEF Init, Abstract!Init

\* A step that only moves the CPU from one process to another.
LEMMA VirtualCpuSwitch ==
    ASSUME Table' = Table, current_process' \in Procs, current_process' \in Table,
           \A q \in Procs : ContextOf(q)' = ContextOf(q)
    PROVE  Abstract!Next
<1>1. [p \in Procs |-> ContextOf(p)]' = [p \in Procs |-> ContextOf(p)]
  BY DEF ContextOf
<1>2. Abstract!SwitchTo(current_process')
  BY <1>1 DEF Abstract!SwitchTo
<1> QED
  BY <1>2 DEF Abstract!Next

LEMMA VirtualCpuLoad ==
    ASSUME Inv, NEW p \in Procs, NEW pid \in 0 .. PidMod - 1, LoadAs(p, pid)
    PROVE  Abstract!Next
<1>1. /\ p \notin Table /\ Table' = Table \cup {p} /\ current_process' = p
      /\ ContextOf(p)' = InitContext
      /\ \A q \in Procs : q # p => ContextOf(q)' = ContextOf(q)
  BY LoadContexts DEF ContextOf
<1>2. [q \in Procs |-> ContextOf(q)]' = [[q \in Procs |-> ContextOf(q)] EXCEPT ![p] = InitContext]
  BY <1>1 DEF ContextOf
<1>3. Abstract!Create(p)
  BY <1>1, <1>2 DEF Abstract!Create
<1> QED
  BY <1>3 DEF Abstract!Next

LEMMA VirtualCpuDestroy ==
    ASSUME Inv, NEW p \in Procs, p # idle_process, DestroyCurrent(p) \/ DestroyOther(p)
    PROVE  Abstract!Next
<1>1. /\ p \in Table /\ Table' = Table \ {p} /\ current_process' \in Table'
      /\ current_process # p => current_process' = current_process
      /\ ContextOf(p)' = InitContext
      /\ \A q \in Procs : q # p => ContextOf(q)' = ContextOf(q)
  BY DestroyContexts DEF ContextOf
<1>2. [q \in Procs |-> ContextOf(q)]' = [[q \in Procs |-> ContextOf(q)] EXCEPT ![p] = InitContext]
  BY <1>1 DEF ContextOf
<1>3. Abstract!Delete(p)
  BY <1>1, <1>2 DEF Abstract!Delete
<1> QED
  BY <1>3 DEF Abstract!Next

LEMMA VirtualCpuInstruction ==
    ASSUME Inv, Instruction
    PROVE  Abstract!Next
<1>1. /\ current_process \in Table /\ current_process \in Procs
      /\ Table' = Table /\ current_process' = current_process /\ cpu' \in Contexts
  BY InvHanded DEF Instruction, Table
<1>2. [q \in Procs |-> ContextOf(q)]'
        = [[q \in Procs |-> ContextOf(q)] EXCEPT ![current_process] = cpu']
  BY <1>1 DEF ContextOf, Instruction
<1>3. Abstract!Execute
  BY <1>1, <1>2 DEF Abstract!Execute
<1> QED
  BY <1>3 DEF Abstract!Next

LEMMA VirtualCpuStep == Inv /\ [Next]_vars => [Abstract!Next]_(Abstract!vars)
<1> SUFFICES ASSUME Inv, [Next]_vars PROVE [Abstract!Next]_(Abstract!vars)
  OBVIOUS
<1>1. ASSUME NEW p \in Procs, Boot(p) \/ LoadUser(p) \/ LoadIdleAgain(p) PROVE Abstract!Next
  <2>1. LoadUser(p) => next_pid' \in 0 .. PidMod - 1
    BY PMAssumption DEF LoadUser, Inv, TypeOK
  <2> QED
    BY <1>1, <2>1, ZeroPid, VirtualCpuLoad DEF Boot, LoadUser, LoadIdleAgain
<1>2. CASE EndCurrent \/ \E n \in KillArgs : Kill(n)
  BY <1>2, EndedProcess, VirtualCpuDestroy
<1>3. Table \subseteq Procs
  BY ElementsType DEF Inv, TypeOK, Table
<1>4. CASE Tick
  <2>1. Table' = Table
    BY <1>4, TickContexts DEF Table
  <2>2. current_process' \in Table /\ \A q \in Procs : ContextOf(q)' = ContextOf(q)
    BY <1>4, TickContexts DEF ContextOf
  <2> QED
    BY <1>3, <2>1, <2>2, VirtualCpuSwitch DEF ContextOf
<1>5. ASSUME NEW t \in SleepTicks, Sleep(t) PROVE Abstract!Next
  <2>1. Table' = Table
    BY <1>5, SleepContexts DEF Table
  <2>2. current_process' \in Table /\ \A q \in Procs : ContextOf(q)' = ContextOf(q)
    BY <1>5, SleepContexts DEF ContextOf
  <2> QED
    BY <1>3, <2>1, <2>2, VirtualCpuSwitch DEF ContextOf
<1>6. CASE Instruction
  BY <1>6, VirtualCpuInstruction
<1>7. CASE UNCHANGED vars
  BY <1>7 DEF vars, Abstract!vars, ContextOf, Table
<1> QED
  BY <1>1, <1>2, <1>4, <1>5, <1>6, <1>7 DEF Next

\* Saving and restoring contexts, in whatever order loads, ticks, sleeps and kills come,
\* never mixes the registers of two processes.
THEOREM EveryProcessHasACpu == Spec => ImplementsVirtualCpu
  BY VirtualCpuInit, VirtualCpuStep, InvAlways, PTL DEF Spec, ImplementsVirtualCpu, Abstract!Spec

====
