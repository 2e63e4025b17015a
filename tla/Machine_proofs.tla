---- MODULE Machine_proofs ----
(***************************************************************************)
(* The interrupt line and the keyboard, for every set of keys, size of the *)
(* command line and timer period: a character waits exactly while a        *)
(* keyboard interrupt is pending when the CPU's turn comes, no interrupt   *)
(* is lost, and keys reach the command line once and in order.             *)
(***************************************************************************)
EXTENDS Machine, SequenceTheorems, TLAPS

(***************************************************************************)
(* CharacterMatchesInterrupt says nothing of the timer's turn, between the *)
(* terminal's and the CPU's: there an interrupt can only be the keyboard's.*)
(***************************************************************************)
OnlyKeyboardBeforeTimer ==
    turn = "timer" => /\ has_char <=> has_interrupt
                      /\ has_interrupt => interrupt_code = "Keyboard"

Inv == TypeOK /\ CharacterMatchesInterrupt /\ OnlyKeyboardBeforeTimer

\* Deleting the last character of a line that may be empty.
LEMMA ShortenedType ==
    ASSUME NEW S, NEW s \in Seq(S)
    PROVE  /\ SubSeq(s, 1, Len(s) - 1) \in Seq(S)
           /\ Len(SubSeq(s, 1, Len(s) - 1)) <= Len(s)
<1>1. Len(s) \in Nat /\ \A i \in 1 .. Len(s) : s[i] \in S
  OBVIOUS
<1>2. \A i \in 1 .. Len(s) - 1 : s[i] \in S
  BY <1>1
<1>3. SubSeq(s, 1, Len(s) - 1) \in Seq(S)
  BY <1>1, <1>2
<1>4. CASE Len(s) = 0
  BY <1>3, <1>4
<1>5. CASE Len(s) > 0
  BY <1>1, <1>3, <1>5
<1> QED
  BY <1>1, <1>3, <1>4, <1>5

LEMMA InitInv == Init => Inv
<1> SUFFICES ASSUME Init PROVE Inv
  OBVIOUS
<1>1. keys \in Seq(Keys) /\ cmd_buffer \in Seq(Keys) /\ Len(cmd_buffer) <= CmdMax
  BY MachineAssumption DEF Init
<1>2. typed \in 0 .. MaxTyped /\ timer_interrupt_cycles \in Periods \cup {BootPeriod} /\ count \in Nat
  BY MachineAssumption DEF Init
<1>3. TypeOK
  BY <1>1, <1>2 DEF Init, TypeOK, Keys, Codes
<1> QED
  BY <1>3 DEF Init, Inv, CharacterMatchesInterrupt, OnlyKeyboardBeforeTimer

LEMMA TerminalCycleInv == ASSUME Inv, TerminalCycle PROVE Inv'
<1>1. keys' \in Seq(Keys) /\ typed_char' \in Keys /\ has_char' \in BOOLEAN
  <2>0. keys \in Seq(Keys) /\ typed_char \in Keys /\ has_char \in BOOLEAN
    BY DEF Inv, TypeOK
  <2>1. CASE keys = <<>>
    BY <2>0, <2>1 DEF TerminalCycle
  <2>2. CASE keys # <<>>
    <3>1. Head(keys) \in Keys /\ Tail(keys) \in Seq(Keys)
      BY <2>0, <2>2
    <3> QED
      BY <2>2, <3>1 DEF TerminalCycle
  <2> QED
    BY <2>1, <2>2
<1>2. ~has_char /\ ~has_interrupt /\ turn' = "timer"
  BY DEF Inv, CharacterMatchesInterrupt, TerminalCycle
<1>3. /\ has_interrupt' \in BOOLEAN /\ interrupt_code' \in Codes
      /\ has_char' <=> has_interrupt'
      /\ has_interrupt' => interrupt_code' = "Keyboard"
  BY <1>1, <1>2 DEF Inv, TypeOK, TerminalCycle, Interrupt, Accepted, Codes
<1>4. TypeOK'
  BY <1>1, <1>2, <1>3 DEF Inv, TypeOK, TerminalCycle
<1> QED
  BY <1>2, <1>3, <1>4 DEF Inv, CharacterMatchesInterrupt, OnlyKeyboardBeforeTimer

LEMMA TimerCycleInv == ASSUME Inv, TimerCycle PROVE Inv'
<1>1. /\ has_char <=> has_interrupt
      /\ has_interrupt => interrupt_code = "Keyboard"
      /\ turn' = "cpu" /\ has_char' = has_char
  BY DEF Inv, OnlyKeyboardBeforeTimer, TimerCycle
<1>2. count' \in Nat
  BY DEF Inv, TypeOK, TimerCycle
<1>3. /\ has_interrupt' \in BOOLEAN /\ interrupt_code' \in Codes
      /\ has_char' <=> has_interrupt' /\ interrupt_code' = "Keyboard"
  <2>0. has_interrupt \in BOOLEAN /\ interrupt_code \in Codes
    BY DEF Inv, TypeOK
  <2>1. CASE count >= timer_interrupt_cycles /\ Accepted
    BY <1>1, <2>1 DEF TimerCycle, Interrupt, Accepted, Codes
  <2>2. CASE ~(count >= timer_interrupt_cycles /\ Accepted)
    <3>1. UNCHANGED <<has_interrupt, interrupt_code>>
      BY <2>0, <2>2 DEF TimerCycle, Interrupt, Accepted
    <3> QED
      BY <1>1, <2>0, <3>1
  <2> QED
    BY <2>1, <2>2
<1>4. TypeOK'
  BY <1>1, <1>2, <1>3 DEF Inv, TypeOK, TimerCycle
<1> QED
  BY <1>1, <1>3, <1>4 DEF Inv, CharacterMatchesInterrupt, OnlyKeyboardBeforeTimer

\* In its turn the CPU leaves neither a character nor an interrupt behind.
LEMMA CpuTurn ==
    ASSUME Inv, CpuCycle
    PROVE  turn' = "terminal" /\ ~has_char' /\ ~has_interrupt'
<1> USE DEF EndsCpuCycle, TakesInterrupt
<1>1. turn = "cpu" /\ turn' = "terminal"
  BY DEF CpuCycle, EditLine, EnterLine, CpuKeyboard, CpuTimer, CpuInstruction
<1>2. has_char <=> has_interrupt /\ interrupt_code = "Keyboard"
  BY <1>1 DEF Inv, CharacterMatchesInterrupt
<1>3. CASE EditLine \/ EnterLine
  BY <1>1, <1>3 DEF EditLine, EnterLine, CpuKeyboard
<1>4. CASE CpuTimer
  BY <1>1, <1>2, <1>4 DEF CpuTimer
<1>5. CASE CpuInstruction
  BY <1>1, <1>2, <1>5 DEF CpuInstruction, devices
<1> QED
  BY <1>3, <1>4, <1>5 DEF CpuCycle

LEMMA CpuCycleInv == ASSUME Inv, CpuCycle PROVE Inv'
<1> USE DEF CpuKeyboard, EndsCpuCycle, TakesInterrupt
<1>1. TypeOK'
  <2>1. CASE EditLine
    <3>1. /\ SubSeq(cmd_buffer, 1, Len(cmd_buffer) - 1) \in Seq(Keys)
          /\ Len(SubSeq(cmd_buffer, 1, Len(cmd_buffer) - 1)) <= Len(cmd_buffer)
      BY ShortenedType DEF Inv, TypeOK
    <3>2. /\ Append(cmd_buffer, typed_char) \in Seq(Keys)
          /\ Len(Append(cmd_buffer, typed_char)) = Len(cmd_buffer) + 1
      BY DEF Inv, TypeOK
    <3>3. Len(cmd_buffer) \in Nat /\ Len(cmd_buffer) <= CmdMax
          /\ Len(SubSeq(cmd_buffer, 1, Len(cmd_buffer) - 1)) \in Nat
      BY <3>1 DEF Inv, TypeOK
    <3>4. cmd_buffer' \in Seq(Keys) /\ Len(cmd_buffer') <= CmdMax
      BY <2>1, <3>1, <3>2, <3>3, MachineAssumption DEF EditLine, Inv, TypeOK
    <3> QED
      BY <2>1, <3>4 DEF EditLine, Inv, TypeOK
  <2>2. CASE EnterLine
    <3>1. cmd_buffer' \in Seq(Keys) /\ Len(cmd_buffer') <= CmdMax
      BY <2>2, MachineAssumption DEF EnterLine
    <3> QED
      BY <2>2, <3>1 DEF EnterLine, Inv, TypeOK
  <2>3. CASE CpuTimer
    BY <2>3 DEF CpuTimer, Inv, TypeOK
  <2>4. CASE CpuInstruction
    BY <2>4 DEF CpuInstruction, Inv, TypeOK, devices
  <2> QED
    BY <2>1, <2>2, <2>3, <2>4 DEF CpuCycle
<1> QED
  BY <1>1, CpuTurn DEF Inv, CharacterMatchesInterrupt, OnlyKeyboardBeforeTimer

LEMMA TypeKeyInv == ASSUME Inv, NEW key \in Keys, TypeKey(key) PROVE Inv'
<1>1. typed' \in 0 .. MaxTyped /\ keys' \in Seq(Keys)
  BY MachineAssumption DEF TypeKey, Inv, TypeOK
<1> QED
  BY <1>1 DEF TypeKey, devices, Inv, TypeOK, CharacterMatchesInterrupt, OnlyKeyboardBeforeTimer

LEMMA NextInv == Inv /\ [Next]_vars => Inv'
<1> SUFFICES ASSUME Inv, [Next]_vars PROVE Inv'
  OBVIOUS
<1>1. CASE UNCHANGED vars
  BY <1>1 DEF vars, devices, Inv, TypeOK, CharacterMatchesInterrupt, OnlyKeyboardBeforeTimer
<1> QED
  BY <1>1, TerminalCycleInv, TimerCycleInv, CpuCycleInv, TypeKeyInv DEF Next, Run

LEMMA InvAlways == Spec => []Inv
  BY InitInv, NextInv, PTL DEF Spec

\* Every variable of the machine keeps its type; among them the command line
\* (os.cpp:133), which never grows over the end of its buffer.
THEOREM TypeCorrect == Spec => []TypeOK
<1>1. Inv => TypeOK
  BY DEF Inv
<1> QED
  BY <1>1, InvAlways, PTL

\* When a key is fetched the character register is free, and the CPU takes an
\* interrupt of the keyboard exactly when there is a character to read
\* (terminal.cpp:162, cpu.cpp:89).
THEOREM CharactersMatchInterrupts == Spec => []CharacterMatchesInterrupt
<1>1. Inv => CharacterMatchesInterrupt
  BY DEF Inv
<1> QED
  BY <1>1, InvAlways, PTL

----------------------------------------------------------------------------
\* The interrupt line (cpu.cpp:89) loses nothing: what is pending stays, and is
\* served as what it is; the timer starts again only once it was accepted.
THEOREM InterruptsAreKept == Spec => NoInterruptLost
<1>1. Inv /\ [Next]_vars =>
        [/\ count' < count => ~has_interrupt /\ has_interrupt' /\ interrupt_code' = "Timer"
         /\ has_interrupt /\ has_interrupt' => interrupt_code' = interrupt_code
         /\ has_interrupt /\ ~has_interrupt' =>
               did' = IF interrupt_code = "Timer" THEN "timer" ELSE "keyboard"]_vars
  <2> SUFFICES ASSUME Inv, Next
               PROVE  /\ count' < count => ~has_interrupt /\ has_interrupt' /\ interrupt_code' = "Timer"
                      /\ has_interrupt /\ has_interrupt' => interrupt_code' = interrupt_code
                      /\ has_interrupt /\ ~has_interrupt' =>
                            did' = IF interrupt_code = "Timer" THEN "timer" ELSE "keyboard"
    OBVIOUS
  <2>0. count \in Nat /\ ~(count < count)
    BY DEF Inv, TypeOK
  <2>1. CASE TerminalCycle
    BY <2>0, <2>1 DEF TerminalCycle, Interrupt, Accepted
  <2>2. CASE TimerCycle
    BY <2>0, <2>2 DEF TimerCycle, Interrupt, Accepted
  <2>3. CASE EditLine \/ EnterLine
    BY <2>0, <2>3 DEF EditLine, EnterLine, CpuKeyboard, EndsCpuCycle, TakesInterrupt
  <2>4. CASE CpuTimer \/ CpuInstruction
    BY <2>0, <2>4 DEF CpuTimer, CpuInstruction, EndsCpuCycle, TakesInterrupt, devices
  <2>5. CASE \E key \in Keys : TypeKey(key)
    BY <2>0, <2>5 DEF TypeKey, devices
  <2> QED
    BY <2>1, <2>2, <2>3, <2>4, <2>5 DEF Next, Run, CpuCycle
<1> QED
  BY <1>1, InvAlways, PTL DEF Spec, NoInterruptLost

----------------------------------------------------------------------------
(***************************************************************************)
(* The refinement.  A key goes from the queue of the terminal to its       *)
(* register, which is empty then, so the pending keys stay as they are;    *)
(* the handler takes the first of them.                                    *)
(***************************************************************************)
Pending == (IF has_char THEN <<typed_char>> ELSE <<>>) \o keys

LEMMA LineInit == Init => Line!Init
  BY DEF Init, Line!Init

LEMMA LineType == ASSUME Inv, NEW key \in Keys, TypeKey(key) PROVE Line!Type(key)
<1>1. Pending' = Append(Pending, key)
  BY DEF TypeKey, devices, Pending, Inv, TypeOK
<1> QED
  BY <1>1 DEF TypeKey, Pending, Line!Type

LEMMA TerminalKeepsPending == ASSUME Inv, TerminalCycle PROVE Pending' = Pending
<1>1. ~has_char
  BY DEF Inv, CharacterMatchesInterrupt, TerminalCycle
<1>2. CASE keys = <<>>
  BY <1>1, <1>2 DEF TerminalCycle, Pending
<1>3. CASE keys # <<>>
  <2>1. Pending' = <<Head(keys)>> \o Tail(keys)
    BY <1>3 DEF TerminalCycle, Pending
  <2>2. keys \in Seq(Keys) /\ Pending = keys
    BY <1>1 DEF Inv, TypeOK, Pending
  <2> QED
    BY <1>3, <2>1, <2>2
<1> QED
  BY <1>2, <1>3

LEMMA LineDeliver == ASSUME Inv, EditLine \/ EnterLine PROVE Line!Deliver
<1>1. has_char /\ ~has_char' /\ keys' = keys
  BY DEF Inv, CharacterMatchesInterrupt, EditLine, EnterLine, CpuKeyboard, EndsCpuCycle, TakesInterrupt
<1>2. keys \in Seq(Keys) /\ typed_char \in Keys
  BY DEF Inv, TypeOK
<1>3. Pending = <<typed_char>> \o keys /\ Pending' = keys
  BY <1>1, <1>2 DEF Pending
<1>4. Pending # <<>> /\ Head(Pending) = typed_char /\ Tail(Pending) = keys
  BY <1>2, <1>3
<1>5. cmd_buffer' = Line!Edited(cmd_buffer, typed_char)
  BY DEF EditLine, EnterLine, Line!Edited
<1> QED
  BY <1>3, <1>4, <1>5 DEF Pending, Line!Deliver

LEMMA LineStep == Inv /\ [Next]_vars => [Line!Next]_(Line!vars)
<1> SUFFICES ASSUME Inv, [Next]_vars
             PROVE  Line!Next \/ (Pending' = Pending /\ cmd_buffer' = cmd_buffer)
  BY DEF Line!vars, Pending
<1>1. ASSUME NEW key \in Keys, TypeKey(key) PROVE Line!Next
  BY <1>1, LineType DEF Line!Next, Line!Keys, Keys
<1>2. CASE TerminalCycle
  BY <1>2, TerminalKeepsPending DEF TerminalCycle
<1>3. CASE EditLine \/ EnterLine
  BY <1>3, LineDeliver DEF Line!Next
<1>4. CASE TimerCycle \/ CpuTimer \/ CpuInstruction
  BY <1>4 DEF TimerCycle, CpuTimer, CpuInstruction, devices, Pending
<1>5. CASE UNCHANGED vars
  BY <1>5 DEF vars, devices, Pending
<1> QED
  BY <1>1, <1>2, <1>3, <1>4, <1>5 DEF Next, Run, CpuCycle

\* Every key typed reaches the command line once and in the order typed, though
\* terminal, timer and CPU share one register and one interrupt (terminal.cpp:162).
THEOREM KeysReachTheLine == Spec => ImplementsKeyboardLine
<1>1. Spec => [][Line!Next]_(Line!vars)
  BY LineStep, InvAlways, PTL DEF Spec
<1> QED
  BY <1>1, LineInit, PTL DEF Spec, ImplementsKeyboardLine, Line!Spec

====
