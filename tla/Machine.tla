---- MODULE Machine ----
(***************************************************************************)
(* The simulated computer around the operating system: Computer::run polls *)
(* the devices one after the other, forever, and the terminal and the      *)
(* timer share one interrupt line of the CPU that holds one interrupt.     *)
(*                                                                         *)
(* One action is one run_cycle of one device.  The disk (idle: the         *)
(* operating system never uses it) and the memory do nothing in theirs.    *)
(* What the timer handler and an instruction do is the subject of Kernel;  *)
(* here they are events.  The text of a command line is abstracted: a      *)
(* complete line is quit, a timer command, or anything else.               *)
(***************************************************************************)
EXTENDS Naturals, Sequences

CONSTANTS
    Chars,    \* printable keys
    CmdMax,   \* the last index of cmd_buffer, 255
    Periods,  \* the numbers given to the command timer
    BootPeriod, \* the period boot() writes, 1000
    MaxTyped  \* bound: the number of keys typed in one run

ASSUME MachineAssumption ==
    /\ Chars \cap {"backspace", "return"} = {}
    /\ CmdMax \in Nat
    /\ Periods \subseteq Nat
    /\ BootPeriod \in Nat
    /\ MaxTyped \in Nat

VARIABLES
    turn,            \* the device whose run_cycle is next
    alive,           \* Computer::alive
    keys,            \* typed keys getch() has not returned yet (outside the program)
    typed,           \* how many keys were typed so far
    has_char, typed_char,                \* Terminal
    count, timer_interrupt_cycles,       \* Timer
    has_interrupt, interrupt_code,       \* Cpu
    cmd_buffer,      \* the first cmd_length characters
    did              \* what the CPU did in its last cycle

devices == <<has_char, typed_char, count, timer_interrupt_cycles, has_interrupt, interrupt_code>>
vars == <<turn, alive, keys, typed, devices, cmd_buffer, did>>

Keys == Chars \cup {"backspace", "return"}
Codes == {"Keyboard", "Timer"}

Init ==
    /\ turn = "terminal"
    /\ alive = TRUE
    /\ keys = <<>> /\ typed = 0
    /\ has_char = FALSE /\ typed_char = "return"
    /\ count = 0 /\ timer_interrupt_cycles = BootPeriod
    /\ has_interrupt = FALSE /\ interrupt_code = "Keyboard"
    /\ cmd_buffer = <<>>
    /\ did = "nothing"

\* The person at the keyboard; the key waits in the input buffer of ncurses.
TypeKey(key) ==
    /\ typed < MaxTyped
    /\ typed' = typed + 1
    /\ keys' = Append(keys, key)
    /\ UNCHANGED <<turn, alive, devices, cmd_buffer, did>>

\* Mutant: a new interrupt replaces the one that is pending.
AlwaysAccepted == TRUE

\* Cpu::interrupt(code): refused, with no other effect, while one is pending.
Accepted == ~has_interrupt
Interrupt(code) ==
    /\ has_interrupt' = TRUE
    /\ interrupt_code' = IF Accepted THEN code ELSE interrupt_code

(***************************************************************************)
(* Terminal::run_cycle: a key that getch returns replaces typed_char, and  *)
(* the interrupt is asked for again in every cycle until the shell reads.  *)
(***************************************************************************)
TerminalCycle ==
    /\ alive
    /\ turn = "terminal"
    /\ turn' = "timer"
    /\ IF keys = <<>> THEN UNCHANGED <<keys, has_char, typed_char>>
       ELSE keys' = Tail(keys) /\ has_char' = TRUE /\ typed_char' = Head(keys)
    /\ IF has_char' THEN Interrupt("Keyboard") ELSE UNCHANGED <<has_interrupt, interrupt_code>>
    /\ UNCHANGED <<alive, typed, count, timer_interrupt_cycles, cmd_buffer, did>>

\* Mutant: the count starts again even when the interrupt was refused.
TimerCycleResetsAlways ==
    /\ turn = "timer"
    /\ turn' = "cpu"
    /\ IF count >= timer_interrupt_cycles
       THEN Interrupt("Timer") /\ count' = 0
       ELSE count' = count + 1 /\ UNCHANGED <<has_interrupt, interrupt_code>>
    /\ UNCHANGED <<alive, keys, typed, has_char, typed_char, timer_interrupt_cycles, cmd_buffer, did>>

\* Mutant: the count does not start again.
TimerCycleNeverResets ==
    /\ turn = "timer"
    /\ turn' = "cpu"
    /\ IF count >= timer_interrupt_cycles
       THEN Interrupt("Timer") /\ UNCHANGED count
       ELSE count' = count + 1 /\ UNCHANGED <<has_interrupt, interrupt_code>>
    /\ UNCHANGED <<alive, keys, typed, has_char, typed_char, timer_interrupt_cycles, cmd_buffer, did>>

\* Timer::run_cycle: a refused interrupt is asked for again, the count stays.
TimerCycle ==
    /\ turn = "timer"
    /\ turn' = "cpu"
    /\ IF count >= timer_interrupt_cycles
       THEN /\ Interrupt("Timer")
            /\ count' = IF Accepted THEN 0 ELSE count
       ELSE count' = count + 1 /\ UNCHANGED <<has_interrupt, interrupt_code>>
    /\ UNCHANGED <<alive, keys, typed, has_char, typed_char, timer_interrupt_cycles, cmd_buffer, did>>

(***************************************************************************)
(* Cpu::run_cycle: a pending interrupt, or else one instruction.           *)
(* handle_keyboard_input reads the character, which clears has_char.       *)
(***************************************************************************)
EndsCpuCycle(event) == turn = "cpu" /\ turn' = "terminal" /\ did' = event

TakesInterrupt(code) == has_interrupt /\ interrupt_code = code /\ has_interrupt' = FALSE

\* Mutant: reading the character does not clear has_char.
CpuKeyboardKeepsChar ==
    /\ EndsCpuCycle("keyboard")
    /\ TakesInterrupt("Keyboard")
    /\ UNCHANGED <<keys, typed, has_char, typed_char, count, interrupt_code>>

CpuKeyboard ==
    /\ EndsCpuCycle("keyboard")
    /\ TakesInterrupt("Keyboard")
    /\ has_char' = FALSE
    /\ UNCHANGED <<keys, typed, typed_char, count, interrupt_code>>

\* Mutant: the test for a full buffer is off by one.
EditLineOverflows ==
    /\ CpuKeyboard
    /\ typed_char # "return"
    /\ cmd_buffer' = IF typed_char = "backspace"
                     THEN SubSeq(cmd_buffer, 1, Len(cmd_buffer) - 1)
                     ELSE IF Len(cmd_buffer) <= CmdMax THEN Append(cmd_buffer, typed_char)
                     ELSE cmd_buffer
    /\ UNCHANGED <<alive, timer_interrupt_cycles>>

EditLine ==
    /\ CpuKeyboard
    /\ typed_char # "return"
    /\ cmd_buffer' = IF typed_char = "backspace"
                     THEN SubSeq(cmd_buffer, 1, Len(cmd_buffer) - 1)
                     ELSE IF Len(cmd_buffer) < CmdMax THEN Append(cmd_buffer, typed_char)
                     ELSE cmd_buffer
    /\ UNCHANGED <<alive, timer_interrupt_cycles>>

\* process_shell_command, ended by reset_cmd_buffer.
EnterLine ==
    /\ CpuKeyboard
    /\ typed_char = "return"
    /\ cmd_buffer' = <<>>
    /\ \/ UNCHANGED <<alive, timer_interrupt_cycles>>
       \/ cmd_buffer # <<>> /\ timer_interrupt_cycles' \in Periods /\ UNCHANGED alive
       \/ cmd_buffer # <<>> /\ alive' = FALSE /\ UNCHANGED timer_interrupt_cycles

CpuTimer ==
    /\ EndsCpuCycle("timer")
    /\ TakesInterrupt("Timer")
    /\ UNCHANGED <<alive, keys, typed, has_char, typed_char, count, timer_interrupt_cycles,
                   interrupt_code, cmd_buffer>>

CpuInstruction ==
    /\ EndsCpuCycle("instruction")
    /\ ~has_interrupt
    /\ UNCHANGED <<alive, keys, typed, devices, cmd_buffer>>

CpuCycle == EditLine \/ EnterLine \/ CpuTimer \/ CpuInstruction

Run == TerminalCycle \/ TimerCycle \/ CpuCycle

Next == Run \/ \E key \in Keys : TypeKey(key)

\* Computer::run polls the devices for as long as the computer is alive.
Spec == Init /\ [][Next]_vars /\ WF_vars(Run)

----------------------------------------------------------------------------
TypeOK ==
    /\ turn \in {"terminal", "timer", "cpu"}
    /\ alive \in BOOLEAN
    /\ keys \in Seq(Keys)
    /\ typed \in 0 .. MaxTyped
    /\ has_char \in BOOLEAN /\ typed_char \in Keys
    /\ count \in Nat /\ timer_interrupt_cycles \in Periods \cup {BootPeriod}
    /\ has_interrupt \in BOOLEAN /\ interrupt_code \in Codes
    /\ cmd_buffer \in Seq(Keys) /\ Len(cmd_buffer) <= CmdMax
    /\ did \in {"nothing", "keyboard", "timer", "instruction"}

\* The character register of the terminal is empty whenever the next key is fetched, and
\* an interrupt that says Keyboard always finds a character to read.
CharacterMatchesInterrupt ==
    /\ turn = "terminal" => ~has_char /\ ~has_interrupt
    /\ turn = "cpu" => (has_char <=> has_interrupt /\ interrupt_code = "Keyboard")

Line == INSTANCE KeyboardLine WITH
    pending <- (IF has_char THEN <<typed_char>> ELSE <<>>) \o keys,
    line <- cmd_buffer

\* No key typed is lost, handled twice or overtaken by a later one.
ImplementsKeyboardLine == Line!Spec

\* An interrupt is never lost: one that is pending stays until the CPU takes it, and the
\* timer starts counting again only when its interrupt was accepted.
NoInterruptLost ==
    [][/\ count' < count => ~has_interrupt /\ has_interrupt' /\ interrupt_code' = "Timer"
       /\ has_interrupt /\ has_interrupt' => interrupt_code' = interrupt_code
       /\ has_interrupt /\ ~has_interrupt' =>
             did' = IF interrupt_code = "Timer" THEN "timer" ELSE "keyboard"]_vars

\* Every interrupt is served in the end: a clock tick that is due, even if keys get in
\* its way; and every key reaches the shell, whatever the timer period (0 too).
InterruptsServed ==
    /\ count >= timer_interrupt_cycles /\ alive ~> did = "timer" \/ ~alive
    /\ keys # <<>> \/ has_char ~> (keys = <<>> /\ ~has_char) \/ ~alive

\* Programs go on executing, provided the timer period is not 0.
ProgramsProgress == <>[](alive /\ timer_interrupt_cycles > 0) => []<>(did = "instruction")

====
