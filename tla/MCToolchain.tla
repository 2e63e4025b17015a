---- MODULE MCToolchain ----
(***************************************************************************)
(* Statements for TLC: one at least for every instruction of the CPU, one  *)
(* it does not implement, every directive, two labels, and integers that   *)
(* the parser accepts and the encoding does not hold.  The scanner, which  *)
(* knows nothing of the rest, is explored in the same run: part says which *)
(* of the two a behaviour is about.                                        *)
(***************************************************************************)
EXTENDS Lexer

CONSTANTS
    Parts,       \* the two parts explored
    Statements, MaxNodes, Leftovers, MemSize, MaxCycles, StaleWords

VARIABLES part, tree, binary, assembler, gprs, pc, memory, cpu, cycles

programVars == <<tree, binary, assembler, gprs, pc, memory, cpu, cycles>>
Tool == INSTANCE Toolchain

ASSUME ProgramAssumption == Tool!MemSizeAssumption /\ Tool!StaleAssumption

InsR(op, regs) == [kind |-> "R", op |-> op, regs |-> regs]
InsI(op, regs, imed) ==
    [kind |-> "I", op |-> op, regs |-> regs, imed |-> imed, uses_label |-> FALSE, label |-> ""]
InsL(op, regs, label) ==
    [kind |-> "I", op |-> op, regs |-> regs, imed |-> 0, uses_label |-> TRUE, label |-> label]
Label(l) == [kind |-> "label", label |-> l]

MCStatements ==
    {InsR(op, <<1, 1, 2>>) : op \in {"add", "sub", "mul", "div", "cmp_equal", "and"}} \cup
    {InsR("cmp_neq", <<2, 1, 2>>), InsR("load", <<2, 1>>), InsR("store", <<1, 2>>),
     InsR("syscall", <<>>), InsL("jump", <<>>, "x"), InsL("jump_cond", <<1>>, "x"),
     InsL("mov", <<1>>, "x"), InsI("mov", <<2>>, 1),
     InsI("mov", <<1>>, -1),
     Label("_start"), Label("x"),
     [kind |-> "data", directive |-> "data", count |-> 1],
     [kind |-> "data", directive |-> "word", ints |-> <<4, -1>>],
     [kind |-> "data", directive |-> "asciiz", chars |-> <<65>>]}

\* A program with an integer above nine bits.
WideStatements == {Label("_start"), InsI("mov", <<1>>, 600), InsI("mov", <<1>>, 6)}

MCInit ==
    /\ part \in Parts
    /\ Tool!Init /\ Init
    /\ part = "program" => text = <<>>

MCNext ==
    \/ part = "program" /\ Tool!Next /\ UNCHANGED <<part, vars>>
    \/ part = "text" /\ Next /\ UNCHANGED <<part, programVars>>

MCSpec == MCInit /\ [][MCNext]_<<part, programVars, vars>>

\* Every state of the assembler, the CPU and the scanner is well typed.
TypesOK == TypeOK /\ Tool!TypeOK
\* linker.cpp, cpu.cpp: what the CPU executes is what the program text says.
ExecutesSource == Tool!ExecutesSource
\* linker.cpp: what fits an immediate of the assembler is the CPU's operand.
ImmediatesSurvive == Tool!ImmediatesSurvive

====
