---- MODULE Toolchain ----
(***************************************************************************)
(* The assembler and the CPU that runs what it wrote: the only contract    *)
(* between them is the layout of a word, written down once in linker.cpp   *)
(* and once in cpu.cpp.                                                    *)
(***************************************************************************)
EXTENDS Assembler, InstructionSet

CONSTANTS
    MaxCycles,    \* bound: instructions executed
    StaleWords    \* words the pages of a process may hold from their last owner

StaleAssumption == StaleWords \subseteq Words

VARIABLE cycles

vars == <<tree, binary, assembler, gprs, pc, memory, cpu, cycles>>

Init == AsmInit /\ CpuOff /\ cycles = 0

Assembles == AsmNext /\ UNCHANGED <<gprs, pc, memory, cpu, cycles>>

\* The binary becomes a process: its words from address 0, behind them in its
\* last page what the frame held before, and pc 1.
Starts ==
    /\ assembler = "linked" /\ cpu = "off" /\ Len(binary) <= MemSize
    /\ \E stale \in StaleWords :
        memory' = [a \in Addresses |-> IF a < Len(binary) THEN binary[a + 1] ELSE stale]
    /\ pc' = 1 /\ cpu' = "running"
    /\ UNCHANGED <<tree, binary, assembler, gprs, cycles>>

Executes ==
    /\ Cycle
    /\ cycles < MaxCycles /\ cycles' = cycles + 1
    /\ UNCHANGED <<tree, binary, assembler>>

Next == Assembles \/ Starts \/ Executes

Spec == Init /\ [][Next]_vars

TypeOK ==
    /\ \A k \in 1 .. Len(tree) : tree[k].type \in {"R", "I", "label", "data"}
    /\ \A i \in 1 .. Len(binary) : binary[i] \in Words
    /\ assembler \in {"parsing", "linked", "failed"}
    /\ gprs \in [Regs -> Words] /\ pc \in Words /\ memory \in [Addresses -> Words]
    /\ cpu \in {"off", "running", "invalid", "crashed", "outside"}
    /\ cycles \in 0 .. MaxCycles

----
\* Where the program text puts node k, and a label: counted from the words
\* of the nodes before it.
AddressOf(k) == 2 + Len(FlattenSeq([j \in 1 .. k - 1 |-> WordsOf(tree[j])]))
Target(label) == AddressOf(FirstLabel(tree, label))

\* The word under pc is the one the linker wrote.
Intact == pc \in Addresses /\ pc < Len(binary) /\ memory[pc] = binary[pc + 1]

\* The operand fits the nine bits the CPU reads, and no leftover of the
\* register field of a jump exceeds its three.
Representable(node) == node.type = "I" => node.imed < 2^9 /\ node.reg \in Regs

Sets(r, v) ==
    /\ gprs' = [gprs EXCEPT ![r] = v]
    /\ pc' = pc + 1
    /\ UNCHANGED memory

GoesTo(a) == pc' = a /\ UNCHANGED <<gprs, memory>>

MeansR(node) ==
    LET a == gprs[node.op1]  b == gprs[node.op2]
    IN  CASE node.op = "add" -> Sets(node.dest, (a + b) % 2^16)
          [] node.op = "sub" -> Sets(node.dest, (a - b) % 2^16)
          [] node.op = "mul" -> a * b < 2^16 => Sets(node.dest, a * b)
          [] node.op = "div" -> b # 0 => Sets(node.dest, a \div b)
          [] node.op = "cmp_equal" -> Sets(node.dest, IF a = b THEN 1 ELSE 0)
          [] node.op = "cmp_neq" -> Sets(node.dest, IF a = b THEN 0 ELSE 1)
          [] node.op = "load" -> a \in Addresses => Sets(node.dest, memory[a])
          [] node.op = "store" -> a \in Addresses =>
                memory' = [memory EXCEPT ![a] = b] /\ pc' = pc + 1 /\ UNCHANGED gprs
          [] node.op = "syscall" -> GoesTo(pc + 1)
          [] OTHER -> cpu' = "invalid" /\ GoesTo(pc)

MeansI(node) ==
    CASE node.op = "jump" -> GoesTo(Target(node.label))
      [] node.op = "jump_cond" ->
            GoesTo(IF gprs[node.reg] = 1 THEN Target(node.label) ELSE pc + 1)
      [] node.op = "mov" ->
            Sets(node.reg, IF node.uses_label THEN Target(node.label) ELSE node.imed)

\* What the CPU does with a word the linker wrote for a statement is what
\* the statement says, labels meaning the place they stand at, and the
\* first instruction leads to _start: the layout of linker.cpp, its encoding
\* and the decoding of cpu.cpp agree.  A statement whose operand does not
\* fit its field is not held to it.
ExecutesSource ==
    [][cpu = "running" /\ Intact =>
        /\ \A k \in 1 .. Len(tree) :
            AddressOf(k) = pc /\ Representable(tree[k]) =>
                /\ tree[k].type = "R" => MeansR(tree[k])
                /\ tree[k].type = "I" => MeansI(tree[k])
        /\ pc = 1 /\ Target("_start") < 2^9 => GoesTo(Target("_start"))]_vars

\* arch.h:12 gives an I-type instruction 10 bits of immediate, and the parser
\* checks an integer against them (syntax.cpp:237): the CPU gets the integer
\* the parser let through.
ImmediatesSurvive ==
    assembler = "linked" =>
        \A k \in 1 .. Len(tree) :
            tree[k].type = "I" /\ tree[k].imed < 2^10 =>
                Imed(binary[AddressOf(k) + 1]) = tree[k].imed

====
