---- MODULE InstructionSet ----
(***************************************************************************)
(* The instructions of the CPU: the fields of a word, and what execute_r   *)
(* and execute_i do with them, one action per opcode.  The memory is the   *)
(* words of the process as the MMU shows them (VirtualMemory models how);  *)
(* an address from MemSize on ends the model ("outside").                  *)
(***************************************************************************)
EXTENDS Integers

CONSTANT MemSize     \* bound: words of the address space that are followed

MemSizeAssumption == MemSize \in 2 .. 65536

VARIABLES
    gprs,       \* Cpu::gprs
    pc,         \* Cpu::pc
    memory,     \* the words of the process
    cpu         \* whether it runs, and how it stopped

Regs == 0 .. 7
Addresses == 0 .. MemSize - 1

\* uint16_t
Word(n) == n % 65536
Words == 0 .. 65535

\* Mylib::get_bits
Field(w, pos, length) == (w \div 2^pos) % 2^length

OpcodeR(w) == Field(w, 9, 6)
OpcodeI(w) == Field(w, 13, 2)
Dest(w) == Field(w, 6, 3)
Op1(w) == Field(w, 3, 3)
Op2(w) == Field(w, 0, 3)
RegI(w) == Field(w, 10, 3)
Imed(w) == Field(w, 0, 9)

CpuOff ==
    /\ gprs = [r \in Regs |-> 0]
    /\ pc = 0
    /\ memory = [a \in Addresses |-> 0]
    /\ cpu = "off"

\* The product of two words, cut to 16 bits.
Product(a, b) == Word(Word(a * (b \div 256)) * 256 + a * (b % 256))

Fetched == memory[pc]
IsR(opcode) == Field(Fetched, 15, 1) = 0 /\ OpcodeR(Fetched) = opcode
IsI(opcode) == Field(Fetched, 15, 1) = 1 /\ OpcodeI(Fetched) = opcode

Fetches == cpu = "running" /\ pc \in Addresses

A == gprs[Op1(Fetched)]
B == gprs[Op2(Fetched)]

\* Mutant: the result is not cut to the width of a register.
WriteBackUncut(w) ==
    /\ gprs' = [gprs EXCEPT ![Dest(Fetched)] = w]
    /\ pc' = Word(pc + 1)
    /\ UNCHANGED <<memory, cpu>>

WriteBack(w) ==
    /\ gprs' = [gprs EXCEPT ![Dest(Fetched)] = Word(w)]
    /\ pc' = Word(pc + 1)
    /\ UNCHANGED <<memory, cpu>>

Add == Fetches /\ IsR(0) /\ WriteBack(A + B)
Sub == Fetches /\ IsR(1) /\ WriteBack(A - B)
Mul == Fetches /\ IsR(2) /\ WriteBack(Product(A, B))
Cmp_equal == Fetches /\ IsR(4) /\ WriteBack(IF A = B THEN 1 ELSE 0)
Cmp_neq == Fetches /\ IsR(5) /\ WriteBack(IF A # B THEN 1 ELSE 0)
Load == Fetches /\ IsR(15) /\ A \in Addresses /\ WriteBack(memory[A])

\* A division by zero ends the simulator, not the process.
Div ==
    /\ Fetches /\ IsR(3)
    /\ IF B # 0
       THEN WriteBack(A \div B)
       ELSE /\ cpu' = "crashed"
            /\ UNCHANGED <<gprs, pc, memory>>

Store ==
    /\ Fetches /\ IsR(16) /\ A \in Addresses
    /\ memory' = [memory EXCEPT ![A] = B]
    /\ pc' = Word(pc + 1)
    /\ UNCHANGED <<gprs, cpu>>

\* What the system does for the process is Kernel's; here it changes nothing.
Syscall ==
    /\ Fetches /\ IsR(63)
    /\ pc' = Word(pc + 1)
    /\ UNCHANGED <<gprs, memory, cpu>>

Jump ==
    /\ Fetches /\ IsI(0)
    /\ pc' = Imed(Fetched)
    /\ UNCHANGED <<gprs, memory, cpu>>

\* Only the value 1 is true.
Jump_cond ==
    /\ Fetches /\ IsI(1)
    /\ pc' = IF gprs[RegI(Fetched)] = 1 THEN Imed(Fetched) ELSE Word(pc + 1)
    /\ UNCHANGED <<gprs, memory, cpu>>

Mov ==
    /\ Fetches /\ IsI(3)
    /\ gprs' = [gprs EXCEPT ![RegI(Fetched)] = Imed(Fetched)]
    /\ pc' = Word(pc + 1)
    /\ UNCHANGED <<memory, cpu>>

\* GPFinvalidInstruction: pc is restored and the system ends the process.
Invalid ==
    /\ Fetches
    /\ ~ \E op \in 0 .. 5 \cup {15, 16, 63} : IsR(op)
    /\ ~ \E op \in {0, 1, 3} : IsI(op)
    /\ cpu' = "invalid"
    /\ UNCHANGED <<gprs, pc, memory>>

Leaves ==
    /\ cpu = "running"
    /\ pc \in Addresses => (IsR(15) \/ IsR(16)) /\ A \notin Addresses
    /\ cpu' = "outside"
    /\ UNCHANGED <<gprs, pc, memory>>

Cycle ==
    \/ Add \/ Sub \/ Mul \/ Div \/ Cmp_equal \/ Cmp_neq \/ Load \/ Store
    \/ Syscall \/ Jump \/ Jump_cond \/ Mov \/ Invalid \/ Leaves

====
