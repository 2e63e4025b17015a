---- MODULE Assembler ----
(***************************************************************************)
(* Parser and linker of the assembler.  The parser appends a node per      *)
(* statement to tree; the linker gives every node its address, every use   *)
(* of a label the address of its node, and encodes the words of the file.  *)
(* A statement is what syntax_parse_* reads of it: which tokens make it up *)
(* is left out, and a statement with a wrong token ends the assembler, as  *)
(* every error does.                                                       *)
(***************************************************************************)
EXTENDS Integers, Sequences, FiniteSets, SequencesExt, Bitwise

CONSTANTS
    Statements,  \* the statements a program is made of
    MaxNodes,    \* bound: statements of a program
    Leftovers    \* what the memory of a new node may hold in i_reg

VARIABLES
    tree,        \* syntax_tree_t
    binary,      \* the words of the output file
    assembler    \* "parsing", "linked", or "failed" after an error

\* mnemonic-r.h and mnemonic-i.h
MnemonicsR == [add |-> 0, sub |-> 1, mul |-> 2, div |-> 3, cmp_equal |-> 4, cmp_neq |-> 5,
    cmp_less |-> 6, cmp_greater |-> 7, cmp_less_eq |-> 8, cmp_greater_eq |-> 9, and |-> 10,
    or |-> 11, xor |-> 12, shl |-> 13, shr |-> 14, load |-> 15, store |-> 16, syscall |-> 63]
MnemonicsI == [jump |-> 0, jump_cond |-> 1, mov |-> 3]

UInt16(n) == n % 65536

AsmInit == tree = <<>> /\ binary = <<>> /\ assembler = "parsing"

\* exit(1), from any place of the parser or the linker.
Fails(written) == assembler' = "failed" /\ tree' = <<>> /\ binary' = written

NodeR(op, dest, op1, op2) ==
    [type |-> "R", op |-> op, dest |-> dest, op1 |-> op1, op2 |-> op2]

\* syntax_parse_instr_r: the fields a statement does not name are 0.
ParsedR(s) ==
    CASE s.op = "load" -> NodeR(s.op, s.regs[1], s.regs[2], 0)
      [] s.op = "store" -> NodeR(s.op, 0, s.regs[1], s.regs[2])
      [] s.op = "syscall" -> NodeR(s.op, 0, 0, 0)
      [] OTHER -> NodeR(s.op, s.regs[1], s.regs[2], s.regs[3])

\* syntax_parse_instr_i: i_reg of a jump is never written.
ParsedI(s, leftover) ==
    [type |-> "I", op |-> s.op,
     reg |-> IF s.op = "jump" THEN leftover ELSE s.regs[1],
     imed |-> IF s.uses_label THEN 0 ELSE UInt16(s.imed),
     uses_label |-> s.uses_label, label |-> s.label]

\* syntax_parse_directive
DataOf(s) ==
    CASE s.directive = "data" -> [i \in 1 .. s.count |-> 0]
      [] s.directive = "word" -> [i \in DOMAIN s.ints |-> UInt16(s.ints[i])]
      [] s.directive = "asciiz" -> Append(s.chars, 0)

Appends(node) ==
    /\ assembler = "parsing" /\ Len(tree) < MaxNodes
    /\ tree' = Append(tree, node)
    /\ UNCHANGED <<binary, assembler>>

ParseInstrR == \E s \in Statements : s.kind = "R" /\ Appends(ParsedR(s))

\* The immediate passes syntax_parse_imed unless it exceeds 2^10.
ParseInstrI ==
    \E s \in Statements, leftover \in Leftovers :
        /\ s.kind = "I"
        /\ s.uses_label \/ s.imed <= 2^10
        /\ Appends(ParsedI(s, leftover))

ParseLabel == \E s \in Statements : s.kind = "label" /\ Appends([type |-> "label", label |-> s.label])

ParseDirective == \E s \in Statements : s.kind = "data" /\ Appends([type |-> "data", data |-> DataOf(s)])

\* A wrong token, an unknown register or directive, an integer too big.
SyntaxError == assembler = "parsing" /\ Fails(binary)

----
\* node->words
Size(node) ==
    CASE node.type = "data" -> Len(node.data)
      [] node.type = "label" -> 0
      [] OTHER -> 1

\* Mutant: the first node lies at address 1, where the jump to _start is.
VaddrsFromOne(t) ==
    LET vaddr[k \in 1 .. Len(t) + 1] ==
            IF k = 1 THEN 1 ELSE UInt16(vaddr[k - 1] + Size(t[k - 1]))
    IN  vaddr

\* linker_calculate_vaddrs: addresses 0 and 1 are taken.
Vaddrs(t) ==
    LET vaddr[k \in 1 .. Len(t) + 1] ==
            IF k = 1 THEN 2 ELSE UInt16(vaddr[k - 1] + Size(t[k - 1]))
    IN  vaddr

\* The nodes search_label_node may stop at; it takes the first.
LabelNodes(t, label) == {k \in 1 .. Len(t) : t[k].type = "label" /\ t[k].label = label}
FirstLabel(t, label) ==
    CHOOSE k \in LabelNodes(t, label) : \A j \in LabelNodes(t, label) : k <= j

UsesLabel(node) == node.type = "I" /\ node.uses_label

\* linker_fill_place_holders
Filled(t) ==
    [k \in 1 .. Len(t) |->
        IF UsesLabel(t[k])
        THEN [t[k] EXCEPT !.imed = Vaddrs(t)[FirstLabel(t, t[k].label)]]
        ELSE t[k]]

EncodeR(opcode, dest, op1, op2) ==
    UInt16(((op2 | (op1 * 2^3)) | (dest * 2^6)) | (opcode * 2^9))

\* Nothing is cut: an operand that exceeds its field reaches into the next.
EncodeI(opcode, reg, imed) ==
    UInt16((((2^15) | imed) | UInt16(reg * 2^10)) | (opcode * 2^13))

WordsOf(node) ==
    CASE node.type = "data" -> node.data
      [] node.type = "label" -> <<>>
      [] node.type = "R" -> <<EncodeR(MnemonicsR[node.op], node.dest, node.op1, node.op2)>>
      [] node.type = "I" -> <<EncodeI(MnemonicsI[node.op], node.reg, node.imed)>>

\* linker_generate_binary: word 0, the jump to _start, the nodes.
Generated(t) ==
    <<0, EncodeI(MnemonicsI["jump"], 0, Vaddrs(t)[FirstLabel(t, "_start")])>>
        \o FlattenSeq([k \in 1 .. Len(t) |-> WordsOf(Filled(t)[k])])

HasStart == LabelNodes(tree, "_start") # {}
LabelsDefined ==
    \A k \in 1 .. Len(tree) : UsesLabel(tree[k]) => LabelNodes(tree, tree[k].label) # {}

\* The parser reaches END.
Link ==
    /\ assembler = "parsing" /\ LabelsDefined /\ HasStart
    /\ tree' = Filled(tree)
    /\ binary' = Generated(tree)
    /\ assembler' = "linked"

\* exit(1) in linker_fill_place_holders, before the file is opened.
UndefinedLabel == assembler = "parsing" /\ ~LabelsDefined /\ Fails(binary)

\* exit(1) after the first word was written.
NoStart == assembler = "parsing" /\ LabelsDefined /\ ~HasStart /\ Fails(<<0>>)

AsmNext ==
    \/ ParseInstrR \/ ParseInstrI \/ ParseLabel \/ ParseDirective \/ SyntaxError
    \/ Link \/ UndefinedLabel \/ NoStart

====
