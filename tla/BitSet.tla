---- MODULE BitSet ----
(***************************************************************************)
(* Mylib::BitSet<nbits>: a number kept in an unsigned integer that may be  *)
(* wider, with its operators and the functions on fields of bits they are  *)
(* made of.  The 8 and 16 bit types compute in int: a shift is cut when    *)
(* it is stored.  Beside the storage goes the set of bits it stands for,   *)
(* changed by each operation as its name says.                             *)
(***************************************************************************)
EXTENDS Integers, Sequences, FiniteSets, Bitwise

CONSTANTS
    Sizes,    \* values of nbits
    Values    \* integers given to the operations

BitSetAssumption == Sizes \subseteq 1 .. 16 /\ Values \subseteq Int

VARIABLES
    nbits,
    storage,
    bits      \* the positions of the bits that should be 1

vars == <<nbits, storage, bits>>

Width == IF nbits <= 8 THEN 8 ELSE 16     \* calc_bit_set_storage_nbits__
Cut(v) == v % 2^Width                     \* static_cast<Type>
Complemented(v) == 2^Width - 1 - v        \* ~, cut
Positions == 0 .. nbits - 1
BLengths == 0 .. Width

make_bit_mask(blength) == IF blength < Width THEN 2^blength - 1 ELSE 2^Width - 1
get_bits(v, bpos, blength) == (v \div 2^bpos) & make_bit_mask(blength)
set_bits(src, bpos, blength, v) ==
    LET mask == make_bit_mask(blength)
    IN  (src & Complemented(Cut(mask * 2^bpos))) | Cut((Cut(v) & mask) * 2^bpos)

safety_mask == IF nbits = Width THEN 2^Width - 1 ELSE 2^nbits - 1

\* Mutant: the bits of the storage that are not the number's are not cleared.
UnensuredSafetyMask(v) == v

ensure_safety_mask(v) == IF nbits < Width THEN v & safety_mask ELSE v

Init == nbits \in Sizes /\ storage = 0 /\ bits = {}

Stores(v) == storage' = ensure_safety_mask(v) /\ UNCHANGED nbits

----
\* What the operations should do to the set of bits.
BitsOf(v) == {p \in Positions : (v \div 2^p) % 2 = 1}
Field(pos, length) == {p \in Positions : pos <= p /\ p < pos + length}
Raised(k) == {p \in Positions : p - k \in bits}
Lowered(k) == {p \in Positions : p + k \in bits}

----
Assign(v) == Stores(Cut(v)) /\ bits' = BitsOf(v)

Set(pos, length, v) ==
    /\ Stores(set_bits(storage, pos, length, v))
    /\ bits' = (bits \ Field(pos, length)) \cup
               {p \in Field(pos, length) : (v \div 2^(p - pos)) % 2 = 1}

AndAssign(v) == Stores(storage & Cut(v)) /\ bits' = bits \cap BitsOf(v)
OrAssign(v) == Stores(storage | Cut(v)) /\ bits' = bits \cup BitsOf(v)
XorAssign(v) == Stores(storage ^^ Cut(v)) /\ bits' = (bits \ BitsOf(v)) \cup (BitsOf(v) \ bits)

ShiftLeft(k) == Stores(Cut(storage * 2^k)) /\ bits' = Raised(k)
ShiftRight(k) == Stores(storage \div 2^k) /\ bits' = Lowered(k)

\* b = ~b
Complement == Stores(Complemented(storage)) /\ bits' = Positions \ bits

\* b = b(pos, length)
Extract(pos, length) ==
    /\ Stores(get_bits(storage, pos, length))
    /\ bits' = {p \in Lowered(pos) : p < length}

Reset ==
    /\ storage' = 0 /\ bits' = {}
    /\ UNCHANGED nbits

\* reset(pos, length) has no need of the safety mask.
ResetField(pos, length) ==
    /\ storage' = set_bits(storage, pos, length, 0)
    /\ bits' = bits \ Field(pos, length)
    /\ UNCHANGED nbits

Flip == Stores(Complemented(storage)) /\ bits' = Positions \ bits

\* The mask is made without make_bit_mask: with a storage of 32 or 64 bits a
\* field of that length would be an undefined shift.
FlipField(pos, length) ==
    /\ Stores(storage ^^ Cut((2^length - 1) * 2^pos))
    /\ bits' = (bits \ Field(pos, length)) \cup (Field(pos, length) \ bits)

Next ==
    \/ Reset \/ Flip \/ Complement
    \/ \E v \in Values : Assign(v) \/ AndAssign(v) \/ OrAssign(v) \/ XorAssign(v)
    \/ \E k \in BLengths : ShiftLeft(k) \/ ShiftRight(k)
    \/ \E pos \in Positions, length \in BLengths :
        \/ Extract(pos, length) \/ ResetField(pos, length) \/ FlipField(pos, length)
        \/ \E v \in Values : Set(pos, length, v)

Spec == Init /\ [][Next]_vars

----
all == storage = safety_mask
any == storage # 0
none == storage = 0

\* The loop adds the lowest bit and shifts until nothing is left.
count ==
    LET c[v \in 0 .. 2^Width - 1] == IF v = 0 THEN 0 ELSE (v & 1) + c[v \div 2]
    IN  c[storage]

TypeOK == nbits \in Sizes /\ storage \in 0 .. 2^Width - 1 /\ bits \subseteq Positions

\* After any sequence of operations (bit.h:170), with fields that reach past
\* the end, negative values and shifts up to the width, the storage holds the
\* bits the operations should have left and none above nbits, and count, all,
\* any, none and the reading of a field agree with them.
ImplementsBits ==
    /\ \A p \in 0 .. Width - 1 : (storage \div 2^p) % 2 = (IF p \in bits THEN 1 ELSE 0)
    /\ count = Cardinality(bits)
    /\ all <=> bits = Positions
    /\ any <=> bits # {}
    /\ none <=> bits = {}
    /\ \A pos \in Positions, length \in BLengths :
        BitsOf(get_bits(storage, pos, length)) = {p \in Lowered(pos) : p < length}

====
