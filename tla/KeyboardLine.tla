---- MODULE KeyboardLine ----
(***************************************************************************)
(* What the terminal, the interrupt line and the shell promise the person  *)
(* at the keyboard: each key reaches the command line once, in the order   *)
(* typed.  There is no device, interrupt or cycle here.                    *)
(***************************************************************************)
EXTENDS Naturals, Sequences

CONSTANTS Chars, CmdMax

VARIABLES
    pending, \* the keys typed that the shell has not seen
    line     \* the command line edited so far

vars == <<pending, line>>

Keys == Chars \cup {"backspace", "return"}

Edited(l, key) ==
    IF key = "return" THEN <<>>
    ELSE IF key = "backspace" THEN SubSeq(l, 1, Len(l) - 1)
    ELSE IF Len(l) < CmdMax THEN Append(l, key) ELSE l

Init == pending = <<>> /\ line = <<>>

Type(key) == pending' = Append(pending, key) /\ UNCHANGED line

Deliver ==
    /\ pending # <<>>
    /\ line' = Edited(line, Head(pending))
    /\ pending' = Tail(pending)

Next == Deliver \/ \E key \in Keys : Type(key)

Spec == Init /\ [][Next]_vars

====
