---- MODULE Lexer_proofs ----
(***************************************************************************)
(* The scanner, for every text, of any length, and every size of a token's *)
(* array: what it answers is the text, whole and in order; it reports      *)
(* errors on the line they are on; and it reads behind the buffer only for *)
(* a text that leaves a string or a comment open.                          *)
(***************************************************************************)
EXTENDS Lexer, FiniteSetTheorems, TLAPS

----------------------------------------------------------------------------
(***************************************************************************)
(* Types.  The 0 at the end is taken only inside a string or a comment, so *)
(* everywhere else the scanner stands at most at it.                       *)
(***************************************************************************)
Bounds ==
    /\ row <= bpos + 1
    /\ first >= 1
    /\ state \notin {"STRING", "COMMENT", "outside", "overflow"} => bpos <= Len(text)

TypeInv == TypeOK /\ Bounds

LEMMA InitType == Init => TypeInv
<1> SUFFICES ASSUME Init PROVE TypeInv
  OBVIOUS
<1>1. PICK n \in 0 .. MaxText : text \in [1 .. n -> Chars]
  BY DEF Init
<1>2. n \in Nat /\ n <= MaxText
  BY LexerAssumption
<1>3. text \in Seq(Chars) /\ Len(text) = n
  BY <1>1, <1>2
<1>4. 0 \in 0 .. MaxLabel
  BY LexerAssumption
<1> QED
  BY <1>2, <1>3, <1>4 DEF Init, TypeInv, TypeOK, Bounds, Scanning, Stopped

\* What a character at hand says of where the scanner stands.
LEMMA CharHere ==
    ASSUME TypeInv
    PROVE  /\ Len(text) \in Nat /\ bpos \in Nat /\ bpos <= Len(text) + 1
           /\ Char \in Chars => bpos < Len(text) /\ Char = text[bpos + 1]
           /\ Char # "outside" <=> bpos <= Len(text)
           /\ Char = "nul" => bpos = Len(text)
           /\ bpos <= Len(text) => Char = At(bpos + 1)
<1>1. Len(text) \in Nat /\ bpos \in Nat /\ bpos <= Len(text) + 1
  BY DEF TypeInv, TypeOK
<1>2. \A i \in 1 .. Len(text) : text[i] \in Chars
  BY DEF TypeInv, TypeOK
<1>3. "nul" \notin Chars /\ "outside" \notin Chars
  BY DEF Chars, Alnum, Letters
<1>4. CASE bpos < Len(text)
  <2>1. Char = text[bpos + 1] /\ Char \in Chars
    BY <1>1, <1>2, <1>4 DEF Char
  <2> QED
    BY <1>1, <1>3, <1>4, <2>1 DEF At
<1>5. CASE bpos = Len(text)
  BY <1>1, <1>3, <1>5 DEF Char, At
<1>6. CASE bpos = Len(text) + 1
  <2>1. Char = "outside"
    BY <1>1, <1>6 DEF Char
  <2> QED
    BY <1>1, <1>3, <1>6, <2>1
<1> QED
  BY <1>1, <1>4, <1>5, <1>6

Token == [type : TokenTypes, first : 1 .. Len(text) + 1, last : 0 .. Len(text)]

\* Every step leaves the text alone.
LEMMA TextKept == [Next]_vars => text' = text
  BY DEF Next, vars, GetToken, Skip, StartComment, AtComment, EndOfFile, StartPunct, StartMinus,
     AtMinus, StartInteger, AtInteger, StartLabel, AtLabel, StartString, AtString, AtEscape,
     LexError, ReadOutside, AtRun

LEMMA NextType == TypeInv /\ [Next]_vars => TypeInv'
<1> SUFFICES ASSUME TypeInv, [Next]_vars PROVE TypeInv'
  OBVIOUS
<1>0. /\ text \in Seq(Chars) /\ Len(text) <= MaxText /\ Len(text) \in Nat
      /\ bpos \in Nat /\ bpos <= Len(text) + 1
      /\ row \in Nat /\ row >= 1 /\ row <= Len(text) + 1 /\ row <= bpos + 1
      /\ first \in Nat /\ first >= 1 /\ first <= Len(text) + 1
      /\ MaxLabel \in Nat /\ length \in 0 .. MaxLabel
      /\ tokens \in Seq(Token)
  BY LexerAssumption DEF TypeInv, TypeOK, Bounds, Token
<1>1. state \notin {"STRING", "COMMENT", "outside", "overflow"} => bpos <= Len(text)
  BY DEF TypeInv, Bounds
<1>2. \A type \in TokenTypes, f \in 1 .. Len(text) + 1, l \in 0 .. Len(text) :
        Append(tokens, [type |-> type, first |-> f, last |-> l]) \in Seq(Token)
  <2> SUFFICES ASSUME NEW type \in TokenTypes, NEW f \in 1 .. Len(text) + 1, NEW l \in 0 .. Len(text)
               PROVE  Append(tokens, [type |-> type, first |-> f, last |-> l]) \in Seq(Token)
    OBVIOUS
  <2>1. [type |-> type, first |-> f, last |-> l] \in Token
    BY DEF Token
  <2> QED
    BY <1>0, <2>1
<1>3. Char \in {"digit", "n", "letter", "hash", "blank", "newline", "minus", "punct", "quote", "escape", "other"} =>
        bpos < Len(text)
  BY CharHere DEF Chars, Alnum, Letters
<1>4. Char # "outside" => bpos <= Len(text)
  BY CharHere
<1>5. length < MaxLabel => length + 1 \in 0 .. MaxLabel
  BY <1>0
<1> DEFINE Typed ==
      /\ bpos' \in 0 .. Len(text) + 1
      /\ row' \in 1 .. Len(text) + 1 /\ row' <= bpos' + 1
      /\ state' \in Scanning \cup Stopped \cup {"END"}
      /\ first' \in 1 .. Len(text) + 1
      /\ length' \in 0 .. MaxLabel
      /\ tokens' \in Seq(Token)
      /\ state' \notin {"STRING", "COMMENT", "outside", "overflow"} => bpos' <= Len(text)
<1>a. ASSUME NEW type \in TokenTypes, NEW last \in 0 .. Len(text), Answer(type, last)
      PROVE  state' = "END" /\ tokens' \in Seq(Token)
  BY <1>0, <1>2, <1>a DEF Answer
<1>p. ASSUME NEW s, Put(s)
      PROVE  state' \in {s, "overflow"} /\ length' \in 0 .. MaxLabel /\ tokens' = tokens
  BY <1>0, <1>5, <1>p DEF Put, Goto
<1> USE DEF Take, Leave, Goto, Scanning, Stopped, TokenTypes
<1>r. ASSUME NEW type \in {"INTEGER", "LABEL"}, NEW more \in SUBSET Alnum, AtRun(type, more)
      PROVE  Typed
  <2>1. row' = row /\ first' = first /\ bpos <= Len(text)
    BY <1>1, <1>r DEF AtRun
  <2>2. CASE Char \in more
    <3>1. bpos' = bpos + 1 /\ bpos < Len(text) /\ Put(type)
      BY <1>3, <1>r, <2>2 DEF AtRun, Alnum, Letters
    <3> QED
      BY <1>0, <1>p, <2>1, <3>1
  <2>3. CASE Char \notin more /\ length < MaxLabel
    <3>1. Answer(type, bpos) /\ bpos' = bpos /\ length' = length
      BY <1>r, <2>3 DEF AtRun
    <3> QED
      BY <1>0, <1>a, <2>1, <3>1
  <2>4. CASE Char \notin more /\ ~(length < MaxLabel)
    BY <1>0, <1>r, <2>1, <2>4 DEF AtRun
  <2> QED
    BY <2>2, <2>3, <2>4
<1>6. ASSUME GetToken PROVE Typed
  BY <1>0, <1>1, <1>6 DEF GetToken
<1>7. ASSUME Skip PROVE Typed
  BY <1>0, <1>1, <1>2, <1>3, <1>4, <1>5, <1>7 DEF Skip
<1>8. ASSUME StartComment PROVE Typed
  BY <1>0, <1>1, <1>2, <1>3, <1>4, <1>5, <1>8 DEF StartComment
<1>9. ASSUME AtComment PROVE Typed
  BY <1>0, <1>1, <1>2, <1>3, <1>4, <1>5, <1>9 DEF AtComment
<1>10. ASSUME EndOfFile PROVE Typed
  BY <1>0, <1>1, <1>2, <1>3, <1>4, <1>5, <1>10 DEF EndOfFile
<1>11. ASSUME StartPunct PROVE Typed
  BY <1>0, <1>1, <1>2, <1>3, <1>4, <1>5, <1>11 DEF StartPunct
<1>12. ASSUME StartMinus PROVE Typed
  BY <1>0, <1>1, <1>2, <1>3, <1>4, <1>5, <1>12 DEF StartMinus
<1>13. ASSUME AtMinus PROVE Typed
  <2>1. bpos' = bpos /\ row' = row /\ first' = first /\ bpos <= Len(text)
    BY <1>1, <1>13 DEF AtMinus
  <2>2. CASE Char = "digit"
    BY <1>0, <1>p, <1>13, <2>1, <2>2 DEF AtMinus
  <2>3. CASE Char # "digit"
    BY <1>0, <1>a, <1>13, <2>1, <2>3 DEF AtMinus
  <2> QED
    BY <2>2, <2>3
<1>14. ASSUME StartInteger PROVE Typed
  BY <1>0, <1>1, <1>2, <1>3, <1>4, <1>5, <1>14 DEF StartInteger
<1>15. ASSUME AtInteger PROVE Typed
  BY <1>r, <1>15 DEF AtInteger, Alnum
<1>16. ASSUME StartLabel PROVE Typed
  BY <1>0, <1>3, <1>p, <1>16 DEF StartLabel, Letters
<1>17. ASSUME AtLabel PROVE Typed
  BY <1>r, <1>17 DEF AtLabel, Alnum, Letters
<1>18. ASSUME StartString PROVE Typed
  BY <1>0, <1>1, <1>2, <1>3, <1>4, <1>5, <1>18 DEF StartString
<1>19. ASSUME AtString PROVE Typed
  <2>1. bpos' = bpos + 1 /\ row' = row /\ first' = first /\ bpos <= Len(text)
    BY <1>4, <1>19 DEF AtString
  <2>2. CASE Char = "escape"
    BY <1>0, <1>3, <1>19, <2>1, <2>2 DEF AtString
  <2>3. CASE Char = "quote" /\ length < MaxLabel
    <3>1. Answer("STRING", bpos + 1) /\ length' = length /\ bpos < Len(text)
      BY <1>3, <1>19, <2>3 DEF AtString
    <3> QED
      BY <1>0, <1>a, <2>1, <3>1
  <2>4. CASE Char = "quote" /\ ~(length < MaxLabel)
    BY <1>0, <1>19, <2>1, <2>4 DEF AtString
  <2>5. CASE Char \notin {"escape", "quote"}
    BY <1>0, <1>p, <1>19, <2>1, <2>5 DEF AtString
  <2> QED
    BY <2>2, <2>3, <2>4, <2>5
<1>20. ASSUME AtEscape PROVE Typed
  BY <1>0, <1>3, <1>p, <1>20 DEF AtEscape
<1>21. ASSUME LexError PROVE Typed
  BY <1>0, <1>1, <1>2, <1>3, <1>4, <1>5, <1>21 DEF LexError
<1>22. ASSUME ReadOutside PROVE Typed
  BY <1>0, <1>1, <1>2, <1>3, <1>4, <1>5, <1>22 DEF ReadOutside
<1>23. ASSUME UNCHANGED vars PROVE Typed
  <2>1. state \in Scanning \cup Stopped \cup {"END"}
    BY DEF TypeInv, TypeOK
  <2>2. vars' = vars
    BY <1>23
  <2> QED
    BY <1>0, <1>1, <2>1, <2>2 DEF vars
<1> HIDE DEF Typed
<1>24. Typed
  BY <1>6, <1>7, <1>8, <1>9, <1>10, <1>11, <1>12, <1>13, <1>14, <1>15, <1>16, <1>17, <1>18,
     <1>19, <1>20, <1>21, <1>22, <1>23 DEF Next
<1>25. text' = text
  BY TextKept
<1>26. tokens' \in Seq([type : TokenTypes, first : 1 .. Len(text') + 1, last : 0 .. Len(text')])
  BY <1>24, <1>25 DEF Typed, Token
<1>27. TypeOK'
  BY <1>0, <1>24, <1>25, <1>26 DEF Typed, TypeOK
<1>28. Bounds'
  <2>1. row' <= bpos' + 1 /\ first' >= 1
    <3>1. row' <= bpos' + 1 /\ first' \in 1 .. Len(text) + 1
      BY <1>24 DEF Typed
    <3> QED
      BY <1>0, <3>1
  <2>2. state' \notin {"STRING", "COMMENT", "outside", "overflow"} => bpos' <= Len(text')
    BY <1>24, <1>25 DEF Typed
  <2> QED
    BY <2>1, <2>2 DEF Bounds
<1> QED
  BY <1>27, <1>28 DEF TypeInv

LEMMA TypeAlways == Spec => []TypeInv
<1>1. Init => TypeInv
  BY InitType
<1>2. TypeInv /\ [Next]_vars => TypeInv'
  BY NextType
<1> QED
  BY <1>1, <1>2, PTL DEF Spec

\* No token is longer than its array and no position leaves the file and its 0, in any
\* text (lex.cpp:63): a write behind the array stops the model.
THEOREM TypeCorrect == Spec => []TypeOK
<1>1. TypeInv => TypeOK
  BY DEF TypeInv
<1> QED
  BY <1>1, TypeAlways, PTL

----------------------------------------------------------------------------
(***************************************************************************)
(* What is answered.  The operators of Lexer read the text that the state  *)
(* holds; these say the same of any text and any tokens.                   *)
(***************************************************************************)
CharOf(t, i) == IF i <= Len(t) THEN t[i] ELSE "nul"

Gap(t, i, j) ==
    \A m \in i .. j :
        \/ t[m] \in {"blank", "newline"}
        \/ \E h \in i .. m :
            /\ t[h] = "hash"
            /\ \A x \in h .. m - 1 : t[x] # "newline"

LastIn(ts, k) == IF k = 0 THEN 0 ELSE ts[k].last

BodyOf(t, f) == IF CharOf(t, f) = "minus" THEN f + 1 ELSE f

\* One conjunct of TokensAreMaximal: token tk, after one that ended at character from.
Fits(t, tk, from) ==
    /\ tk.first > from
    /\ Gap(t, from + 1, tk.first - 1)
    /\ tk.type = "END" => tk.first = Len(t) + 1
    /\ tk.type = "MINUS" => tk.last = tk.first /\ CharOf(t, tk.last + 1) # "digit"
    /\ tk.type = "INTEGER" =>
        /\ BodyOf(t, tk.first) <= tk.last
        /\ \A i \in BodyOf(t, tk.first) .. tk.last : CharOf(t, i) = "digit"
        /\ CharOf(t, tk.last + 1) # "digit"
    /\ tk.type = "LABEL" =>
        /\ \A i \in tk.first .. tk.last : CharOf(t, i) \in Alnum
        /\ CharOf(t, tk.first) \in Letters /\ CharOf(t, tk.last + 1) \notin Alnum
    /\ tk.type = "STRING" =>
        /\ tk.last > tk.first /\ CharOf(t, tk.first) = "quote" /\ CharOf(t, tk.last) = "quote"

AllFit(t, ts) == \A k \in 1 .. Len(ts) : Fits(t, ts[k], LastIn(ts, k - 1))

LEMMA MaximalMeansFit == TokensAreMaximal <=> AllFit(text, tokens)
  BY DEF TokensAreMaximal, AllFit, Fits, LastOf, LastIn, At, CharOf, Skipped, Gap, BodyOf

LEMMA AppendFits ==
    ASSUME NEW t, NEW S, NEW ts \in Seq(S), NEW tk,
           AllFit(t, ts), Fits(t, tk, LastIn(ts, Len(ts)))
    PROVE  AllFit(t, Append(ts, tk))
<1> DEFINE us == Append(ts, tk)
<1>1. /\ Len(ts) \in Nat /\ Len(us) = Len(ts) + 1 /\ us[Len(ts) + 1] = tk
      /\ \A i \in 1 .. Len(ts) : us[i] = ts[i]
  OBVIOUS
<1>2. \A k \in 0 .. Len(ts) : LastIn(us, k) = LastIn(ts, k)
  BY <1>1 DEF LastIn
<1> SUFFICES ASSUME NEW k \in 1 .. Len(us) PROVE Fits(t, us[k], LastIn(us, k - 1))
  BY DEF AllFit
<1> HIDE DEF us
<1>3. CASE k = Len(ts) + 1
  BY <1>1, <1>2, <1>3
<1>4. CASE k \in 1 .. Len(ts)
  <2>1. LastIn(us, k - 1) = LastIn(ts, k - 1) /\ us[k] = ts[k]
    BY <1>1, <1>2, <1>4
  <2> QED
    BY <1>4, <2>1 DEF AllFit
<1> QED
  BY <1>1, <1>3, <1>4

LEMMA GapEmpty == ASSUME NEW t, NEW i \in Int PROVE Gap(t, i + 1, i)
  BY DEF Gap

\* A gap goes on with a blank, a newline, or a comment and the newline that ends it.
LEMMA GapGrows ==
    ASSUME NEW t, NEW i \in Nat, NEW j \in Nat, Gap(t, i, j), t[j + 1] \in {"blank", "newline"}
    PROVE  Gap(t, i, j + 1)
  BY DEF Gap

LEMMA GapOverComment ==
    ASSUME NEW t, NEW i \in Nat, NEW j \in Nat, NEW h \in i .. j,
           Gap(t, i, h - 1), t[h] = "hash", \A x \in h .. j : t[x] # "newline",
           t[j + 1] = "newline"
    PROVE  Gap(t, i, j + 1)
<1> SUFFICES ASSUME NEW m \in i .. j + 1
             PROVE  \/ t[m] \in {"blank", "newline"}
                    \/ \E g \in i .. m : t[g] = "hash" /\ \A x \in g .. m - 1 : t[x] # "newline"
  BY DEF Gap
<1>1. CASE m < h
  BY <1>1 DEF Gap
<1>2. CASE m \in h .. j
  BY <1>2
<1>3. CASE m = j + 1
  BY <1>3
<1> QED
  BY <1>1, <1>2, <1>3

----------------------------------------------------------------------------
(***************************************************************************)
(* The token in progress.  Between two tokens the scanner stands where the *)
(* last one ended; while it skips, what it has skipped is a gap, or a gap  *)
(* and a comment that is not over; and in a token it knows where the token *)
(* began and that all since belongs to it.                                 *)
(***************************************************************************)
Ended == LastIn(tokens, Len(tokens))

InToken == state \in {"CHECK_MINUS", "INTEGER", "LABEL", "STRING", "STRING_ESCAPE"}

InComment ==
    \E h \in Ended + 1 .. bpos :
        /\ CharOf(text, h) = "hash" /\ Gap(text, Ended + 1, h - 1)
        /\ \A x \in h .. bpos : CharOf(text, x) # "newline"

InProgress ==
    /\ Ended <= bpos
    /\ state = "END" => bpos = Ended
    /\ state = "INIT" => Gap(text, Ended + 1, bpos)
    /\ state = "COMMENT" => InComment
    /\ InToken => /\ Ended < first /\ first <= bpos + 1
                  /\ Gap(text, Ended + 1, first - 1)
    /\ state = "CHECK_MINUS" => first = bpos /\ CharOf(text, first) = "minus"
    /\ state = "INTEGER" =>
        LET body == BodyOf(text, first)
        IN  /\ body <= bpos \/ (body = bpos + 1 /\ CharOf(text, body) = "digit")
            /\ \A i \in body .. bpos : CharOf(text, i) = "digit"
    /\ state = "LABEL" =>
        /\ first <= bpos /\ CharOf(text, first) \in Letters
        /\ \A i \in first .. bpos : CharOf(text, i) \in Alnum
    /\ state \in {"STRING", "STRING_ESCAPE"} => first <= bpos /\ CharOf(text, first) = "quote"

ScanInv == InProgress /\ AllFit(text, tokens)

LEMMA InitScan == Init => ScanInv
<1> SUFFICES ASSUME Init PROVE ScanInv
  OBVIOUS
<1>1. Ended = 0 /\ AllFit(text, tokens)
  BY DEF Init, Ended, LastIn, AllFit
<1> QED
  BY <1>1 DEF Init, ScanInv, InProgress, InToken

LEMMA EndedType ==
    ASSUME TypeInv
    PROVE  tokens \in Seq(Token) /\ Ended \in Nat
<1>1. tokens \in Seq(Token)
  BY DEF TypeInv, TypeOK, Token
<1>2. \A k \in 1 .. Len(tokens) : tokens[k].last \in 0 .. Len(text)
  <2>1. \A k \in 1 .. Len(tokens) : tokens[k] \in Token
    BY <1>1
  <2> QED
    BY <2>1 DEF Token
<1>3. Len(tokens) \in Nat /\ Len(text) \in Nat
  BY <1>1, CharHere
<1> QED
  BY <1>1, <1>2, <1>3 DEF Ended, LastIn

\* An answer that fits the text and ends where the scanner then stands.
LEMMA AnswerScan ==
    ASSUME TypeInv, ScanInv, [Next]_vars, NEW tk,
           tokens' = Append(tokens, tk), state' = "END", bpos' = tk.last, tk.last \in Nat,
           Fits(text, tk, Ended)
    PROVE  ScanInv'
<1>1. text' = text
  BY TextKept
<1>2. AllFit(text, tokens')
  BY EndedType, AppendFits DEF ScanInv, Ended
<1>3. Ended' = bpos'
  <2>1. Len(tokens') = Len(tokens) + 1 /\ tokens'[Len(tokens) + 1] = tk /\ Len(tokens) \in Nat
    BY EndedType
  <2> QED
    BY <2>1 DEF Ended, LastIn
<1> QED
  BY <1>1, <1>2, <1>3 DEF ScanInv, InProgress, InToken

LEMMA NextScan == TypeInv /\ ScanInv /\ [Next]_vars => ScanInv'
<1> SUFFICES ASSUME TypeInv, ScanInv, [Next]_vars PROVE ScanInv'
  OBVIOUS
<1>1. /\ bpos \in Nat /\ first \in Nat /\ Ended \in Nat /\ Len(text) \in Nat
      /\ text' = text
  BY EndedType, CharHere, TextKept DEF TypeInv, TypeOK
<1>2. /\ Char \in Chars => bpos < Len(text) /\ Char = text[bpos + 1]
      /\ Char # "outside" => bpos <= Len(text)
      /\ bpos <= Len(text) => Char = CharOf(text, bpos + 1)
      /\ Char = "nul" => bpos = Len(text)
  BY CharHere DEF At, CharOf
<1>3. tokens' = tokens => Ended' = Ended /\ AllFit(text', tokens')
  BY <1>1 DEF Ended, ScanInv
<1> DEFINE Kept == tokens' = tokens /\ InProgress'
<1>4. ASSUME Kept PROVE ScanInv'
  BY <1>3, <1>4 DEF ScanInv
<1> USE DEF Take, Leave, Goto
<1>5. ASSUME GetToken PROVE Kept
  BY <1>1, <1>3, <1>5, GapEmpty DEF GetToken, ScanInv, InProgress, InToken
<1>6. ASSUME Skip PROVE Kept
  <2>1. /\ state = "INIT" /\ state' = "INIT" /\ tokens' = tokens /\ bpos' = bpos + 1
        /\ text[bpos + 1] \in {"blank", "newline"}
    BY <1>2, <1>6 DEF Skip, Chars
  <2>2. Gap(text, Ended + 1, bpos + 1)
    BY <1>1, <2>1, GapGrows DEF ScanInv, InProgress
  <2> QED
    BY <1>1, <1>3, <2>1, <2>2 DEF ScanInv, InProgress, InToken
<1>7. ASSUME StartComment PROVE Kept
  <2>1. /\ state = "INIT" /\ state' = "COMMENT" /\ tokens' = tokens /\ bpos' = bpos + 1
        /\ CharOf(text, bpos + 1) = "hash"
    BY <1>2, <1>7 DEF StartComment
  <2>2. Ended <= bpos /\ Gap(text, Ended + 1, (bpos + 1) - 1)
    BY <1>1, <2>1 DEF ScanInv, InProgress
  <2>3. InComment'
    BY <1>1, <1>3, <2>1, <2>2 DEF InComment
  <2> QED
    BY <1>1, <1>3, <2>1, <2>2, <2>3 DEF InProgress, InToken
<1>8. ASSUME AtComment PROVE Kept
  <2>1. /\ state = "COMMENT" /\ tokens' = tokens /\ bpos' = bpos + 1 /\ bpos <= Len(text)
        /\ Char = CharOf(text, bpos + 1)
        /\ state' = IF Char = "newline" THEN "INIT" ELSE "COMMENT"
    BY <1>2, <1>8 DEF AtComment
  <2>2. PICK h \in Ended + 1 .. bpos :
            /\ CharOf(text, h) = "hash" /\ Gap(text, Ended + 1, h - 1)
            /\ \A x \in h .. bpos : CharOf(text, x) # "newline"
    BY <2>1 DEF ScanInv, InProgress, InComment
  <2>3. CASE Char = "newline"
    <3>1. text[bpos + 1] = "newline" /\ bpos < Len(text)
      BY <1>2, <2>3 DEF Chars
    <3>2. text[h] = "hash" /\ \A x \in h .. bpos : text[x] # "newline"
      BY <1>1, <2>1, <2>2 DEF CharOf
    <3>3. Gap(text, Ended + 1, bpos + 1)
      BY <1>1, <2>2, <3>1, <3>2, GapOverComment
    <3> QED
      BY <1>1, <1>3, <2>1, <2>2, <2>3, <3>3 DEF InProgress, InToken
  <2>4. CASE Char # "newline"
    <3>1. \A x \in h .. bpos + 1 : CharOf(text, x) # "newline"
      BY <1>1, <2>1, <2>2, <2>4
    <3>2. InComment'
      BY <1>1, <1>3, <2>1, <2>2, <3>1 DEF InComment
    <3> QED
      BY <1>1, <1>3, <2>1, <2>2, <2>4, <3>2 DEF InProgress, InToken
  <2> QED
    BY <2>3, <2>4
<1>9. ASSUME EndOfFile PROVE ScanInv'
  <2> DEFINE tk == [type |-> "END", first |-> bpos + 1, last |-> bpos]
  <2>1. state = "INIT" /\ state' = "END" /\ bpos' = bpos /\ tokens' = Append(tokens, tk) /\ bpos = Len(text)
    BY <1>2, <1>9 DEF EndOfFile
  <2>2. Fits(text, tk, Ended)
    BY <1>1, <2>1 DEF Fits, ScanInv, InProgress
  <2> QED
    BY <1>1, <2>1, <2>2, AnswerScan
<1>10. ASSUME StartPunct PROVE ScanInv'
  <2> DEFINE tk == [type |-> "PUNCT", first |-> bpos + 1, last |-> bpos + 1]
  <2>1. state = "INIT" /\ state' = "END" /\ bpos' = bpos + 1 /\ tokens' = Append(tokens, tk)
    BY <1>10 DEF StartPunct
  <2>2. Fits(text, tk, Ended)
    BY <1>1, <2>1 DEF Fits, ScanInv, InProgress
  <2> QED
    BY <1>1, <2>1, <2>2, AnswerScan
<1>11. ASSUME StartMinus PROVE Kept
  <2>1. /\ state = "INIT" /\ state' = "CHECK_MINUS" /\ tokens' = tokens /\ bpos' = bpos + 1
        /\ first' = bpos + 1 /\ CharOf(text, bpos + 1) = "minus"
    BY <1>2, <1>11 DEF StartMinus
  <2> QED
    BY <1>1, <1>3, <2>1 DEF ScanInv, InProgress, InToken
<1>12. ASSUME StartInteger PROVE Kept
  <2>1. /\ state = "INIT" /\ state' = "INTEGER" /\ tokens' = tokens /\ bpos' = bpos
        /\ first' = bpos + 1 /\ CharOf(text, bpos + 1) = "digit"
    BY <1>2, <1>12 DEF StartInteger
  <2>2. BodyOf(text, bpos + 1) = bpos + 1
    BY <2>1 DEF BodyOf
  <2> QED
    BY <1>1, <1>3, <2>1, <2>2 DEF ScanInv, InProgress, InToken
<1>13. ASSUME StartLabel PROVE Kept
  <2>1. /\ state = "INIT" /\ state' \in {"LABEL", "overflow"} /\ tokens' = tokens /\ bpos' = bpos + 1
        /\ first' = bpos + 1 /\ CharOf(text, bpos + 1) \in Letters
    BY <1>2, <1>13 DEF StartLabel, Put, Letters
  <2> QED
    BY <1>1, <1>3, <2>1 DEF ScanInv, InProgress, InToken, Alnum
<1>14. ASSUME StartString PROVE Kept
  <2>1. /\ state = "INIT" /\ state' = "STRING" /\ tokens' = tokens /\ bpos' = bpos + 1
        /\ first' = bpos + 1 /\ CharOf(text, bpos + 1) = "quote"
    BY <1>2, <1>14 DEF StartString
  <2> QED
    BY <1>1, <1>3, <2>1 DEF ScanInv, InProgress, InToken
<1>15. ASSUME AtMinus PROVE ScanInv'
  <2>0. /\ state = "CHECK_MINUS" /\ bpos' = bpos /\ first' = first /\ first = bpos
        /\ CharOf(text, first) = "minus" /\ Ended < first /\ Gap(text, Ended + 1, first - 1)
    BY <1>15 DEF AtMinus, ScanInv, InProgress, InToken
  <2>1. CASE Char = "digit"
    <3>1. state' \in {"INTEGER", "overflow"} /\ tokens' = tokens /\ CharOf(text, bpos + 1) = "digit"
      BY <1>2, <1>15, <2>1 DEF AtMinus, Put
    <3>2. BodyOf(text, first) = bpos + 1
      BY <2>0 DEF BodyOf
    <3>3. Kept
      BY <1>1, <1>3, <2>0, <3>1, <3>2 DEF InProgress, InToken
    <3> QED
      BY <1>4, <3>3
  <2>2. CASE Char # "digit"
    <3> DEFINE tk == [type |-> "MINUS", first |-> first, last |-> bpos]
    <3>1. state' = "END" /\ tokens' = Append(tokens, tk)
      BY <1>15, <2>2 DEF AtMinus, Answer
    <3>2. bpos <= Len(text) /\ CharOf(text, bpos + 1) # "digit"
      <4>1. bpos <= Len(text)
        BY <2>0 DEF TypeInv, Bounds
      <4> QED
        BY <1>2, <2>2, <4>1
    <3>3. Fits(text, tk, Ended)
      BY <1>1, <2>0, <3>2 DEF Fits
    <3> QED
      BY <1>1, <2>0, <3>1, <3>3, AnswerScan
  <2> QED
    BY <2>1, <2>2
<1>16. ASSUME AtInteger PROVE ScanInv'
  <2> DEFINE body == BodyOf(text, first)
  <2>0. /\ state = "INTEGER" /\ first' = first /\ Ended < first /\ first <= bpos + 1
        /\ Gap(text, Ended + 1, first - 1)
        /\ body <= bpos \/ (body = bpos + 1 /\ CharOf(text, body) = "digit")
        /\ \A i \in body .. bpos : CharOf(text, i) = "digit"
    BY <1>16 DEF AtInteger, AtRun, ScanInv, InProgress, InToken
  <2>1. body \in Nat
    BY <1>1 DEF BodyOf
  <2>2. bpos <= Len(text) /\ Char = CharOf(text, bpos + 1)
    <3>1. bpos <= Len(text)
      BY <2>0 DEF TypeInv, Bounds
    <3> QED
      BY <1>2, <3>1
  <2> HIDE DEF body
  <2>3. CASE Char = "digit"
    <3>1. state' \in {"INTEGER", "overflow"} /\ tokens' = tokens /\ bpos' = bpos + 1
      BY <1>16, <2>3 DEF AtInteger, AtRun, Put
    <3>2. body <= bpos + 1 /\ \A i \in body .. bpos + 1 : CharOf(text, i) = "digit"
      BY <1>1, <2>0, <2>1, <2>2, <2>3
    <3>3. Kept
      BY <1>1, <1>3, <2>0, <2>1, <3>1, <3>2 DEF InProgress, InToken, body
    <3> QED
      BY <1>4, <3>3
  <2>4. CASE Char # "digit" /\ length < MaxLabel
    <3> DEFINE tk == [type |-> "INTEGER", first |-> first, last |-> bpos]
    <3>1. state' = "END" /\ tokens' = Append(tokens, tk) /\ bpos' = bpos
      BY <1>16, <2>4 DEF AtInteger, AtRun, Answer
    <3>2. body <= bpos
      BY <2>0, <2>2, <2>4
    <3>3. Fits(text, tk, Ended)
      BY <1>1, <2>0, <2>2, <2>4, <3>2 DEF Fits, body
    <3> QED
      BY <1>1, <3>1, <3>3, AnswerScan
  <2>5. CASE Char # "digit" /\ ~(length < MaxLabel)
    <3>1. state' = "overflow" /\ tokens' = tokens /\ bpos' = bpos
      BY <1>16, <2>5 DEF AtInteger, AtRun
    <3>2. Kept
      BY <1>1, <1>3, <3>1 DEF ScanInv, InProgress, InToken
    <3> QED
      BY <1>4, <3>2
  <2> QED
    BY <2>3, <2>4, <2>5
<1>17. ASSUME AtLabel PROVE ScanInv'
  <2>0. /\ state = "LABEL" /\ first' = first /\ Ended < first /\ first <= bpos
        /\ Gap(text, Ended + 1, first - 1) /\ CharOf(text, first) \in Letters
        /\ \A i \in first .. bpos : CharOf(text, i) \in Alnum
    BY <1>17 DEF AtLabel, AtRun, ScanInv, InProgress, InToken
  <2>1. bpos <= Len(text) /\ Char = CharOf(text, bpos + 1)
    <3>1. bpos <= Len(text)
      BY <2>0 DEF TypeInv, Bounds
    <3> QED
      BY <1>2, <3>1
  <2>2. CASE Char \in Alnum
    <3>1. state' \in {"LABEL", "overflow"} /\ tokens' = tokens /\ bpos' = bpos + 1
      BY <1>17, <2>2 DEF AtLabel, AtRun, Put
    <3>2. \A i \in first .. bpos + 1 : CharOf(text, i) \in Alnum
      BY <1>1, <2>0, <2>1, <2>2
    <3>3. Kept
      BY <1>1, <1>3, <2>0, <3>1, <3>2 DEF InProgress, InToken
    <3> QED
      BY <1>4, <3>3
  <2>3. CASE Char \notin Alnum /\ length < MaxLabel
    <3> DEFINE tk == [type |-> "LABEL", first |-> first, last |-> bpos]
    <3>1. state' = "END" /\ tokens' = Append(tokens, tk) /\ bpos' = bpos
      BY <1>17, <2>3 DEF AtLabel, AtRun, Answer
    <3>2. Fits(text, tk, Ended)
      BY <1>1, <2>0, <2>1, <2>3 DEF Fits
    <3> QED
      BY <1>1, <3>1, <3>2, AnswerScan
  <2>4. CASE Char \notin Alnum /\ ~(length < MaxLabel)
    <3>1. state' = "overflow" /\ tokens' = tokens /\ bpos' = bpos
      BY <1>17, <2>4 DEF AtLabel, AtRun
    <3>2. Kept
      BY <1>1, <1>3, <3>1 DEF ScanInv, InProgress, InToken
    <3> QED
      BY <1>4, <3>2
  <2> QED
    BY <2>2, <2>3, <2>4
<1>18. ASSUME AtString PROVE ScanInv'
  <2>0. /\ state = "STRING" /\ first' = first /\ Ended < first /\ first <= bpos
        /\ Gap(text, Ended + 1, first - 1) /\ CharOf(text, first) = "quote" /\ bpos' = bpos + 1
        /\ Char = CharOf(text, bpos + 1)
    BY <1>2, <1>18 DEF AtString, ScanInv, InProgress, InToken
  <2>1. CASE Char = "quote" /\ length < MaxLabel
    <3> DEFINE tk == [type |-> "STRING", first |-> first, last |-> bpos + 1]
    <3>1. state' = "END" /\ tokens' = Append(tokens, tk)
      BY <1>18, <2>1 DEF AtString, Answer
    <3>2. Fits(text, tk, Ended)
      BY <1>1, <2>0, <2>1 DEF Fits
    <3> QED
      BY <1>1, <2>0, <3>1, <3>2, AnswerScan
  <2>2. CASE ~(Char = "quote" /\ length < MaxLabel)
    <3>1. state' \in {"STRING", "STRING_ESCAPE", "overflow"} /\ tokens' = tokens
      BY <1>18, <2>2 DEF AtString, Put
    <3>2. Kept
      BY <1>1, <1>3, <2>0, <3>1 DEF ScanInv, InProgress, InToken
    <3> QED
      BY <1>4, <3>2
  <2> QED
    BY <2>1, <2>2
<1>19. ASSUME AtEscape PROVE Kept
  <2>1. /\ state = "STRING_ESCAPE" /\ state' \in {"STRING", "overflow"} /\ tokens' = tokens
        /\ first' = first /\ bpos' = bpos + 1
    BY <1>19 DEF AtEscape, Put
  <2> QED
    BY <1>1, <1>3, <2>1 DEF ScanInv, InProgress, InToken
<1>20. ASSUME LexError \/ ReadOutside PROVE Kept
  <2>1. state' \in {"error", "outside"} /\ tokens' = tokens /\ bpos' = bpos
    BY <1>20 DEF LexError, ReadOutside
  <2> QED
    BY <1>1, <1>3, <2>1 DEF ScanInv, InProgress, InToken
<1>21. ASSUME UNCHANGED vars PROVE Kept
  <2>1. vars' = vars
    BY <1>21
  <2> QED
    BY <1>1, <1>3, <2>1 DEF vars, ScanInv, InProgress, InToken, InComment
<1> HIDE DEF Kept
<1> QED
  BY <1>4, <1>5, <1>6, <1>7, <1>8, <1>9, <1>10, <1>11, <1>12, <1>13, <1>14, <1>15, <1>16, <1>17,
     <1>18, <1>19, <1>20, <1>21 DEF Next

\* What the scanner answers is the text: every token as long as it can be, and nothing but
\* blanks and comments between two of them (lex.cpp:83).
THEOREM TokensAreWhole == Spec => []TokensAreMaximal
<1>1. Init => ScanInv
  BY InitScan
<1>2. TypeInv /\ ScanInv /\ [Next]_vars => ScanInv'
  BY NextScan
<1>3. ScanInv => TokensAreMaximal
  BY MaximalMeansFit DEF ScanInv
<1> QED
  BY <1>1, <1>2, <1>3, TypeAlways, PTL DEF Spec

----------------------------------------------------------------------------
(***************************************************************************)
(* Reads.  The scanner's state agrees with the reading of the text at the  *)
(* place it has come to.  In a string or a comment of a closed text it is  *)
(* therefore before the end, where the reading is in the code again, and   *)
(* the character it takes there is one of the text.                        *)
(***************************************************************************)
ModeOf(s) ==
    CASE s = "STRING" -> "string"
      [] s = "STRING_ESCAPE" -> "escape"
      [] s = "COMMENT" -> "comment"
      [] OTHER -> "code"

Agrees(mode) ==
    /\ state # "outside" /\ bpos <= Len(text)
    /\ state \in Scanning \cup {"END"} => mode[bpos] = ModeOf(state)

ReadsInv ==
    \A mode \in [0 .. Len(text) -> Modes] :
        IsReading(mode) /\ mode[Len(text)] = "code" => Agrees(mode)

LEMMA NextReads == TypeInv /\ ReadsInv /\ [Next]_vars => ReadsInv'
<1> SUFFICES ASSUME TypeInv, ReadsInv, [Next]_vars,
                    NEW mode \in [0 .. Len(text') -> Modes],
                    IsReading(mode)', mode[Len(text')] = "code"
             PROVE  Agrees(mode)'
  BY DEF ReadsInv
<1>1. text' = text /\ bpos \in Nat /\ Len(text) \in Nat
  BY TextKept, CharHere
<1>2. mode \in [0 .. Len(text) -> Modes] /\ IsReading(mode) /\ mode[Len(text)] = "code"
  BY <1>1 DEF IsReading
<1>3. /\ state # "outside" /\ bpos <= Len(text)
      /\ state \in Scanning \cup {"END"} => mode[bpos] = ModeOf(state)
  BY <1>2 DEF ReadsInv, Agrees
<1>4. state \in {"STRING", "STRING_ESCAPE", "COMMENT"} => bpos < Len(text)
  <2> SUFFICES ASSUME state \in {"STRING", "STRING_ESCAPE", "COMMENT"} PROVE bpos # Len(text)
    BY <1>1, <1>3
  <2>1. mode[bpos] # "code"
    BY <1>3 DEF ModeOf, Scanning
  <2> QED
    BY <1>2, <2>1
<1>5. /\ Char \in Chars => bpos < Len(text)
      /\ Char = "outside" => bpos > Len(text)
  BY <1>1, CharHere
<1>6. bpos < Len(text) => bpos + 1 <= Len(text) /\ mode[bpos + 1] = After(mode[bpos], Char)
  <2> SUFFICES ASSUME bpos < Len(text)
               PROVE  bpos + 1 <= Len(text) /\ mode[bpos + 1] = After(mode[bpos], Char)
    OBVIOUS
  <2>1. bpos + 1 \in 1 .. Len(text)
    BY <1>1
  <2>2. \A i \in 1 .. Len(text) : mode[i] = After(mode[i - 1], text[i])
    BY <1>2 DEF IsReading
  <2>3. \A i \in 1 .. Len(text) : i = bpos + 1 => mode[i] = After(mode[bpos], text[i])
    <3> SUFFICES ASSUME NEW i \in 1 .. Len(text), i = bpos + 1
                 PROVE  mode[i] = After(mode[bpos], text[i])
      OBVIOUS
    <3>1. i - 1 = bpos
      BY <1>1
    <3> QED
      BY <2>2, <3>1
  <2>4. mode[bpos + 1] = After(mode[bpos], text[bpos + 1])
    BY <2>1, <2>3
  <2>5. Char = text[bpos + 1]
    BY DEF Char
  <2> QED
    BY <1>1, <2>4, <2>5
<1> DEFINE Reads ==
      /\ state' # "outside" /\ bpos' <= Len(text)
      /\ state' \in Scanning \cup {"END"} => mode[bpos'] = ModeOf(state')
<1> USE DEF Take, Leave, Goto, Put, Answer
\* The scanner stands still in the code, takes a character of the text, or stops.
<1>s. ASSUME bpos' = bpos, state \in Scanning \cup {"END"},
             ModeOf(state) = "code", ModeOf(state') = "code", state' # "outside"
      PROVE  Reads
  BY <1>3, <1>s
<1>t. ASSUME bpos' = bpos + 1, bpos < Len(text), state \in Scanning, state' # "outside",
             ModeOf(state') = After(ModeOf(state), Char) \/ state' = "overflow"
      PROVE  Reads
  BY <1>3, <1>6, <1>t DEF Scanning
<1>o. ASSUME bpos' = bpos, state' \in {"overflow", "error"} PROVE Reads
  BY <1>3, <1>o DEF Scanning
<1> HIDE DEF Reads
<1>7. ASSUME GetToken \/ EndOfFile \/ StartInteger PROVE Reads
  <2>1. bpos' = bpos /\ state \in {"INIT", "END"} /\ state' \in {"INIT", "END", "INTEGER"}
    BY <1>7 DEF GetToken, EndOfFile, StartInteger
  <2> QED
    BY <1>s, <2>1 DEF ModeOf, Scanning
<1>8. ASSUME AtMinus PROVE Reads
  <2>1. bpos' = bpos /\ state = "CHECK_MINUS" /\ state' \in {"INTEGER", "END", "overflow"}
    BY <1>8 DEF AtMinus
  <2> QED
    BY <1>s, <1>o, <2>1 DEF ModeOf, Scanning
<1>9. ASSUME LexError PROVE Reads
  BY <1>o, <1>9 DEF LexError
<1>10. ASSUME Skip \/ StartPunct \/ StartMinus \/ StartLabel PROVE Reads
  <2>1. /\ bpos' = bpos + 1 /\ state = "INIT"
        /\ state' \in {"INIT", "END", "CHECK_MINUS", "LABEL", "overflow"}
        /\ Char \in {"blank", "newline", "punct", "minus"} \cup Letters
    BY <1>10 DEF Skip, StartPunct, StartMinus, StartLabel
  <2>2. Char \in Chars /\ After("code", Char) = "code"
    BY <2>1 DEF After, Chars, Alnum, Letters
  <2> QED
    BY <1>t, <1>5, <2>1, <2>2 DEF ModeOf, Scanning
<1>11. ASSUME StartComment \/ StartString PROVE Reads
  <2>1. /\ bpos' = bpos + 1 /\ state = "INIT"
        /\ \/ Char = "hash" /\ state' = "COMMENT"
           \/ Char = "quote" /\ state' = "STRING"
    BY <1>11 DEF StartComment, StartString
  <2>2. Char \in Chars /\ ModeOf(state') = After("code", Char)
    BY <2>1 DEF After, ModeOf, Chars
  <2> QED
    BY <1>t, <1>5, <2>1, <2>2 DEF ModeOf, Scanning
<1>12. ASSUME AtComment PROVE Reads
  <2>1. /\ bpos' = bpos + 1 /\ state = "COMMENT"
        /\ state' = IF Char = "newline" THEN "INIT" ELSE "COMMENT"
    BY <1>12 DEF AtComment
  <2>2. ModeOf(state') = After("comment", Char)
    BY <2>1 DEF After, ModeOf
  <2> QED
    BY <1>t, <1>4, <2>1, <2>2 DEF ModeOf, Scanning
<1>13. ASSUME NEW type \in {"INTEGER", "LABEL"}, NEW more \in SUBSET Alnum, AtRun(type, more)
       PROVE  Reads
  <2>1. state = type /\ state \in Scanning /\ ModeOf(state) = "code"
    BY <1>13 DEF AtRun, ModeOf, Scanning
  <2>2. CASE Char \in more
    <3>1. bpos' = bpos + 1 /\ state' \in {type, "overflow"}
      BY <1>13, <2>2 DEF AtRun
    <3>2. Char \in Chars /\ After("code", Char) = "code"
      BY <2>2 DEF After, Chars, Alnum, Letters
    <3> QED
      BY <1>t, <1>5, <2>1, <3>1, <3>2 DEF ModeOf
  <2>3. CASE Char \notin more
    <3>1. bpos' = bpos /\ state' \in {"END", "overflow"}
      BY <1>13, <2>3 DEF AtRun
    <3> QED
      BY <1>s, <1>o, <2>1, <3>1 DEF ModeOf
  <2> QED
    BY <2>2, <2>3
<1>14. ASSUME AtInteger \/ AtLabel PROVE Reads
  BY <1>13, <1>14 DEF AtInteger, AtLabel, Alnum
<1>15. ASSUME AtString PROVE Reads
  <2>1. bpos' = bpos + 1 /\ state = "STRING"
    BY <1>15 DEF AtString
  <2>2. state' = "overflow" \/ (state' # "outside" /\ ModeOf(state') = After("string", Char))
    <3>1. CASE Char = "escape"
      BY <1>15, <3>1 DEF AtString, After, ModeOf
    <3>2. CASE Char = "quote"
      BY <1>15, <3>2 DEF AtString, After, ModeOf
    <3>3. CASE Char \notin {"escape", "quote"}
      BY <1>15, <3>3 DEF AtString, After, ModeOf
    <3> QED
      BY <3>1, <3>2, <3>3
  <2> QED
    BY <1>t, <1>4, <2>1, <2>2 DEF ModeOf, Scanning
<1>16. ASSUME AtEscape PROVE Reads
  <2>1. bpos' = bpos + 1 /\ state = "STRING_ESCAPE" /\ state' \in {"STRING", "overflow"}
    BY <1>16 DEF AtEscape
  <2> QED
    BY <1>t, <1>4, <2>1 DEF ModeOf, After, Scanning
<1>17. ~ReadOutside
  <2>1. Char # "outside"
    BY <1>1, <1>3, <1>5
  <2> QED
    BY <2>1 DEF ReadOutside
<1>18. ASSUME UNCHANGED vars PROVE Reads
  BY <1>3, <1>18 DEF vars, Reads
<1>19. Reads
  BY <1>7, <1>8, <1>9, <1>10, <1>11, <1>12, <1>14, <1>15, <1>16, <1>17, <1>18 DEF Next
<1> QED
  BY <1>1, <1>19 DEF Reads, Agrees

\* A text whose strings and comments are closed, however many of them it has and whatever
\* they hold, is scanned without a read behind its buffer (lex.cpp:63); only a text that
\* ends inside a string or a comment goes past the 0.
THEOREM NothingReadOutside == Spec => []ReadsStayInside
<1>1. Init => ReadsInv
  <2> SUFFICES ASSUME Init, NEW mode \in [0 .. Len(text) -> Modes], IsReading(mode)
               PROVE  Agrees(mode)
    BY DEF ReadsInv
  <2>1. Len(text) \in Nat
    BY InitType, CharHere
  <2>2. bpos = 0 /\ state = "END" /\ mode[0] = "code"
    BY DEF Init, IsReading
  <2> QED
    BY <2>1, <2>2 DEF Agrees, ModeOf
<1>2. TypeInv /\ ReadsInv /\ [Next]_vars => ReadsInv'
  BY NextReads
<1>3. ReadsInv => ReadsStayInside
  BY DEF ReadsInv, ReadsStayInside, Closed, Agrees
<1> QED
  BY <1>1, <1>2, <1>3, TypeAlways, PTL DEF Spec

----------------------------------------------------------------------------
(***************************************************************************)
(* Lines.  row is one more than the newlines taken, those in strings left  *)
(* out; inside a string it is what it was at the opening quote.            *)
(***************************************************************************)
Strung(ts, i) ==
    \E k \in 1 .. Len(ts) : ts[k].type = "STRING" /\ i \in ts[k].first .. ts[k].last

Newlines(t, ts, n) == {i \in 1 .. n : CharOf(t, i) = "newline" /\ ~Strung(ts, i)}

Seen == IF state \in {"STRING", "STRING_ESCAPE"} THEN first ELSE bpos

LinesInv ==
    /\ \A k \in 1 .. Len(tokens) : tokens[k].last <= bpos
    /\ state \notin Stopped => row = 1 + Cardinality(Newlines(text, tokens, Seen))

LEMMA NewlinesFinite ==
    ASSUME NEW t, NEW ts, NEW n \in Nat
    PROVE  IsFiniteSet(Newlines(t, ts, n)) /\ Cardinality(Newlines(t, ts, n)) \in Nat
<1>1. IsFiniteSet(1 .. n)
  BY FS_Interval
<1>2. Newlines(t, ts, n) \subseteq 1 .. n
  BY DEF Newlines
<1> QED
  BY <1>1, <1>2, FS_Subset, FS_CardinalityType

LEMMA OtherCharacter ==
    ASSUME NEW t, NEW ts, NEW n \in Nat, CharOf(t, n + 1) # "newline"
    PROVE  Newlines(t, ts, n + 1) = Newlines(t, ts, n)
  BY DEF Newlines

LEMMA OneMoreLine ==
    ASSUME NEW t, NEW S, NEW ts \in Seq(S), NEW n \in Nat, CharOf(t, n + 1) = "newline",
           \A k \in 1 .. Len(ts) : ts[k].last \in Nat /\ ts[k].last <= n
    PROVE  Cardinality(Newlines(t, ts, n + 1)) = Cardinality(Newlines(t, ts, n)) + 1
<1>1. ~Strung(ts, n + 1)
  BY DEF Strung
<1>2. Newlines(t, ts, n + 1) = Newlines(t, ts, n) \cup {n + 1} /\ n + 1 \notin Newlines(t, ts, n)
  BY <1>1 DEF Newlines
<1> QED
  BY <1>2, NewlinesFinite, FS_AddElement

LEMMA AppendStrung ==
    ASSUME NEW S, NEW ts \in Seq(S), NEW tk
    PROVE  \A i : Strung(Append(ts, tk), i) <=>
                    Strung(ts, i) \/ (tk.type = "STRING" /\ i \in tk.first .. tk.last)
<1> DEFINE us == Append(ts, tk)
<1>1. /\ Len(ts) \in Nat /\ Len(us) = Len(ts) + 1 /\ us[Len(ts) + 1] = tk
      /\ \A k \in 1 .. Len(ts) : us[k] = ts[k]
  OBVIOUS
<1> HIDE DEF us
<1> SUFFICES ASSUME NEW i
             PROVE  Strung(us, i) <=> Strung(ts, i) \/ (tk.type = "STRING" /\ i \in tk.first .. tk.last)
  BY DEF us
<1>2. ASSUME Strung(us, i) PROVE Strung(ts, i) \/ (tk.type = "STRING" /\ i \in tk.first .. tk.last)
  <2>1. PICK k \in 1 .. Len(us) : us[k].type = "STRING" /\ i \in us[k].first .. us[k].last
    BY <1>2 DEF Strung
  <2>2. CASE k = Len(ts) + 1
    BY <1>1, <2>1, <2>2
  <2>3. CASE k \in 1 .. Len(ts)
    <3>1. ts[k].type = "STRING" /\ i \in ts[k].first .. ts[k].last
      BY <1>1, <2>1, <2>3
    <3> QED
      BY <2>3, <3>1 DEF Strung
  <2> QED
    BY <1>1, <2>2, <2>3
<1>3. ASSUME Strung(ts, i) PROVE Strung(us, i)
  BY <1>1, <1>3 DEF Strung
<1>4. ASSUME tk.type = "STRING", i \in tk.first .. tk.last PROVE Strung(us, i)
  BY <1>1, <1>4 DEF Strung
<1> QED
  BY <1>2, <1>3, <1>4

\* A token that is no string hides no newline; a string hides those behind its first quote.
LEMMA AppendOther ==
    ASSUME NEW t, NEW S, NEW ts \in Seq(S), NEW tk, tk.type # "STRING", NEW n
    PROVE  Newlines(t, Append(ts, tk), n) = Newlines(t, ts, n)
<1>1. \A i : Strung(Append(ts, tk), i) <=> Strung(ts, i)
  BY AppendStrung
<1> QED
  BY <1>1 DEF Newlines

LEMMA AppendString ==
    ASSUME NEW t, NEW S, NEW ts \in Seq(S), NEW tk, tk.type = "STRING",
           tk.first \in Nat, tk.last \in Nat, tk.first <= tk.last, CharOf(t, tk.first) = "quote"
    PROVE  Newlines(t, Append(ts, tk), tk.last) = Newlines(t, ts, tk.first)
<1>1. \A i : Strung(Append(ts, tk), i) <=> Strung(ts, i) \/ i \in tk.first .. tk.last
  BY AppendStrung
<1> QED
  BY <1>1 DEF Newlines

LEMMA InitLines == Init => LinesInv
<1> SUFFICES ASSUME Init PROVE LinesInv
  OBVIOUS
<1>1. Newlines(text, tokens, 0) = {}
  BY DEF Newlines
<1>2. row = 1 /\ Seen = 0 /\ tokens = <<>>
  BY DEF Init, Seen
<1>3. Cardinality(Newlines(text, tokens, Seen)) = 0
  BY <1>1, <1>2, FS_EmptySet
<1>4. Len(tokens) = 0
  BY <1>2
<1> QED
  BY <1>2, <1>3, <1>4 DEF LinesInv

LEMMA NextLines == TypeInv /\ ScanInv /\ LinesInv /\ [Next]_vars => LinesInv'
<1> SUFFICES ASSUME TypeInv, ScanInv, LinesInv, [Next]_vars PROVE LinesInv'
  OBVIOUS
<1>1. /\ bpos \in Nat /\ first \in Nat /\ row \in Nat
      /\ text' = text /\ tokens \in Seq(Token)
  BY EndedType, CharHere, TextKept DEF TypeInv, TypeOK
<1>2. \A k \in 1 .. Len(tokens) : tokens[k].last \in Nat /\ tokens[k].last <= bpos
  <2>1. \A k \in 1 .. Len(tokens) : tokens[k] \in Token
    BY <1>1
  <2> QED
    BY <2>1, CharHere DEF Token, LinesInv
<1>3. bpos <= Len(text) => Char = CharOf(text, bpos + 1)
  BY CharHere DEF At, CharOf
<1>4. Char # "outside" => bpos <= Len(text)
  BY CharHere
<1>5. ASSUME tokens' = tokens, bpos' \in {bpos, bpos + 1}, state' \in Stopped
      PROVE  LinesInv'
  BY <1>1, <1>2, <1>5 DEF LinesInv
<1>6. ASSUME tokens' = tokens, bpos' \in {bpos, bpos + 1}, state \notin Stopped, row' = row,
             Newlines(text, tokens, Seen') = Newlines(text, tokens, Seen)
      PROVE  LinesInv'
  BY <1>1, <1>2, <1>6 DEF LinesInv
<1>7. ASSUME tokens' = tokens, bpos' = bpos + 1, state \notin Stopped, row' = row + 1,
             Seen = bpos, Seen' = bpos + 1, CharOf(text, bpos + 1) = "newline"
      PROVE  LinesInv'
  <2>1. Cardinality(Newlines(text, tokens, bpos + 1)) = Cardinality(Newlines(text, tokens, bpos)) + 1
    BY <1>1, <1>2, <1>7, OneMoreLine
  <2>2. row = 1 + Cardinality(Newlines(text, tokens, bpos))
    BY <1>7 DEF LinesInv
  <2>3. Cardinality(Newlines(text, tokens, bpos)) \in Nat
    BY <1>1, NewlinesFinite
  <2>4. row' = 1 + Cardinality(Newlines(text, tokens, bpos + 1))
    BY <1>7, <2>1, <2>2, <2>3
  <2> QED
    BY <1>1, <1>2, <1>7, <2>4 DEF LinesInv
<1>8. ASSUME NEW tk, tokens' = Append(tokens, tk), tk.last \in Nat, tk.last = bpos',
             bpos' \in {bpos, bpos + 1}, state \notin Stopped, row' = row,
             Newlines(text, tokens', Seen') = Newlines(text, tokens, Seen)
      PROVE  LinesInv'
  <2>1. /\ Len(tokens) \in Nat /\ Len(tokens') = Len(tokens) + 1 /\ tokens'[Len(tokens) + 1] = tk
        /\ \A k \in 1 .. Len(tokens) : tokens'[k] = tokens[k]
    BY <1>1, <1>8
  <2>2. \A k \in 1 .. Len(tokens') : tokens'[k].last <= bpos'
    BY <1>1, <1>2, <1>8, <2>1
  <2> QED
    BY <1>1, <1>8, <2>2 DEF LinesInv
<1> USE DEF Take, Leave, Goto, Seen
<1>9. ASSUME GetToken \/ StartInteger PROVE LinesInv'
  <2>1. /\ state \in {"END", "INIT"} /\ state' \in {"INIT", "INTEGER"} /\ tokens' = tokens
        /\ bpos' = bpos /\ row' = row
    BY <1>9 DEF GetToken, StartInteger
  <2> QED
    BY <1>6, <2>1 DEF Stopped
<1>10. ASSUME Skip \/ AtComment PROVE LinesInv'
  <2>1. /\ state \in {"INIT", "COMMENT"} /\ state' \in {"INIT", "COMMENT"} /\ tokens' = tokens
        /\ bpos' = bpos + 1 /\ Char # "outside"
        /\ row' = IF Char = "newline" THEN row + 1 ELSE row
    BY <1>10 DEF Skip, AtComment
  <2>2. Char = CharOf(text, bpos + 1) /\ state \notin Stopped /\ Seen = bpos /\ Seen' = bpos + 1
    BY <1>3, <1>4, <2>1 DEF Stopped
  <2>3. CASE Char = "newline"
    BY <1>7, <2>1, <2>2, <2>3
  <2>4. CASE Char # "newline"
    <3>1. Newlines(text, tokens, bpos + 1) = Newlines(text, tokens, bpos)
      BY <1>1, <2>2, <2>4, OtherCharacter
    <3> QED
      BY <1>6, <2>1, <2>2, <2>4, <3>1
  <2> QED
    BY <2>3, <2>4
<1>11. ASSUME StartComment \/ StartMinus \/ StartLabel \/ StartString PROVE LinesInv'
  <2>1. /\ state = "INIT" /\ tokens' = tokens /\ bpos' = bpos + 1 /\ row' = row
        /\ Char \notin {"newline", "outside"}
        /\ \/ state' \in {"COMMENT", "CHECK_MINUS", "LABEL", "overflow"}
           \/ state' = "STRING" /\ first' = bpos + 1
    <3>1. CASE StartComment \/ StartMinus
      BY <3>1 DEF StartComment, StartMinus
    <3>2. CASE StartLabel
      BY <3>2 DEF StartLabel, Put, Letters
    <3>3. CASE StartString
      BY <3>3 DEF StartString
    <3> QED
      BY <1>11, <3>1, <3>2, <3>3
  <2>2. Newlines(text, tokens, bpos + 1) = Newlines(text, tokens, bpos)
    BY <1>1, <1>3, <1>4, <2>1, OtherCharacter
  <2>3. Seen = bpos /\ Seen' = bpos + 1 /\ state \notin Stopped
    BY <2>1 DEF Stopped
  <2> QED
    BY <1>6, <2>1, <2>2, <2>3
<1>12. ASSUME EndOfFile PROVE LinesInv'
  <2> DEFINE tk == [type |-> "END", first |-> bpos + 1, last |-> bpos]
  <2>1. /\ state = "INIT" /\ state' = "END" /\ tokens' = Append(tokens, tk) /\ bpos' = bpos
        /\ row' = row
    BY <1>12 DEF EndOfFile
  <2>2. Newlines(text, tokens', bpos) = Newlines(text, tokens, bpos)
    BY <1>1, <2>1, AppendOther
  <2> QED
    BY <1>1, <1>8, <2>1, <2>2 DEF Stopped
<1>13. ASSUME StartPunct PROVE LinesInv'
  <2> DEFINE tk == [type |-> "PUNCT", first |-> bpos + 1, last |-> bpos + 1]
  <2>1. /\ state = "INIT" /\ state' = "END" /\ tokens' = Append(tokens, tk) /\ bpos' = bpos + 1
        /\ row' = row /\ Char = "punct"
    BY <1>13 DEF StartPunct
  <2>2. Newlines(text, tokens', bpos + 1) = Newlines(text, tokens, bpos + 1)
    BY <1>1, <2>1, AppendOther
  <2>3. Newlines(text, tokens, bpos + 1) = Newlines(text, tokens, bpos)
    BY <1>1, <1>3, <1>4, <2>1, OtherCharacter
  <2> QED
    BY <1>1, <1>8, <2>1, <2>2, <2>3 DEF Stopped
<1>14. ASSUME AtMinus PROVE LinesInv'
  <2>1. state = "CHECK_MINUS" /\ bpos' = bpos /\ row' = row
    BY <1>14 DEF AtMinus
  <2>2. CASE Char = "digit"
    <3>1. tokens' = tokens /\ state' \in {"INTEGER", "overflow"}
      BY <1>14, <2>2 DEF AtMinus, Put
    <3> QED
      BY <1>6, <2>1, <3>1 DEF Stopped
  <2>3. CASE Char # "digit"
    <3> DEFINE tk == [type |-> "MINUS", first |-> first, last |-> bpos]
    <3>1. tokens' = Append(tokens, tk) /\ state' = "END"
      BY <1>14, <2>3 DEF AtMinus, Answer
    <3>2. Newlines(text, tokens', bpos) = Newlines(text, tokens, bpos)
      BY <1>1, <3>1, AppendOther
    <3> QED
      BY <1>1, <1>8, <2>1, <3>1, <3>2 DEF Stopped
  <2> QED
    BY <2>2, <2>3
<1>15. ASSUME NEW type \in {"INTEGER", "LABEL"}, NEW more \in SUBSET Alnum, AtRun(type, more)
       PROVE  LinesInv'
  <2>1. state = type /\ row' = row
    BY <1>15 DEF AtRun
  <2>2. CASE Char \in more
    <3>1. tokens' = tokens /\ bpos' = bpos + 1 /\ state' \in {type, "overflow"}
      BY <1>15, <2>2 DEF AtRun, Put
    <3>2. Char \notin {"newline", "outside"}
      BY <2>2 DEF Alnum, Letters
    <3>3. Newlines(text, tokens, bpos + 1) = Newlines(text, tokens, bpos)
      BY <1>1, <1>3, <1>4, <3>2, OtherCharacter
    <3> QED
      BY <1>6, <2>1, <3>1, <3>3 DEF Stopped
  <2>3. CASE Char \notin more /\ length < MaxLabel
    <3> DEFINE tk == [type |-> type, first |-> first, last |-> bpos]
    <3>1. tokens' = Append(tokens, tk) /\ state' = "END" /\ bpos' = bpos
      BY <1>15, <2>3 DEF AtRun, Answer
    <3>2. Newlines(text, tokens', bpos) = Newlines(text, tokens, bpos)
      BY <1>1, <3>1, AppendOther
    <3> QED
      BY <1>1, <1>8, <2>1, <3>1, <3>2 DEF Stopped
  <2>4. CASE Char \notin more /\ ~(length < MaxLabel)
    <3>1. tokens' = tokens /\ bpos' = bpos /\ state' = "overflow"
      BY <1>15, <2>4 DEF AtRun
    <3> QED
      BY <1>5, <3>1 DEF Stopped
  <2> QED
    BY <2>2, <2>3, <2>4
<1>16. ASSUME AtInteger \/ AtLabel PROVE LinesInv'
  BY <1>15, <1>16 DEF AtInteger, AtLabel, Alnum
<1>17. ASSUME AtString PROVE LinesInv'
  <2>1. /\ state = "STRING" /\ bpos' = bpos + 1 /\ row' = row /\ first' = first
        /\ first <= bpos /\ CharOf(text, first) = "quote"
    BY <1>17 DEF AtString, ScanInv, InProgress
  <2>2. CASE Char = "quote" /\ length < MaxLabel
    <3> DEFINE tk == [type |-> "STRING", first |-> first, last |-> bpos + 1]
    <3>1. tokens' = Append(tokens, tk) /\ state' = "END"
      BY <1>17, <2>2 DEF AtString, Answer
    <3>2. Newlines(text, tokens', bpos + 1) = Newlines(text, tokens, first)
      <4>1. tk.type = "STRING" /\ tk.first = first /\ tk.last = bpos + 1 /\ tk.first <= tk.last
        BY <1>1, <2>1
      <4> HIDE DEF tk
      <4>2. tk.first \in Nat /\ tk.last \in Nat /\ CharOf(text, tk.first) = "quote"
        BY <1>1, <2>1, <4>1
      <4>3. Newlines(text, Append(tokens, tk), tk.last) = Newlines(text, tokens, tk.first)
        BY <1>1, <4>1, <4>2, AppendString
      <4> QED
        BY <3>1, <4>1, <4>3
    <3> QED
      BY <1>1, <1>8, <2>1, <3>1, <3>2 DEF Stopped
  <2>3. CASE ~(Char = "quote" /\ length < MaxLabel)
    <3>1. tokens' = tokens /\ state' \in {"STRING", "STRING_ESCAPE", "overflow"}
      BY <1>17, <2>3 DEF AtString, Put
    <3>2. CASE state' = "overflow"
      BY <1>5, <2>1, <3>1, <3>2 DEF Stopped
    <3>3. CASE state' # "overflow"
      BY <1>6, <2>1, <3>1, <3>3 DEF Stopped
    <3> QED
      BY <3>2, <3>3
  <2> QED
    BY <2>2, <2>3
<1>18. ASSUME AtEscape PROVE LinesInv'
  <2>1. /\ state = "STRING_ESCAPE" /\ bpos' = bpos + 1 /\ row' = row /\ first' = first
        /\ tokens' = tokens /\ state' \in {"STRING", "overflow"}
    BY <1>18 DEF AtEscape, Put
  <2>2. CASE state' = "overflow"
    BY <1>5, <2>1, <2>2 DEF Stopped
  <2>3. CASE state' # "overflow"
    BY <1>6, <2>1, <2>3 DEF Stopped
  <2> QED
    BY <2>2, <2>3
<1>19. ASSUME LexError \/ ReadOutside PROVE LinesInv'
  <2>1. tokens' = tokens /\ bpos' = bpos /\ state' \in Stopped
    BY <1>19 DEF LexError, ReadOutside, Stopped
  <2> QED
    BY <1>5, <2>1
<1>20. ASSUME UNCHANGED vars PROVE LinesInv'
  BY <1>20 DEF vars, LinesInv
<1> QED
  BY <1>9, <1>10, <1>11, <1>12, <1>13, <1>14, <1>16, <1>17, <1>18, <1>19, <1>20 DEF Next

\* An error is reported on the line of the text it is on, the newlines inside strings
\* left out (syntax.cpp:108).
THEOREM LinesAreRight == Spec => []LinesCounted
<1>1. Init => ScanInv /\ LinesInv
  BY InitScan, InitLines
<1>2. TypeInv /\ ScanInv /\ LinesInv /\ [Next]_vars => ScanInv' /\ LinesInv'
  BY NextScan, NextLines
<1>3. LinesInv => LinesCounted
  <2>1. \A i : InString(i) <=> Strung(tokens, i)
    BY DEF InString, Strung
  <2>2. {i \in 1 .. bpos : At(i) = "newline" /\ ~InString(i)} = Newlines(text, tokens, bpos)
    BY <2>1 DEF Newlines, At, CharOf
  <2> QED
    BY <2>2 DEF LinesInv, LinesCounted, Seen, Stopped
<1> QED
  BY <1>1, <1>2, <1>3, TypeAlways, PTL DEF Spec

====
