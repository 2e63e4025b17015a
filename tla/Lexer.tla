---- MODULE Lexer ----
(***************************************************************************)
(* lex_get_token of the assembler: one state machine over the characters   *)
(* of the file, called by the parser until it answers END.  A character is *)
(* its class: what the scanner tells apart.                                *)
(*   blank   ' ', tab or carriage return    punct   one of [ ] : , . ;     *)
(*   n       n or t, a letter and an escape letter    any other letter, _  *)
(* The buffer ends with the 0 that load_file appends; what lies behind it  *)
(* is not the program's, so a read there ends the model ("outside"), as a  *)
(* write behind the MaxLabel characters of a token does ("overflow").      *)
(***************************************************************************)
EXTENDS Integers, Sequences, FiniteSets

CONSTANTS
    MaxText,    \* bound: characters of a file
    MaxLabel    \* MAX_LABEL_LENGTH

ASSUME LexerAssumption == MaxText \in Nat /\ MaxLabel \in Nat \ {0}

VARIABLES
    text,       \* buffer, without the 0 at its end
    bpos,       \* characters taken so far
    row,        \* line number the parser reports in an error
    state,      \* lex_state_t, and what ends the model
    first,      \* where the token, or what is skipped before it, starts
    length,     \* characters written to token->data
    tokens      \* the tokens answered: type, first and last character

vars == <<text, bpos, row, state, first, length, tokens>>

Letters == {"n", "letter"}
Alnum == Letters \cup {"digit"}
Chars == Alnum \cup {"hash", "blank", "newline", "minus", "punct", "quote", "escape", "other"}

Scanning == {"INIT", "CHECK_MINUS", "INTEGER", "LABEL", "STRING", "STRING_ESCAPE", "COMMENT"}
Stopped == {"outside", "overflow", "error"}

TokenTypes == {"INTEGER", "LABEL", "STRING", "MINUS", "PUNCT", "END"}

TypeOK ==
    /\ text \in Seq(Chars) /\ Len(text) <= MaxText
    /\ bpos \in 0 .. Len(text) + 1
    /\ row \in 1 .. Len(text) + 1
    /\ state \in Scanning \cup Stopped \cup {"END"}
    /\ first \in 0 .. Len(text) + 1
    /\ length \in 0 .. MaxLabel
    /\ tokens \in Seq([type : TokenTypes, first : 1 .. Len(text) + 1, last : 0 .. Len(text)])

\* io_fgetc_no_inc
Char ==
    CASE bpos < Len(text) -> text[bpos + 1]
      [] bpos = Len(text) -> "nul"
      [] OTHER -> "outside"

Init ==
    /\ text \in UNION {[1 .. n -> Chars] : n \in 0 .. MaxText}
    /\ bpos = 0 /\ row = 1 /\ first = 1 /\ length = 0
    /\ state = "END"
    /\ tokens = <<>>

Take == bpos' = bpos + 1
Leave == UNCHANGED bpos
Goto(s) == state' = s /\ UNCHANGED tokens

\* The token ends before the character at hand, or with it.
Answer(type, last) ==
    /\ state' = "END"
    /\ tokens' = Append(tokens, [type |-> type, first |-> first, last |-> last])

\* *p = c; p++;
Put(s) ==
    IF length < MaxLabel
    THEN length' = length + 1 /\ Goto(s)
    ELSE length' = length /\ Goto("overflow")

\* The parser asks for the next token, until it has seen END.
GetToken ==
    /\ state = "END"
    /\ \A k \in 1 .. Len(tokens) : tokens[k].type # "END"
    /\ Goto("INIT")
    /\ first' = bpos + 1 /\ length' = 0
    /\ UNCHANGED <<text, bpos, row>>

\* Mutant: the newline that ends a comment is not counted.
AtCommentUncounted ==
    /\ state = "COMMENT"
    /\ Char # "outside"
    /\ Take /\ Goto(IF Char = "newline" THEN "INIT" ELSE "COMMENT")
    /\ UNCHANGED <<row, first, length, text>>

\* LEX_STATE_COMMENT: nothing but a newline ends it.
AtComment ==
    /\ state = "COMMENT"
    /\ Char # "outside"
    /\ Take /\ Goto(IF Char = "newline" THEN "INIT" ELSE "COMMENT")
    /\ row' = IF Char = "newline" THEN row + 1 ELSE row
    /\ UNCHANGED <<first, length, text>>

\* LEX_STATE_INIT: blanks, newlines and comments are skipped, and the first
\* character of the token decides what it is.
Skip ==
    /\ state = "INIT" /\ Char \in {"blank", "newline"}
    /\ Take /\ Goto("INIT")
    /\ row' = IF Char = "newline" THEN row + 1 ELSE row
    /\ UNCHANGED <<first, length, text>>

StartComment ==
    /\ state = "INIT" /\ Char = "hash"
    /\ Take /\ Goto("COMMENT")
    /\ UNCHANGED <<row, first, length, text>>

EndOfFile ==
    /\ state = "INIT" /\ Char = "nul"
    /\ state' = "END"
    /\ tokens' = Append(tokens, [type |-> "END", first |-> bpos + 1, last |-> bpos])
    /\ UNCHANGED <<bpos, row, first, length, text>>

StartPunct ==
    /\ state = "INIT" /\ Char = "punct"
    /\ Take /\ state' = "END"
    /\ tokens' = Append(tokens, [type |-> "PUNCT", first |-> bpos + 1, last |-> bpos + 1])
    /\ UNCHANGED <<row, first, length, text>>

StartMinus ==
    /\ state = "INIT" /\ Char = "minus"
    /\ Take /\ Goto("CHECK_MINUS") /\ first' = bpos + 1
    /\ UNCHANGED <<row, length, text>>

StartInteger ==
    /\ state = "INIT" /\ Char = "digit"
    /\ Leave /\ Goto("INTEGER") /\ first' = bpos + 1
    /\ UNCHANGED <<row, length, text>>

StartLabel ==
    /\ state = "INIT" /\ Char \in Letters
    /\ Take /\ Put("LABEL") /\ first' = bpos + 1
    /\ UNCHANGED <<row, text>>

StartString ==
    /\ state = "INIT" /\ Char = "quote"
    /\ Take /\ Goto("STRING") /\ first' = bpos + 1
    /\ UNCHANGED <<row, length, text>>

LexError ==
    /\ \/ state = "INIT" /\ Char \in {"escape", "other"}
       \/ state = "STRING_ESCAPE" /\ Char \notin {"n", "escape", "quote", "outside"}
    /\ Leave /\ Goto("error")
    /\ UNCHANGED <<row, first, length, text>>

\* LEX_STATE_CHECK_MINUS_OR_INTEGER
AtMinus ==
    /\ state = "CHECK_MINUS"
    /\ IF Char = "digit"
       THEN Put("INTEGER")
       ELSE Answer("MINUS", bpos) /\ UNCHANGED length
    /\ Leave
    /\ UNCHANGED <<row, first, text>>

\* LEX_STATE_INTEGER and LEX_STATE_LABEL: as many characters as there are,
\* and the 0 that ends them.
AtRun(type, more) ==
    /\ state = type
    /\ IF Char \in more
       THEN Take /\ Put(type)
       ELSE /\ Leave
            /\ IF length < MaxLabel
               THEN Answer(type, bpos)
               ELSE Goto("overflow")
            /\ UNCHANGED length
    /\ UNCHANGED <<row, first, text>>

\* Mutant: a label ends at its first digit.
AtLabelLettersOnly == AtRun("LABEL", Letters)

AtLabel == AtRun("LABEL", Alnum)
AtInteger == AtRun("INTEGER", {"digit"})

\* Mutant: an escape is a character like any other, so that an escaped quote ends the string.
AtStringUnescaped ==
    /\ state = "STRING"
    /\ Char # "outside"
    /\ Take
    /\ IF Char # "quote"
       THEN Put("STRING")
       ELSE /\ IF length < MaxLabel
               THEN Answer("STRING", bpos + 1)
               ELSE Goto("overflow")
            /\ UNCHANGED length
    /\ UNCHANGED <<row, first, text>>

\* LEX_STATE_STRING: no newline is counted and the 0 at the end of the
\* buffer is a character like any other.
AtString ==
    /\ state = "STRING"
    /\ Char # "outside"
    /\ Take
    /\ CASE Char = "escape" -> Goto("STRING_ESCAPE") /\ UNCHANGED length
         [] Char = "quote" -> /\ IF length < MaxLabel
                                 THEN Answer("STRING", bpos + 1)
                                 ELSE Goto("overflow")
                              /\ UNCHANGED length
         [] OTHER -> Put("STRING")
    /\ UNCHANGED <<row, first, text>>

\* LEX_STATE_STRING_ESCAPE
AtEscape ==
    /\ state = "STRING_ESCAPE"
    /\ Char \in {"n", "escape", "quote"}
    /\ Take /\ Put("STRING")
    /\ UNCHANGED <<row, first, text>>

\* The character behind the 0 is read.
ReadOutside ==
    /\ state \in {"STRING", "COMMENT"}
    /\ Char = "outside"
    /\ Leave /\ Goto("outside")
    /\ UNCHANGED <<row, first, length, text>>

Next ==
    \/ GetToken \/ Skip \/ StartComment \/ AtComment \/ EndOfFile
    \/ StartPunct \/ StartMinus \/ AtMinus \/ StartInteger \/ AtInteger
    \/ StartLabel \/ AtLabel \/ StartString \/ AtString \/ AtEscape
    \/ LexError \/ ReadOutside

Spec == Init /\ [][Next]_vars

----
At(i) == IF i <= Len(text) THEN text[i] ELSE "nul"

\* Blank, newline or part of a comment, in what is skipped from character i to j.
Skipped(i, j) ==
    \A m \in i .. j :
        \/ text[m] \in {"blank", "newline"}
        \/ \E h \in i .. m :
            /\ text[h] = "hash"
            /\ \A x \in h .. m - 1 : text[x] # "newline"

LastOf(k) == IF k = 0 THEN 0 ELSE tokens[k].last

\* The characters of an INTEGER and a LABEL are the longest run there is,
\* a MINUS is followed by no digit, and nothing but blanks and comments
\* lies between two tokens: what the scanner of lex.cpp:83 answers is the
\* text, whole and in order.
TokensAreMaximal ==
    \A k \in 1 .. Len(tokens) :
        LET t == tokens[k]  body == IF At(t.first) = "minus" THEN t.first + 1 ELSE t.first
        IN  /\ t.first > LastOf(k - 1)
            /\ Skipped(LastOf(k - 1) + 1, t.first - 1)
            /\ t.type = "END" => t.first = Len(text) + 1
            /\ t.type = "MINUS" => t.last = t.first /\ At(t.last + 1) # "digit"
            /\ t.type = "INTEGER" =>
                /\ body <= t.last /\ \A i \in body .. t.last : At(i) = "digit"
                /\ At(t.last + 1) # "digit"
            /\ t.type = "LABEL" =>
                /\ \A i \in t.first .. t.last : At(i) \in Alnum
                /\ At(t.first) \in Letters /\ At(t.last + 1) \notin Alnum
            /\ t.type = "STRING" =>
                /\ t.last > t.first /\ At(t.first) = "quote" /\ At(t.last) = "quote"

InString(i) ==
    \E k \in 1 .. Len(tokens) :
        tokens[k].type = "STRING" /\ i \in tokens[k].first .. tokens[k].last

\* The line an error is reported on (syntax.cpp:108) is the line of the text,
\* the newlines inside strings left out: comments and blank lines count.
LinesCounted ==
    state = "END" =>
        row = 1 + Cardinality({i \in 1 .. bpos : At(i) = "newline" /\ ~InString(i)})

\* A text read on its own, apart from the scanner: what each character leaves it in.
Modes == {"code", "string", "escape", "comment"}

After(mode, c) ==
    CASE mode = "code" -> (CASE c = "quote" -> "string" [] c = "hash" -> "comment" [] OTHER -> "code")
      [] mode = "string" -> (CASE c = "escape" -> "escape" [] c = "quote" -> "code" [] OTHER -> "string")
      [] mode = "escape" -> "string"
      [] mode = "comment" -> (IF c = "newline" THEN "code" ELSE "comment")

IsReading(mode) ==
    /\ mode[0] = "code"
    /\ \A i \in 1 .. Len(text) : mode[i] = After(mode[i - 1], text[i])

\* Every string has its closing quote, an escaped quote not being one, and every comment
\* its newline.
Closed ==
    \E mode \in [0 .. Len(text) -> Modes] : IsReading(mode) /\ mode[Len(text)] = "code"

\* A file whose strings and comments are closed is scanned without a read
\* behind its buffer (lex.cpp:63): the 0 at the end stops every other state,
\* and no string runs on over its closing quote (lex.cpp:239) or ends early,
\* at an escaped one.
ReadsStayInside == (state # "outside" /\ bpos <= Len(text)) \/ ~Closed

====
