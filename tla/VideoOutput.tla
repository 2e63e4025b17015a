---- MODULE VideoOutput ----
(***************************************************************************)
(* The windows of the terminal: each a matrix of characters with a cursor, *)
(* into which print wraps, scrolls and erases.  Beside each goes the paper *)
(* the same text would fill if nothing ever left the window.               *)
(***************************************************************************)
EXTENDS Integers, Sequences, SequencesExt

CONSTANTS
    Videos,     \* the indices of Terminal::videos
    nrows, ncols,
    Chars,      \* that are printed as they are
    MaxLines    \* bound: lines of paper

VideoAssumption ==
    /\ nrows \in Nat \ {0} /\ ncols \in Nat \ {0} /\ MaxLines \in Nat
    /\ Chars \cap {"newline", "return"} = {}

VARIABLES
    buffer, x, y,      \* of each VideoOutput
    current_video,
    paper              \* the lines printed since the start, per window

vars == <<buffer, x, y, current_video, paper>>

Rows == 0 .. nrows - 1
Cols == 0 .. ncols - 1
Blank == [row \in Rows |-> [col \in Cols |-> " "]]

Init ==
    /\ buffer = [v \in Videos |-> Blank]
    /\ x = [v \in Videos |-> 0] /\ y = [v \in Videos |-> 0]
    /\ current_video \in Videos
    /\ paper = [v \in Videos |-> << <<>> >>]

\* Mutant: the last line stays as it was.
RolledUncleared(b) ==
    [row \in Rows |-> IF row < nrows - 1 THEN b[row + 1] ELSE b[row]]

\* roll: every line moves up, the last is cleared.
Rolled(b) == [row \in Rows |-> IF row < nrows - 1 THEN b[row + 1] ELSE [col \in Cols |-> " "]]

\* Mutant: the cursor is not taken back up after the roll.
NextLineBelow(s) ==
    [buffer |-> IF s.y + 1 >= nrows THEN Rolled(s.buffer) ELSE s.buffer, x |-> 0, y |-> s.y + 1]

\* The start of the next line, rolled into sight.
NextLine(s) ==
    IF s.y + 1 >= nrows THEN [buffer |-> Rolled(s.buffer), x |-> 0, y |-> s.y]
                        ELSE [s EXCEPT !.x = 0, !.y = @ + 1]

Cleared(s, from) ==
    [s EXCEPT !.buffer[s.y] = [col \in Cols |-> IF col >= from THEN " " ELSE @[col]]]

\* One turn of the loop in print.
Printed(old, c) ==
    LET s == IF old.x >= ncols THEN NextLine(old) ELSE old
    IN  CASE c = "newline" -> NextLine(Cleared(s, s.x))
          [] c = "return" -> Cleared([s EXCEPT !.x = 0], 0)
          [] OTHER -> [s EXCEPT !.buffer[s.y][s.x] = c, !.x = @ + 1]

\* The same on paper without end: a line that is full is left by whatever
\* comes next, newlines and returns too.
OnPaper(p, c) ==
    LET lines == IF Len(Last(p)) = ncols THEN Append(p, <<>>) ELSE p
        n == Len(lines)
    IN  CASE c = "newline" -> Append(lines, <<>>)
          [] c = "return" -> [lines EXCEPT ![n] = <<>>]
          [] OTHER -> [lines EXCEPT ![n] = Append(@, c)]

\* print_str and dprint, one character of the string
PrintChar(v, c) ==
    /\ Len(OnPaper(paper[v], c)) <= MaxLines
    /\ LET s == Printed([buffer |-> buffer[v], x |-> x[v], y |-> y[v]], c)
       IN  /\ buffer' = [buffer EXCEPT ![v] = s.buffer]
           /\ x' = [x EXCEPT ![v] = s.x]
           /\ y' = [y EXCEPT ![v] = s.y]
    /\ paper' = [paper EXCEPT ![v] = OnPaper(@, c)]
    /\ UNCHANGED current_video

\* A word written to TerminalSet, and to TerminalUpload
TerminalSet(v) ==
    /\ current_video' = v
    /\ UNCHANGED <<buffer, x, y, paper>>

TerminalUpload(c) == PrintChar(current_video, c)

Next ==
    \E c \in Chars \cup {"newline", "return"}, v \in Videos :
        PrintChar(v, c) \/ TerminalSet(v) \/ TerminalUpload(c)

Spec == Init /\ [][Next]_vars

----
TypeOK ==
    /\ \A v \in Videos :
        /\ buffer[v] \in [Rows -> [Cols -> Chars \cup {" "}]]
        /\ x[v] \in 0 .. ncols /\ y[v] \in Rows
        /\ paper[v] # <<>>
    /\ current_video \in Videos

\* A window shows the last lines of everything printed to it (terminal.cpp:42)
\* and the cursor is behind the last character, whatever wraps, newlines,
\* returns and changes of window came in between.  (A return right after a
\* full line starts a new line: the shell's redrawing leaves the old one.)
ScreenShowsTail ==
    \A v \in Videos :
        LET lines == paper[v]
            off == IF Len(lines) > nrows THEN Len(lines) - nrows ELSE 0
        IN  /\ y[v] + 1 = Len(lines) - off /\ x[v] = Len(Last(lines))
            /\ \A row \in Rows, col \in Cols :
                buffer[v][row][col] =
                    IF off + row + 1 <= Len(lines) /\ col + 1 <= Len(lines[off + row + 1])
                    THEN lines[off + row + 1][col + 1] ELSE " "

====
