------------------------------ MODULE Executor ------------------------------
(***************************************************************************)
(* RunFile: a dump or restore tool writes its output in chunks that end    *)
(* anywhere; the LineWriter hands every complete line that is not blank to *)
(* onLine and keeps the last of them for the error message.  What the tool *)
(* prints behind its last newline is never handed on.                      *)
(***************************************************************************)
EXTENDS Integers, SequencesExt

CONSTANTS
  Output,       \* what the tool prints, character by character
  TailLimit     \* how many lines are kept (50)

Newline == "\n"
CR == "\r"
Space == " "

ASSUME ExecutorAssumption == Output \in Seq(STRING) /\ TailLimit \in Nat \ {0}

VARIABLES
  written,      \* how much of Output the tool has written
  buf,          \* the LineWriter's buffer
  tail          \* the last lines

toolVars == <<written, buf, tail>>

ExecutorInit == written = 0 /\ buf = <<>> /\ tail = <<>>

Blank(line) == ToSet(line) \subseteq {Space, CR}

\* strings.TrimRight(line, "\r\n"), the newline being off already.
TrimRight(line) ==
  LET kept == {i \in DOMAIN line : line[i] # CR} IN
  SubSeq(line, 1, IF kept = {} THEN 0 ELSE Max(kept))

\* Faulty variant: what is left in the buffer is thrown away.
WriteForgets(n) ==
  /\ written + n <= Len(Output)
  /\ written' = written + n
  /\ buf' = SubSeq(Output, written + 1, written + n)
  /\ UNCHANGED tail

\* The tool writes the next n characters.
Write(n) ==
  /\ written + n <= Len(Output)
  /\ written' = written + n
  /\ buf' = buf \o SubSeq(Output, written + 1, written + n)
  /\ UNCHANGED tail

HasLine == Newline \in ToSet(buf)

\* The next line in the buffer, and the rest behind its newline.
LineEnd == Min({i \in DOMAIN buf : buf[i] = Newline})
NextLine == TrimRight(SubSeq(buf, 1, LineEnd - 1))

Kept(lines) == SubSeq(lines, Max({1, Len(lines) - TailLimit + 1}), Len(lines))

\* One round of the loop in Write.
ReadLine ==
  /\ buf' = SubSeq(buf, LineEnd + 1, Len(buf))
  /\ tail' = IF Blank(NextLine) THEN tail ELSE Kept(Append(tail, NextLine))
  /\ UNCHANGED written

(***************************************************************************)
(* The reference: the lines of what was written, whatever the chunks.      *)
(***************************************************************************)

\* The line whose newline is the i-th character.
LineAt(i) ==
  TrimRight(SubSeq(Output, Max({0} \cup {j \in 1..(i - 1) : Output[j] = Newline}) + 1, i - 1))

\* The lines of the first n characters that are not blank, by their newlines.
EndsTo(n) == {i \in 1..n : Output[i] = Newline /\ ~Blank(LineAt(i))}
Nth(S, k) == Min({e \in S : Cardinality({f \in S : f <= e}) = k})
LinesTo(n) == [k \in 1..Cardinality(EndsTo(n)) |-> LineAt(Nth(EndsTo(n), k))]

\* Whatever the chunks the output comes in, the lines kept for the error
\* message are the last complete lines that are not blank, each of them whole.
TailIsLastLines == ~HasLine => tail = Kept(LinesTo(written))
=============================================================================
