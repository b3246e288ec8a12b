---------------------------- MODULE BoundedViews ----------------------------
(***************************************************************************)
(* What the model sees of text that is too long: the head of a file with   *)
(* the offset to continue at (tool-pi-read result.ts, formatText and       *)
(* truncateHead), and the tail of the output of a command (tool-pi-bash    *)
(* result.ts, truncateTail).                                               *)
(*                                                                         *)
(* A text is the sequence of the lengths of its lines, as split("\n")      *)
(* gives them: a text that ends in a newline has an empty last line.       *)
(***************************************************************************)
EXTENDS Integers, Sequences, SequencesExt

CONSTANTS
  Lengths,   \* lengths a line may have
  MaxFile,   \* bound on the lines of a text
  MaxLines,  \* PI_READ_MAX_LINES, PI_BASH_MAX_LINES
  MaxBytes,  \* PI_READ_MAX_BYTES, PI_BASH_MAX_BYTES
  Limits     \* limits a reader may ask for, 0 for none

ViewsAssumption ==
  /\ Lengths \subseteq Nat /\ Limits \subseteq Nat
  /\ MaxFile \in Nat /\ MaxLines \in Nat \ {0} /\ MaxBytes \in Nat \ {0}

VARIABLES
  file,   \* the text
  limit,  \* the limit of every read
  next,   \* the offset to read at, or 0 when nothing is left
  shown,  \* the line numbers shown so far
  stuck,  \* the line the reader was told is too long, or 0
  reads   \* reads so far

viewVars == <<file, limit, next, shown, stuck, reads>>

\* Bytes of the first k lines joined with newlines, for every k.
Sizes(lines) ==
  LET size[k \in 0 .. Len(lines)] ==
        IF k = 0 THEN 0 ELSE size[k - 1] + lines[k] + (IF k > 1 THEN 1 ELSE 0)
  IN  size

ByteLength(lines) == Sizes(lines)[Len(lines)]

\* The lines of a text, without the empty one after a final newline.
Lines(text) ==
  IF text = <<0>> THEN <<>>
  ELSE IF Len(text) > 1 /\ Last(text) = 0 THEN Front(text) ELSE text

Whole(text) == Len(Lines(text)) <= MaxLines /\ ByteLength(text) <= MaxBytes

\* How many lines, taken one by one from the first on, the loops of truncateHead and
\* truncateTail take.
Taken(lines) ==
  LET loop[k \in 0 .. Len(lines)] ==
        IF k = Len(lines) \/ k >= MaxLines \/ Sizes(lines)[k + 1] > MaxBytes
        THEN k ELSE loop[k + 1]
  IN  loop[0]

-----------------------------------------------------------------------------
(* truncateHead and formatText.                                            *)

TruncateHead(text) ==
  LET lines == Lines(text)
  IN  IF Whole(text)
      THEN [outputLines |-> Len(lines), truncated |-> FALSE, firstLineExceedsLimit |-> FALSE]
      ELSE IF lines[1] > MaxBytes
      THEN [outputLines |-> 0, truncated |-> TRUE, firstLineExceedsLimit |-> TRUE]
      ELSE [outputLines |-> Taken(lines), truncated |-> TRUE, firstLineExceedsLimit |-> FALSE]

\* Variant: the lines that were cut are counted as shown.
FormatAll(offset) ==
  LET start == offset - 1
      count == IF limit = 0 \/ limit > Len(file) - start THEN Len(file) - start ELSE limit
      head  == TruncateHead(SubSeq(file, start + 1, start + count))
  IN  IF head.firstLineExceedsLimit THEN [last |-> start, next |-> 0, stuck |-> offset]
      ELSE IF start + count < Len(file)
      THEN [last |-> start + count, next |-> start + count + 1, stuck |-> 0]
      ELSE [last |-> start + head.outputLines, next |-> 0, stuck |-> 0]

\* formatText: the last line it shows, and the offset its note tells to go on at.
FormatText(offset) ==
  LET start == offset - 1
      count == IF limit = 0 \/ limit > Len(file) - start THEN Len(file) - start ELSE limit
      head  == TruncateHead(SubSeq(file, start + 1, start + count))
  IN  CASE head.firstLineExceedsLimit ->
             [last |-> start, next |-> 0, stuck |-> offset]
        [] head.truncated /\ ~head.firstLineExceedsLimit ->
             [last |-> start + head.outputLines, next |-> start + head.outputLines + 1, stuck |-> 0]
        [] ~head.truncated ->
             [last |-> start + count, stuck |-> 0,
              next |-> IF limit # 0 /\ start + count < Len(file) THEN start + count + 1 ELSE 0]

-----------------------------------------------------------------------------
(* truncateTail.                                                           *)

\* The loop goes from the last line to the first.
TruncateTail(text) ==
  LET all  == Lines(text)
      kept == Taken(Reverse(all))
  IN  IF Whole(text) THEN [lines |-> all, truncated |-> FALSE, lastLinePartial |-> FALSE]
      ELSE IF kept = 0 THEN [lines |-> <<MaxBytes>>, truncated |-> TRUE, lastLinePartial |-> TRUE]
      ELSE [lines |-> SubSeq(all, Len(all) - kept + 1, Len(all)), truncated |-> TRUE,
            lastLinePartial |-> FALSE]

-----------------------------------------------------------------------------
(* A reader that follows the notes from the first line on.                 *)

ViewsInit ==
  /\ file \in UNION {[1 .. n -> Lengths] : n \in 1 .. MaxFile}
  /\ limit \in Limits
  /\ next = 1
  /\ shown = <<>>
  /\ stuck = 0
  /\ reads = 0

ReadOn ==
  LET view == FormatText(next)
  IN  /\ next \in 1 .. Len(file)
      /\ next' = view.next
      /\ stuck' = view.stuck
      /\ shown' = shown \o [i \in 1 .. view.last - next + 1 |-> next + i - 1]
      /\ reads' = reads + 1
      /\ UNCHANGED <<file, limit>>

ViewsNext == ReadOn

ViewsSpec == ViewsInit /\ [][ViewsNext]_viewVars

-----------------------------------------------------------------------------
(* Properties.                                                             *)

\* A reader that continues at the offsets it is told is shown every line once, in
\* order, with no read in vain, up to the end or to a line it is told is too
\* long, and is never sent past the end (formatText, truncateHead).
PagesCoverFile ==
  /\ shown = [i \in 1 .. Len(shown) |-> i]
  /\ reads <= Len(shown) + 1
  /\ next \in 0 .. Len(file)
  /\ next # 0 => next = Len(shown) + 1
  /\ next = 0 => \/ Len(shown) = Len(file)
                 \/ stuck = Len(shown) + 1 /\ file[stuck] > MaxBytes

\* The tail of an output is within both limits and as long as they allow: whole
\* lines at the end, of which one more would not fit, and part of a line only if
\* the last line alone does not fit (truncateTail).
TailIsLongest ==
  LET all  == Lines(file)
      tail == TruncateTail(file)
      n    == Len(tail.lines)
  IN  /\ n <= MaxLines /\ ByteLength(tail.lines) <= MaxBytes
      /\ tail.lastLinePartial => Last(all) > MaxBytes
      /\ ~tail.lastLinePartial => tail.lines = SubSeq(all, Len(all) - n + 1, Len(all))
      /\ ~tail.lastLinePartial /\ n < Len(all) =>
           n = MaxLines \/ ByteLength(SubSeq(all, Len(all) - n, Len(all))) > MaxBytes
      /\ ~tail.truncated => n = Len(all)

\* What a tool shows of a text is exactly what its limits allow and its notices say.
ViewsAreHonest == PagesCoverFile /\ TailIsLongest
=============================================================================
