------------------------------ MODULE Prompts ------------------------------
(***************************************************************************)
(* Keeping prompts under the context window of the local LLM               *)
(* (services/prompt_budget.py): what is left out of a prompt that is too   *)
(* long, how a long text is split, and how the results of its parts are    *)
(* reduced to one.  A text is its length, except where it is split.        *)
(***************************************************************************)
EXTENDS Integers, Sequences, SequencesExt

CeilDiv(a, b) == (a + b - 1) \div b

\* 3.2 characters to a token and a margin of a tenth, rounded up twice.
EstimateTokens(size) == CeilDiv(CeilDiv(size * 10, 32) * 11, 10)

\* The role markers around each message.
MessageOverhead == 6

EstimateMessages(messages) ==
    FoldLeft(LAMBDA sum, m : sum + EstimateTokens(m.size) + MessageOverhead, 0, messages)

TaskPolicies ==
    [chat          |-> [policy |-> "drop_oldest",   reserved |-> 800],
     narrative     |-> [policy |-> "truncate_tail", reserved |-> 800],
     structured    |-> [policy |-> "truncate_tail", reserved |-> 1024],
     live_recap    |-> [policy |-> "truncate_tail", reserved |-> 600],
     live_draft    |-> [policy |-> "map_reduce",    reserved |-> 1024],
     npc_chat      |-> [policy |-> "drop_oldest",   reserved |-> 400],
     lookup_answer |-> [policy |-> "truncate_tail", reserved |-> 512]]

WindowTokens(task, context) == context - TaskPolicies[task].reserved

-----------------------------------------------------------------------------
(* Fitting one prompt.  parts: the sizes of the system message, of the     *)
(* instructions and of the required and optional blocks (most relevant     *)
(* first), and the messages of the history, oldest first.                  *)

\* Blocks, or results, with a blank line between them.
JoinedSize(sizes) == FoldLeft(+, 0, sizes) + 2 * (Len(sizes) - 1)

Assembled(parts, droppedHistory, droppedOptional) ==
    LET optional == SubSeq(parts.optional, 1, Len(parts.optional) - droppedOptional)
        blocks   == SelectSeq(parts.required \o optional \o <<parts.instructions>>, LAMBDA size : size > 0)
    IN  (IF parts.system > 0 THEN <<[role |-> "system", size |-> parts.system]>> ELSE <<>>)
          \o SubSeq(parts.history, droppedHistory + 1, Len(parts.history))
          \o (IF blocks # <<>> THEN <<[role |-> "user", size |-> JoinedSize(blocks)]>> ELSE <<>>)

Least(a, b) == IF a < b THEN a ELSE b
AtLeast0(n) == IF n > 0 THEN n ELSE 0

\* After the first k removals: from the front of the history, then from the
\* tail of the optional blocks, or the other way round.
Drops(policy, k, nHistory, nOptional) ==
    IF policy = "drop_oldest"
    THEN [history |-> Least(k, nHistory), optional |-> AtLeast0(k - nHistory)]
    ELSE [history |-> AtLeast0(k - nOptional), optional |-> Least(k, nOptional)]

\* The prompt after k removals.
Trimmed(task, parts, k) ==
    LET dropped == Drops(TaskPolicies[task].policy, k, Len(parts.history), Len(parts.optional))
    IN  Assembled(parts, dropped.history, dropped.optional)

\* The binary search: lo removals do not fit, hi do.
FewestDrops(total, fits) ==
    LET search[lo \in 0..total, hi \in 0..total] ==
          LET mid == (lo + hi) \div 2
          IN  IF hi - lo <= 1 THEN hi
              ELSE IF mid \in fits THEN search[lo, mid] ELSE search[mid, hi]
    IN  search[0, total]

\* How many removals fit the prompt, or why none do.
FitReport(task, parts, context) ==
    LET total   == Len(parts.history) + Len(parts.optional)
        fits    == {k \in 0..total : EstimateMessages(Trimmed(task, parts, k)) <= WindowTokens(task, context)}
    IN  CASE 0 \in fits -> [outcome |-> "fits", k |-> 0]
          [] 0 \notin fits /\ TaskPolicies[task].policy = "map_reduce" -> [outcome |-> "split first", k |-> 0]
          [] OTHER -> IF total \in fits THEN [outcome |-> "fits", k |-> FewestDrops(total, fits)]
                                     ELSE [outcome |-> "required too long", k |-> total]

-----------------------------------------------------------------------------
(* Splitting a text, which is here a sequence of letters, spaces and       *)
(* newlines.                                                               *)

Letter  == "x"
Space   == " "
Newline == "\n"

Blank(text, i, j) == \A k \in i..j : text[k] # Letter

\* Where the separators end: paragraphs, lines, words.
ParagraphEnds(text) ==
    {j \in 1..Len(text) :
       /\ text[j] = Newline
       /\ \E i \in 1..(j - 1) : text[i] = Newline /\ Blank(text, i, j)
       /\ ~\E k \in (j + 1)..Len(text) : text[k] = Newline /\ Blank(text, j, k)}
LineEnds(text) == {j \in 1..Len(text) : text[j] = Newline}
WordEnds(text) == {j \in 1..Len(text) : text[j] = Space /\ (j < Len(text) => text[j + 1] # Space)}

\* The pieces of a text, each with its separator.
Pieces(text, ends) ==
    LET cuts == SetToSortSeq(ends \cup {0, Len(text)}, <)
    IN  [n \in 1..(Len(cuts) - 1) |-> SubSeq(text, cuts[n] + 1, cuts[n + 1])]

FitsIn(text, max) == EstimateTokens(Len(text)) <= max

SplitChars(text, max) ==
    LET n == CHOOSE m \in 1..Len(text) : /\ EstimateTokens(m) <= max
                                         /\ m = Len(text) \/ EstimateTokens(m + 1) > max
    IN  [c \in 1..CeilDiv(Len(text), n) |-> SubSeq(text, (c - 1) * n + 1, Least(c * n, Len(text)))]

\* Pieces are put together while they fit; one that fits nowhere is split finer.
Packed(text, ends, max, Finer(_, _)) ==
    LET close(chunks, current) == IF current = <<>> THEN chunks ELSE Append(chunks, current)
        take(acc, piece) ==
          IF FitsIn(acc.current \o piece, max) THEN [acc EXCEPT !.current = @ \o piece]
          ELSE LET chunks == close(acc.chunks, acc.current)
               IN  IF FitsIn(piece, max) THEN [chunks |-> chunks, current |-> piece]
                   ELSE [chunks |-> chunks \o Finer(piece, max), current |-> <<>>]
        last == FoldLeft(take, [chunks |-> <<>>, current |-> <<>>], Pieces(text, ends))
    IN  close(last.chunks, last.current)

SplitWords(text, max) ==
    IF FitsIn(text, max) THEN <<text>> ELSE Packed(text, WordEnds(text), max, SplitChars)
SplitLines(text, max) ==
    IF FitsIn(text, max) THEN <<text>> ELSE Packed(text, LineEnds(text), max, SplitWords)
SplitText(text, max) ==
    IF text = <<>> THEN <<>>
    ELSE IF FitsIn(text, max) THEN <<text>> ELSE Packed(text, ParagraphEnds(text), max, SplitLines)

-----------------------------------------------------------------------------
(* Reducing the results of the parts to one.                               *)

BatchTokens(batch) == EstimateTokens(JoinedSize(batch))

\* Each result joins the last batch when it fits there.
Batches(results, capacity) ==
    LET take(batches, size) ==
          IF batches # <<>> /\ BatchTokens(Append(Last(batches), size)) <= capacity
          THEN Front(batches) \o <<Append(Last(batches), size)>>
          ELSE Append(batches, <<size>>)
    IN  FoldLeft(take, <<>>, results)

\* Rounds until one batch holds every result, which the last call reduces.
\* reduce: the size of what each batch becomes.
MapReduce(results, capacity, reduce) ==
    LET ends(outcome, last, n) == [outcome |-> outcome, results |-> last, rounds |-> n]
        round[given \in Seq(Nat), n \in Nat] ==
          LET reduced == [b \in 1..Len(Batches(given, capacity)) |-> reduce[Batches(given, capacity)[b]]]
          IN  IF BatchTokens(given) <= capacity THEN ends("reduced", given, n)
              ELSE IF \E i \in 1..Len(given) : EstimateTokens(given[i]) > capacity THEN ends("too large", given, n)
              ELSE IF BatchTokens(reduced) >= BatchTokens(given) THEN ends("did not shrink", given, n)
              ELSE round[reduced, n + 1]
    IN  IF capacity <= 0 THEN ends("no room", results, 0) ELSE round[results, 0]
=============================================================================
