----------------------------- MODULE LlmStream -----------------------------
(***************************************************************************)
(* The answer of the language model (llm.rs): a stream of server-sent      *)
(* events that arrives in chunks cut anywhere, the deltas taken from it,   *)
(* and what is kept of the whole.                                          *)
(*                                                                         *)
(* A line is its kind, or the delta it carries; on the wire it is two      *)
(* halves and a line end, so that a chunk may end inside a line (and       *)
(* inside a character).  A text is a sequence of pieces: words, spaces,    *)
(* and the halves of the tags <think> and </think>.                        *)
(***************************************************************************)
EXTENDS Integers, Sequences, SequencesExt

\* Pieces of text.
Open == <<"<th", "ink>">>
Close == <<"</th", "ink>">>
Blank == " "

\* Lines that carry no delta: one that says nothing (a comment, a blank line,
\* data without content), data that is no JSON, bytes that are no UTF-8, and the
\* end of the stream.
Plain == {"empty", "broken", "garbled", "done"}

LineEnd == <<"end", 0>>
Half(line) == << <<line, 1>>, <<line, 2>> >>

\* The lines of a body, the last one ended or not.
Wire(lines, ended) ==
    LET bytes == FlattenSeq([i \in DOMAIN lines |-> Append(Half(lines[i]), LineEnd)])
    IN  IF ended \/ lines = <<>> THEN bytes ELSE Front(bytes)

-----------------------------------------------------------------------------
(* The stream is read. *)

\* overlay: the setting overlay_stream, whether the overlay is sent the deltas.
Reader(overlay) ==
    [buffer |-> <<>>, assembled |-> <<>>, sent |-> <<>>, overlay |-> overlay,
     status |-> "reading"]

\* process_sse_line
Processed(r, line) ==
    CASE r.status # "reading"            -> r
      [] line = "done"                   -> [r EXCEPT !.status = "done"]
      [] line = "broken"                 -> [r EXCEPT !.status = "failed"]
      [] line = "empty"                  -> r
      [] OTHER -> [r EXCEPT !.assembled = Append(@, line),
                            !.sent = IF r.overlay THEN Append(@, line) ELSE @]

\* Where lines of the buffer end, in order.
Ends(buffer) ==
    SelectSeq([i \in DOMAIN buffer |-> i], LAMBDA i : buffer[i] = LineEnd)

\* The line that ends at i: what is left of one that was torn is no JSON.
LineAt(buffer, i) ==
    IF i > 2 /\ SubSeq(buffer, i - 2, i - 1) = Half(buffer[i - 1][1])
    THEN buffer[i - 1][1] ELSE "broken"

Garbled(buffer) ==
    \E i \in Range(Ends(buffer)) : LineAt(buffer, i) = "garbled"

\* drain_sse_lines decodes every line that has its end before the first of
\* them is processed: one that is no UTF-8 loses the others with it.
LinesProcessed(r) ==
    IF Garbled(r.buffer) THEN [r EXCEPT !.status = "failed"]
    ELSE FoldLeft(LAMBDA q, i : Processed(q, LineAt(r.buffer, i)), r, Ends(r.buffer))

\* Mutant: what follows the last line end is thrown away.
Drained_NoRest(r) ==
    IF Ends(r.buffer) = <<>> THEN r ELSE [LinesProcessed(r) EXCEPT !.buffer = <<>>]

\* drain_sse_lines and the loop over its lines: a line is taken from the
\* buffer when its end is there.
Drained(r) ==
    IF Ends(r.buffer) = <<>> THEN r
    ELSE [LinesProcessed(r) EXCEPT
              !.buffer = SubSeq(@, Last(Ends(r.buffer)) + 1, Len(@))]

\* The stream is over: the line in the buffer needs no end.
Flushed(r) ==
    IF r.buffer = <<>> \/ r.status # "reading" THEN r
    ELSE LinesProcessed([r EXCEPT !.buffer = Append(@, LineEnd)])

\* The chunks are handled as they come; nothing more is read after [DONE] or a
\* failure.
Fed(chunks, overlay) ==
    FoldLeft(LAMBDA r, chunk : IF r.status # "reading" THEN r
                               ELSE Drained([r EXCEPT !.buffer = @ \o chunk]),
             Reader(overlay), chunks)

\* fetch_llm_streamed_answer, of a response in chunks: the whole body, which is
\* complete even without [DONE], or up to where reading it fails.
Fetched(chunks, whole, overlay) ==
    LET r == Fed(chunks, overlay) IN
    IF whole THEN Flushed(r)
    ELSE IF r.status = "reading" THEN [r EXCEPT !.status = "failed"] ELSE r

-----------------------------------------------------------------------------
(* The answer. *)

\* Where tag stands in text, the first time from place `from` on; 0 if it
\* does not.
Find(text, tag, from) ==
    LET at == {i \in from .. Len(text) - 1 : SubSeq(text, i, i + 1) = tag}
    IN  IF at = {} THEN 0 ELSE CHOOSE i \in at : \A j \in at : i <= j

Without(text, first, last) ==
    SubSeq(text, 1, first - 1) \o SubSeq(text, last + 1, Len(text))

Trimmed(text) ==
    LET inked == {i \in DOMAIN text : text[i] # Blank}
    IN  IF inked = {} THEN <<>>
        ELSE SubSeq(text, CHOOSE i \in inked : \A j \in inked : i <= j,
                          CHOOSE i \in inked : \A j \in inked : j <= i)

\* Mutant: a closed block takes with it what follows.
Unthought_Truncates(text) ==
    LET open == Find(text, Open, 1)
    IN  IF open = 0 THEN text ELSE SubSeq(text, 1, open - 1)

\* Every block of thoughts is taken out, the one that is not closed with all
\* that follows; taking one out may bring the next together.
Unthought(text) ==
    LET cut[n \in 0 .. Len(text), t \in Seq(Range(text))] ==
            LET open  == Find(t, Open, 1)
                close == IF open = 0 THEN 0 ELSE Find(t, Close, open)
            IN  CASE open = 0               -> t
                  [] open # 0 /\ close = 0  -> SubSeq(t, 1, open - 1)
                  [] OTHER -> cut[n - 1, Without(t, open, close + 1)]
    IN  cut[Len(text), text]

\* sanitize_model_answer
Sanitized(text) == Trimmed(Unthought(text))

\* handle_progress: what is injected in the end.  The words spoken stand in
\* for an answer that failed or says nothing.
Injected(spoken, r) ==
    IF r.status = "failed" \/ Sanitized(r.assembled) = <<>> THEN spoken
    ELSE Sanitized(r.assembled)

-----------------------------------------------------------------------------
(* What is expected of it. *)

\* The lines up to the first that ends the reading.
Stops(lines) == {i \in DOMAIN lines : lines[i] \in {"done", "broken"}}

Heard(lines) ==
    IF Stops(lines) = {} THEN lines
    ELSE SubSeq(lines, 1, (CHOOSE i \in Stops(lines) : \A j \in Stops(lines) : i <= j) - 1)

Deltas(lines) == SelectSeq(Heard(lines), LAMBDA l : l \notin Plain)

\* How many lines have their end in the first c chunks; after the last chunk the
\* rest of a whole body is a line, too.
Ended(lines, chunks, c) ==
    IF c > Len(chunks) THEN Len(lines)
    ELSE Len(FlattenSeq(SubSeq(chunks, 1, c))) \div Len(Append(Half("done"), LineEnd))

\* How many lines can be read: those of all chunks before the one that ends
\* the first garbled line.
Readable(lines, chunks, whole) ==
    LET counts == {Ended(lines, chunks, c) :
                       c \in 0 .. Len(chunks) + (IF whole THEN 1 ELSE 0)}
    IN  Max({n \in counts : \A i \in 1 .. n : lines[i] # "garbled"})

\* The answer is the deltas in order, up to the end of the stream or the first
\* line that is broken, and the overlay was sent the same if it is to be.  It
\* depends on where the chunks were cut only by a garbled line, which takes the
\* rest of its chunk with it.  What is pasted is a whole answer or the words
\* spoken, never a part of an answer.
ReadWhole(lines, chunks, whole, overlay) ==
    LET r      == Fetched(chunks, whole, overlay)
        n      == Readable(lines, chunks, whole)
        deltas == Deltas(SubSeq(lines, 1, n))
        last   == Len(Heard(SubSeq(lines, 1, n))) + 1
    IN  /\ r.assembled = deltas
        /\ r.sent = IF overlay THEN deltas ELSE <<>>
        /\ (r.status = "failed") <=>
               IF last <= n THEN lines[last] = "broken"
               ELSE ~whole \/ "garbled" \in Range(lines)
        /\ Injected(<<"spoken">>, r) \in {<<"spoken">>, Sanitized(Deltas(lines))}

\* A text read once, piece by piece: what was kept of it, whether a block of
\* thoughts is open, and the piece before.  A tag that opens may have its
\* halves on the two sides of a block.
Outside(text) ==
    LET read(r, piece) ==
            CASE r.thinking ->
                     [r EXCEPT !.thinking = <<r.before, piece>> # Close,
                               !.before = piece]
              [] ~r.thinking /\ r.kept # <<>> /\ <<Last(r.kept), piece>> = Open ->
                     [kept |-> Front(r.kept), thinking |-> TRUE, before |-> piece]
              [] OTHER -> [r EXCEPT !.kept = Append(@, piece)]
    IN  FoldLeft(read, [kept |-> <<>>, thinking |-> FALSE, before |-> Blank], text).kept

\* The answer is all that stands outside the blocks of thoughts, before,
\* between and after them, in order, less the blanks at its ends; nothing of a
\* block, closed or not, and no opening tag is left.
NoThoughts(text) ==
    LET clean == Sanitized(text) IN
    /\ clean = Trimmed(Outside(text))
    /\ Find(clean, Open, 1) = 0

=============================================================================
