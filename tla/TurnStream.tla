----------------------------- MODULE TurnStream -----------------------------
(***************************************************************************)
(* The event stream of a buffered turn, from the server's frames to the    *)
(* client's parser.  What travels is cut into tokens, finer than any place *)
(* where a chunk's end matters: an event line, the two halves of a data    *)
(* line, and the two line breaks that end a frame.                         *)
(***************************************************************************)
EXTENDS Naturals, Sequences, SequencesExt

(* A reply's text is two pieces, so that a fragment can be one of them. *)
Reply(n) == <<<<n, 1>>, <<n, 2>>>>

Frame(event, text) == [event |-> event, text |-> text]
Break == [part |-> "break", frame |-> Frame("", <<>>)]

\* event: ...\ndata: ...\n\n
Serialized(frame) ==
    <<[part |-> "event", frame |-> frame], [part |-> "open", frame |-> frame],
      [part |-> "close", frame |-> frame], Break, Break>>

StageFrame == Serialized(Frame("stage", <<>>))
ErrorFrame == Serialized(Frame("error", <<>>))

\* the validated text as one frame, or as fragments (SSE_TEXT_CHUNK_CHARS)
TextFrames(text, fragmented) ==
    LET fragment(i) == Serialized(Frame("text", <<text[i]>>)) IN
    IF fragmented THEN fragment(1) \o fragment(2) ELSE Serialized(Frame("text", text))

\* a controlled failure is one frame that carries its text
TurnFrames(text, outcome, fragmented) ==
    IF outcome = "controlled_failure" THEN Serialized(Frame("failure", text))
    ELSE TextFrames(text, fragmented) \o Serialized(Frame("final", <<>>))

-----------------------------------------------------------------------------
(* The client's parser *)

Fresh == [buffer |-> <<>>, text |-> <<>>, terminal |-> FALSE, failed |-> FALSE]

Failed(reader) == [reader EXCEPT !.failed = TRUE]

ApplyEvent(reader, event, text) ==
    CASE event = "error" -> Failed(reader)
      [] event = "text" -> [reader EXCEPT !.text = @ \o text]
      [] event = "failure" -> [reader EXCEPT !.text = text, !.terminal = TRUE]
      [] event = "final" -> [reader EXCEPT !.terminal = TRUE]
      [] OTHER -> reader

\* no data is no event; half a data line is malformed
ParseFrame(reader, frame) ==
    LET has(part) == \E i \in DOMAIN frame : frame[i].part = part IN
    IF ~has("open") THEN reader
    ELSE IF ~has("close") THEN Failed(reader)
    ELSE ApplyEvent(reader, frame[1].frame.event, frame[2].frame.text)

\* frames end at two line breaks, wherever chunks end
Push(reader, token) ==
    LET buffer == Append(reader.buffer, token) IN
    IF reader.failed THEN reader
    ELSE IF IsSuffix(<<Break, Break>>, buffer)
         THEN [ParseFrame(reader, buffer) EXCEPT !.buffer = <<>>]
         ELSE [reader EXCEPT !.buffer = buffer]

Read(reader, chunk) ==
    LET read[i \in 0..Len(chunk)] ==
            IF i = 0 THEN reader ELSE Push(read[i - 1], chunk[i])
    IN read[Len(chunk)]

\* Variant: whatever arrived is the answer
FinishAnyway(reader) == reader

\* the stream is over: a frame may be left without its line breaks, and an
\* answer without a terminal frame is none
Finish(reader) ==
    LET last == ParseFrame(reader, reader.buffer) IN
    IF last.terminal THEN last ELSE Failed(last)
=============================================================================
