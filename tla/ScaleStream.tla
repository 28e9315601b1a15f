------------------------------ MODULE ScaleStream ------------------------------
(***************************************************************************)
(* SerialStreamDecoder: from the chunks that the serial port delivers to   *)
(* readings. Text is a sequence of characters, the tokens of ScaleParser;  *)
(* a reading keeps the text of its frame too.                              *)
(*                                                                         *)
(* push_chunk is a loop over the frames of the buffer; an iteration is an  *)
(* action, and the next chunk is read when the loop is over.               *)
(***************************************************************************)
EXTENDS ScaleParser

CONSTANTS
  Chars,       \* the characters the scale sends
  MaxPending,  \* bytes the pending buffer keeps (1024 in the code)
  MaxChunk,    \* bytes of one read (256 in the code)
  MaxSent      \* bound: characters sent in one connection

\* "?" is what from_utf8_lossy makes of a byte that is no text: three bytes.
Alphabet == (Tokens \ {"ST", "US"}) \cup {"?", "CR", "LF"}
Delims == {"CR", "LF"}

ASSUME StreamAssumption ==
  /\ Chars \subseteq Alphabet
  /\ MaxChunk \in Nat \ {0}
  /\ MaxPending \in Nat
  /\ MaxChunk < MaxPending
  /\ MaxSent \in Nat

VARIABLES
  pending,            \* received text that is not yet part of a frame
  last_unit,          \* unit of base_reading
  seen_parsed_value,
  alive,              \* FALSE once the reader's thread has panicked
  sent,               \* all text received on this connection (history)
  out                 \* the readings emitted (history)

vars == <<pending, last_unit, seen_parsed_value, alive, sent, out>>

Units == {default_unit, Unit}

Bytes(text) == Len(text) + 2 * Cardinality({i \in DOMAIN text : text[i] = "?"})
Chunks == UNION {[1..n -> Chars] : n \in 1..MaxChunk}

Init ==
  /\ pending = <<>>
  /\ last_unit = default_unit
  /\ seen_parsed_value = FALSE
  /\ alive = TRUE
  /\ sent = <<>>
  /\ out = <<>>

-------------------------------------------------------------------------------
(* Frames.                                                                 *)

\* The last MaxPending bytes of the two together; nothing is defined when the
\* cut falls inside a character, where slicing panics.
append_raw(existing, chunk) ==
  LET combined == existing \o chunk
      tail(i) == SubSeq(combined, i, Len(combined))
  IN  IF Bytes(combined) <= MaxPending THEN combined
      ELSE tail(CHOOSE i \in DOMAIN combined : Bytes(tail(i)) = MaxPending)

SlicePanics(existing, chunk) ==
  LET combined == existing \o chunk
  IN  /\ Bytes(combined) > MaxPending
      /\ \A i \in DOMAIN combined : Bytes(SubSeq(combined, i, Len(combined))) # MaxPending

HasFrame(text) == \E i \in DOMAIN text : text[i] \in Delims

\* Mutant: the character after the delimiters is skipped too.
pop_serial_frame_SkipsOne(buffer) ==
  LET index == CHOOSE i \in DOMAIN buffer :
                 buffer[i] \in Delims /\ \A j \in 1..(i - 1) : buffer[j] \notin Delims
  IN  [frame |-> SubSeq(buffer, 1, index - 1), rest |-> SubSeq(buffer, index + 2, Len(buffer))]

\* The text before the first delimiter, and the text after the run of
\* delimiters that starts there.
pop_serial_frame(buffer) ==
  LET index == CHOOSE i \in DOMAIN buffer :
                 buffer[i] \in Delims /\ \A j \in 1..(i - 1) : buffer[j] \notin Delims
      rest_index == CHOOSE k \in (index + 1)..(Len(buffer) + 1) :
                      /\ \A j \in index..(k - 1) : buffer[j] \in Delims
                      /\ k <= Len(buffer) => buffer[k] \notin Delims
  IN  [frame |-> SubSeq(buffer, 1, index - 1),
       rest  |-> SubSeq(buffer, rest_index, Len(buffer))]

trim(text) ==
  LET solid == {i \in DOMAIN text : text[i] # "SP"}
      first == CHOOSE i \in solid : \A j \in solid : i <= j
      final == CHOOSE i \in solid : \A j \in solid : j <= i
  IN  IF solid = {} THEN <<>> ELSE SubSeq(text, first, final)

-------------------------------------------------------------------------------
(* Readings.                                                               *)

Emit(kind, text, weight, unit) ==
  out' = Append(out, [kind |-> kind, text |-> text, weight |-> weight, unit |-> unit])

\* Mutant: empty frames are not ignored before the first value.
frame_to_reading_NoSkip(text) ==
  \/ /\ text = <<>>
     /\ Emit("zero", text, 0, last_unit)
     /\ UNCHANGED <<last_unit, seen_parsed_value>>
  \/ /\ text # <<>> /\ ~Parses(text)
     /\ Emit("raw", text, 0, last_unit)
     /\ UNCHANGED <<last_unit, seen_parsed_value>>
  \/ /\ text # <<>> /\ Parses(text)
     /\ last_unit' = parse_weight(text).unit
     /\ seen_parsed_value' = TRUE
     /\ Emit("weight", text, parse_weight(text).weight, last_unit')

frame_to_reading(text) ==
  \/ /\ text = <<>> /\ ~seen_parsed_value
     /\ UNCHANGED <<last_unit, seen_parsed_value, out>>
  \/ /\ text = <<>> /\ seen_parsed_value
     /\ Emit("zero", text, 0, last_unit)
     /\ UNCHANGED <<last_unit, seen_parsed_value>>
  \/ /\ text # <<>> /\ ~Parses(text)
     /\ Emit("raw", text, 0, last_unit)
     /\ UNCHANGED <<last_unit, seen_parsed_value>>
  \/ /\ text # <<>> /\ Parses(text)
     /\ last_unit' = parse_weight(text).unit
     /\ seen_parsed_value' = TRUE
     /\ Emit("weight", text, parse_weight(text).weight, last_unit')

\* push_chunk up to its loop.
push_chunk(chunk) ==
  /\ alive /\ ~HasFrame(pending)
  /\ Len(sent) + Len(chunk) <= MaxSent
  /\ sent' = sent \o chunk
  /\ IF SlicePanics(pending, chunk)
     THEN alive' = FALSE /\ UNCHANGED pending
     ELSE pending' = append_raw(pending, chunk) /\ UNCHANGED alive
  /\ UNCHANGED <<last_unit, seen_parsed_value, out>>

\* One iteration of push_chunk's loop.
next_frame ==
  /\ alive /\ HasFrame(pending)
  /\ LET popped == pop_serial_frame(pending)
     IN  pending' = popped.rest /\ frame_to_reading(trim(popped.frame))
  /\ UNCHANGED <<alive, sent>>

Next == next_frame \/ \E chunk \in Chunks : push_chunk(chunk)

Spec == Init /\ [][Next]_vars

-------------------------------------------------------------------------------
(* Properties.                                                             *)

\* The frames of a text, whatever chunks it came in: the stretches without a
\* delimiter that a delimiter ends, blank ones left out. Each is given by the
\* place where it starts.
FrameEnd(text, i) ==
  CHOOSE k \in i..Len(text) :
    text[k] \in Delims /\ \A j \in i..(k - 1) : text[j] \notin Delims
FrameAt(text, i) == SubSeq(text, i, FrameEnd(text, i) - 1)
FrameStarts(text) ==
  {i \in DOMAIN text :
     /\ i = 1 \/ text[i - 1] \in Delims
     /\ \E k \in i..Len(text) : text[k] \in Delims
     /\ trim(FrameAt(text, i)) # <<>>}

\* The readings that stand for a frame with something in it.
Framed == {k \in DOMAIN out : out[k].kind # "zero"}

\* What the buffer keeps of a frame at least, beside one more chunk.
Kept(frame) == SubSeq(frame, Len(frame) - (MaxPending - MaxChunk) + 1, Len(frame))
Safe(frame) == IF Len(frame) + MaxChunk <= MaxPending THEN trim(frame) ELSE trim(Kept(frame))

\* However a text without noise is cut into chunks, each non-blank frame of it
\* gives one reading, in order, with the frame's own text; only a frame for which
\* the buffer has no room beside one more chunk may lose its head, and never more
\* than that (append_raw, pop_serial_frame). A frame of which only blanks may be
\* left is not counted on.
FramesSurvive ==
  /\ ~HasFrame(pending)
  /\ \A i \in DOMAIN sent : sent[i] # "?"
  /\ \A i \in FrameStarts(sent) : Safe(FrameAt(sent, i)) # <<>>
  => \E reading \in [FrameStarts(sent) -> Framed] :
       /\ \A i, j \in FrameStarts(sent) : i < j => reading[i] < reading[j]
       /\ \A k \in Framed : \E i \in FrameStarts(sent) : reading[i] = k
       /\ \A i \in FrameStarts(sent) :
            LET frame == FrameAt(sent, i)
                got == out[reading[i]].text
            IN  IsSuffix(got, trim(frame)) /\ IsSuffix(Safe(frame), got)

\* A zero weight is made up for an empty frame only when a weight was seen on
\* the same connection before.
ZeroNeedsValue ==
  \A k \in DOMAIN out :
    out[k].kind = "zero" => \E j \in 1..(k - 1) : out[j].kind = "weight"

\* No number is lost to the match of another one, whatever signs and units stand
\* between them, and none outside of the range is taken: of all Frames, and of
\* the frames decoded, those with a number in range give a weight (parser.rs
\* parse_weight).
NoNumberIsLost ==
  /\ NumbersKept
  /\ \A k \in DOMAIN out :
       out[k].kind # "zero" => (out[k].kind = "weight" <=> InRangeOf(out[k].text) # {})

\* Without a sign in the frame, the only number that has a unit is the weight, and
\* its unit that of the reading: counts, identifiers and prices beside it never
\* replace it (parser.rs score_candidate, stream.rs frame_to_reading).
UnitDecides ==
  /\ UnitsDecide
  /\ \A k \in DOMAIN out : UnitIsClear(out[k].text) => out[k].unit = Unit

\* A frame with one number gives a negative weight exactly when a minus stands
\* next to it, on either side, or an N before it; a plus on the other side does
\* not undo it (parser.rs resolve_sign).
MinusIsSeen ==
  /\ MinusesSeen
  /\ \A k \in DOMAIN out :
       OneNumber(out[k].text) => (out[k].weight < 0 <=> Negative(out[k].text))

\* "Consecutive `\r` and `\n` bytes are consumed together" (scale_contract.md):
\* a text without blanks has no empty frame behind its first value, so that no
\* zero weight is made up for it.
DelimitersConsumedTogether ==
  \A k \in DOMAIN out : out[k].kind = "zero" => \E i \in DOMAIN sent : sent[i] = "SP"

\* "Pending serial buffer keeps only the last `1024` bytes" (scale_contract.md):
\* whatever the scale sends, the buffer is cut and the decoder goes on.
StreamStaysAlive == alive
===============================================================================
