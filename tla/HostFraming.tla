----------------------------- MODULE HostFraming -----------------------------
(***************************************************************************)
(* Length-prefixed frames on a TCP stream.  The stream arrives in chunks    *)
(* that know nothing of frames; a persistent session drains it frame by     *)
(* frame, the one-shot adapter takes the first frame for its answer.  Bytes *)
(* are numbers 0..255; the length is written in ASCII or BCD digits.        *)
(***************************************************************************)
EXTENDS Integers, SequencesExt

CONSTANTS
  FrameOptions,  \* [header, lengthBytes, encoding, countsHeader, countsLength, maxFrameBytes]
  Payloads,
  MaxFrames      \* bound: frames sent in a behaviour

Bytes == 0..255

\* normalizeOptions refuses the others.
ASSUME FrameAssumption ==
  /\ \A f \in FrameOptions :
       /\ f.header \in Seq(Bytes) /\ f.encoding \in {"ascii", "bcd"}
       /\ f.countsHeader \in BOOLEAN /\ f.countsLength \in BOOLEAN
       /\ f.lengthBytes \in 1..(IF f.encoding = "ascii" THEN 9 ELSE 6)
       /\ f.maxFrameBytes \in Nat /\ f.maxFrameBytes > Len(f.header) + f.lengthBytes
  /\ \A p \in Payloads : p \in Seq(Bytes)

VARIABLES
  options,    \* the channel's frame options
  frames,     \* history: the payloads sent
  stream,     \* bytes on their way
  buffer,     \* what the session has and has not drained
  delivered,  \* payloads routed
  junk,       \* history: the host has sent bytes that are no frame
  broken,     \* the session has dropped the connection
  taken,      \* everything the one-shot adapter has received
  answer      \* its answer: [status, payload]

frameVars == <<options, frames, stream, buffer, delivered, junk, broken, taken, answer>>

Zero == 48  \* "0"
Nonsense == 255

IncludedOverhead(f) ==
  (IF f.countsHeader THEN Len(f.header) ELSE 0) + (IF f.countsLength THEN f.lengthBytes ELSE 0)

\* A byte of the length has one decimal digit or two; padStart and the digits
\* in pairs are the figures of the value to this base.
Base(encoding) == IF encoding = "ascii" THEN 10 ELSE 100
ByteOf(figure, encoding) ==
  IF encoding = "ascii" THEN Zero + figure ELSE (figure \div 10) * 16 + (figure % 10)
FigureOf(byte, encoding) ==
  IF encoding = "ascii" THEN byte - Zero ELSE (byte \div 16) * 10 + (byte % 16)
IsFigure(byte, encoding) ==
  IF encoding = "ascii" THEN byte \in Zero..(Zero + 9) ELSE byte \div 16 <= 9 /\ byte % 16 <= 9

\* What is left of a value above its last k figures.
Quotients(value, f) ==
  LET left[k \in 0..f.lengthBytes] ==
        IF k = 0 THEN value ELSE left[k - 1] \div Base(f.encoding)
  IN left

EncodeLength(value, f) ==
  [k \in 1..f.lengthBytes |->
     ByteOf(Quotients(value, f)[f.lengthBytes - k] % Base(f.encoding), f.encoding)]

\* encodeFrame throws: too large, or too long for its digits.
Encodable(p, f) ==
  /\ Len(f.header) + f.lengthBytes + Len(p) <= f.maxFrameBytes
  /\ Quotients(Len(p) + IncludedOverhead(f), f)[f.lengthBytes] = 0

EncodeFrame(p, f) == f.header \o EncodeLength(Len(p) + IncludedOverhead(f), f) \o p

\* A number, or -1.
DecodeLength(bytes, encoding) ==
  LET value[k \in 0..Len(bytes)] ==
        IF k = 0 THEN 0 ELSE value[k - 1] * Base(encoding) + FigureOf(bytes[k], encoding)
  IN IF \A k \in 1..Len(bytes) : IsFigure(bytes[k], encoding) THEN value[Len(bytes)] ELSE -1

Decoded(status, payload, consumed) == [status |-> status, payload |-> payload, consumed |-> consumed]

DecodeFrame(bytes, f) ==
  LET prefix == Len(f.header) + f.lengthBytes
      declared == DecodeLength(SubSeq(bytes, Len(f.header) + 1, prefix), f.encoding)
      size == declared - IncludedOverhead(f)
      total == prefix + size
  IN CASE Len(bytes) < prefix -> Decoded("incomplete", <<>>, 0)
       [] Len(bytes) >= prefix /\ (~IsPrefix(f.header, bytes) \/ declared < 0) -> Decoded("invalid", <<>>, 0)
       [] OTHER -> CASE size < 0 \/ total > f.maxFrameBytes -> Decoded("invalid", <<>>, 0)
                     [] size >= 0 /\ total \in (Len(bytes) + 1)..f.maxFrameBytes -> Decoded("incomplete", <<>>, 0)
                     [] OTHER -> Decoded("complete", SubSeq(bytes, prefix + 1, total), total)

\* One turn of drainFrames' loop; d is [bytes, out, broken].
DrainFrame(d, f) ==
  LET decoded == DecodeFrame(d.bytes, f)
  IN CASE d.broken \/ d.bytes = <<>> \/ decoded.status = "incomplete" -> d
       [] ~d.broken /\ decoded.status = "invalid" -> [d EXCEPT !.broken = TRUE, !.bytes = <<>>]
       [] OTHER -> [d EXCEPT !.bytes = SubSeq(@, decoded.consumed + 1, Len(@)),
                             !.out = Append(@, decoded.payload)]

\* Mutant: one frame is routed for each chunk that arrives.
DrainFramesOnce(bytes, f) == DrainFrame([bytes |-> bytes, out |-> <<>>, broken |-> FALSE], f)

\* Every turn that goes on consumes bytes.
DrainFrames(bytes, f) ==
  LET after[n \in 0..Len(bytes)] ==
        IF n = 0 THEN [bytes |-> bytes, out |-> <<>>, broken |-> FALSE] ELSE DrainFrame(after[n - 1], f)
  IN after[Len(bytes)]

\* resolveDecoded: bytes after the frame are an error.
ResolveDecoded(bytes, f) ==
  LET decoded == DecodeFrame(bytes, f)
  IN CASE decoded.status = "incomplete" -> [status |-> "none", payload |-> <<>>]
       [] decoded.status = "complete" /\ decoded.consumed = Len(bytes) ->
            [status |-> "response", payload |-> decoded.payload]
       [] OTHER -> [status |-> "failed", payload |-> <<>>]

-----------------------------------------------------------------------------
FrameInit ==
  /\ options \in FrameOptions
  /\ frames = <<>> /\ stream = <<>> /\ buffer = <<>> /\ delivered = <<>> /\ junk = FALSE /\ broken = FALSE
  /\ taken = <<>> /\ answer = [status |-> "none", payload |-> <<>>]

SendFrame(p) ==
  /\ Len(frames) < MaxFrames /\ ~junk /\ Encodable(p, options)
  /\ frames' = Append(frames, p) /\ stream' = stream \o EncodeFrame(p, options)
  /\ UNCHANGED <<options, buffer, delivered, junk, broken, taken, answer>>

SendJunk ==
  /\ ~junk /\ junk' = TRUE
  /\ stream' = stream \o [k \in 1..(Len(options.header) + options.lengthBytes) |-> Nonsense]
  /\ UNCHANGED <<options, frames, buffer, delivered, broken, taken, answer>>

\* handleEvent of both: the next n bytes.  The first answer of the one-shot adapter counts.
Arrive(n) ==
  /\ ~broken
  /\ LET chunk == SubSeq(stream, 1, n)
         d == DrainFrames(buffer \o chunk, options)
     IN /\ buffer' = d.bytes /\ delivered' = delivered \o d.out /\ broken' = d.broken
        /\ taken' = taken \o chunk
        /\ answer' = IF answer.status # "none" THEN answer ELSE ResolveDecoded(taken \o chunk, options)
  /\ stream' = SubSeq(stream, n + 1, Len(stream))
  /\ UNCHANGED <<options, frames, junk>>

FrameNext ==
  \/ \E p \in Payloads : SendFrame(p)
  \/ SendJunk
  \/ \E n \in 1..Len(stream) : Arrive(n)

-----------------------------------------------------------------------------
(* Properties *)

\* drainFrames, decodeFrame: however the stream is cut, the session routes the
\* payloads that were sent, in order, each whole.
FramesInOrder == IsPrefix(delivered, frames)

\* drainFrames: when everything has arrived every frame has been routed, and the
\* connection is dropped exactly if the host sent something else.
EveryFrameIsRouted == (stream = <<>> /\ ~broken) => (delivered = frames /\ buffer = <<>> /\ ~junk)

\* resolveDecoded: a one-shot exchange answers with the whole first frame or fails.
AnswerIsFirstFrame == answer.status = "response" => (frames # <<>> /\ answer.payload = Head(frames))

\* framing.ts, drainFrames: frames come out as they went in.
FramesAreRouted == FramesInOrder /\ EveryFrameIsRouted /\ AnswerIsFirstFrame
=============================================================================
