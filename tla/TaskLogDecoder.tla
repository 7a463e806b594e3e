---------------------------- MODULE TaskLogDecoder ----------------------------
(***************************************************************************)
(* The two decoders of task logs: decodeDockerLogOutput, of a log read at  *)
(* once, and createDockerLogLineDecoder, of one that is followed.  The     *)
(* first is pure and what the second must agree with, however the bytes    *)
(* are cut into chunks on their way.                                       *)
(*                                                                         *)
(* A byte is a number.  The one character of two bytes of these logs, the  *)
(* last letter of cafe, stands for every character of several bytes.       *)
(***************************************************************************)
EXTENDS Naturals, Sequences, SequencesExt

CONSTANTS Logs  \* what Docker sends of one task: sequences of bytes
ASSUME LogsAssumption == Logs \subseteq Seq(0..255)

VARIABLES output,   \* what Docker sends
          offset,   \* how much of it has arrived
          decoder,  \* state of the decoder, and the lines it gave
          headerCut \* history: a chunk ended within the four bytes that a
                    \* header is known by

decoderVars == <<output, offset, decoder, headerCut>>

LineFeed == 10
Return == 13
Lead == 195
Accent == 169
Letter == 233
Unknown == 65533

------------------------------------------------------------------------------
(* Text. *)

\* StringDecoder: a character whose bytes are not all there waits in `lead`.
Utf8(state, byte) ==
    IF state.lead
    THEN IF byte = Accent
         THEN [lead |-> FALSE, text |-> Append(state.text, Letter)]
         ELSE [lead |-> byte = Lead,
               text |-> state.text \o
                  (IF byte = Lead THEN <<Unknown>> ELSE <<Unknown, byte>>)]
    ELSE IF byte = Lead THEN [state EXCEPT !.lead = TRUE]
    ELSE [state EXCEPT !.text =
            Append(@, IF byte = Accent THEN Unknown ELSE byte)]
\* utf8.end(), toString: the bytes that wait are no character.
Utf8End(state) == state.text \o (IF state.lead THEN <<Unknown>> ELSE <<>>)
\* The bytes after one another, when a lead byte may be waiting.
Utf8Written(lead, bytes) ==
    LET after[n \in 0..Len(bytes)] ==
          IF n = 0 THEN [lead |-> lead, text |-> <<>>]
          ELSE Utf8(after[n - 1], bytes[n])
    IN  after[Len(bytes)]
TextOf(bytes) == Utf8End(Utf8Written(FALSE, bytes))

\* split(/\r?\n/): lines, the last one without its end.
NextCharacter(lines, c) ==
    LET line == Last(lines) IN
    Front(lines) \o
       IF c # LineFeed THEN <<Append(line, c)>>
       ELSE << IF line # <<>> /\ Last(line) = Return
               THEN Front(line) ELSE line, <<>> >>
Split(text) ==
    LET lines[n \in 0..Len(text)] ==
          IF n = 0 THEN << <<>> >> ELSE NextCharacter(lines[n - 1], text[n])
    IN  lines[Len(text)]

ToLogLines(text) ==
    LET lines == Split(text)
    IN  IF Last(lines) = <<>> THEN Front(lines) ELSE lines

HasHeader(bytes) ==
    Len(bytes) >= 4 /\ bytes[1] \in {1, 2} /\ SubSeq(bytes, 2, 4) = <<0, 0, 0>>

\* readUInt32BE(4)
PayloadEnd(bytes) ==
    8 + 16777216 * bytes[5] + 65536 * bytes[6] + 256 * bytes[7] + bytes[8]

\* A whole frame stands at the beginning.
HasFrame(bytes) ==
    HasHeader(bytes) /\ Len(bytes) >= 8 /\ Len(bytes) >= PayloadEnd(bytes)

Rest(bytes) == SubSeq(bytes, PayloadEnd(bytes) + 1, Len(bytes))
Payload(bytes) == SubSeq(bytes, 9, PayloadEnd(bytes))

\* The loop over the frames: the payloads of the first ones, and what is left.
Unwrap(s) ==
    IF HasFrame(s.rest)
    THEN [rest |-> Rest(s.rest), payload |-> s.payload \o Payload(s.rest)]
    ELSE s
Unwrapped(bytes) ==
    LET after[n \in 0..Len(bytes)] ==
          IF n = 0 THEN [rest |-> bytes, payload |-> <<>>] ELSE Unwrap(after[n - 1])
    IN  after

\* What Docker sends of a task without a terminal, frames from end to end, and
\* of a task with one, text that holds no header.
Framed(bytes) == Unwrapped(bytes)[Len(bytes)].rest = <<>>
Plain(bytes) == \A i \in 1..Len(bytes) : ~HasHeader(SubSeq(bytes, i, Len(bytes)))
ASSUME DockerAssumption == \A log \in Logs : Framed(log) \/ Plain(log)

\* decodeDockerLogOutput: an output that is not frames from end to end is text.
DecodeDockerLogOutput(bytes) ==
    LET payload == Unwrapped(bytes)[Len(bytes)].payload
    IN  ToLogLines(TextOf(IF Framed(bytes) THEN payload ELSE bytes))

------------------------------------------------------------------------------
(* createDockerLogLineDecoder. *)

NewDecoder == [buffered |-> <<>>, pending |-> <<>>, lead |-> FALSE,
               lines |-> <<>>, ended |-> FALSE]

\* if (line): the lines that are not empty.
NonEmpty(lines) ==
    LET kept[n \in 0..Len(lines)] ==
          IF n = 0 THEN <<>>
          ELSE IF lines[n] = <<>> THEN kept[n - 1] ELSE Append(kept[n - 1], lines[n])
    IN  kept[Len(lines)]

\* emitText
EmitText(d, text) ==
    LET lines == Split(d.pending \o text) IN
    [d EXCEPT !.pending = Last(lines),
              !.lines = @ \o NonEmpty(Front(lines))]

\* Defect: each piece is decoded on its own.
WriteAlone(d, bytes) == EmitText(d, TextOf(bytes))
\* emitText(utf8.write(bytes))
Write(d, bytes) ==
    LET s == Utf8Written(d.lead, bytes)
    IN  EmitText([d EXCEPT !.lead = s.lead], s.text)

\* One turn of the loop of push, which stops when a frame is not all there.
\* A turn takes a byte at least, so that the length bounds their number.
Drain(d) ==
    IF d.buffered = <<>> THEN d
    ELSE IF ~HasHeader(d.buffered)
         THEN [Write(d, d.buffered) EXCEPT !.buffered = <<>>]
    ELSE IF ~HasFrame(d.buffered) THEN d
    ELSE [Write(d, Payload(d.buffered)) EXCEPT !.buffered = Rest(d.buffered)]
Drained(d) ==
    LET after[n \in 0..Len(d.buffered)] == IF n = 0 THEN d ELSE Drain(after[n - 1])
    IN  after[Len(d.buffered)]

Pushed(d, chunk) == Drained([d EXCEPT !.buffered = @ \o chunk])

Ended(d) ==
    LET written == Write(d, d.buffered)
        text == EmitText(written, IF written.lead THEN <<Unknown>> ELSE <<>>)
    IN  [NewDecoder EXCEPT
           !.ended = TRUE,
           !.lines = text.lines \o (IF text.pending = <<>> THEN <<>>
                                    ELSE <<text.pending>>)]

------------------------------------------------------------------------------
\* Where the frames of some bytes begin.
Starts(bytes) ==
    {Len(bytes) - Len(s.rest) :
        s \in {s \in Range(Unwrapped(bytes)) : HasFrame(s.rest)}}

DecoderInit ==
    /\ output \in Logs /\ offset = 0 /\ decoder = NewDecoder /\ headerCut = FALSE
\* Where nothing is decoded.
DecoderIdle ==
    /\ output = <<>> /\ offset = 0 /\ decoder = NewDecoder /\ headerCut = FALSE

\* output.on('data'): a chunk of any length.
Data(n) ==
    /\ offset + n <= Len(output)
    /\ offset' = offset + n
    /\ decoder' = Pushed(decoder, SubSeq(output, offset + 1, offset + n))
    /\ headerCut' = (headerCut \/ \E start \in Starts(output) :
                                    offset + n > start /\ offset + n - start \in 1..3)
    /\ UNCHANGED output

\* output.once('end')
End ==
    /\ offset = Len(output) /\ ~decoder.ended
    /\ decoder' = Ended(decoder)
    /\ UNCHANGED <<output, offset, headerCut>>

DecoderNext == \/ \E n \in 1..Len(output) : Data(n)
               \/ End
DecoderSpec == DecoderInit /\ [][DecoderNext]_decoderVars

------------------------------------------------------------------------------
DecoderTypeOK ==
    /\ output \in Logs \cup {<<>>} /\ offset \in 0..Len(output)
    /\ headerCut \in BOOLEAN
    /\ Len(decoder.buffered) <= offset

\* A log that is followed shows the lines that the same log has when it is
\* read at once, however it is cut: "decodes multiplexed log frames split
\* across stream chunks" (services/tests/TaskLogs.test.ts).
LinesSurviveCuts ==
    decoder.ended =>
        decoder.lines = NonEmpty(DecodeDockerLogOutput(output))

\* It does as long as no chunk ends within the first four bytes of a header,
\* with lengths, characters, lines and payloads cut anywhere.
LinesSurviveOtherCuts == headerCut \/ LinesSurviveCuts
==============================================================================
