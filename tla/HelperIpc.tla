----------------------------- MODULE HelperIpc ------------------------------
(***************************************************************************)
(* One pipe between the host and the helper (helper-protocol wire.rs and   *)
(* handshake.rs, helper stdio.rs): JSON lines, some of them followed by a  *)
(* payload whose length they declare, and the Hello that opens the request *)
(* direction.  The same code reads both directions; `direction` picks one. *)
(*                                                                         *)
(* A byte is <<message, position>>: the text of the line, its newline, the *)
(* payload.  A payload is either free of newline bytes or all newlines.    *)
(* The writer's process may end between any two bytes.                     *)
(***************************************************************************)
EXTENDS Integers, Sequences, FiniteSets, SequencesExt, FiniteSetsExt

CONSTANTS
  Messages,      \* per direction, what may be written:
                 \* [kind, line, payload, unit, newlines]
  Hellos,        \* what hosts may ask for: [version, required]
  Build,         \* capabilities of the helper, a sequence
  Version,       \* HELPER_IPC_PROTOCOL_VERSION
  MaxRequired,   \* MAX_REQUIRED_CAPABILITIES
  MaxLine,       \* MAX_JSON_LINE_BYTES
  MaxPayload,    \* MAX_BINARY_PAYLOAD_BYTES
  MaxChunk,      \* MAX_AGENT_FILE_CHUNK_BYTES
  MaxPort,       \* MAX_PORT_DATA_BYTES
  BufferSize,    \* the capacity of a BufReader
  MaxWritten     \* bound: messages written

ASSUME IpcAssumption ==
  /\ {MaxRequired, MaxLine, MaxPayload, MaxChunk, MaxPort, MaxWritten} \subseteq Nat
  /\ BufferSize \in Nat \ {0} /\ Cardinality(Range(Build)) <= MaxRequired

VARIABLES
  direction, \* "requests" or "events"
  hello,     \* the Hello of this host
  written,   \* the messages whose writing has begun
  unsent,    \* bytes of the last of them that are not in the pipe yet
  pipe,      \* bytes in the pipe
  ended,     \* the writer has closed the pipe
  buffer,    \* bytes in the BufReader
  input,     \* the reader: [stage, got, need, of]
  heard      \* what it has returned: [message, payload] in order

ipcVars == <<direction, hello, written, unsent, pipe, ended, buffer, input, heard>>

Greeting == [kind |-> "hello", line |-> 2, payload |-> 0, unit |-> 1, newlines |-> FALSE]
AtLine == [stage |-> "line", got |-> <<>>, need |-> 0, of |-> 0]
Stopped(how) == [AtLine EXCEPT !.stage = how]

IpcInit ==
  /\ direction \in {"requests", "events"}
  /\ hello \in Hellos /\ (direction = "events" => hello = CHOOSE h \in Hellos : TRUE)
  /\ written = <<>> /\ unsent = <<>> /\ pipe = <<>> /\ ended = FALSE
  /\ buffer = <<>> /\ heard = <<>>
  /\ input = IF direction = "requests" THEN Stopped("hello") ELSE AtLine
-----------------------------------------------------------------------------
(* The handshake. *)

Distinct(s) == Cardinality(Range(s)) = Len(s)

\* ServerHandshake::new sorts and removes duplicates.
CompiledAsListed == Build
Compiled == SetToSeq(Range(Build))

RejectionFor(h) ==
  CASE h.version # Version -> "version"
    [] Len(h.required) > MaxRequired \/ ~Distinct(h.required) -> "list"
    [] ~(Range(h.required) \subseteq Range(Compiled)) -> "missing"
    [] OTHER -> "none"

Negotiate(h) ==
  [version |-> Version, capabilities |-> Compiled,
   compatible |-> RejectionFor(h) = "none", rejection |-> RejectionFor(h)]

RequireCompatible(ack) == ack.compatible /\ ack.rejection = "none"

\* What a host makes of the acknowledgement.
ValidateFor(ack, h) ==
  /\ RequireCompatible(ack)
  /\ ack.version = h.version
  /\ Len(ack.capabilities) <= MaxRequired /\ Distinct(ack.capabilities)
  /\ Len(h.required) <= MaxRequired /\ Distinct(h.required)
  /\ Range(h.required) \subseteq Range(ack.capabilities)
-----------------------------------------------------------------------------
(* Writing. *)

\* The kinds that have a binary header; a cursor without a picture has none.
Binary(m) ==
  /\ m.kind \in IF direction = "requests" THEN {"clipboard", "record", "file", "port"}
                ELSE {"frame", "cursor", "clipboard", "playback", "port"}
  /\ m.kind = "cursor" => m.payload > 0

\* The bounds that write_request and read_request share.
RequestBound(m) ==
  /\ m.kind = "file" => m.payload <= MaxChunk
  /\ m.kind = "port" => m.payload <= MaxPort

LineFitsExactly(m) == m.line <= MaxLine
LineFits(m) == m.line < MaxLine

\* write_binary and write_json_line refuse before the first byte.
Writable(m) ==
  /\ LineFits(m)
  /\ Binary(m) => m.payload <= MaxPayload
  /\ direction = "requests" => RequestBound(m)

Text(k) == [i \in 1..written[k].line |-> <<k, i>>]
PayloadOf(k) == [i \in 1..written[k].payload |-> <<k, written[k].line + 1 + i>>]
IsNewline(b) ==
  LET m == written[b[1]] IN b[2] = m.line + 1 \/ (b[2] > m.line + 1 /\ m.newlines)

\* A host's first request is Hello, or it is not a host of this helper.
BeginWrite ==
  /\ unsent = <<>> /\ ~ended /\ Len(written) < MaxWritten
  /\ \E m \in Messages[direction] \cup {Greeting} :
       /\ m = Greeting => direction = "requests" /\ written = <<>>
       /\ Writable(m)
       /\ written' = Append(written, m)
       /\ unsent' = [i \in 1..(m.line + 1 + m.payload) |-> <<Len(written) + 1, i>>]
  /\ UNCHANGED <<direction, hello, pipe, ended, buffer, input, heard>>

\* write_all: the line, then the payload, as the pipe takes them.
WriteSome ==
  /\ ~ended
  /\ \E n \in 1..Len(unsent) :
       /\ pipe' = pipe \o SubSeq(unsent, 1, n)
       /\ unsent' = SubSeq(unsent, n + 1, Len(unsent))
  /\ UNCHANGED <<direction, hello, written, ended, buffer, input, heard>>

WriterGone ==
  /\ ~ended /\ ended' = TRUE
  /\ UNCHANGED <<direction, hello, written, unsent, pipe, buffer, input, heard>>
-----------------------------------------------------------------------------
(* Reading. *)

Listening == input.stage \in {"hello", "line", "payload"}
EndOfPipe == Listening /\ ended /\ pipe = <<>> /\ buffer = <<>>

\* The reader of the Hello has a buffer of one byte.
Shared == BufferSize
OneByte == 1
ReadAhead == IF input.stage = "hello" THEN OneByte ELSE BufferSize

FillBuffer ==
  /\ Listening /\ buffer = <<>>
  /\ \E n \in 1..Min({ReadAhead, Len(pipe)}) :
       buffer' = SubSeq(pipe, 1, n) /\ pipe' = SubSeq(pipe, n + 1, Len(pipe))
  /\ UNCHANGED <<direction, hello, written, unsent, ended, input, heard>>

\* read_event compares the payload with the metadata of its line.
EventBound(m) ==
  /\ m.kind \in {"frame", "cursor"} => m.payload = m.unit
  /\ m.kind = "playback" => m.unit # 0 /\ m.payload % m.unit = 0
  /\ m.kind = "port" => m.payload <= MaxPort

Return(k, payload) ==
  /\ heard' = Append(heard, [message |-> k, payload |-> payload])
  /\ input' = AtLine

\* The payload is there: the message is returned, or its metadata is refused.
Assemble(k, payload) ==
  IF direction = "events" /\ ~EventBound(written[k])
  THEN input' = Stopped("failed") /\ UNCHANGED heard
  ELSE Return(k, payload)

\* The line is there: the Hello, a plain message, or the header of a payload.
\* The buffered reader of the Hello is given up for a new one.
Parse(line, rest) ==
  LET texts == {k \in DOMAIN written : Text(k) = line}
      k == CHOOSE k \in texts : TRUE
      m == written[k]
  IN CASE texts = {} \/ (input.stage = "hello" /\ m.kind # "hello") ->
            input' = Stopped("failed") /\ buffer' = rest /\ UNCHANGED heard
       [] input.stage = "hello" /\ m.kind = "hello" ->
            IF Negotiate(hello).compatible
            THEN Return(k, <<>>) /\ buffer' = <<>>
            ELSE input' = Stopped("rejected") /\ buffer' = rest /\ UNCHANGED heard
       [] input.stage # "hello" /\ ~Binary(m) ->
            Return(k, <<>>) /\ buffer' = rest
       [] OTHER ->
            /\ buffer' = rest
            /\ IF m.payload > MaxPayload \/ (direction = "requests" /\ ~RequestBound(m))
               THEN input' = Stopped("failed") /\ UNCHANGED heard
               ELSE IF m.payload = 0 THEN Assemble(k, <<>>)
               ELSE /\ input' = [stage |-> "payload", got |-> <<>>, need |-> m.payload, of |-> k]
                    /\ UNCHANGED heard

Trimmed(line) == SelectSeq(line, LAMBDA b : ~IsNewline(b))

\* read_bounded_line: up to a newline or the end of the buffer.
ReadLine ==
  /\ input.stage \in {"hello", "line"} /\ buffer # <<>>
  /\ LET breaks == {i \in DOMAIN buffer : IsNewline(buffer[i])}
         consumed == IF breaks = {} THEN Len(buffer) ELSE Min(breaks)
         line == input.got \o SubSeq(buffer, 1, consumed)
         rest == SubSeq(buffer, consumed + 1, Len(buffer))
     IN IF Len(line) > MaxLine
        THEN input' = Stopped("failed") /\ UNCHANGED <<buffer, heard>>
        ELSE IF breaks # {} THEN Parse(Trimmed(line), rest)
        ELSE input' = [input EXCEPT !.got = line] /\ buffer' = rest /\ UNCHANGED heard
  /\ UNCHANGED <<direction, hello, written, unsent, pipe, ended>>

\* The end of the pipe ends a line too; without one it is the regular end.
LineEndsWithPipe ==
  /\ EndOfPipe /\ input.stage # "payload"
  /\ IF input.got = <<>> THEN input' = Stopped("closed") /\ UNCHANGED <<buffer, heard>>
     ELSE Parse(input.got, <<>>)
  /\ UNCHANGED <<direction, hello, written, unsent, pipe, ended>>

\* read_payload: exactly the declared bytes.
ReadPayload ==
  /\ input.stage = "payload" /\ buffer # <<>>
  /\ LET n == Min({input.need - Len(input.got), Len(buffer)})
         payload == input.got \o SubSeq(buffer, 1, n)
     IN /\ buffer' = SubSeq(buffer, n + 1, Len(buffer))
        /\ IF Len(payload) = input.need THEN Assemble(input.of, payload)
           ELSE input' = [input EXCEPT !.got = payload] /\ UNCHANGED heard
  /\ UNCHANGED <<direction, hello, written, unsent, pipe, ended>>

PayloadEndsWithPipe ==
  /\ EndOfPipe /\ input.stage = "payload"
  /\ input' = Stopped("failed")
  /\ UNCHANGED <<direction, hello, written, unsent, pipe, ended, buffer, heard>>

IpcNext ==
  \/ BeginWrite \/ WriteSome \/ WriterGone
  \/ FillBuffer \/ ReadLine \/ LineEndsWithPipe \/ ReadPayload \/ PayloadEndsWithPipe
-----------------------------------------------------------------------------
\* Every variable has its type, the buffer and the line keep their bounds.
IpcTypeOK ==
  /\ input.stage \in {"hello", "line", "payload", "closed", "failed", "rejected"}
  /\ Len(buffer) <= BufferSize /\ Len(input.got) <= MaxLine + MaxPayload

\* What read_request and read_event return is what was written, message by
\* message and with its own payload, however the pipe cuts the bytes and
\* although the Hello is read through a buffer that is then given up.
ReadAsWritten ==
  \A k \in DOMAIN heard :
    heard[k] = [message |-> k, payload |-> IF Binary(written[k]) THEN PayloadOf(k) ELSE <<>>]

\* A whole message fails to be read only for what the writer did not check: a
\* first request that is no Hello, or an event whose payload contradicts it.
WholeIsRead ==
  input.stage = "failed" =>
    /\ Len(heard) < Len(written)
    /\ LET m == written[Len(heard) + 1] IN
       \/ Len(written) = Len(heard) + 1 /\ unsent # <<>> /\ ended
       \/ direction = "requests" /\ heard = <<>> /\ m.kind # "hello"
       \/ direction = "events" /\ Binary(m) /\ ~EventBound(m)

\* The regular end of the pipe follows a message that was returned: none of
\* which a byte was written is dropped without an error.
ClosedAtBoundary ==
  LET unbegun == unsent # <<>> /\ Head(unsent)[2] = 1 IN
  input.stage = "closed" => Len(heard) = Len(written) - (IF unbegun THEN 1 ELSE 0)

\* The reader goes on to requests exactly for the hosts that will accept its
\* acknowledgement (validate_for), and returns none before.
GateAgrees ==
  /\ direction = "requests" /\ heard # <<>> => ValidateFor(Negotiate(hello), hello)
  /\ input.stage = "rejected" => ~ValidateFor(Negotiate(hello), hello)

(* The pipe between host and helper delivers what was written: whole       *)
(* messages in order with their own payloads, nothing of a writer that     *)
(* ended in the middle, and requests only behind a Hello both sides take.  *)
PipeFaithful ==
  IpcTypeOK /\ ReadAsWritten /\ WholeIsRead /\ ClosedAtBoundary /\ GateAgrees
=============================================================================
