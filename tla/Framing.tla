------------------------------ MODULE Framing ------------------------------
(***************************************************************************)
(* One channel transport byte by byte: read_message with its header and    *)
(* body, the SASL security layer whose tokens follow no message boundary,  *)
(* and the descriptors that a Unix stream carries beside its bytes.        *)
(*                                                                         *)
(* A byte is its position in the server's stream; a read returns any       *)
(* number of the bytes asked for, as a socket does.                        *)
(***************************************************************************)
EXTENDS Integers, Sequences, FiniteSets, SequencesExt, FiniteSetsExt

CONSTANTS
  Shapes,          \* messages a server may send: [body, fds, large]
  HeaderLen,       \* header_len of the negotiated framing
  MaxMessages,     \* messages the server sends on one transport
  MaxToken,        \* plaintext bytes in one token of the security layer
  MaxQueued,       \* MAX_QUEUED_FILE_DESCRIPTORS
  MaxReplacements, \* transports that take over from the first
  MaxInterrupts    \* reads that are dropped before they return

ASSUME FramingAssumption ==
  /\ HeaderLen \in Nat \ {0}
  /\ {MaxMessages, MaxToken, MaxQueued, MaxReplacements, MaxInterrupts} \subseteq Nat
  /\ \A s \in Shapes : s.body \in Nat /\ s.fds \in Nat /\ s.large \in BOOLEAN

VARIABLES
  layer,   \* sasl_codec of the channel is Some
  stream,  \* the server's side: messages sent and the count of bytes consumed
  token,   \* length of a security token whose length field has been read
  decoded, \* sasl_decoded from sasl_decoded_offset on
  queue,   \* received_file_descriptors: <<message, index>> of each
  read,    \* the read_message future: stage and the bytes it has collected
  took,    \* the descriptors handed to each message's handler
  lost,    \* a read was dropped after it had consumed bytes
  left     \* bounds: transports and interruptions still to come

framingVars == <<layer, stream, token, decoded, queue, read, took, lost, left>>

Length(s) == HeaderLen + s.body
Total(k) == FoldSeq(LAMBDA s, n : n + Length(s), 0, SubSeq(stream.sent, 1, k))
Start(k) == Total(k - 1)
Available == Total(Len(stream.sent)) - stream.taken
Positions(a, b) == [i \in 1..(b - a) |-> a + i]
Idle == [stage |-> "idle", got |-> <<>>, need |-> 0]
Reading == read.stage \in {"header", "body"}
Wants == read.need - Len(read.got)

FramingInit ==
  /\ layer \in BOOLEAN
  /\ stream = [sent |-> <<>>, taken |-> 0]
  /\ token = 0
  /\ decoded = <<>>
  /\ queue = <<>>
  /\ read = Idle
  /\ took = <<>>
  /\ lost = FALSE
  /\ left = [replacements |-> MaxReplacements, interrupts |-> MaxInterrupts]

\* The server sends one message; descriptors travel only on a Unix stream,
\* which has no security layer, and accompany the first byte of their message.
ServerSendsMessage ==
  /\ Len(stream.sent) < MaxMessages
  /\ read.stage \notin {"failed", "garbled"}
  /\ \E s \in Shapes :
       /\ layer => s.fds = 0
       /\ stream' = [stream EXCEPT !.sent = Append(@, s)]
  /\ UNCHANGED <<layer, token, decoded, queue, read, took, lost, left>>

\* read_message: a local buffer for the header, whatever an earlier read did.
BeginRead ==
  /\ read.stage = "idle"
  /\ read' = [stage |-> "header", got |-> <<>>, need |-> HeaderLen]
  /\ UNCHANGED <<layer, stream, token, decoded, queue, took, lost, left>>

Collect(bytes) == read' = [read EXCEPT !.got = @ \o bytes]
FailRead == read' = [Idle EXCEPT !.stage = "failed"]

\* The descriptors that accompany the bytes at positions a + 1 to b.
Arriving(a, b) ==
  FlattenSeq([k \in 1..Len(stream.sent) |->
    IF Start(k) \in a..(b - 1) THEN [i \in 1..stream.sent[k].fds |-> <<k, i>>] ELSE <<>>])

Overflows(arriving) == Len(queue) + Len(arriving) > MaxQueued

\* poll_read of UnixFdStream under read_exact.
ReadBytes ==
  /\ ~layer /\ Reading
  /\ \E n \in 1..Min({Wants, Available}) :
       LET arriving == Arriving(stream.taken, stream.taken + n) IN
       IF Overflows(arriving)
       THEN FailRead /\ UNCHANGED <<stream, queue>>
       ELSE /\ Collect(Positions(stream.taken, stream.taken + n))
            /\ stream' = [stream EXCEPT !.taken = @ + n]
            /\ queue' = queue \o arriving
  /\ UNCHANGED <<layer, token, decoded, took, lost, left>>

\* read_exact_transport with a codec: the length of the next token, which the
\* server chose without regard to its messages, ...
ReadTokenLength ==
  /\ layer /\ Reading /\ Wants > 0
  /\ decoded = <<>> /\ token = 0
  /\ \E n \in 1..Min({MaxToken, Available}) : token' = n
  /\ UNCHANGED <<layer, stream, decoded, queue, read, took, lost, left>>

\* ... its bytes, decoded as a whole, ...
ReadToken ==
  /\ Reading /\ token > 0
  /\ decoded' = Positions(stream.taken, stream.taken + token)
  /\ stream' = [stream EXCEPT !.taken = @ + token]
  /\ token' = 0
  /\ UNCHANGED <<layer, queue, read, took, lost, left>>

\* ... and as much of the plaintext as this read still wants.
Leftover(n) == SubSeq(decoded, n + 1, Len(decoded))

CopyDecoded ==
  /\ Reading /\ Wants > 0 /\ decoded # <<>>
  /\ LET n == Min({Wants, Len(decoded)}) IN
       /\ Collect(SubSeq(decoded, 1, n))
       /\ decoded' = Leftover(n)
  /\ UNCHANGED <<layer, stream, token, queue, took, lost, left>>

Current == Len(took) + 1

\* DataHeader::decode of the bytes collected, and the bound on the declared
\* body. Bytes that are not the next header decode to anything.
DecodeHeader ==
  /\ read.stage = "header" /\ Wants = 0
  /\ read' = CASE \/ Current > Len(stream.sent)
                \/ read.got # Positions(Start(Current), Start(Current) + HeaderLen) ->
                  [Idle EXCEPT !.stage = "garbled"]
             [] stream.sent[Current].large -> [Idle EXCEPT !.stage = "failed"]
             [] OTHER -> [stage |-> "body", got |-> <<>>, need |-> stream.sent[Current].body]
  /\ UNCHANGED <<layer, stream, token, decoded, queue, took, lost, left>>

TakeNewest(n) == Reverse(SubSeq(queue, Len(queue) - n + 1, Len(queue)))
TakeOldest(n) == SubSeq(queue, 1, n)

\* The body is complete: the message is handled, and its handler takes one
\* descriptor for every plane it names, or fails without one.
FinishRead ==
  /\ read.stage = "body" /\ Wants = 0
  /\ LET fds == stream.sent[Current].fds IN
       IF Len(queue) < fds THEN FailRead /\ UNCHANGED <<queue, took>>
       ELSE /\ took' = Append(took, TakeOldest(fds))
            /\ queue' = SubSeq(queue, fds + 1, Len(queue))
            /\ read' = Idle
  /\ UNCHANGED <<layer, stream, token, decoded, lost, left>>

\* A read that is dropped while it waits keeps nothing it has consumed: its
\* header, part of a header or body, or the length of a security token.
Interrupt(next) ==
  /\ left.interrupts > 0
  /\ Wants > 0
  /\ left' = [left EXCEPT !.interrupts = @ - 1]
  /\ lost' = (lost \/ read.stage = "body" \/ read.got # <<>> \/ token > 0)
  /\ read' = IF token > 0 THEN [Idle EXCEPT !.stage = "garbled"] ELSE next
  /\ token' = 0
  /\ UNCHANGED <<layer, stream, decoded, queue, took>>

\* Another branch of the owner's select! completes first.
AbandonRead == Reading /\ Interrupt(Idle)

\* read_header_transport stores a replacement that is not to be activated at
\* once and starts its read again, into the same buffer from its beginning.
RestartHeader == read.stage = "header" /\ Interrupt([read EXCEPT !.got = <<>>])

\* End of file in a header, or a migration: the whole channel is replaced.
PlaintextKept == decoded
Plaintext == <<>>

ReplaceTransport ==
  /\ left.replacements > 0
  /\ read.stage = "header" /\ read.got = <<>> /\ token = 0
  /\ left' = [left EXCEPT !.replacements = @ - 1]
  /\ layer' \in BOOLEAN
  /\ stream' = [sent |-> <<>>, taken |-> 0]
  /\ decoded' = Plaintext
  /\ queue' = <<>>
  /\ took' = <<>>
  /\ read' = Idle
  /\ lost' = FALSE
  /\ UNCHANGED token

FramingNext ==
  \/ ServerSendsMessage \/ BeginRead \/ ReadBytes
  \/ ReadTokenLength \/ ReadToken \/ CopyDecoded
  \/ DecodeHeader \/ FinishRead
  \/ AbandonRead \/ RestartHeader \/ ReplaceTransport

FramingTypeOK ==
  /\ layer \in BOOLEAN
  /\ stream.sent \in Seq(Shapes) /\ stream.taken \in 0..Total(Len(stream.sent))
  /\ token \in 0..MaxToken /\ Len(decoded) < MaxToken + 1
  /\ read.stage \in {"idle", "header", "body", "failed", "garbled"}
  /\ Len(read.got) <= read.need
  /\ Len(queue) <= MaxQueued

\* As long as no read is dropped with bytes in hand, every header is decoded
\* from exactly the bytes of one header, however the socket and the security
\* layer cut the stream, and also on a transport that replaces another.
HeadersAligned == read.stage = "garbled" => lost

\* Every message's handler takes the descriptors that were sent with it.
DescriptorsMatch ==
  ~lost => \A k \in DOMAIN took : took[k] = [i \in 1..stream.sent[k].fds |-> <<k, i>>]

\* A read fails only for a body beyond the limit or for more descriptors on
\* one message than the queue holds; messages before it never use up the queue.
OnlyOversizedRefused ==
  read.stage = "failed" /\ ~lost =>
    stream.sent[Current].large \/ stream.sent[Current].fds > MaxQueued

\* "Reads exactly one header and one bounded body": no read returns a header
\* that is not the next one of the stream.
ReadsExactlyOne == read.stage # "garbled"

(* Every message is handled whole: its header is decoded from its own      *)
(* bytes, its handler takes the descriptors that were sent with it, and    *)
(* only a message beyond the limits is refused.                            *)
MessagesWhole ==
  FramingTypeOK /\ HeadersAligned /\ DescriptorsMatch /\ OnlyOversizedRefused
=============================================================================
