----------------------------- MODULE AgentStream ----------------------------
(***************************************************************************)
(* The bytes of the Agent streams (protocol agent.rs AgentStreamDecoder    *)
(* and OutboundAgentMessage, client agent.rs handle_fragment and           *)
(* send_one): messages with a header that declares their size, cut into    *)
(* AgentData bodies.  The server cuts its stream anywhere, one body may    *)
(* hold parts of several messages; the client's bodies hold one each.      *)
(*                                                                         *)
(* A byte is <<stream, message, position>>.  Streams come and go with the  *)
(* guest Agent, in the middle of a message or not.                         *)
(***************************************************************************)
EXTENDS Integers, Sequences, FiniteSets, SequencesExt, FiniteSetsExt

CONSTANTS
  PayloadSizes,   \* sizes of payloads
  HeaderBytes,    \* AGENT_MESSAGE_HEADER_BYTES
  FragmentBytes,  \* MAX_AGENT_FRAGMENT_BYTES
  MaxAgentBytes,  \* DEFAULT_MAX_AGENT_MESSAGE_BYTES
  MaxInStream,    \* bound: messages of a stream in each direction
  MaxConnects     \* bound: Agent streams

ASSUME StreamAssumption ==
  /\ PayloadSizes \subseteq Nat
  /\ {HeaderBytes, FragmentBytes} \subseteq Nat \ {0}
  /\ {MaxAgentBytes, MaxInStream, MaxConnects} \subseteq Nat

VARIABLES
  tie,       \* AgentRuntime: [generation, connected, error]
  says,      \* the server in this stream: sizes of its messages, bytes cut off
  decoder,   \* AgentStreamDecoder: [header, current]
  dispatch,  \* the messages dispatched in this stream, as their bytes
  sending,   \* outbound: [size, offset], or NoMessage
  queued,    \* sizes of the messages queued in this stream
  outcomes,  \* per message of this stream, what outbound_completion was told
  arrived    \* bytes the server got since the last AGENT_START

streamVars == <<tie, says, decoder, dispatch, sending, queued, outcomes, arrived>>
receiving == <<says, decoder, dispatch>>
delivering == <<sending, queued, outcomes, arrived>>

NoMessage == [size |-> 0, offset |-> -1]
NoPartial == [size |-> 0, payload |-> <<>>, header |-> <<>>]
Empty == [header |-> <<>>, current |-> NoPartial]
MessageBytes(k, size) == [i \in 1..(HeaderBytes + size) |-> <<tie.generation, k, i>>]
ServerBytes == FlattenSeq([k \in DOMAIN says.sizes |-> MessageBytes(k, says.sizes[k])])

StreamInit ==
  /\ tie = [generation |-> 0, connected |-> FALSE, error |-> "none"]
  /\ says = [sizes |-> <<>>, cut |-> 0] /\ decoder = Empty /\ dispatch = <<>>
  /\ sending = NoMessage /\ queued = <<>> /\ outcomes = <<>> /\ arrived = <<>>
-----------------------------------------------------------------------------
(* From the server. *)

ServerSays ==
  /\ tie.connected /\ tie.error = "none" /\ Len(says.sizes) < MaxInStream
  /\ \E size \in PayloadSizes : says' = [says EXCEPT !.sizes = Append(@, size)]
  /\ UNCHANGED <<tie, decoder, dispatch, delivering>>

\* What a complete header says: the size of the message it belongs to, or
\* anything when its bytes are not those of one header.
Declared(header) ==
  LET k == header[1][2] IN
  IF k \in DOMAIN says.sizes /\ header = SubSeq(MessageBytes(k, says.sizes[k]), 1, HeaderBytes)
  THEN says.sizes[k] ELSE -1

\* A message of which every byte is there is handed out at once, one without
\* a payload together with its header.
HandOut(d) ==
  IF d.decoder.current # NoPartial /\ Len(d.decoder.current.payload) = d.decoder.current.size
  THEN [d EXCEPT !.decoder.current = NoPartial,
                 !.output = Append(@, d.decoder.current.header \o d.decoder.current.payload)]
  ELSE d

\* A header that is complete starts the message it declares.
Start(d) ==
  IF Len(d.decoder.header) < HeaderBytes THEN d
  ELSE LET size == Declared(d.decoder.header) IN
       IF size \notin 0..MaxAgentBytes
       THEN [d EXCEPT !.error = IF size = -1 THEN "garbled" ELSE "limit"]
       ELSE HandOut([d EXCEPT
              !.decoder = [header |-> <<>>,
                           current |-> [size |-> size, payload |-> <<>>, header |-> d.decoder.header]]])

\* The loop of push_fragment_into, a byte at a time.
PushByte(d, b) ==
  CASE d.error # "none" -> d
    [] d.error = "none" /\ d.decoder.current = NoPartial -> Start([d EXCEPT !.decoder.header = Append(@, b)])
    [] OTHER -> HandOut([d EXCEPT !.decoder.current.payload = Append(@, b)])

PushFragmentInto(fragment) ==
  FoldLeft(PushByte, [decoder |-> decoder, output |-> <<>>,
                      error |-> IF Len(fragment) \in 1..FragmentBytes THEN "none" ELSE "limit"],
           fragment)

\* handle_fragment of a body cut off anywhere; one that is empty or too long is
\* an error.  What an erring fragment completed before is not dispatched.
HandleBody ==
  /\ tie.connected /\ tie.error = "none"
  /\ \E n \in 0..Min({FragmentBytes + 1, Len(ServerBytes) - says.cut}) :
       LET pushed == PushFragmentInto(SubSeq(ServerBytes, says.cut + 1, says.cut + n)) IN
       /\ says' = [says EXCEPT !.cut = @ + n]
       /\ decoder' = pushed.decoder
       /\ dispatch' = IF pushed.error = "none" THEN dispatch \o pushed.output ELSE dispatch
       /\ tie' = [tie EXCEPT !.error = pushed.error]
  /\ UNCHANGED delivering
-----------------------------------------------------------------------------
(* To the server. *)

\* queue, when nothing is outbound; a payload beyond the limit is an error.
QueueMessage ==
  /\ tie.connected /\ tie.error = "none" /\ sending = NoMessage /\ Len(queued) < MaxInStream
  /\ \E size \in PayloadSizes :
       IF size > MaxAgentBytes
       THEN tie' = [tie EXCEPT !.error = "limit"] /\ UNCHANGED <<sending, queued, outcomes>>
       ELSE /\ sending' = [size |-> size, offset |-> 0]
            /\ queued' = Append(queued, size) /\ outcomes' = Append(outcomes, "none")
            /\ UNCHANGED tie
  /\ UNCHANGED <<receiving, arrived>>

FragmentEnd == Min({sending.offset + FragmentBytes, HeaderBytes + sending.size})

\* is_complete, on the offset after the fragment.
CompletePayload(offset) == offset >= sending.size
Complete(offset) == offset = HeaderBytes + sending.size

\* send_one: header and payload in one body as far as they fit.
SendNextFragment ==
  /\ tie.connected /\ tie.error = "none" /\ sending # NoMessage
  /\ LET k == Len(queued) IN
       /\ arrived' = arrived \o SubSeq(MessageBytes(k, sending.size), sending.offset + 1, FragmentEnd)
       /\ IF Complete(FragmentEnd)
          THEN sending' = NoMessage /\ outcomes' = [outcomes EXCEPT ![k] = "sent"]
          ELSE sending' = [sending EXCEPT !.offset = FragmentEnd] /\ UNCHANGED outcomes
  /\ UNCHANGED <<tie, receiving, queued>>
-----------------------------------------------------------------------------
(* Streams. *)

DecoderKept == decoder
ResetDecoder == Empty
SendingKept == sending
DropSending == NoMessage

\* begin_generation, also over a stream that has not ended.
StreamConnects ==
  /\ tie.error = "none" /\ tie.generation < MaxConnects
  /\ tie' = [tie EXCEPT !.generation = @ + 1, !.connected = TRUE]
  /\ says' = [sizes |-> <<>>, cut |-> 0] /\ decoder' = ResetDecoder /\ dispatch' = <<>>
  /\ sending' = DropSending /\ queued' = <<>> /\ outcomes' = <<>> /\ arrived' = <<>>

\* disconnect.
StreamDisconnects ==
  /\ tie.connected /\ tie.error = "none"
  /\ tie' = [tie EXCEPT !.connected = FALSE]
  /\ decoder' = ResetDecoder /\ sending' = DropSending
  /\ outcomes' = [k \in DOMAIN outcomes |-> IF outcomes[k] = "none" THEN "stale" ELSE outcomes[k]]
  /\ UNCHANGED <<says, dispatch, queued, arrived>>

StreamNext ==
  \/ ServerSays \/ HandleBody
  \/ QueueMessage \/ SendNextFragment
  \/ StreamConnects \/ StreamDisconnects
-----------------------------------------------------------------------------
\* Every variable has its type; a decoder holds less than a header or a message.
StreamTypeOK ==
  /\ tie.generation \in 0..MaxConnects /\ Len(outcomes) = Len(queued)
  /\ Len(decoder.header) < HeaderBytes \/ tie.error # "none"
  /\ decoder.current = NoPartial \/ Len(decoder.current.payload) < decoder.current.size

\* Every header is read from the bytes of one header of this stream.
HeadersOfStream == tie.error # "garbled"

\* The messages dispatched are those of this stream, whole and in order, and
\* none whose last byte has come is held back, however the bodies are cut.
ReassembledWhole ==
  LET whole == {k \in DOMAIN says.sizes :
                  FoldLeft(LAMBDA n, j : n + HeaderBytes + says.sizes[j], 0, [i \in 1..k |-> i]) <= says.cut}
  IN tie.error = "none" =>
       dispatch = [k \in 1..Cardinality(whole) |-> MessageBytes(k, says.sizes[k])]

\* What the server gets after AGENT_START are whole messages of this stream, at
\* most the last of them unfinished, and that one is the one being sent.
SentWhole ==
  tie.connected =>
    arrived = FlattenSeq([k \in DOMAIN queued |->
      IF k = Len(queued) /\ sending # NoMessage
      THEN SubSeq(MessageBytes(k, queued[k]), 1, sending.offset) ELSE MessageBytes(k, queued[k])])

\* A command is told that its message was sent when all of it was.
SentIsSent ==
  \A k \in DOMAIN outcomes :
    outcomes[k] = "sent" <=>
      <<tie.generation, k, HeaderBytes + queued[k]>> \in Range(arrived)

(* Both directions of an Agent stream carry whole messages of that stream. *)
FragmentsWhole ==
  StreamTypeOK /\ HeadersOfStream /\ ReassembledWhole /\ SentWhole /\ SentIsSent
=============================================================================
