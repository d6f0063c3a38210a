----------------------------- MODULE Smartcard ------------------------------
(***************************************************************************)
(* A smartcard owner (client smartcard.rs) and the helper task that serves *)
(* one PC/SC reader on it (helper smartcard.rs).                           *)
(*                                                                         *)
(* The task adds the reader, waits for the acknowledgement, sends the ATR  *)
(* and then answers one request at a time.  It does not look at the        *)
(* transport generation the owner labels each message with.                *)
(***************************************************************************)
EXTENDS Naturals, Sequences

CONSTANTS
  CardCapacity,  \* SMARTCARD_QUEUE_CAPACITY
  MaxRequestsOfServer, \* bound: requests of one server
  MaxCardMoves   \* bound: non-seamless activations

VARIABLES
  card,        \* the owner: [up, observed, generation]
  cardInbound, \* its queue: [kind, generation]
  cardTask,    \* [at, answer]
  cardPeer     \* the current server: [server, ready, asked, requests, strays]

cardVars == <<card, cardInbound, cardTask, cardPeer>>

Requests == {"Apdu", "Flush", "Init"}
CardServing == cardTask.at # "ended"
-----------------------------------------------------------------------------
SmartcardInit ==
  /\ card = [up |-> TRUE, observed |-> TRUE, generation |-> 0]
  /\ cardInbound = <<>>
  /\ cardTask = [at |-> "unstarted", answer |-> "None"]
  /\ cardPeer = [server |-> 0, ready |-> FALSE, asked |-> <<>>, requests |-> 0, strays |-> 0]

\* A message of the server: queued under the owner's generation, ignored once
\* the task dropped the channel, the owner's end when the queue is full.
Deliver(kind) ==
  LET g    == IF card.observed THEN card.generation ELSE card.generation + 1
      room == Len(cardInbound) < CardCapacity
  IN  /\ card' = [up |-> ~CardServing \/ room, observed |-> TRUE, generation |-> g]
      /\ cardInbound' = IF CardServing /\ room
                        THEN Append(cardInbound, [kind |-> kind, generation |-> g])
                        ELSE cardInbound

\* The server acknowledges the reader it was told of.
Acknowledge ==
  /\ card.up /\ cardPeer.asked # <<>> /\ Head(cardPeer.asked) = "Ack"
  /\ Deliver("Ack")
  /\ cardPeer' = [cardPeer EXCEPT !.asked = Tail(@)]
  /\ UNCHANGED cardTask

\* A request of a server that has the ATR (a migrated guest knows the card); it
\* remembers what it is waiting for.
Request ==
  /\ card.up /\ cardPeer.ready /\ cardPeer.requests < MaxRequestsOfServer
  /\ \E kind \in Requests :
       /\ Deliver(kind)
       /\ cardPeer' = [cardPeer EXCEPT !.asked = Append(@, kind), !.requests = @ + 1]
  /\ UNCHANGED cardTask

\* The activation of a non-seamless replacement: another server, that has
\* asked for nothing.
CardMoves ==
  /\ card.up /\ card.observed /\ cardPeer.server < MaxCardMoves
  /\ card' = [card EXCEPT !.observed = FALSE]
  /\ cardPeer' = [cardPeer EXCEPT !.server = @ + 1, !.asked = <<>>, !.requests = 0]
  /\ UNCHANGED <<cardInbound, cardTask>>

CardEnds ==
  /\ card.up
  /\ card' = [card EXCEPT !.up = FALSE]
  /\ UNCHANGED <<cardInbound, cardTask, cardPeer>>
-----------------------------------------------------------------------------
(* run_smartcard_redirection. *)

CardTask(at, answer) == [at |-> at, answer |-> answer]

\* The host asks for the redirection of a reader.
StartCard ==
  /\ cardTask.at = "unstarted"
  /\ cardTask' = CardTask("opening", "None")
  /\ UNCHANGED <<card, cardInbound, cardPeer>>

\* open_card on a blocking thread.
OpenCard ==
  /\ cardTask.at = "opening"
  /\ cardTask' \in {CardTask("sending", "ReaderAdd"), CardTask("ended", "None")}
  /\ UNCHANGED <<card, cardInbound, cardPeer>>

\* What follows a message that was sent.
AfterSend(answer) ==
  IF answer = "ReaderAdd" THEN CardTask("acking", "None") ELSE CardTask("looping", "None")

\* The answer to a request, and whether the server waits for what it gets.
AnswerOf(kind) ==
  CASE kind = "Apdu"  -> "Apdu"
    [] kind = "Flush" -> "FlushComplete"
    [] kind = "Init"  -> "Error"
Fits(sent) ==
  /\ cardPeer.asked # <<>> /\ Head(cardPeer.asked) \in Requests
  /\ sent = AnswerOf(Head(cardPeer.asked)) \/ (sent = "Error" /\ Head(cardPeer.asked) = "Apdu")

\* The owner's command arm writes to whatever transport it has.
CardWrites ==
  /\ cardTask.at = "sending"
  /\ IF card.up
     THEN /\ cardTask' = AfterSend(cardTask.answer)
          /\ cardPeer' =
               IF cardTask.answer = "ReaderAdd"
               THEN [cardPeer EXCEPT !.asked = Append(@, "Ack")]
               ELSE IF cardTask.answer = "Atr" THEN [cardPeer EXCEPT !.ready = TRUE]
               ELSE IF Fits(cardTask.answer) THEN [cardPeer EXCEPT !.asked = Tail(@)]
               ELSE [cardPeer EXCEPT !.strays = 1]
     ELSE cardTask' = CardTask("ended", "None") /\ UNCHANGED cardPeer
  /\ UNCHANGED <<card, cardInbound>>

\* receive_success_acknowledgement.
TakeAck ==
  /\ cardTask.at = "acking" /\ cardInbound # <<>>
  /\ cardTask' = IF Head(cardInbound).kind = "Ack" THEN CardTask("sending", "Atr")
                 ELSE CardTask("ended", "None")
  /\ cardInbound' = IF cardTask'.at = "ended" THEN <<>> ELSE Tail(cardInbound)
  /\ UNCHANGED <<card, cardPeer>>

\* The loop: an APDU goes to the card, the other requests are answered at once
\* and a success acknowledgement is skipped.
TakeRequest ==
  /\ cardTask.at = "looping" /\ cardInbound # <<>>
  /\ cardInbound' = Tail(cardInbound)
  /\ cardTask' = CASE Head(cardInbound).kind = "Ack"  -> cardTask
                   [] Head(cardInbound).kind = "Apdu" -> CardTask("transmitting", "None")
                   [] OTHER -> CardTask("sending", AnswerOf(Head(cardInbound).kind))
  /\ UNCHANGED <<card, cardPeer>>

TransmitIgnoringErrors ==
  /\ cardTask.at = "transmitting"
  /\ cardTask' \in {CardTask("sending", "Apdu"), CardTask("looping", "None")}
  /\ UNCHANGED <<card, cardInbound, cardPeer>>

\* transmit_apdu on a blocking thread: the response or an error is sent.
Transmit ==
  /\ cardTask.at = "transmitting"
  /\ cardTask' \in {CardTask("sending", "Apdu"), CardTask("sending", "Error")}
  /\ UNCHANGED <<card, cardInbound, cardPeer>>

\* next() on a closed and drained channel.
CardTaskEnds ==
  /\ cardTask.at \in {"acking", "looping"} /\ cardInbound = <<>> /\ ~card.up
  /\ cardTask' = CardTask("ended", "None")
  /\ UNCHANGED <<card, cardInbound, cardPeer>>
-----------------------------------------------------------------------------
SmartcardNext ==
  \/ Acknowledge \/ Request \/ CardMoves \/ CardEnds
  \/ StartCard \/ OpenCard \/ CardWrites \/ TakeAck \/ TakeRequest \/ Transmit \/ CardTaskEnds

\* Woken tasks are polled, the card answers or fails, and a server acknowledges
\* the reader it was told of.
SmartcardFairness ==
  /\ WF_cardVars(Acknowledge)
  /\ WF_cardVars(OpenCard \/ CardWrites \/ TakeAck \/ TakeRequest \/ Transmit \/ CardTaskEnds)
-----------------------------------------------------------------------------
\* Every variable has its type and the queue keeps its capacity.
SmartcardTypeOK ==
  /\ card.up \in BOOLEAN /\ card.generation \in 0 .. MaxCardMoves
  /\ Len(cardInbound) <= CardCapacity
  /\ cardTask.at \in {"unstarted", "opening", "sending", "acking", "looping", "transmitting", "ended"}
  /\ cardPeer.strays \in 0 .. 1

\* Until the channel moves to another server, every answer reaches a server that
\* is waiting for it, in the order it asked.
AnswersInOrder == cardPeer.server = 0 => cardPeer.strays = 0

\* A server never receives the answer to what another server asked: device
\* input is labelled "so a host parser cannot join bytes from different servers".
NoAnswerForAnotherServer == cardPeer.strays = 0

\* The wait for the acknowledgement of a reader the server was told of ends,
\* unless the channel moves meanwhile: the new server was told of no reader, and
\* receive_success_acknowledgement waits until it sends something or the owner
\* ends.
ReaderAcknowledged ==
  \A s \in 0 .. MaxCardMoves :
    (cardTask.at = "acking" /\ cardPeer.server = s /\ cardPeer.asked # <<>>) ~>
      (cardTask.at # "acking" \/ cardPeer.server # s)

\* A request is answered, unless the owner or the task ended, or the channel
\* has moved since.
RequestsAnswered ==
  \A s \in 0 .. MaxCardMoves :
    (cardPeer.server = s /\ cardPeer.requests > 0) ~>
      (cardPeer.server # s \/ cardPeer.asked = <<>> \/ cardTask.at = "ended" \/ ~card.up)
=============================================================================
