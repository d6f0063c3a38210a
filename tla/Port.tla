-------------------------------- MODULE Port --------------------------------
(***************************************************************************)
(* A Port or WebDAV owner (port.rs) and the helper task that consumes it:  *)
(* the generic byte bridge (run_port_bridge in runtime.rs), which reports  *)
(* to the host process, or the WebDAV bridge (webdav.rs), which feeds an   *)
(* HTTP connection.  The server numbers its chunks; a new server leaves a  *)
(* number out, so that a missing number is exactly a place where bytes may *)
(* not be joined.  The consumer's own commands are written one at a time:  *)
(* it waits for the completion of each.                                    *)
(***************************************************************************)
EXTENDS Naturals, Sequences, SequencesExt

CONSTANTS
  InboundCapacity,  \* PORT_INBOUND_QUEUE_CAPACITY
  BridgeCapacity,   \* PORT_COMMAND_QUEUE_CAPACITY of the helper
  MaxChunks,        \* bound: numbers used by the servers
  MaxPortEvents,    \* bound: events of the servers, Init included
  MaxPortMoves,     \* bound: non-seamless activations
  MaxPortWrites     \* bound: writes the host asks for

VARIABLES
  port,       \* locals of run_port and the published state
  inbound,    \* the owner's queue to the consumer
  bridge,     \* the consumer: [kind, up, told, call, commands]
  portPeer,   \* server: [chunk, events, moves]
  portHost    \* what the consumer passed on: [state, chunk, joined, errors, asked]

portVars == <<port, inbound, bridge, portPeer, portHost>>

BreakItem == [chunk |-> 0, discontinuity |-> FALSE]
-----------------------------------------------------------------------------
PortInit ==
  /\ port = [up |-> "running", observed |-> TRUE, named |-> FALSE, opened |-> FALSE,
             discontinuity |-> FALSE, shown |-> "AwaitingInit"]
  /\ inbound = <<>>
  /\ bridge = [kind |-> "none", up |-> TRUE, told |-> "nothing", call |-> "none", commands |-> 0]
  /\ portPeer = [chunk |-> 0, events |-> 0, moves |-> 0]
  /\ portHost = [state |-> "nothing", chunk |-> 0, joined |-> TRUE, asked |-> 0]

PortUp == port.up = "running"

ReadyState(p) == IF p.opened THEN "Open" ELSE "Shut"

ForgetPortUnflagged(p) ==
  [p EXCEPT !.observed = TRUE, !.named = FALSE, !.opened = FALSE, !.shown = "AwaitingInit"]

\* The first message of a non-seamless transport.
ForgetPort(p) ==
  [p EXCEPT !.observed = TRUE, !.named = FALSE, !.opened = FALSE,
            !.discontinuity = TRUE, !.shown = "AwaitingInit"]

PortHearing == IF port.observed THEN port ELSE ForgetPort(port)

\* The owner returns: senders, receivers and pending completions are dropped.
PortEnds(p, up) ==
  /\ port' = [p EXCEPT !.up = up]
  /\ bridge' = [bridge EXCEPT !.call = IF @ = "waiting" THEN "failed" ELSE @]

PortInitMessage(opened) ==
  LET p == PortHearing IN
  /\ PortUp /\ portPeer.events < MaxPortEvents
  /\ portPeer' = [portPeer EXCEPT !.events = @ + 1]
  /\ IF p.named THEN PortEnds(p, "failed")
     ELSE LET ready == [p EXCEPT !.named = TRUE, !.opened = opened] IN
          /\ port' = [ready EXCEPT !.shown = ReadyState(ready)]
          /\ UNCHANGED bridge
  /\ UNCHANGED <<inbound, portHost>>

\* DATA and COMPRESSED_DATA: a chunk opens the port; one that finds the queue
\* full is dropped, and the next one is flagged.
PortData ==
  LET p == PortHearing
      n == portPeer.chunk + 1
      ready == [p EXCEPT !.opened = TRUE]
      fits == Len(inbound) < InboundCapacity
  IN
  /\ PortUp /\ n <= MaxChunks
  /\ portPeer' = [portPeer EXCEPT !.chunk = n]
  /\ IF ~p.named THEN PortEnds(p, "failed") /\ UNCHANGED inbound
     ELSE /\ port' = [ready EXCEPT !.shown = ReadyState(ready),
                                   !.discontinuity = IF bridge.up THEN ~fits ELSE @]
          /\ inbound' = IF bridge.up /\ fits
                        THEN Append(inbound, [chunk |-> n, discontinuity |-> p.discontinuity])
                        ELSE inbound
          /\ UNCHANGED bridge
  /\ UNCHANGED portHost

\* EVENT: a Break must not be lost, so a full queue ends the owner.
PortEventMessage(event) ==
  LET p == PortHearing IN
  /\ PortUp /\ portPeer.events < MaxPortEvents
  /\ portPeer' = [portPeer EXCEPT !.events = @ + 1]
  /\ IF ~p.named \/ (event = "Break" /\ bridge.up /\ Len(inbound) >= InboundCapacity)
     THEN PortEnds(p, "failed") /\ UNCHANGED inbound
     ELSE LET now == [p EXCEPT !.opened = IF event = "Break" THEN @ ELSE event = "Opened"] IN
          /\ port' = [now EXCEPT !.shown = ReadyState(now)]
          /\ inbound' = IF event = "Break" /\ bridge.up THEN Append(inbound, BreakItem)
                        ELSE inbound
          /\ UNCHANGED bridge
  /\ UNCHANGED portHost

\* PortCommand::Write and ::Break.
TakePortCommand ==
  /\ PortUp /\ bridge.call = "waiting"
  /\ bridge' = [bridge EXCEPT !.call = IF port.named /\ port.opened THEN "done" ELSE "failed"]
  /\ UNCHANGED <<port, inbound, portPeer, portHost>>

PortCancelled ==
  /\ PortUp
  /\ PortEnds([port EXCEPT !.shown = "Closed"], "done")
  /\ UNCHANGED <<inbound, portPeer, portHost>>

\* A new server: the numbers between its chunks and the old ones are not used.
PortMoves ==
  /\ PortUp /\ portPeer.moves < MaxPortMoves
  /\ portPeer' = [portPeer EXCEPT !.moves = @ + 1, !.chunk = @ + 1]
  /\ port' = [port EXCEPT !.observed = FALSE]
  /\ UNCHANGED <<inbound, bridge, portHost>>
-----------------------------------------------------------------------------
(* The consumer; it does one thing at a time. *)

BridgeFree == bridge.up /\ bridge.kind # "none" /\ bridge.call = "none"

\* start_generic_port_bridges, or the host starts WebDAV on the channel.
StartBridge ==
  /\ bridge.kind = "none"
  /\ \E kind \in {"generic", "webdav"} : bridge' = [bridge EXCEPT !.kind = kind]
  /\ UNCHANGED <<port, inbound, portPeer, portHost>>

\* wait_until_open precedes everything else of the WebDAV bridge.
Bridging == BridgeFree /\ (bridge.kind = "webdav" => bridge.told = "Open")

BridgeEnds == bridge' = [bridge EXCEPT !.up = FALSE, !.commands = 0]

WebDavWaits ==
  /\ BridgeFree /\ bridge.kind = "webdav" /\ bridge.told # "Open"
  /\ port.shown \in {"Open", "Closed"} \/ ~PortUp
  /\ IF port.shown = "Open" THEN bridge' = [bridge EXCEPT !.told = "Open"]
     ELSE BridgeEnds
  /\ UNCHANGED <<port, inbound, portPeer, portHost>>

PollStateSilently ==
  /\ BridgeFree /\ bridge.kind = "generic" /\ bridge.told # port.shown
  /\ bridge' = [bridge EXCEPT !.told = port.shown]
  /\ UNCHANGED <<port, inbound, portPeer, portHost>>

\* The state_poll tick of run_port_bridge.
PollState ==
  /\ BridgeFree /\ bridge.kind = "generic" /\ bridge.told # port.shown
  /\ bridge' = [bridge EXCEPT !.told = port.shown]
  /\ portHost' = [portHost EXCEPT !.state = port.shown]
  /\ UNCHANGED <<port, inbound, portPeer>>

\* Passing on a chunk; joined records whether a chunk that does not follow the
\* last one carried its flag.
PassOn(item) ==
  portHost' = [portHost EXCEPT
    !.chunk = item.chunk,
    !.joined = (item.discontinuity /\ bridge.kind = "generic") \/ item.chunk = portHost.chunk + 1]

\* channel.next(): the WebDAV bridge ends at a gap or a Break instead.
TakeInbound ==
  /\ Bridging /\ inbound # <<>>
  /\ inbound' = Tail(inbound)
  /\ LET item == Head(inbound) IN
       IF bridge.kind = "webdav" /\ (item.discontinuity \/ item = BreakItem)
       THEN BridgeEnds /\ UNCHANGED portHost
       ELSE /\ IF item = BreakItem THEN UNCHANGED portHost ELSE PassOn(item)
            /\ UNCHANGED bridge
  /\ UNCHANGED <<port, portPeer>>

\* The queue is empty and its sender is gone.
InboundClosed ==
  /\ Bridging /\ inbound = <<>> /\ ~PortUp
  /\ BridgeEnds
  /\ UNCHANGED <<port, inbound, portPeer, portHost>>

\* send_port_command of the helper, or bytes of the HTTP response.
AskWrite ==
  /\ bridge.up /\ portHost.asked < MaxPortWrites
  /\ portHost' = [portHost EXCEPT !.asked = @ + 1]
  /\ bridge' = [bridge EXCEPT !.commands = IF @ < BridgeCapacity THEN @ + 1 ELSE @]
  /\ UNCHANGED <<port, inbound, portPeer>>

\* PortChannel::write and send_break: refused on the published state, else
\* queued for the owner, whose completion is awaited.
CallPort ==
  /\ Bridging /\ bridge.commands > 0
  /\ bridge' = [bridge EXCEPT !.commands = @ - 1,
                  !.call = IF port.shown = "Open" /\ PortUp THEN "waiting" ELSE "failed"]
  /\ UNCHANGED <<port, inbound, portPeer, portHost>>

\* The generic bridge reports a refused call and goes on, WebDAV ends.
CallPortReturns ==
  /\ bridge.call \in {"done", "failed"}
  /\ bridge' = [bridge EXCEPT !.call = "none",
                  !.up = ~(bridge.kind = "webdav" /\ bridge.call = "failed")]
  /\ UNCHANGED <<port, inbound, portPeer, portHost>>

PortNext ==
  \/ \E opened \in BOOLEAN : PortInitMessage(opened)
  \/ \E event \in {"Opened", "Closed", "Break"} : PortEventMessage(event)
  \/ PortData \/ TakePortCommand \/ PortCancelled \/ PortMoves
  \/ StartBridge \/ WebDavWaits \/ PollState \/ TakeInbound \/ InboundClosed
  \/ AskWrite \/ CallPort \/ CallPortReturns

\* The owner takes queued commands, and the bridge's select is unbiased: a timer
\* that ticks again and again, or an item that stays queued, is served.
PortFairness ==
  /\ WF_portVars(TakePortCommand) /\ WF_portVars(CallPortReturns)
  /\ SF_portVars(PollState) /\ SF_portVars(TakeInbound) /\ WF_portVars(InboundClosed)
-----------------------------------------------------------------------------
(* Properties. *)

\* The type invariant of a Port owner and of the task that consumes it.
PortTypeOK ==
  /\ port.up \in {"running", "done", "failed"}
  /\ port.shown \in {"AwaitingInit", "Open", "Shut", "Closed"}
  /\ Len(inbound) <= InboundCapacity /\ bridge.commands <= BridgeCapacity
  /\ bridge.call \in {"none", "waiting", "done", "failed"}
  /\ portPeer.chunk \in 0..MaxChunks + MaxPortMoves

\* Bytes are never joined across a gap: a chunk that does not follow the last
\* one the consumer passed on (dropped chunks, another server) carries the flag,
\* on which the WebDAV bridge ends.
JoinsFlagged == portHost.joined

\* The host process learns each state of the port that lasts, from the poll of
\* run_port_bridge, unless the bridge has ended.
HostLearnsState ==
  \A s \in {"AwaitingInit", "Open", "Shut"} :
    (port.shown = s /\ bridge.kind = "generic")
      ~> (portHost.state = s \/ port.shown # s \/ ~bridge.up)

\* A write or break is answered, even when the owner ends in between.
PortCallsReturn == bridge.call = "waiting" ~> bridge.call # "waiting"
=============================================================================
