------------------------------- MODULE Inputs -------------------------------
(***************************************************************************)
(* The Inputs owner (inputs.rs) between an application that moves and      *)
(* clicks, the Main task that confirms the mouse mode, and a server that   *)
(* acknowledges pointer messages in bunches.                               *)
(*                                                                         *)
(* Ordered edges wait in a bounded queue.  An absolute position is a watch *)
(* slot holding the latest one, a relative motion is a mutex-guarded slot  *)
(* with a one-permit Notify.  A move is numbered by a stamp; a slot keeps  *)
(* the stamp of its newest move.  The owner's select arms are actions, and *)
(* a message of the server is handled in one step, writes included.  A     *)
(* migration replaces the transport while the owner waits in a read: the   *)
(* owner resets itself only at the first message of the new transport.     *)
(***************************************************************************)
EXTENDS Naturals, Sequences, FiniteSets

CONSTANTS
  EdgeCapacity,   \* INPUT_EDGE_QUEUE_CAPACITY
  AckBunch,       \* INPUT_MOTION_ACK_BUNCH
  MaxMoves,       \* bound: moves of the application
  MaxEdges,       \* bound: edges of the application
  MaxModes,       \* bound: mode changes confirmed by Main
  MaxSwitches     \* bound: transport activations

ASSUME InputsAssumption ==
  /\ {EdgeCapacity, AckBunch} \subseteq Nat \ {0}
  /\ {MaxMoves, MaxEdges, MaxModes, MaxSwitches} \subseteq Nat

VARIABLES
  mouse,      \* the confirmed mode: [mode, period, seen]; seen: the owner's changed() fired
  mover,      \* the application: [at, period, last, edges]; last = <<stamp, period>>
  slots,      \* [edges, position, fresh, motion, permit]
  inputs,     \* the owner: [up, init, inFlight, observed]
  pointed,    \* newest stamp written, or discarded by a mode change or a reset
  inputPeer   \* the server: [unacked, wire, switches, early]

inputsVars == <<mouse, mover, slots, inputs, pointed, inputPeer>>

Modes == {"Server", "Client"}
NoMove == <<0, 0>>
MaxInFlight == 2 * AckBunch
-----------------------------------------------------------------------------
InputsInit ==
  /\ mouse = [mode |-> "Server", period |-> 0, seen |-> TRUE]
  /\ mover = [at |-> "idle", period |-> 0, last |-> NoMove, edges |-> 0]
  /\ slots = [edges |-> <<>>, position |-> NoMove, fresh |-> FALSE,
              motion |-> NoMove, permit |-> FALSE]
  /\ inputs = [up |-> "linked", init |-> FALSE, inFlight |-> 0, observed |-> TRUE]
  /\ pointed = 0
  /\ inputPeer = [unacked |-> 0, wire |-> <<"INIT">>, switches |-> 0, early |-> 0]

(* The application; nothing it does matters once the owner is gone. *)

Running == inputs.up = "running"

NextStamp == mover.last[1] + 1

\* set_pointer_position: the mode test and the store are one synchronous call.
SetPointerPosition ==
  /\ Running /\ mover.at = "idle" /\ mover.last[1] < MaxMoves
  /\ mouse.mode = "Client"
  /\ LET move == <<NextStamp, mouse.period>> IN
       /\ slots' = [slots EXCEPT !.position = move, !.fresh = TRUE]
       /\ mover' = [mover EXCEPT !.last = move]
  /\ UNCHANGED <<mouse, inputs, pointed, inputPeer>>

\* move_pointer tests the mode, then awaits the slot's lock.
MovePointer ==
  /\ Running /\ mover.at = "idle" /\ mover.last[1] < MaxMoves
  /\ mouse.mode = "Server"
  /\ mover' = [mover EXCEPT !.at = "locking", !.period = mouse.period]
  /\ UNCHANGED <<mouse, slots, inputs, pointed, inputPeer>>

\* Adds to the pending motion under the lock, dropped before the notification.
StoreMotion ==
  /\ Running /\ mover.at = "locking"
  /\ LET move == <<NextStamp, mover.period>> IN
       /\ slots' = [slots EXCEPT !.motion = move]
       /\ mover' = [mover EXCEPT !.at = "notifying", !.last = move]
  /\ UNCHANGED <<mouse, inputs, pointed, inputPeer>>

NotifyMotion ==
  /\ Running /\ mover.at = "notifying"
  /\ slots' = [slots EXCEPT !.permit = TRUE]
  /\ mover' = [mover EXCEPT !.at = "idle"]
  /\ UNCHANGED <<mouse, inputs, pointed, inputPeer>>

\* send_edge waits for room (try_edge fails instead).  A button edge remembers
\* the last move the application made before it.
SendEdge(button) ==
  /\ Running /\ mover.at = "idle" /\ mover.edges < MaxEdges
  /\ Len(slots.edges) < EdgeCapacity
  /\ slots' = [slots EXCEPT !.edges =
       Append(@, [button |-> button, move |-> IF button THEN mover.last ELSE NoMove])]
  /\ mover' = [mover EXCEPT !.edges = @ + 1]
  /\ UNCHANGED <<mouse, inputs, pointed, inputPeer>>

\* Main publishes the other mode; the watch keeps only the latest.
ConfirmMode ==
  /\ Running /\ mouse.period < MaxModes
  /\ mouse' = [mode |-> CHOOSE m \in Modes : m # mouse.mode,
               period |-> mouse.period + 1, seen |-> FALSE]
  /\ UNCHANGED <<mover, slots, inputs, pointed, inputPeer>>
-----------------------------------------------------------------------------
(* The owner. *)

\* Mutant: the window lets one message too many through.
CanSendOneMore == inputs.inFlight <= MaxInFlight

CanSendRegularMotion == inputs.inFlight < MaxInFlight
AtLeast(n) == IF n > pointed THEN n ELSE pointed

\* The server counts a pointer message and acknowledges every bunch.
Acknowledging(p) ==
  IF p.unacked + 1 = AckBunch
  THEN [p EXCEPT !.unacked = 0, !.wire = Append(@, "ACK")]
  ELSE [p EXCEPT !.unacked = @ + 1]

\* A pointer message reaches the current transport; it is early when the owner
\* has not observed that this is a new one.
PeerTakesMotion ==
  inputPeer' = LET p == Acknowledging(inputPeer) IN
                 IF inputs.observed THEN p ELSE [p EXCEPT !.early = @ + 1]

\* send_latest_pointer, given the slots after the edge was taken.
SendLatestPointerOf(s) ==
  IF s.position = NoMove
  THEN /\ slots' = [s EXCEPT !.fresh = FALSE]
       /\ UNCHANGED <<inputs, pointed, inputPeer>>
  ELSE /\ slots' = [s EXCEPT !.fresh = FALSE]
       /\ pointed' = AtLeast(s.position[1])
       /\ inputs' = [inputs EXCEPT !.inFlight = @ + 1]
       /\ PeerTakesMotion

\* send_relative_motion.
SendRelativeMotionOf(s) ==
  IF s.motion = NoMove
  THEN slots' = s /\ UNCHANGED <<inputs, pointed, inputPeer>>
  ELSE /\ slots' = [s EXCEPT !.motion = NoMove]
       /\ pointed' = AtLeast(s.motion[1])
       /\ inputs' = [inputs EXCEPT !.inFlight = @ + 1]
       /\ PeerTakesMotion

TakeEdgeUnflushed ==
  /\ Running /\ inputs.init /\ slots.edges # <<>>
  /\ slots' = [slots EXCEPT !.edges = Tail(@)]
  /\ UNCHANGED <<mouse, mover, inputs, pointed, inputPeer>>

\* edges.recv(): a button edge first flushes the pointer slot of the confirmed
\* mode, whatever the window; then the edge is written.
TakeEdge ==
  /\ Running /\ inputs.init /\ slots.edges # <<>>
  /\ LET edge == Head(slots.edges)
         rest == [slots EXCEPT !.edges = Tail(@)]
     IN  IF edge.button /\ mouse.mode = "Client" /\ slots.fresh
         THEN SendLatestPointerOf(rest)
         ELSE IF edge.button /\ mouse.mode = "Server"
         THEN SendRelativeMotionOf(rest)
         ELSE slots' = rest /\ UNCHANGED <<inputs, pointed, inputPeer>>
  /\ UNCHANGED <<mouse, mover>>

\* mouse_mode.changed(): drops what the other mode left behind.
ObserveMode ==
  /\ Running /\ ~mouse.seen
  /\ mouse' = [mouse EXCEPT !.seen = TRUE]
  /\ IF mouse.mode = "Client"
     THEN /\ slots' = [slots EXCEPT !.motion = NoMove]
          /\ pointed' = AtLeast(slots.motion[1])
     ELSE /\ slots' = [slots EXCEPT !.fresh = FALSE]
          /\ pointed' = IF slots.fresh THEN AtLeast(slots.position[1]) ELSE pointed
  /\ UNCHANGED <<mover, inputs, inputPeer>>

\* pointer.changed() and notify.notified(), both behind the motion window.
SendPointer ==
  /\ Running /\ inputs.init /\ mouse.mode = "Client" /\ CanSendRegularMotion
  /\ slots.fresh
  /\ SendLatestPointerOf(slots)
  /\ UNCHANGED <<mouse, mover>>

SendMotion ==
  /\ Running /\ inputs.init /\ mouse.mode = "Server" /\ CanSendRegularMotion
  /\ slots.permit
  /\ SendRelativeMotionOf([slots EXCEPT !.permit = FALSE])
  /\ UNCHANGED <<mouse, mover>>

\* What the first message of a non-seamless transport resets.
ResetKeepingInit == [inputs EXCEPT !.observed = TRUE, !.inFlight = 0]
ResetKeepingWindow == [inputs EXCEPT !.observed = TRUE, !.init = FALSE]
ResetForTransport == [inputs EXCEPT !.observed = TRUE, !.init = FALSE, !.inFlight = 0]

\* What a message does to the owner: INIT once and first, ACK frees a bunch.
Handled(o, message) ==
  CASE message = "INIT" /\ ~o.init -> [o EXCEPT !.init = TRUE]
    [] message = "MODIFIERS" /\ o.init -> o
    [] message = "ACK" /\ o.init /\ o.inFlight >= AckBunch ->
         [o EXCEPT !.inFlight = @ - AckBunch]
    [] OTHER -> [o EXCEPT !.up = "failed"]

ReadInputsMessage ==
  /\ Running /\ inputPeer.wire # <<>>
  /\ inputs' = Handled(IF inputs.observed THEN inputs ELSE ResetForTransport,
                       Head(inputPeer.wire))
  /\ inputPeer' = [inputPeer EXCEPT !.wire = Tail(@)]
  /\ IF inputs.observed
     THEN UNCHANGED <<slots, pointed>>
     ELSE /\ slots' = [slots EXCEPT !.motion = NoMove]
          /\ pointed' = AtLeast(slots.motion[1])
  /\ UNCHANGED <<mouse, mover>>

\* A non-seamless activation: the pending read goes on with the new transport,
\* whose server starts afresh.  (A seamless one changes nothing here.)
SwitchInputsTransport ==
  /\ Running /\ inputPeer.switches < MaxSwitches
  /\ inputPeer' = [unacked |-> 0, wire |-> <<"INIT">>,
                   switches |-> inputPeer.switches + 1, early |-> 0]
  /\ inputs' = [inputs EXCEPT !.observed = FALSE]
  /\ UNCHANGED <<mouse, mover, slots, pointed>>

\* The server reports the guest's keyboard locks once it has sent Init.
ServerSendsModifiers ==
  /\ Running /\ inputPeer.wire = <<>> /\ inputs.observed
  /\ inputPeer' = [inputPeer EXCEPT !.wire = <<"MODIFIERS">>]
  /\ UNCHANGED <<mouse, mover, slots, inputs, pointed>>

\* The session spawns the owner of the linked channel.
StartInputs ==
  /\ inputs.up = "linked"
  /\ inputs' = [inputs EXCEPT !.up = "running"]
  /\ UNCHANGED <<mouse, mover, slots, pointed, inputPeer>>

\* Cancellation, a closed mode watch, or all the handles dropped.
InputsEnd ==
  /\ Running
  /\ inputs' = [inputs EXCEPT !.up = "done"]
  /\ UNCHANGED <<mouse, mover, slots, pointed, inputPeer>>

InputsNext ==
  \/ StartInputs
  \/ SetPointerPosition \/ MovePointer \/ StoreMotion \/ NotifyMotion
  \/ \E button \in BOOLEAN : SendEdge(button)
  \/ ConfirmMode
  \/ TakeEdge \/ ObserveMode \/ SendPointer \/ SendMotion
  \/ ReadInputsMessage \/ SwitchInputsTransport \/ ServerSendsModifiers \/ InputsEnd

\* The owner's select is unbiased, so an arm that stays ready is taken in the
\* end, and the application's move_pointer holds no lock across another await.
InputsFairness ==
  /\ WF_inputsVars(StoreMotion) /\ WF_inputsVars(NotifyMotion)
  /\ WF_inputsVars(ReadInputsMessage)
  /\ WF_inputsVars(SendMotion) /\ WF_inputsVars(SendPointer)
-----------------------------------------------------------------------------
(* Properties. *)

\* The type invariant of the Inputs owner's state and of the paths around it;
\* the edge queue keeps its capacity.
InputsTypeOK ==
  /\ mouse \in [mode : Modes, period : 0..MaxModes, seen : BOOLEAN]
  /\ mover.at \in {"idle", "locking", "notifying"}
  /\ Len(slots.edges) <= EdgeCapacity
  /\ {slots.motion, slots.position, mover.last} \subseteq
       (0..MaxMoves) \X (0..MaxModes)
  /\ inputs.up \in {"linked", "running", "done", "failed"}
  /\ inputs.inFlight \in Nat /\ pointed \in 0..MaxMoves
  /\ inputPeer.unacked \in 0..AckBunch - 1

\* A click never lands at an older coordinate: when run_inputs writes a button
\* edge, the last move the application made before it in the same mode period
\* has been written, or was discarded by a reset.
ClickAfterMove ==
  [][LET edge == Head(slots.edges) IN
       (/\ Len(slots'.edges) < Len(slots.edges)
        /\ edge.button /\ edge.move[2] = mouse.period)
         => pointed' >= edge.move[1]]_inputsVars

\* A server that sends Init first and acknowledges what it received never makes
\* run_inputs fail, except through pointer messages written to a new transport
\* before its first message was read: those are wiped from the motion window.
FailsOnlyFromEarlyMotion ==
  inputs.up = "failed" => inputPeer.early > 0

\* A pending pointer movement does not stay in its slot: it is written, or the
\* confirmed mode changes (no notification is lost, the window reopens).
PendingMotionMoves ==
  /\ (slots.motion # NoMove /\ mouse.mode = "Server")
       ~> (slots.motion = NoMove \/ mouse.mode # "Server" \/ ~Running)
  /\ (slots.fresh /\ mouse.mode = "Client")
       ~> (~slots.fresh \/ mouse.mode # "Client" \/ ~Running)

\* The pointer messages the server has received and the client has not seen
\* acknowledged.
Outstanding ==
  inputPeer.unacked + AckBunch * Cardinality({i \in DOMAIN inputPeer.wire : inputPeer.wire[i] = "ACK"})

\* docs/protocol-design.md:217: "Pointer messages stop at two protocol ACK
\* bunches in flight".  On a transport that got no early motion the window counts
\* exactly what is outstanding, and that exceeds two bunches by at most one
\* message for each edge written: a button flushes the pointer whatever the
\* window.
MotionWindowExact ==
  Running /\ inputs.observed /\ inputPeer.early = 0 =>
    /\ inputs.inFlight = Outstanding
    /\ Outstanding <= MaxInFlight + (mover.edges - Len(slots.edges))

(* The edge queue keeps its limit; the motion window counts what is        *)
(* outstanding and is exceeded only by the flush before a button; and a    *)
(* server that follows the protocol makes the owner fail only through      *)
(* pointer messages written to a new transport before its first message    *)
(* was read.                                                               *)
InputsAccepted ==
  InputsTypeOK /\ MotionWindowExact /\ FailsOnlyFromEarlyMotion
=============================================================================
