---------------------------- MODULE EventWriter ----------------------------
(***************************************************************************)
(* The helper's event queue and the thread that writes it to stdout        *)
(* (oxide-spice-helper/src/event_writer.rs).  The senders run in several   *)
(* tasks; every send is one critical section of the queue's mutex, so it   *)
(* is one step.  A module that extends this one adds the senders and says  *)
(* what the host does with an event when the writer has flushed it.        *)
(***************************************************************************)
EXTENDS Integers, Sequences, FiniteSets, FiniteSetsExt

CONSTANT Capacity      \* EVENT_QUEUE_CAPACITY

ASSUME CapacityAssumption == Capacity \in Nat \ {0}

VARIABLES
  queue,     \* EventQueue.events: records of an event and its receipt flag
  closed,    \* EventQueue.closed
  writer     \* "running", "ended" (returned Ok) or "failed" (a write failed)

writerVars == <<queue, closed, writer>>

WriterInit ==
  /\ queue = <<>>
  /\ closed = FALSE
  /\ writer = "running"

IsFrame(event) == event.kind = "frame"

\* replaces_frame: keys are connection, epoch, channel and surface.
ReplacesFrame(previous, incoming) ==
  incoming.full /\ previous.key = incoming.key

\* The search of send_frame: trailing frames only, so a control event is a barrier.
Superseded(event) ==
  {i \in DOMAIN queue :
     /\ \A j \in i .. Len(queue) : IsFrame(queue[j].event) /\ ~queue[j].receipt
     /\ ReplacesFrame(queue[i].event, event)}

HasRoom == ~closed /\ Len(queue) < Capacity

Enqueue(event, receipt) ==
  /\ HasRoom
  /\ queue' = Append(queue, [event |-> event, receipt |-> receipt])
  /\ UNCHANGED <<closed, writer>>

\* send_control, and the part of send_barrier before it waits for its receipt.
SendControl(event) == Enqueue(event, FALSE)
SendBarrier(event) == Enqueue(event, TRUE)

\* Mutant of SendFrame: the queued frame wins over the newer one.
SendFrameKeepsOld(event) ==
  IF Superseded(event) # {}
  THEN ~closed /\ UNCHANGED writerVars
  ELSE Enqueue(event, FALSE)

SendFrame(event) ==
  IF Superseded(event) # {}
  THEN /\ ~closed
       /\ queue' = [queue EXCEPT ![Max(Superseded(event))].event = event]
       /\ UNCHANGED <<closed, writer>>
  ELSE Enqueue(event, FALSE)

FrameRefused(event) == closed \/ (Superseded(event) = {} /\ ~HasRoom)

\* close(), called by finish().
CloseQueue ==
  /\ closed' = TRUE
  /\ UNCHANGED <<queue, writer>>

\* write_stdout_events: the thread takes an event and flushes it, which nothing else
\* can tell from one step, or fails.  A failed write ends the thread; the queue stays
\* open and keeps accepting.  A closed queue is drained first.
WriteNext ==
  /\ writer = "running" /\ queue # <<>>
  /\ queue' = Tail(queue)
  /\ UNCHANGED <<closed, writer>>

WriteFails ==
  /\ writer = "running" /\ queue # <<>>
  /\ queue' = Tail(queue)
  /\ writer' = "failed"
  /\ UNCHANGED closed

WriterEnds ==
  /\ writer = "running" /\ queue = <<>> /\ closed
  /\ writer' = "ended"
  /\ UNCHANGED <<queue, closed>>

=============================================================================
