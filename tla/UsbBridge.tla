----------------------------- MODULE UsbBridge ------------------------------
(***************************************************************************)
(* A usbredir owner (client usbredir.rs), the helper task that owns the    *)
(* redirection (helper usbredir.rs) and its blocking native worker.        *)
(*                                                                         *)
(* A chunk of bytes is the generation of the transport it came from.  The  *)
(* task stops the worker and starts another one when the generation        *)
(* changes; worker output is labelled with the worker's generation in a    *)
(* bounded queue the task drains, and the worker blocks while it is full.  *)
(***************************************************************************)
EXTENDS Naturals, Sequences

CONSTANTS
  UsbCapacity,     \* USBREDIR_QUEUE_CAPACITY
  NativeCapacity,  \* NATIVE_QUEUE_CAPACITY
  MaxUsbChunks,    \* bound: chunks of the servers
  MaxUsbOutputs,   \* bound: chunks of the workers
  MaxUsbMoves      \* bound: non-seamless activations

VARIABLES
  usb,        \* the owner: [up, observed, generation]
  usbInbound, \* its queue of chunks
  usbTask,    \* the helper task: [at, generation, chunk]
  worker,     \* [at, generation, commands, parsed]; parsed: the chunks it parsed
  native,     \* the worker's output queue
  usbPeer     \* [chunks, outputs, moves, taken]: bounds used up (moves also numbers
              \* the current transport), the transport of the chunk last taken

usbVars == <<usb, usbInbound, usbTask, worker, native, usbPeer>>

\* spawn_native_worker.
NewWorker(g) == [at |-> "opening", generation |-> g, commands |-> <<>>, parsed |-> {}]
WorkerFinished == worker.at \in {"ok", "error"}
\* A command sent to a finished worker is dropped.
Sent(w, command) == IF WorkerFinished THEN w ELSE [w EXCEPT !.commands = Append(@, command)]
Finished(how) == [worker EXCEPT !.at = how, !.commands = <<>>]
TaskAlive == usbTask.at \notin {"ended", "aborted"}
TaskAt(place) == [usbTask EXCEPT !.at = place]
-----------------------------------------------------------------------------
UsbInit ==
  /\ usb = [up |-> TRUE, observed |-> TRUE, generation |-> 0]
  /\ usbInbound = <<>>
  /\ usbTask = [at |-> "unstarted", generation |-> 0, chunk |-> 0]
  /\ worker = [NewWorker(0) EXCEPT !.at = "unstarted"]
  /\ native = <<>>
  /\ usbPeer = [chunks |-> 0, outputs |-> 0, moves |-> 0, taken |-> 0]

\* DATA or COMPRESSED_DATA: the first message of a new transport counts the
\* generation up; a full queue ends the owner, a closed one is ignored.
UsbData ==
  /\ usb.up /\ usbPeer.chunks < MaxUsbChunks
  /\ usbPeer' = [usbPeer EXCEPT !.chunks = @ + 1]
  /\ LET g    == IF usb.observed THEN usb.generation ELSE usb.generation + 1
         room == Len(usbInbound) < UsbCapacity
     IN  /\ usb' = [up |-> ~TaskAlive \/ room, observed |-> TRUE, generation |-> g]
         /\ usbInbound' = IF TaskAlive /\ room THEN Append(usbInbound, g) ELSE usbInbound
  /\ UNCHANGED <<usbTask, worker, native>>

\* The activation of a non-seamless replacement.
UsbMoves ==
  /\ usb.up /\ usb.observed /\ usbPeer.moves < MaxUsbMoves
  /\ usbPeer' = [usbPeer EXCEPT !.moves = @ + 1]
  /\ usb' = [usb EXCEPT !.observed = FALSE]
  /\ UNCHANGED <<usbInbound, usbTask, worker, native>>

\* Cancellation, or a failed transport.
UsbEnds ==
  /\ usb.up
  /\ usb' = [usb EXCEPT !.up = FALSE]
  /\ UNCHANGED <<usbInbound, usbTask, worker, native, usbPeer>>

\* The owner's command arm answers a write; its end fails the write.
UsbWrites ==
  /\ usbTask.at = "writing"
  /\ usbTask' = TaskAt(IF usb.up THEN "selecting" ELSE "closing")
  /\ worker' = IF usb.up THEN worker ELSE Sent(worker, <<"Stop">>)
  /\ UNCHANGED <<usb, usbInbound, native, usbPeer>>
-----------------------------------------------------------------------------
(* run_usb_redirection. *)

\* The host asks for the redirection of a device.
StartUsb ==
  /\ usbTask.at = "unstarted"
  /\ usbTask' = TaskAt("selecting")
  /\ worker' = NewWorker(0)
  /\ UNCHANGED <<usb, usbInbound, native, usbPeer>>

TakeChunkUnlabelled ==
  /\ usbTask.at = "selecting" /\ usbInbound # <<>>
  /\ usbInbound' = Tail(usbInbound)
  /\ usbTask' = [usbTask EXCEPT !.at = "feeding", !.chunk = Head(usbInbound)]
  /\ usbPeer' = [usbPeer EXCEPT !.taken = Head(usbInbound)]
  /\ UNCHANGED <<usb, worker, native>>

\* channel.next(): a chunk of another generation stops the worker first.
TakeChunk ==
  /\ usbTask.at = "selecting" /\ usbInbound # <<>>
  /\ usbInbound' = Tail(usbInbound)
  /\ LET same == Head(usbInbound) = usbTask.generation IN
       /\ usbTask' = [usbTask EXCEPT !.at = IF same THEN "feeding" ELSE "stopping",
                                     !.chunk = Head(usbInbound)]
       /\ worker' = IF same THEN worker ELSE Sent(worker, <<"Stop">>)
  /\ usbPeer' = [usbPeer EXCEPT !.taken = Head(usbInbound)]
  /\ UNCHANGED <<usb, native>>

\* stop_native_worker returned: its error ends the task, else a new worker starts.
WorkerStopped ==
  /\ usbTask.at = "stopping" /\ WorkerFinished
  /\ IF worker.at = "error"
     THEN usbTask' = TaskAt("ended") /\ UNCHANGED worker
     ELSE /\ usbTask' = [usbTask EXCEPT !.at = "feeding", !.generation = usbTask.chunk]
          /\ worker' = NewWorker(usbTask.chunk)
  /\ UNCHANGED <<usb, usbInbound, native, usbPeer>>

\* The chunk goes to the worker, unless its command receiver is gone.
FeedWorker ==
  /\ usbTask.at = "feeding"
  /\ usbTask' = TaskAt(IF WorkerFinished THEN "closing" ELSE "selecting")
  /\ worker' = Sent(worker, <<"PeerBytes", usbTask.chunk>>)
  /\ UNCHANGED <<usb, usbInbound, native, usbPeer>>

\* Mutant: the label of the output is not looked at.
TakeAnyOutput ==
  /\ usbTask.at = "selecting" /\ native # <<>>
  /\ native' = Tail(native)
  /\ usbTask' = [usbTask EXCEPT !.at = "writing", !.chunk = Head(native)]
  /\ UNCHANGED <<usb, usbInbound, worker, usbPeer>>

\* outgoing_bytes.recv(): output of an earlier worker is skipped.
TakeOutput ==
  /\ usbTask.at = "selecting" /\ native # <<>>
  /\ native' = Tail(native)
  /\ usbTask' = IF Head(native) = usbTask.generation
                THEN [usbTask EXCEPT !.at = "writing", !.chunk = Head(native)]
                ELSE usbTask
  /\ UNCHANGED <<usb, usbInbound, worker, usbPeer>>

\* The worker returned, or the channel is closed and drained.
LeaveLoop ==
  /\ usbTask.at = "selecting"
  /\ WorkerFinished \/ (usbInbound = <<>> /\ ~usb.up)
  /\ usbTask' = TaskAt("closing")
  /\ worker' = Sent(worker, <<"Stop">>)
  /\ UNCHANGED <<usb, usbInbound, native, usbPeer>>

\* worker.await, and the return of the task.
UsbTaskEnds ==
  /\ usbTask.at = "closing" /\ WorkerFinished
  /\ usbTask' = TaskAt("ended")
  /\ UNCHANGED <<usb, usbInbound, worker, native, usbPeer>>

AbortDetached ==
  /\ TaskAlive /\ usbTask.at # "unstarted"
  /\ usbTask' = TaskAt("aborted")
  /\ usbInbound' = <<>> /\ native' = <<>>
  /\ UNCHANGED <<usb, worker, usbPeer>>

\* The helper aborts its integrations when the session ends.  Both queues and
\* the command sender are dropped; the worker sees the sender gone after the
\* commands still queued.
AbortUsbTask ==
  /\ TaskAlive /\ usbTask.at # "unstarted"
  /\ usbTask' = TaskAt("aborted")
  /\ usbInbound' = <<>> /\ native' = <<>>
  /\ worker' = Sent(worker, <<"Stop">>)
  /\ UNCHANGED <<usb, usbPeer>>
-----------------------------------------------------------------------------
(* run_native_worker, a thread of its own. *)

\* The device is looked up, opened and handed to usbredirhost.
WorkerOpens ==
  /\ worker.at = "opening"
  /\ \E found \in BOOLEAN :
       worker' = IF found THEN [worker EXCEPT !.at = "running"] ELSE Finished("error")
  /\ UNCHANGED <<usb, usbInbound, usbTask, native, usbPeer>>

\* One command: bytes are parsed, Stop ends the worker.
WorkerStep ==
  /\ worker.at = "running" /\ worker.commands # <<>>
  /\ worker' = IF Head(worker.commands)[1] = "Stop" THEN Finished("ok")
               ELSE [worker EXCEPT !.parsed = @ \cup {Head(worker.commands)[2]},
                                   !.commands = Tail(@)]
  /\ UNCHANGED <<usb, usbInbound, usbTask, native, usbPeer>>

\* read_peer or handle_events failed.
WorkerFails ==
  /\ worker.at = "running"
  /\ worker' = Finished("error")
  /\ UNCHANGED <<usb, usbInbound, usbTask, native, usbPeer>>

\* The device has data to write.
WorkerHasOutput ==
  /\ worker.at = "running" /\ usbPeer.outputs < MaxUsbOutputs
  /\ worker' = [worker EXCEPT !.at = "writing"]
  /\ usbPeer' = [usbPeer EXCEPT !.outputs = @ + 1]
  /\ UNCHANGED <<usb, usbInbound, usbTask, native>>

\* NativeHandler::write blocks while the queue is full and fails once it is closed.
WorkerWrites ==
  /\ worker.at = "writing"
  /\ IF TaskAlive
     THEN /\ Len(native) < NativeCapacity
          /\ native' = Append(native, worker.generation)
          /\ worker' = [worker EXCEPT !.at = "running"]
     ELSE worker' = Finished("error") /\ UNCHANGED native
  /\ UNCHANGED <<usb, usbInbound, usbTask, usbPeer>>
-----------------------------------------------------------------------------
UsbNext ==
  \/ UsbData \/ UsbMoves \/ UsbEnds \/ UsbWrites
  \/ StartUsb \/ TakeChunk \/ WorkerStopped \/ FeedWorker \/ TakeOutput \/ LeaveLoop
  \/ UsbTaskEnds \/ AbortUsbTask
  \/ WorkerOpens \/ WorkerStep \/ WorkerFails \/ WorkerHasOutput \/ WorkerWrites

\* Woken tasks are polled; the worker is a thread that polls its commands.
UsbFairness ==
  /\ WF_usbVars(TakeChunk \/ TakeOutput \/ LeaveLoop)
  /\ WF_usbVars(UsbWrites)
  /\ WF_usbVars(WorkerStopped \/ FeedWorker \/ UsbTaskEnds)
  /\ WF_usbVars(WorkerOpens \/ WorkerStep)
  /\ WF_usbVars(WorkerWrites)
-----------------------------------------------------------------------------
\* Every variable has its type and the queues keep their capacity.
UsbTypeOK ==
  /\ usb.up \in BOOLEAN /\ usb.observed \in BOOLEAN /\ usb.generation \in 0 .. MaxUsbMoves
  /\ Len(usbInbound) <= UsbCapacity /\ Len(native) <= NativeCapacity
  /\ usbTask.at \in {"unstarted", "selecting", "feeding", "stopping", "writing", "closing", "ended", "aborted"}
  /\ worker.at \in {"unstarted", "opening", "running", "writing", "ok", "error"}

\* A native parser is never fed bytes of two servers, and the task writes only
\* the output of the worker that serves the transport whose bytes it took last
\* (the labels of docs/protocol-design.md).  Between the activation of another
\* transport and its first chunk that is still the old worker: see
\* OutputForItsServer.
NoServersJoined ==
  /\ worker.parsed \subseteq {worker.generation}
  /\ usbTask.at = "writing" =>
       usbTask.chunk = worker.generation /\ worker.generation = usbPeer.taken

\* What the labels do not give: a worker's output is written to the transport
\* it was made for.  It fails, since the task learns of another transport only
\* from its first chunk, and the owner writes to whatever transport it has.
OutputForItsServer ==
  usbTask.at = "writing" => usbTask.chunk = usbPeer.moves

\* run_usb_redirection deadlocks: it awaits the worker, which is blocked on the
\* full output queue that only the waiting task drains.
StopDeadlocked ==
  /\ usbTask.at \in {"stopping", "closing"}
  /\ worker.at = "writing" /\ Len(native) = NativeCapacity

\* Waiting for a stopped worker ends, or is that deadlock; nothing but the
\* abort of the task ends the deadlock.
StopReturnsOrDeadlocks ==
  /\ usbTask.at \in {"stopping", "closing"} ~>
       (usbTask.at \notin {"stopping", "closing"} \/ StopDeadlocked)
  /\ [][StopDeadlocked => StopDeadlocked' \/ usbTask'.at = "aborted"]_usbVars

\* A worker never outlives the abort of its task: the blocked write fails and
\* the dropped command sender ends its loop.
AbortReapsWorker == usbTask.at = "aborted" ~> WorkerFinished
=============================================================================
