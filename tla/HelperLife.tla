----------------------------- MODULE HelperLife -----------------------------
(***************************************************************************)
(* The life of the helper process (helper stdio.rs and runtime.rs): the    *)
(* stdin reader thread, the request queue, run_helper with the tasks it    *)
(* starts, and the event writer.  The host is what the reader reads and    *)
(* what it has received; the session is Running until its supervisor ends. *)
(*                                                                         *)
(* Requests are abstracted to what run_helper tells apart: "connect",      *)
(* "close", "start" (a file transfer, a native integration or a clipboard  *)
(* request: a task of its own), "await" (a request whose handler waits for *)
(* room in a channel owner's queue) and "refused" (answered by an error).  *)
(***************************************************************************)
EXTENDS EventWriter

CONSTANTS
  RequestCapacity,   \* REQUEST_QUEUE_CAPACITY
  TaskIds,           \* file transfer ids and native channel ids
  MaxTasks,          \* MAX_HELPER_FILE_TRANSFERS, MAX_NATIVE_INTEGRATION_TASKS
  MaxRequests,       \* bound on the requests the host sends
  MaxEvents          \* bound on the events of tasks and of the session

ASSUME LifeAssumption ==
  {RequestCapacity, MaxTasks, MaxRequests, MaxEvents} \subseteq Nat

VARIABLES
  reader,      \* "hello", "ack" (waiting for the receipt), "requests", "done"
  receipt,     \* the barrier's receipt: "none", "written", "lost"
  requests,    \* the request queue
  sent,        \* requests read so far
  stage,       \* where run_helper is
  outbox,      \* events run_helper is about to send, in order
  tasks,       \* per id: "none", "running", "finished" (not joined yet)
  session,     \* "none", "running", "failed", "closed", "down" (joined)
  drive,       \* the error of drive_session
  shutdown,    \* first_error of shutdown_session
  events,      \* events sent by tasks and for the session
  refused,     \* run_helper has had an event refused
  host         \* what the host knows: the acknowledgement and the last status

lifeVars ==
  <<reader, receipt, requests, sent, stage, outbox, tasks, session, drive, shutdown,
    events, refused, host, writerVars>>

Requests == {"connect", "close", "start", "await", "refused"}

Status(s) == [kind |-> "status", status |-> s]
Failed(cause) == [kind |-> "status", status |-> "failed", cause |-> cause]
ErrorEvent == [kind |-> "error"]
TaskEvent == [kind |-> "task"]
SessionEvent == [kind |-> "session"]

LifeInit ==
  /\ WriterInit
  /\ reader = "hello" /\ receipt = "none"
  /\ requests = <<>> /\ sent = 0
  /\ stage = "first" /\ outbox = <<>>
  /\ tasks = [t \in TaskIds |-> "none"]
  /\ session = "none"
  /\ drive = "none" /\ shutdown = "none"
  /\ events = 0 /\ refused = FALSE
  /\ host = [ack |-> FALSE, status |-> Status("none")]

-----------------------------------------------------------------------------
\* read_stdin_requests, a thread that ends with the process.

\* send_control where the sender ignores a refusal.
SendIgnored(event) ==
  \/ SendControl(event)
  \/ ~HasRoom /\ UNCHANGED writerVars

ReadHello ==
  /\ reader = "hello"
  /\ \/ reader' = "done" /\ (SendIgnored(ErrorEvent) \/ UNCHANGED writerVars)
     \/ /\ SendBarrier([kind |-> "ack"])
        /\ reader' = "ack"
  /\ UNCHANGED <<receipt, requests, sent, stage, outbox, tasks, session, drive, shutdown,
                 events, refused, host>>

\* The acknowledgement is flushed; an incompatible peer is read no further.
AckReceived ==
  /\ reader = "ack" /\ receipt # "none"
  /\ reader' \in IF receipt = "written" THEN {"requests", "done"} ELSE {"done"}
  /\ UNCHANGED <<receipt, requests, sent, stage, outbox, tasks, session, drive, shutdown,
                 events, refused, host, writerVars>>

\* read_request and blocking_send: it waits for room, and ends when run_helper has
\* dropped the queue.
ReadRequest ==
  /\ reader = "requests" /\ sent < MaxRequests
  /\ stage \in {"finishing", "joining"} \/ Len(requests) < RequestCapacity
  /\ \E r \in Requests :
       /\ reader' = IF r = "close" \/ stage \in {"finishing", "joining"}
                    THEN "done" ELSE "requests"
       /\ requests' = IF stage \in {"finishing", "joining"}
                      THEN requests ELSE Append(requests, r)
  /\ sent' = sent + 1
  /\ UNCHANGED <<receipt, stage, outbox, tasks, session, drive, shutdown, events,
                 refused, host, writerVars>>

\* End of file, or a message that cannot be decoded.
ReadEnds ==
  /\ reader = "requests"
  /\ reader' = "done"
  /\ SendIgnored(ErrorEvent) \/ UNCHANGED writerVars
  /\ UNCHANGED <<receipt, requests, sent, stage, outbox, tasks, session, drive, shutdown,
                 events, refused, host>>

-----------------------------------------------------------------------------
\* run_helper.  An event it sends goes through the outbox, one send a step.

\* Mutant of EndDrive: `disconnected` is announced at once.
EndDriveQuietly(error) ==
  /\ drive' = error
  /\ stage' = "closing"
  /\ outbox' = <<Status("disconnected")>>

EndDrive(error) ==
  /\ drive' = error
  /\ stage' = "closing"
  /\ outbox' = <<Status("closing")>>

SendNext ==
  /\ outbox # <<>>
  /\ SendControl(Head(outbox))
  /\ outbox' = Tail(outbox)
  /\ UNCHANGED <<reader, receipt, requests, sent, stage, tasks, session, drive, shutdown,
                 events, refused, host>>

\* A refused event ends drive_session and run_helper, and is noted by shutdown_session.
SendRefused ==
  /\ outbox # <<>> /\ ~HasRoom
  /\ refused' = TRUE
  /\ \/ /\ stage \in {"connecting", "reporting"}
        /\ stage' = "finishing" /\ outbox' = <<>>
        /\ UNCHANGED <<drive, shutdown>>
     \/ /\ stage \in {"driving", "awaiting", "ending"}
        /\ EndDrive("ipc")
        /\ UNCHANGED shutdown
     \/ /\ stage \in {"closing", "stopping"}
        /\ shutdown' = IF shutdown = "none" THEN "ipc" ELSE shutdown
        /\ outbox' = Tail(outbox)
        /\ UNCHANGED <<stage, drive>>
  /\ UNCHANGED <<reader, receipt, requests, sent, tasks, session, events, host, writerVars>>

\* The first request: anything but Connect ends the helper.
FirstRequest ==
  /\ stage = "first"
  /\ \/ /\ requests # <<>>
        /\ requests' = Tail(requests)
        /\ \/ /\ Head(requests) = "connect"
              /\ stage' = "connecting" /\ outbox' = <<Status("connecting")>>
           \/ Head(requests) = "close" /\ stage' = "finishing" /\ outbox' = <<>>
           \/ /\ Head(requests) \notin {"connect", "close"}
              /\ stage' = "reporting" /\ outbox' = <<ErrorEvent>>
     \/ /\ requests = <<>> /\ reader = "done"
        /\ stage' = "finishing"
        /\ UNCHANGED <<requests, outbox>>
  /\ UNCHANGED <<reader, receipt, sent, tasks, session, drive, shutdown, events, refused,
                 host, writerVars>>

\* build_connect_options and Session::connect, which fails or returns within its
\* timeouts; take_session_resources and the first events of drive_session.
Connect ==
  /\ stage = "connecting" /\ outbox = <<>>
  /\ \/ /\ stage' = "reporting" /\ outbox' = <<ErrorEvent, Failed("client")>>
        /\ UNCHANGED session
     \/ /\ stage' = "driving" /\ session' = "running"
        /\ outbox' = <<SessionEvent, Status("connected")>>
  /\ UNCHANGED <<reader, receipt, requests, sent, tasks, drive, shutdown, events, refused,
                 host, writerVars>>

Driving == stage = "driving" /\ outbox = <<>>

Active == {t \in TaskIds : tasks[t] # "none"}

\* Starting a task: the limit, then the id, as start_file_transfer and the native
\* integrations check them.
StartTask(t) ==
  IF Cardinality(Active) < MaxTasks /\ tasks[t] = "none"
  THEN tasks' = [tasks EXCEPT ![t] = "running"] /\ UNCHANGED outbox
  ELSE outbox' = <<ErrorEvent>> /\ UNCHANGED tasks

\* requests.recv() and handle_request.
HandleRequest ==
  /\ Driving /\ requests # <<>>
  /\ requests' = Tail(requests)
  /\ \/ /\ Head(requests) = "close"
        /\ EndDrive("none")
        /\ UNCHANGED tasks
     \/ /\ Head(requests) = "start"
        /\ \E t \in TaskIds : StartTask(t)
        /\ UNCHANGED <<stage, drive>>
     \/ /\ Head(requests) = "await"
        /\ stage' = "awaiting"
        /\ UNCHANGED <<outbox, drive, tasks>>
     \/ /\ Head(requests) \in {"connect", "refused"}
        /\ outbox' = <<ErrorEvent>>
        /\ UNCHANGED <<stage, drive, tasks>>
  /\ UNCHANGED <<reader, receipt, sent, session, shutdown, events, refused, host,
                 writerVars>>

\* The owner has taken the command, which may be only when the guest returns
\* tokens or the server reads, or its queue is closed: an error event.
HandlerReturns ==
  /\ stage = "awaiting" /\ outbox = <<>>
  /\ stage' = "driving"
  /\ outbox' \in {<<>>} \cup (IF session = "running" THEN {} ELSE {<<ErrorEvent>>})
  /\ UNCHANGED <<reader, receipt, requests, sent, tasks, session, drive, shutdown, events,
                 refused, host, writerVars>>

\* Mutant of InputEnds: a closed request queue is only noticed when the session ends.
InputEndsIgnored ==
  /\ Driving /\ requests = <<>> /\ reader = "done" /\ session # "running"
  /\ EndDrive("none")
  /\ UNCHANGED <<reader, receipt, requests, sent, tasks, session, shutdown, events,
                 refused, host, writerVars>>

InputEnds ==
  /\ Driving /\ requests = <<>> /\ reader = "done"
  /\ EndDrive("none")
  /\ UNCHANGED <<reader, receipt, requests, sent, tasks, session, shutdown, events,
                 refused, host, writerVars>>

\* The branches that publish what the session offers: frames, the cursor, topology,
\* the Agent, playback, input state.
PublishSessionEvent ==
  /\ Driving /\ session = "running" /\ events < MaxEvents
  /\ events' = events + 1
  /\ outbox' = <<SessionEvent>>
  /\ UNCHANGED <<reader, receipt, requests, sent, stage, tasks, session, drive, shutdown,
                 refused, host, writerVars>>

\* A session that has ended is noticed by next_frame, which reports the cancellation
\* of the supervisor's Closing state or, of a failed one, an error to the host; by a
\* closed receiver of the inputs or the Agent, a HostApi error; or by one of the
\* cursor, the topology or playback, Client(TaskTerminated).
NoticeSessionEnd ==
  /\ Driving /\ session \in {"failed", "closed"}
  /\ \/ \E error \in {"none", "hostApi", "terminated"} : EndDrive(error)
     \/ session = "failed" /\ stage' = "ending" /\ outbox' = <<ErrorEvent>> /\ UNCHANGED drive
  /\ UNCHANGED <<reader, receipt, requests, sent, tasks, session, shutdown, events,
                 refused, host, writerVars>>

\* The error of next_frame is sent: break.
BreakOnFrame ==
  /\ stage = "ending" /\ outbox = <<>>
  /\ EndDrive("none")
  /\ UNCHANGED <<reader, receipt, requests, sent, tasks, session, shutdown, events,
                 refused, host, writerVars>>

\* join_next of the task sets; a failed integration is reported.
JoinTask(t) ==
  /\ Driving /\ tasks[t] = "finished"
  /\ tasks' = [tasks EXCEPT ![t] = "none"]
  /\ outbox' \in {<<>>, <<ErrorEvent>>}
  /\ UNCHANGED <<reader, receipt, requests, sent, stage, session, drive, shutdown, events,
                 refused, host, writerVars>>

AbortTasks ==
  /\ stage = "closing" /\ outbox = <<>>
  /\ stage' = "aborting"
  /\ UNCHANGED <<reader, receipt, requests, sent, outbox, tasks, session, drive, shutdown,
                 events, refused, host, writerVars>>

\* Every task is joined; Session::shutdown joins the supervisor and returns its error.
StopSession ==
  /\ stage = "aborting" /\ Active = {}
  /\ stage' = "stopping"
  /\ session' = "down"
  /\ shutdown' = IF session = "failed" /\ shutdown = "none" THEN "client" ELSE shutdown
  /\ outbox' = <<Status("disconnected")>>
  /\ UNCHANGED <<reader, receipt, requests, sent, tasks, drive, events, refused, host,
                 writerVars>>

\* Mutant of SessionResult: the error of drive_session always wins.
SessionResultOfDrive == IF drive # "none" THEN drive ELSE shutdown

\* session_result: the supervisor's failure explains a closed receiver, if that
\* was a HostApi error.
SessionResult ==
  IF drive = "hostApi" /\ shutdown = "client" THEN "client"
  ELSE IF drive # "none" THEN drive ELSE shutdown

ReportResult ==
  /\ stage = "stopping" /\ outbox = <<>>
  /\ IF SessionResult = "none"
     THEN stage' = "finishing" /\ UNCHANGED outbox
     ELSE stage' = "reporting" /\ outbox' = <<ErrorEvent, Failed(SessionResult)>>
  /\ UNCHANGED <<reader, receipt, requests, sent, tasks, session, drive, shutdown, events,
                 refused, host, writerVars>>

\* EventWriter::finish closes the queue, then joins the writer thread.
Finish ==
  /\ \/ stage = "reporting" /\ outbox = <<>>
     \/ stage = "finishing"
  /\ CloseQueue
  /\ stage' = "joining"
  /\ UNCHANGED <<reader, receipt, requests, sent, outbox, tasks, session, drive, shutdown,
                 events, refused, host>>

Exit ==
  /\ stage = "joining" /\ writer # "running"
  /\ stage' = "exited"
  /\ UNCHANGED <<reader, receipt, requests, sent, outbox, tasks, session, drive, shutdown,
                 events, refused, host, writerVars>>

-----------------------------------------------------------------------------
\* Tasks, the session, the writer.

\* run_file_transfer, run_port_bridge, the discovery and clipboard tasks: an aborted
\* task still runs to its next await.
TaskSends(t) ==
  /\ tasks[t] = "running" /\ events < MaxEvents
  /\ events' = events + 1
  /\ SendIgnored(TaskEvent)
  /\ UNCHANGED <<reader, receipt, requests, sent, stage, outbox, tasks, session, drive,
                 shutdown, refused, host>>

\* A task returns; while tasks are aborted, shutdown_session joins it.
TaskEnds(t) ==
  /\ tasks[t] # "none"
  /\ tasks[t] = "running" \/ stage = "aborting"
  /\ tasks' = [tasks EXCEPT ![t] = IF stage = "aborting" THEN "none" ELSE "finished"]
  /\ UNCHANGED <<reader, receipt, requests, sent, stage, outbox, session, drive, shutdown,
                 events, refused, host, writerVars>>

SessionEnds ==
  /\ session = "running"
  /\ session' \in {"failed", "closed"}
  /\ UNCHANGED <<reader, receipt, requests, sent, stage, outbox, tasks, drive, shutdown,
                 events, refused, host, writerVars>>

\* The receipt of a barrier follows its flush.
WriteEvent ==
  /\ WriteNext
  /\ host' = [ack |-> host.ack \/ Head(queue).event.kind = "ack",
              status |-> IF Head(queue).event.kind = "status" THEN Head(queue).event
                         ELSE host.status]
  /\ receipt' = IF Head(queue).receipt THEN "written" ELSE receipt
  /\ UNCHANGED <<reader, requests, sent, stage, outbox, tasks, session, drive, shutdown,
                 events, refused>>

WriteEventFails ==
  /\ WriteFails
  /\ receipt' = IF Head(queue).receipt THEN "lost" ELSE receipt
  /\ UNCHANGED <<reader, requests, sent, stage, outbox, tasks, session, drive, shutdown,
                 events, refused, host>>

WriterReturns ==
  /\ WriterEnds
  /\ UNCHANGED <<reader, receipt, requests, sent, stage, outbox, tasks, session, drive,
                 shutdown, events, refused, host>>

HelperTask ==
  \/ SendNext \/ SendRefused \/ FirstRequest \/ Connect \/ HandleRequest
  \/ InputEnds \/ NoticeSessionEnd \/ BreakOnFrame \/ AbortTasks \/ StopSession
  \/ ReportResult \/ Finish \/ Exit

LifeNext ==
  /\ stage # "exited"
  /\ \/ ReadHello \/ AckReceived \/ ReadRequest \/ ReadEnds
     \/ HelperTask \/ HandlerReturns \/ PublishSessionEvent
     \/ \E t \in TaskIds : JoinTask(t) \/ TaskSends(t) \/ TaskEnds(t)
     \/ SessionEnds
     \/ WriteEvent \/ WriteEventFails \/ WriterReturns

\* run_helper's task is scheduled, a handler whose session has ended finds its queue
\* closed, aborted tasks end at an await, and the host reads its pipe.  A handler that
\* waits for a running session need not return.
LifeFairness ==
  /\ WF_lifeVars(stage # "exited" /\ HelperTask)
  /\ WF_lifeVars(session # "running" /\ HandlerReturns)
  /\ WF_lifeVars(stage # "exited" /\ (WriteEvent \/ WriterReturns))
  /\ WF_lifeVars(stage # "exited" /\ AckReceived)
  /\ \A t \in TaskIds : WF_lifeVars(stage = "aborting" /\ TaskEnds(t))

LifeSpec == LifeInit /\ [][LifeNext]_lifeVars /\ LifeFairness

-----------------------------------------------------------------------------

Rank(event) == CHOOSE n \in 0 .. 5 :
  event.status = <<"none", "connecting", "connected", "closing", "disconnected",
                   "failed">>[n + 1]

\* The status the host knows, and the positions of those it will be told, in order.
StatusesQueued == {i \in DOMAIN queue : queue[i].event.kind = "status"}

\* Types; every queue stays within its capacity and every task set within its limit.
LifeTypeOK ==
  /\ reader \in {"hello", "ack", "requests", "done"}
  /\ stage \in {"first", "connecting", "driving", "awaiting", "ending", "closing", "aborting",
                "stopping", "reporting", "finishing", "joining", "exited"}
  /\ session \in {"none", "running", "failed", "closed", "down"}
  /\ drive \in {"none", "ipc", "hostApi", "terminated"} /\ shutdown \in {"none", "ipc", "client"}
  /\ Len(queue) <= Capacity /\ Len(requests) <= RequestCapacity
  /\ Cardinality(Active) <= MaxTasks

\* "The helper writes and flushes a `HelloAck` before its input reader is allowed to
\* read `Connect`" (docs/helper-ipc.md:9): no request is read, and no session is
\* started, while the host has not received the acknowledgement.
AckGatesRequests ==
  (sent > 0 \/ stage \notin {"first", "finishing", "joining", "exited"}) => host.ack

\* Whatever is refused, fails or ends first, the host is told the statuses in the order
\* connecting, connected, closing, disconnected, failed, each at most once.
StatusOrder ==
  \A j \in StatusesQueued :
    /\ Rank(host.status) < Rank(queue[j].event)
    /\ \A i \in StatusesQueued : i < j => Rank(queue[i].event) < Rank(queue[j].event)

\* After `disconnected` the host hears nothing of the session and of any task: the
\* tasks are joined first.  (The reader may still report undecodable input.)
QuietAfterDisconnected ==
  \A j \in DOMAIN queue :
    queue[j].event.kind \in {"task", "session"}
      => /\ Rank(host.status) < 4
         /\ \A i \in StatusesQueued : i < j => Rank(queue[i].event) < 4

\* "Prefer that failure over the resulting host API channel-closed error"
\* (runtime.rs:204): unless an event was refused or a write failed, the last status of
\* a session whose supervisor failed is `failed`, whatever noticed it first.  It names
\* the supervisor's error over that of a closed inputs or Agent receiver; the
\* TaskTerminated of a cursor, topology or playback receiver is kept instead.
FailureReported ==
  /\ stage = "exited" /\ shutdown = "client" /\ ~refused /\ writer = "ended"
  => host.status = Failed(IF drive = "terminated" THEN "terminated" ELSE "client")

\* A request handler gets its command into the owner's queue, or finds it closed.
HandlersReturn == stage = "awaiting" ~> stage # "awaiting"

\* "EOF or `Close` begins orderly shutdown" (docs/helper-ipc.md:12): once the reader has
\* ended, the process exits, whatever tasks, requests and events are pending, provided
\* that no handler waits for ever.  One may: input is not polled while handle_request
\* waits for room in the Agent's queue, which a guest that returns no tokens keeps full.
EndsAfterInput == HandlersReturn => (reader = "done" ~> stage = "exited")

(* What the host is told is true and in order: no request is taken before  *)
(* the handshake is acknowledged, statuses follow one another as           *)
(* documented, nothing follows the last one, and a failed session is       *)
(* reported as failed.                                                     *)
HostTold ==
  /\ LifeTypeOK /\ AckGatesRequests /\ StatusOrder
  /\ QuietAfterDisconnected /\ FailureReported
=============================================================================
