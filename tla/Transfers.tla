----------------------------- MODULE Transfers -----------------------------
(***************************************************************************)
(* Outgoing file transfers, from the host's requests to the guest Agent:   *)
(* the helper's task per transfer (runtime.rs run_file_transfer), the      *)
(* handle it drives (client agent.rs OutgoingFileTransfer), the Agent      *)
(* runtime in the Main task that owns the transfers and sends one message  *)
(* at a time, and the guest (external).                                    *)
(*                                                                         *)
(* Bytes are counted, names and contents are left out.  A fragment of the  *)
(* Agent stream is a message.  The session outlives the transfers here.    *)
(***************************************************************************)
EXTENDS Integers, Sequences, FiniteSets, FiniteSetsExt

CONSTANTS
  Ids,              \* the host's transfer ids
  FileSizes,        \* the sizes of the files the host sends
  MaxTransfers,     \* MAX_HELPER_FILE_TRANSFERS
  CommandCapacity,  \* FILE_TRANSFER_COMMAND_QUEUE_CAPACITY
  MaxActive,        \* MAX_ACTIVE_FILE_TRANSFERS of the Agent
  AgentCapacity,    \* the Agent command queue
  MaxCommands,      \* bound on the host's commands
  MaxOthers,        \* bound on other Agent commands (clipboard, volume)
  MaxStreams        \* bound on the Agent streams

ASSUME TransferAssumption ==
  /\ FileSizes \subseteq Nat
  /\ {MaxTransfers, CommandCapacity, MaxActive, AgentCapacity, MaxCommands,
      MaxOthers, MaxStreams} \subseteq Nat

VARIABLES
  task,        \* where run_file_transfer is, per id
  listed,      \* ids in file_transfer_senders
  commands,    \* the transfer's command queue
  issued,      \* commands the host has sent
  handle,      \* OutgoingFileTransfer: declared size, generation, bytes accepted and being sent
  reply,       \* the oneshot a task waits for: "none", "ok", "err"
  told,        \* what the host was told: its terminal states and errors, counted
  agentQueue,  \* AgentCommands
  stream,      \* [generation, ready] of the Agent runtime
  outbound,    \* the message being sent, <<>> if none
  runtime,     \* TransferRuntime: phase ("none" when not in the map) and bytes
  watch,       \* the state watch of a transfer: its value, and whether it is unseen
  others,      \* other Agent commands sent so far
  lost,        \* ids whose CancelFile found the queue full when the handle dropped
  guest        \* what the guest got and said, per id

transferVars == <<task, listed, commands, issued, handle, reply, told, agentQueue, stream,
                  outbound, runtime, watch, others, lost, guest>>

Terminal == {"completed", "cancelled", "failed", "disconnected"}

Size(t) == handle[t].size

NoHandle == [size |-> 0, generation |-> 0, accepted |-> 0, chunk |-> 0]
NothingTold == [terminal |-> <<>>, errors |-> 0]
NoWatch == [value |-> "waiting", fresh |-> FALSE]
NoGuest == [started |-> FALSE, accepts |-> FALSE, bytes |-> 0, data |-> FALSE]
NoRuntime == [phase |-> "none", accepted |-> 0]

TransferInit ==
  /\ task = [t \in Ids |-> "none"]
  /\ listed = {}
  /\ commands = [t \in Ids |-> <<>>]
  /\ issued = 0
  /\ handle = [t \in Ids |-> NoHandle]
  /\ reply = [t \in Ids |-> "none"]
  /\ told = [t \in Ids |-> NothingTold]
  /\ agentQueue = <<>>
  /\ stream = [generation |-> 1, ready |-> TRUE]
  /\ outbound = <<>>
  /\ runtime = [t \in Ids |-> NoRuntime]
  /\ watch = [t \in Ids |-> NoWatch]
  /\ others = 0
  /\ lost = {}
  /\ guest = [t \in Ids |-> NoGuest]

agentVars == <<stream, outbound, runtime, others, guest>>

-----------------------------------------------------------------------------
\* handle_request.

TellError(t) == told' = [told EXCEPT ![t].errors = 1]
TellTerminal(t, state) == told' = [told EXCEPT ![t].terminal = Append(@, state)]

\* start_file_transfer: the limit, then the id.  The Agent gives a new transfer an id of
\* its own (allocate_transfer_id): here, one of which nothing is left.
HostStarts(t) ==
  /\ Cardinality(listed) < MaxTransfers /\ t \notin listed
  /\ issued < MaxCommands
  /\ task[t] = "none" /\ runtime[t] = NoRuntime
  /\ listed' = listed \cup {t}
  /\ issued' = issued + 1
  /\ task' = [task EXCEPT ![t] = "starting"]
  /\ \E size \in FileSizes : handle' = [handle EXCEPT ![t].size = size]
  /\ UNCHANGED <<commands, reply, told, agentQueue, watch, lost, agentVars>>

\* send_file_transfer_command: refused for an unknown id, a full or a closed queue.
HostCommands(t) ==
  /\ t \in listed /\ issued < MaxCommands /\ task[t] # "ended"
  /\ Len(commands[t]) < CommandCapacity
  /\ \E c \in {[op |-> "data", size |-> n] : n \in 1 .. Max(FileSizes)}
              \cup {[op |-> "finish"], [op |-> "cancel"]} :
       commands' = [commands EXCEPT ![t] = Append(@, c)]
  /\ issued' = issued + 1
  /\ UNCHANGED <<task, listed, handle, reply, told, agentQueue, watch, lost, agentVars>>

-----------------------------------------------------------------------------
\* run_file_transfer.

Send(command) ==
  /\ Len(agentQueue) < AgentCapacity
  /\ agentQueue' = Append(agentQueue, command)

\* AgentHandle::start_file_transfer up to its response.
Starting(t) ==
  /\ task[t] = "starting"
  /\ IF stream.ready
     THEN /\ Send([op |-> "start", id |-> t, generation |-> stream.generation])
          /\ handle' = [handle EXCEPT ![t].generation = stream.generation]
          /\ task' = [task EXCEPT ![t] = "registering"]
          /\ UNCHANGED told
     ELSE /\ told' = [told EXCEPT ![t] = [terminal |-> <<"failed">>, errors |-> 1]]
          /\ task' = [task EXCEPT ![t] = "ended"]
          /\ UNCHANGED <<handle, agentQueue>>
  /\ UNCHANGED <<listed, commands, issued, reply, watch, lost, agentVars>>

Registered(t) ==
  /\ task[t] = "registering" /\ reply[t] # "none"
  /\ reply' = [reply EXCEPT ![t] = "none"]
  /\ IF reply[t] = "ok"
     THEN task' = [task EXCEPT ![t] = "loop"] /\ UNCHANGED told
     ELSE /\ task' = [task EXCEPT ![t] = "ended"]
          /\ told' = [told EXCEPT ![t] = [terminal |-> <<"failed">>, errors |-> 1]]
  /\ UNCHANGED <<listed, commands, issued, handle, agentQueue, watch, lost, agentVars>>

\* Mutant of StateChanged: the task goes on after a terminal state.
StateChangedGoesOn(t) ==
  /\ task[t] = "loop" /\ watch[t].fresh
  /\ watch' = [watch EXCEPT ![t].fresh = FALSE]
  /\ IF watch[t].value \in Terminal THEN TellTerminal(t, watch[t].value)
     ELSE UNCHANGED told
  /\ UNCHANGED <<task, listed, commands, issued, handle, reply, agentQueue, lost, agentVars>>

\* transfer.changed(): a terminal state ends the task.
StateChanged(t) ==
  /\ task[t] = "loop" /\ watch[t].fresh
  /\ watch' = [watch EXCEPT ![t].fresh = FALSE]
  /\ IF watch[t].value \in Terminal
     THEN TellTerminal(t, watch[t].value) /\ task' = [task EXCEPT ![t] = "ended"]
     ELSE UNCHANGED <<told, task>>
  /\ UNCHANGED <<listed, commands, issued, handle, reply, agentQueue, lost, agentVars>>

TakeCommand(t, op) ==
  /\ task[t] = "loop" /\ commands[t] # <<>> /\ Head(commands[t]).op = op
  /\ commands' = [commands EXCEPT ![t] = Tail(@)]

FileData(t, size) ==
  [op |-> "data", id |-> t, generation |-> handle[t].generation, size |-> size]

\* send_chunk.
SendChunk(t) ==
  /\ TakeCommand(t, "data")
  /\ LET size == Head(commands[t]).size IN
     IF watch[t].value = "sending" /\ handle[t].accepted + size <= Size(t)
     THEN /\ Send(FileData(t, size))
          /\ handle' = [handle EXCEPT ![t].chunk = size]
          /\ task' = [task EXCEPT ![t] = "chunk"]
          /\ UNCHANGED told
     ELSE TellError(t) /\ UNCHANGED <<task, handle, agentQueue>>
  /\ UNCHANGED <<listed, issued, reply, watch, lost, agentVars>>

\* The chunk is counted only when the Agent has sent it.
ChunkSent(t) ==
  /\ task[t] = "chunk" /\ reply[t] # "none"
  /\ reply' = [reply EXCEPT ![t] = "none"]
  /\ task' = [task EXCEPT ![t] = "loop"]
  /\ IF reply[t] = "ok"
     THEN /\ handle' = [handle EXCEPT ![t].accepted = @ + handle[t].chunk, ![t].chunk = 0]
          /\ UNCHANGED told
     ELSE TellError(t) /\ handle' = [handle EXCEPT ![t].chunk = 0]
  /\ UNCHANGED <<listed, commands, issued, agentQueue, watch, lost, agentVars>>

\* Mutant of Dropped: the handle drops without a word to the Agent.
DroppedSilently(t) == UNCHANGED <<agentQueue, lost>>

\* OutgoingFileTransfer::drop of a transfer that is not terminal: a CancelFile that is
\* lost when the queue is full.
Dropped(t) ==
  IF Len(agentQueue) < AgentCapacity
  THEN /\ Send([op |-> "cancel", id |-> t, generation |-> handle[t].generation])
       /\ UNCHANGED lost
  ELSE lost' = lost \cup {t} /\ UNCHANGED agentQueue

\* finish_with_state: too few bytes is an error, an empty file is one empty chunk.
Finish(t) ==
  /\ TakeCommand(t, "finish")
  /\ \/ /\ handle[t].accepted # Size(t)
        /\ TellError(t) /\ task' = [task EXCEPT ![t] = "ended"]
        /\ Dropped(t)
     \/ /\ handle[t].accepted = Size(t) /\ Size(t) = 0
        /\ Send(FileData(t, 0)) /\ task' = [task EXCEPT ![t] = "empty"]
        /\ UNCHANGED <<told, lost>>
     \/ /\ handle[t].accepted = Size(t) /\ Size(t) > 0
        /\ task' = [task EXCEPT ![t] = "finishing"]
        /\ UNCHANGED <<told, lost, agentQueue>>
  /\ UNCHANGED <<listed, issued, handle, reply, watch, agentVars>>

EmptySent(t) ==
  /\ task[t] = "empty" /\ reply[t] # "none"
  /\ reply' = [reply EXCEPT ![t] = "none"]
  /\ IF reply[t] = "ok"
     THEN task' = [task EXCEPT ![t] = "finishing"] /\ UNCHANGED <<told, lost, agentQueue>>
     ELSE TellError(t) /\ task' = [task EXCEPT ![t] = "ended"] /\ Dropped(t)
  /\ UNCHANGED <<listed, commands, issued, handle, watch, agentVars>>

\* Mutant of Finished: only the guest's success ends the wait.
FinishedOnSuccess(t) ==
  /\ task[t] = "finishing" /\ watch[t].value = "completed"
  /\ TellTerminal(t, watch[t].value)
  /\ task' = [task EXCEPT ![t] = "ended"]
  /\ UNCHANGED <<listed, commands, issued, handle, reply, agentQueue, watch, lost, agentVars>>

Finished(t) ==
  /\ task[t] = "finishing" /\ watch[t].value \in Terminal
  /\ TellTerminal(t, watch[t].value)
  /\ task' = [task EXCEPT ![t] = "ended"]
  /\ UNCHANGED <<listed, commands, issued, handle, reply, agentQueue, watch, lost, agentVars>>

Cancel(t) ==
  /\ TakeCommand(t, "cancel")
  /\ Send([op |-> "cancelAndWait", id |-> t, generation |-> handle[t].generation])
  /\ task' = [task EXCEPT ![t] = "cancelling"]
  /\ UNCHANGED <<listed, issued, handle, reply, told, watch, lost, agentVars>>

Cancelled(t) ==
  /\ task[t] = "cancelling" /\ reply[t] # "none"
  /\ reply' = [reply EXCEPT ![t] = "none"]
  /\ task' = [task EXCEPT ![t] = "ended"]
  /\ IF reply[t] = "ok"
     THEN TellTerminal(t, "cancelled") /\ UNCHANGED <<agentQueue, lost>>
     ELSE TellError(t) /\ Dropped(t)
  /\ UNCHANGED <<listed, commands, issued, handle, watch, agentVars>>

\* Nothing in the Agent concerns the transfer any more.
Settled(t) ==
  /\ runtime[t].phase = "none"
  /\ \A s \in {agentQueue, outbound} : \A i \in DOMAIN s : s[i].id # t

\* file_transfer_tasks.join_next in drive_session, 
Joined(t) ==
  /\ task[t] = "ended" /\ t \in listed
  /\ listed' = listed \ {t}
  /\ UNCHANGED <<task, commands, issued, handle, reply, told, agentQueue, watch, lost,
                 agentVars>>

\* A model step: what is left of a transfer that is over is forgotten.
Forget(t) ==
  /\ task[t] = "ended" /\ t \notin listed /\ Settled(t)
  /\ task' = [task EXCEPT ![t] = "none"]
  /\ commands' = [commands EXCEPT ![t] = <<>>]
  /\ handle' = [handle EXCEPT ![t] = NoHandle]
  /\ told' = [told EXCEPT ![t] = NothingTold]
  /\ watch' = [watch EXCEPT ![t] = NoWatch]
  /\ runtime' = [runtime EXCEPT ![t] = NoRuntime]
  /\ guest' = [guest EXCEPT ![t] = NoGuest]
  /\ UNCHANGED <<listed, issued, reply, agentQueue, stream, outbound, others, lost>>

-----------------------------------------------------------------------------
\* AgentRuntime::accept_command, called when it is ready and sends nothing.

SetWatch(t, value) == watch' = [watch EXCEPT ![t] = [value |-> value, fresh |-> TRUE]]
Answer(t, result) == reply' = [reply EXCEPT ![t] = result]

\* The oneshot of a CancelFile sent by drop has no receiver.
AnswerCommand(c, result) ==
  IF c.op \in {"cancel", "other"} THEN UNCHANGED reply ELSE Answer(c.id, result)

AcceptStale(c) ==
  /\ c.generation # stream.generation
  /\ AnswerCommand(c, "err")
  /\ UNCHANGED <<outbound, runtime, watch>>

AcceptStart(c) ==
  /\ c.generation = stream.generation /\ c.op = "start"
  /\ IF Cardinality({t \in Ids : runtime[t].phase # "none"}) < MaxActive
     THEN /\ runtime' = [runtime EXCEPT ![c.id].phase = "waiting"]
          /\ outbound' = <<c>>
          /\ Answer(c.id, "ok")
     ELSE Answer(c.id, "err") /\ UNCHANGED <<runtime, outbound>>
  /\ UNCHANGED watch

\* Mutant of AcceptData: the bytes of a partial chunk are not counted.
AcceptDataUncounted(c) ==
  /\ c.generation = stream.generation /\ c.op = "data"
  /\ LET r == runtime[c.id] IN
     IF r.phase = "sending" /\ (c.size = 0) = (Size(c.id) = 0)
     THEN /\ outbound' = <<c>>
          /\ LET all == r.accepted + c.size = Size(c.id) IN
             /\ runtime' = [runtime EXCEPT ![c.id].phase = IF all THEN "awaiting" ELSE @]
             /\ SetWatch(c.id, IF all THEN "awaiting" ELSE "sending")
          /\ UNCHANGED reply
     ELSE Answer(c.id, "err") /\ UNCHANGED <<outbound, runtime, watch>>

AcceptData(c) ==
  /\ c.generation = stream.generation /\ c.op = "data"
  /\ LET r == runtime[c.id] IN
     IF /\ r.phase = "sending"
        /\ (c.size = 0) = (Size(c.id) = 0)
        /\ r.accepted + c.size <= Size(c.id)
     THEN /\ outbound' = <<c>>
          /\ LET all == r.accepted + c.size = Size(c.id) IN
             /\ runtime' = [runtime EXCEPT ![c.id] =
                  [phase |-> IF all THEN "awaiting" ELSE "sending",
                   accepted |-> r.accepted + c.size]]
             /\ SetWatch(c.id, IF all THEN "awaiting" ELSE "sending")
          /\ UNCHANGED reply
     ELSE Answer(c.id, "err") /\ UNCHANGED <<outbound, runtime, watch>>

\* The answer to CancelFile waits until the message is sent.
AcceptCancel(c) ==
  /\ c.generation = stream.generation /\ c.op \in {"cancel", "cancelAndWait"}
  /\ IF runtime[c.id].phase # "none"
     THEN /\ runtime' = [runtime EXCEPT ![c.id].phase = "none"]
          /\ SetWatch(c.id, "cancelled")
          /\ outbound' = <<c>>
          /\ UNCHANGED reply
     ELSE AnswerCommand(c, "err") /\ UNCHANGED <<runtime, watch, outbound>>

AcceptOther(c) ==
  /\ c.generation = stream.generation /\ c.op = "other"
  /\ outbound' = <<c>>
  /\ UNCHANGED <<runtime, watch, reply>>

AcceptCommand ==
  /\ stream.ready /\ outbound = <<>> /\ agentQueue # <<>>
  /\ agentQueue' = Tail(agentQueue)
  /\ LET c == Head(agentQueue) IN
     AcceptStale(c) \/ AcceptStart(c) \/ AcceptData(c) \/ AcceptCancel(c)
       \/ AcceptOther(c)
  /\ UNCHANGED <<task, listed, commands, issued, handle, told, stream, others, lost,
                 guest>>

\* send_one, when the server has given a token; the guest reads the message.
SendOne ==
  /\ outbound # <<>>
  /\ outbound' = <<>>
  /\ LET c == outbound[1] IN
     /\ IF c.op = "start" THEN UNCHANGED reply ELSE AnswerCommand(c, "ok")
     /\ guest' = IF c.op = "other" THEN guest ELSE [guest EXCEPT ![c.id] =
          [@ EXCEPT !.started = @ \/ c.op = "start",
                    !.bytes = IF c.op = "data" THEN @ + c.size ELSE @,
                    !.data = @ \/ c.op = "data"]]
  /\ UNCHANGED <<task, listed, commands, issued, handle, told, agentQueue, stream, runtime,
                 watch, others, lost>>

\* FILE_TRANSFER_STATUS, which is ignored when the transfer is not in the table.  A guest
\* follows the protocol, and may fail at any time.
GuestAnswers(t) ==
  /\ stream.ready /\ guest[t].started /\ runtime[t].phase # "none"
  /\ \E status \in {"sending", "completed", "cancelled", "failed"} :
       /\ status = "sending" => ~guest[t].accepts
       /\ status = "completed" =>
            guest[t].accepts /\ guest[t].bytes = Size(t) /\ guest[t].data
       /\ guest' = [guest EXCEPT ![t].accepts = TRUE]
       /\ runtime' = [runtime EXCEPT ![t].phase =
                         IF status = "sending" THEN "sending" ELSE "none"]
       /\ SetWatch(t, status)
  /\ UNCHANGED <<task, listed, commands, issued, handle, reply, told, agentQueue, stream,
                 outbound, others, lost>>

\* disconnect: fail_transfers, and the message being sent is given up.
AgentDisconnects ==
  /\ stream.ready
  /\ stream' = [stream EXCEPT !.ready = FALSE]
  /\ outbound' = <<>>
  /\ reply' = IF outbound # <<>> /\ outbound[1].op \in {"data", "cancelAndWait"}
              THEN [reply EXCEPT ![outbound[1].id] = "err"] ELSE reply
  /\ runtime' = [t \in Ids |-> [runtime[t] EXCEPT !.phase = "none"]]
  /\ watch' = [t \in Ids |-> IF runtime[t].phase = "none" THEN watch[t]
                             ELSE [value |-> "disconnected", fresh |-> TRUE]]
  /\ guest' = [t \in Ids |-> [guest[t] EXCEPT !.started = FALSE]]
  /\ UNCHANGED <<task, listed, commands, issued, handle, told, agentQueue, others,
                 lost>>

\* begin_generation and the guest's capabilities.
AgentConnects ==
  /\ ~stream.ready /\ stream.generation < MaxStreams
  /\ stream' = [generation |-> stream.generation + 1, ready |-> TRUE]
  /\ UNCHANGED <<task, listed, commands, issued, handle, reply, told, agentQueue, outbound,
                 runtime, watch, others, lost, guest>>

\* Another command of the host for the Agent.
OtherCommand ==
  /\ others < MaxOthers /\ stream.ready
  /\ Send([op |-> "other", id |-> "none", generation |-> stream.generation])
  /\ others' = others + 1
  /\ UNCHANGED <<task, listed, commands, issued, handle, reply, told, stream, outbound,
                 runtime, watch, lost, guest>>

TaskStep(t) ==
  \/ Starting(t) \/ Registered(t) \/ StateChanged(t) \/ SendChunk(t)
  \/ ChunkSent(t) \/ Finish(t) \/ EmptySent(t) \/ Finished(t) \/ Cancel(t)
  \/ Cancelled(t) \/ Joined(t) \/ Forget(t)

TransferNext ==
  \/ \E t \in Ids : HostStarts(t) \/ HostCommands(t) \/ TaskStep(t) \/ GuestAnswers(t)
  \/ AcceptCommand \/ SendOne \/ OtherCommand \/ AgentDisconnects \/ AgentConnects

\* The tasks and Main are scheduled, tokens arrive, and an Agent that went comes back.
TransferFairness ==
  /\ \A t \in Ids : WF_transferVars(TaskStep(t))
  /\ WF_transferVars(AcceptCommand) /\ WF_transferVars(SendOne)

TransferSpec == TransferInit /\ [][TransferNext]_transferVars /\ TransferFairness

-----------------------------------------------------------------------------

\* Types; the queues and the transfer tables stay within their limits.
TransferTypeOK ==
  /\ task \in [Ids -> {"none", "starting", "registering", "loop", "chunk", "empty",
                       "finishing", "cancelling", "ended"}]
  /\ Cardinality(listed) <= MaxTransfers
  /\ Cardinality({t \in Ids : runtime[t].phase # "none"}) <= MaxActive
  /\ Len(agentQueue) <= AgentCapacity
  /\ \A t \in Ids : Len(commands[t]) <= CommandCapacity

\* Whatever the guest, the host's commands and reconnections race: a transfer reports at
\* most one terminal state and only as its last word, and none ends unexplained.
OneOutcome ==
  \A t \in Ids :
    /\ Len(told[t].terminal) <= 1
    /\ told[t].terminal # <<>> => task[t] = "ended"
    /\ task[t] = "ended" => told[t].terminal # <<>> \/ told[t].errors > 0

\* The bytes the handle has counted, those the Agent has accepted and those the guest
\* holds agree while the transfer lives: the handle is never ahead of the Agent, which
\* is ahead of the guest only by the chunk being sent.
BytesAgree ==
  \A t \in Ids :
    runtime[t].phase # "none" =>
      /\ handle[t].accepted <= runtime[t].accepted /\ runtime[t].accepted <= Size(t)
      /\ runtime[t].accepted = guest[t].bytes +
           (IF outbound # <<>> /\ outbound[1].op = "data" /\ outbound[1].id = t
            THEN outbound[1].size ELSE 0)

\* A transfer whose handle is gone leaves the Agent's table, which holds only
\* MaxActive, unless the cancellation of its drop found the command queue full
\* (agent.rs:423).
AbandonedIsRemoved ==
  \A t \in Ids : (task[t] = "ended" /\ t \notin lost) ~> (runtime[t].phase = "none")

\* A transfer that the guest, the Agent's disconnection or a cancellation has decided
\* ends its task: at once, or when the Agent is back to answer a command that was
\* queued when it went.
DecidedEnds ==
  \A t \in Ids :
    (watch[t].value \in Terminal) ~> (task[t] = "ended" \/ ~stream.ready)

\* `fileTransferState` "reports accepted bytes, terminal state" (docs/helper-ipc.md:79):
\* the host of a transfer that has ended was told its terminal state.
TerminalStateReported == \A t \in Ids : task[t] = "ended" => told[t].terminal # <<>>

(* Handle, Agent and guest account for a transfer alike: the queues and    *)
(* slots keep their limits, it has one outcome, and the bytes counted are  *)
(* the bytes sent.                                                         *)
TransfersAccounted ==
  TransferTypeOK /\ OneOutcome /\ BytesAgree

(* A transfer comes to its end on both sides: its task ends once the       *)
(* outcome is decided, and the Agent's table lets go of a transfer whose   *)
(* task is gone.                                                           *)
TransfersEnd ==
  DecidedEnds /\ AbandonedIsRemoved
=============================================================================
