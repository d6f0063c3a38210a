------------------------------- MODULE Record -------------------------------
(***************************************************************************)
(* The Record owner (record.rs), the host's RecordChannel and the server's *)
(* end of the transport.  The host's begin and send_pcm read the published *)
(* state, label their command with its stream generation and wait for the  *)
(* completion.  PCM of an Opus stream is cut into frames: what is left     *)
(* over waits in pending_pcm.  PCM is a sequence of the generations of the *)
(* streams it was captured for, one entry per half frame.                  *)
(***************************************************************************)
EXTENDS Naturals, Sequences, SequencesExt

CONSTANTS
  RecordCapacity,    \* RECORD_COMMAND_QUEUE_CAPACITY
  FrameParts,        \* PCM submissions that make one Opus frame
  RecordCallers,     \* host calls that may be in progress at once
  MaxRecordStreams,  \* bound: streams the server starts
  MaxRecordMoves     \* bound: non-seamless activations

VARIABLES
  recorder,   \* locals of run_record and the published state
  captures,   \* the command queue
  callers,    \* per caller: "idle", "waiting", or the result it got
  recordPeer  \* what the server of the current transport has seen: [mode, marked, moves]

recordVars == <<recorder, captures, callers, recordPeer>>

RecordPhases == {"Stopped", "StartRequested", "Recording"}
-----------------------------------------------------------------------------
\* Every new transport gets a raw Mode first (initialize_record_channel).
NewRecordPeer(moves) == [mode |-> "Raw", marked |-> FALSE, moves |-> moves, wrote |-> <<>>]

RecordInit ==
  /\ recorder = [up |-> "running", observed |-> TRUE, phase |-> "Stopped",
                 mode |-> "Raw", encoder |-> FALSE, pending |-> <<>>, stream |-> 0,
                 shown |-> [phase |-> "Stopped", stream |-> 0]]
  /\ captures = <<>>
  /\ callers = [c \in RecordCallers |-> "idle"]
  /\ recordPeer = NewRecordPeer(0)

Shown(r) == [r EXCEPT !.shown = [phase |-> r.phase, stream |-> r.stream]]

\* The first message of a non-seamless transport returns to a stopped raw stream.
ForgetStream(r) ==
  Shown([r EXCEPT !.observed = TRUE, !.phase = "Stopped", !.mode = "Raw",
                  !.encoder = FALSE, !.pending = <<>>])

Hearing == IF recorder.observed THEN recorder ELSE ForgetStream(recorder)

\* The frames write_message sends are noted only until the next step.
Wrote(pcm) == recordPeer' = [recordPeer EXCEPT !.wrote = pcm]

\* Owner and server of a session that is over.
RecordFails(r) ==
  /\ recorder' = [r EXCEPT !.up = "failed"]
  /\ callers' = [c \in RecordCallers |-> IF callers[c] = "waiting" THEN "Closed" ELSE callers[c]]
  /\ captures' = <<>>
  /\ Wrote(<<>>)

\* START picks Opus when the peer and the format allow it and announces a changed
\* mode; PCM of an earlier stream is dropped.
RecordStart(opus) ==
  LET r == Hearing IN
  /\ recorder.up = "running" /\ r.stream < MaxRecordStreams
  /\ IF r.phase # "Stopped" THEN RecordFails(r)
     ELSE LET mode == IF opus THEN "Opus" ELSE "Raw" IN
          /\ recorder' = Shown([r EXCEPT !.phase = "StartRequested", !.stream = @ + 1,
                                         !.mode = mode, !.encoder = opus, !.pending = <<>>])
          /\ recordPeer' = [recordPeer EXCEPT !.mode = IF mode = r.mode THEN @ ELSE mode,
                                              !.marked = FALSE, !.wrote = <<>>]
          /\ UNCHANGED <<captures, callers>>

RecordStop ==
  LET r == Hearing IN
  /\ recorder.up = "running"
  /\ IF r.phase = "Stopped" THEN RecordFails(r)
     ELSE /\ recorder' = Shown([r EXCEPT !.phase = "Stopped", !.encoder = FALSE,
                                         !.pending = <<>>])
          /\ Wrote(<<>>)
          /\ UNCHANGED <<captures, callers>>
-----------------------------------------------------------------------------
(* The host: begin_at and send_pcm_at. *)

Submit(caller, kind) ==
  /\ recorder.up = "running" /\ callers[caller] = "idle"
  /\ recorder.shown.phase = IF kind = "Begin" THEN "StartRequested" ELSE "Recording"
  /\ Len(captures) < RecordCapacity
  /\ captures' = Append(captures, [kind |-> kind, stream |-> recorder.shown.stream,
                                   caller |-> caller])
  /\ callers' = [callers EXCEPT ![caller] = "waiting"]
  /\ UNCHANGED <<recorder, recordPeer>>

\* The completed call is over for the host.
CallReturns(caller) ==
  /\ callers[caller] \notin {"idle", "waiting"}
  /\ callers' = [callers EXCEPT ![caller] = "idle"]
  /\ UNCHANGED <<recorder, captures, recordPeer>>
-----------------------------------------------------------------------------
(* Commands. *)

Answer(caller, result) ==
  /\ callers' = [callers EXCEPT ![caller] = result]
  /\ captures' = Tail(captures)

AcceptsAnyStream(command) ==
  recorder.phase = IF command.kind = "Begin" THEN "StartRequested" ELSE "Recording"

\* A command counts only in its phase and for its stream.
Accepts(command) ==
  /\ recorder.phase = IF command.kind = "Begin" THEN "StartRequested" ELSE "Recording"
  /\ command.stream = recorder.stream

RefuseOnlyStopped ==
  /\ recorder.up = "running" /\ captures # <<>> /\ recorder.phase = "Stopped"
  /\ Answer(Head(captures).caller, "Unavailable")
  /\ Wrote(<<>>)
  /\ UNCHANGED recorder

RefuseCommand ==
  /\ recorder.up = "running" /\ captures # <<>> /\ ~Accepts(Head(captures))
  /\ Answer(Head(captures).caller, "Unavailable")
  /\ Wrote(<<>>)
  /\ UNCHANGED recorder

\* Begin writes the Start Mark and only then publishes Recording.
BeginStream ==
  /\ recorder.up = "running" /\ captures # <<>>
  /\ Head(captures).kind = "Begin" /\ Accepts(Head(captures))
  /\ recorder' = Shown([recorder EXCEPT !.phase = "Recording"])
  /\ recordPeer' = [recordPeer EXCEPT !.marked = TRUE, !.wrote = <<>>]
  /\ Answer(Head(captures).caller, "Ok")

\* Raw PCM is written as it is; Opus PCM is joined to what is pending and
\* written in whole frames.
SendPcm ==
  /\ recorder.up = "running" /\ captures # <<>>
  /\ Head(captures).kind = "Data" /\ Accepts(Head(captures))
  /\ LET pcm == Append(recorder.pending, Head(captures).stream)
         whole == (Len(pcm) \div FrameParts) * FrameParts
     IN  IF recorder.mode = "Raw"
         THEN Wrote(<<Head(captures).stream>>) /\ UNCHANGED recorder
         ELSE /\ Wrote(SubSeq(pcm, 1, whole))
              /\ recorder' = [recorder EXCEPT !.pending = SubSeq(pcm, whole + 1, Len(pcm))]
  /\ Answer(Head(captures).caller, "Ok")

\* A write fails: the caller gets Closed and the owner ends.
RecordWriteFails ==
  /\ recorder.up = "running" /\ captures # <<>> /\ Accepts(Head(captures))
  /\ RecordFails(recorder)

\* Cancellation publishes Closed; waiting callers see their completion dropped.
RecordCancelled ==
  /\ recorder.up = "running"
  /\ recorder' = [recorder EXCEPT !.up = "done", !.shown.phase = "Closed"]
  /\ callers' = [c \in RecordCallers |-> IF callers[c] = "waiting" THEN "Closed" ELSE callers[c]]
  /\ captures' = <<>>
  /\ Wrote(<<>>)

RecordMoves ==
  /\ recorder.up = "running" /\ recordPeer.moves < MaxRecordMoves
  /\ recordPeer' = NewRecordPeer(recordPeer.moves + 1)
  /\ recorder' = [recorder EXCEPT !.observed = FALSE]
  /\ UNCHANGED <<captures, callers>>

RecordNext ==
  \/ \E opus \in BOOLEAN : RecordStart(opus)
  \/ \E c \in RecordCallers :
       (\E kind \in {"Begin", "Data"} : Submit(c, kind)) \/ CallReturns(c)
  \/ RecordStop \/ RefuseCommand \/ BeginStream \/ SendPcm \/ RecordWriteFails
  \/ RecordCancelled \/ RecordMoves

\* The owner's select takes a queued command in the end.
RecordFairness ==
  WF_recordVars(RefuseCommand \/ BeginStream \/ SendPcm)
-----------------------------------------------------------------------------
(* Properties. *)

\* The type invariant of the Record owner, its callers and the server's view.
RecordTypeOK ==
  /\ recorder.up \in {"running", "done", "failed"}
  /\ recorder.phase \in RecordPhases
  /\ Len(recorder.pending) < FrameParts
  /\ Len(captures) <= RecordCapacity
  /\ \A c \in RecordCallers :
       callers[c] \in {"idle", "waiting", "Ok", "Unavailable", "Closed"}

\* A packet carries sound of the stream it is sent in, never what was captured
\* for an earlier one and left in a command or in pending_pcm.
SoundOfItsStream ==
  \A i \in DOMAIN recordPeer.wrote : recordPeer.wrote[i] = recorder.stream

\* PCM reaches a server only in the mode last announced to it and after the Start
\* Mark of its stream, except between the activation of a new transport and its
\* first message.
DataAfterMark ==
  recordPeer.wrote # <<>> /\ recorder.observed
    => recordPeer.marked /\ recordPeer.mode = recorder.mode

\* docs/protocol-design.md:202: "Start Mark is emitted only after a server Start
\* and before PCM Data", on whatever transport.
DataAlwaysAfterMark ==
  recordPeer.wrote # <<>> => recordPeer.marked

\* Every begin and send_pcm call is answered, whatever overtakes it.
CallsAnswered ==
  \A c \in RecordCallers : callers[c] = "waiting" ~> callers[c] # "waiting"
=============================================================================
