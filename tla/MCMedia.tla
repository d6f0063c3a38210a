------------------------------- MODULE MCMedia ------------------------------
(***************************************************************************)
(* The owners of pointer, cursor and sound, checked one at a time: `focus` *)
(* names the owner that runs in a behaviour, the others stay in their      *)
(* initial states, in which none of their fair actions is enabled.         *)
(***************************************************************************)
EXTENDS Inputs, Cursor, Playback, Record

CONSTANT Owners

VARIABLE focus

mediaVars == <<focus, inputsVars, cursorVars, playbackVars, recordVars>>

Init == focus \in Owners /\ InputsInit /\ CursorInit /\ PlaybackInit /\ RecordInit

Next ==
  /\ UNCHANGED focus
  /\ \/ focus = "inputs" /\ InputsNext /\ UNCHANGED <<cursorVars, playbackVars, recordVars>>
     \/ focus = "cursor" /\ CursorNext /\ UNCHANGED <<inputsVars, playbackVars, recordVars>>
     \/ focus = "playback" /\ PlaybackNext /\ UNCHANGED <<inputsVars, cursorVars, recordVars>>
     \/ focus = "record" /\ RecordNext /\ UNCHANGED <<inputsVars, cursorVars, playbackVars>>

Spec == Init /\ [][Next]_mediaVars /\ InputsFairness /\ CursorFairness /\ RecordFairness

(* Sound keeps to its stream in both directions: what the host plays says  *)
(* where packets are missing and agrees with the published state, and what *)
(* it records reaches the stream it was recorded for, after its start      *)
(* mark.                                                                   *)
SoundInOrder ==
  /\ PlaybackTypeOK /\ GapsFlagged /\ PlaybackStateAgrees
  /\ RecordTypeOK /\ SoundOfItsStream /\ DataAfterMark

(* What is pending at an owner is served: a stored motion moves on, the    *)
(* host's cursor catches up, and every call is answered.                   *)
PendingIsServed ==
  PendingMotionMoves /\ HostCatchesUp /\ CallsAnswered
=============================================================================
