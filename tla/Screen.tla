------------------------------- MODULE Screen -------------------------------
(***************************************************************************)
(* What the whole frame path, from a Display owner's surfaces to the       *)
(* helper's stdout, promises the host: for every display the host shows a  *)
(* picture the surface really had, never goes back to an older one, and,   *)
(* as long as the helper works, catches up with the current one.           *)
(***************************************************************************)
EXTENDS Integers

CONSTANT Displays

VARIABLES
  current,   \* per display: the number of its newest picture
  visible,   \* per display: whether its surface exists and has that picture
  shown,     \* per display: the number of the picture the host has, 0 if none
  working    \* whether the helper still serves the session

screenVars == <<current, visible, shown, working>>

ScreenInit ==
  /\ current = [d \in Displays |-> 0]
  /\ visible = [d \in Displays |-> FALSE]
  /\ shown = [d \in Displays |-> 0]
  /\ working = TRUE

\* The guest draws a new picture.
Paint(d) ==
  /\ current' = [current EXCEPT ![d] = @ + 1]
  /\ visible' = [visible EXCEPT ![d] = TRUE]
  /\ UNCHANGED <<shown, working>>

\* The guest removes the surface.
Blank(d) ==
  /\ visible' = [visible EXCEPT ![d] = FALSE]
  /\ UNCHANGED <<current, shown, working>>

\* The host receives some newer picture, not necessarily the newest.
Show(d) ==
  /\ \E v \in (shown[d] + 1) .. current[d] : shown' = [shown EXCEPT ![d] = v]
  /\ UNCHANGED <<current, visible, working>>

Stop ==
  /\ working' = FALSE
  /\ UNCHANGED <<current, visible, shown>>

ScreenNext == Stop \/ \E d \in Displays : Paint(d) \/ Blank(d) \/ Show(d)

CatchUp(d) == working /\ visible[d] /\ Show(d)

ScreenSpec ==
  /\ ScreenInit /\ [][ScreenNext]_screenVars
  /\ \A d \in Displays : WF_screenVars(CatchUp(d))

=============================================================================
