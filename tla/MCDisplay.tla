------------------------------ MODULE MCDisplay -----------------------------
(***************************************************************************)
(* The surfaces and streams of one Display, the GL scanouts of two and the *)
(* palette cache, checked one at a time: `focus` names the part that runs  *)
(* in a behaviour, the others stay in their initial states, in which none  *)
(* of their fair actions is enabled.                                       *)
(***************************************************************************)
EXTENDS Surfaces, GlScanout, Palettes

CONSTANT Parts

VARIABLE focus

displayVars == <<focus, surfacesVars, glVars, palettesVars>>

Init == focus \in Parts /\ SurfacesInit /\ GlInit /\ PalettesInit

Next ==
  /\ UNCHANGED focus
  /\ \/ focus = "surfaces" /\ SurfacesNext /\ UNCHANGED <<glVars, palettesVars>>
     \/ focus = "gl" /\ GlNext /\ UNCHANGED <<surfacesVars, palettesVars>>
     \/ focus = "palettes" /\ PalettesNext /\ UNCHANGED <<surfacesVars, glVars>>

Spec == Init /\ [][Next]_displayVars /\ GlFairness

\* Every variable has its type, and surfaces, streams, palettes and queued
\* scanouts keep their limits.
DisplayTypeOK == SurfacesTypeOK /\ GlTypeOK /\ PalettesTypeOK

(* A server that uses only what it has created on this transport gets what *)
(* it asks for: it is refused a surface or a stream only at the limit, and *)
(* no palette, and its streams draw on the surfaces they were created for. *)
ConformingServed ==
  /\ DisplayTypeOK /\ ConformingAccepted
  /\ StreamKeepsSurface /\ ServerKnowsPalettes

(* Nothing of the past is left behind for the host, and nothing it still   *)
(* reads is taken away: what it can read belongs to what the owner has     *)
(* now, only live frames and handles use the byte budget, and the server   *)
(* hears that a GL draw is done after the host is done with it.            *)
NothingStale ==
  ShownIsCurrent /\ BudgetNotLeaked /\ DoneAfterHost

(* Every GL draw is acknowledged or ends with its owner, and a cancelled   *)
(* owner ends.                                                             *)
DrawsEnd ==
  DrawsAcknowledged /\ CancelEndsGl
=============================================================================
