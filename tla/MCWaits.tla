------------------------------- MODULE MCWaits ------------------------------
(***************************************************************************)
(* What channels wait for from one another, checked one question at a      *)
(* time: the barriers of `ProgressRegistry`, two Displays that decode with *)
(* the shared dictionary of one server, and one Display whose dictionary   *)
(* goes through a non-seamless migration.  `focus` names the question, and *)
(* what it leaves alone stays in its initial state.                        *)
(***************************************************************************)
EXTENDS Progress, GlzWindow

CONSTANTS
  Questions,     \* questions asked
  FirstDisplay,  \* the Display of the migration
  SharedImages,  \* bound: images two Displays share
  SourceImages   \* bound: images of the server that a Display migrates from

VARIABLE focus

waitsVars == <<focus, progressVars, glzVars>>

\* The transports that carry the images of the first server and of its target.
Carried ==
  CASE focus = "shared"  -> {t \in [Instances -> [Ids -> Displays]] :
                               \A e \in Instances, i \in Ids :
                                 e > 0 \/ i >= SharedImages => t[e][i] = FirstDisplay}
    [] OTHER             -> {[e \in Instances |-> [i \in Ids |-> FirstDisplay]]}

Init ==
  /\ focus \in Questions
  /\ ProgressInit
  /\ GlzInit /\ to \in Carried

\* Two Displays of one server, or one Display of a server and its target, whose
\* images copy from one other at most.
Shared == inst' = inst /\ count'[0] <= SharedImages /\ \A e \in Instances \ {0} : count'[e] = 0
Migrated ==
  /\ \A d \in Displays \ {FirstDisplay} : inst'[d] = inst[d]
  /\ count'[0] <= SourceImages
  /\ \A e \in Instances, i \in Ids : Cardinality(refs'[e][i]) <= 1

Next ==
  /\ UNCHANGED focus
  /\ \/ focus = "barriers" /\ ProgressNext /\ UNCHANGED glzVars
     \/ focus = "shared" /\ GlzNext /\ Shared /\ UNCHANGED progressVars
     \/ focus = "migrated" /\ GlzNext /\ Migrated /\ UNCHANGED progressVars

Spec == Init /\ [][Next]_waitsVars /\ ProgressFairness /\ GlzFairness
=============================================================================
