---------------------------- MODULE MCMigration -----------------------------
(***************************************************************************)
(* Migration in three environments, of which `focus` names the one of a    *)
(* behaviour.  In a faulty one reads are abandoned, targets refuse links,  *)
(* the server may vanish and a new host may migrate on at once; in a       *)
(* patient one the new host waits for all channels first; in a calm one    *)
(* none of this happens.                                                   *)
(***************************************************************************)
EXTENDS Migration

CONSTANT Environments

VARIABLE focus

migrationVars == <<focus, vars>>

MCInit == focus \in Environments /\ Init

\* The new host waits for all channels before it migrates in its turn.
Patient == active' = active \/ phase # "idle" \/ \A c \in Channels : on[c] = host

Calm ==
  /\ \/ \E c \in Channels : Owner(c) \/ SendReplacement(c)
     \/ LinkTargets \/ Prepared
     \/ \E now \in BOOLEAN : ReadBegin(now)
     \/ ReadCancel \/ ReadEnd \/ SupervisorCancel
  /\ Patient

MCNext ==
  /\ UNCHANGED focus
  /\ \/ focus = "faulty" /\ Next
     \/ focus = "patient" /\ Next /\ Patient
     \/ focus = "calm" /\ Calm

MCSpec == MCInit /\ [][MCNext]_migrationVars /\ Fairness

(* Unless a new host migrates on at once, no channel is left on the target *)
(* of a migration that was cancelled or refused, whatever was queued,      *)
(* stored or abandoned before.                                             *)
NeverOnAbandonedTarget == focus # "faulty" => OnServerOfGuest

(* With owners that only read and a target that accepts every link, a      *)
(* migration is never refused and no owner is lost to it.                  *)
CalmNotRefused == focus = "calm" => MigrationNotRefused

(* In the same environment every channel gets to the server that the guest *)
(* runs on, unless the session ends.                                       *)
CalmChannelsMove ==
  \A c \in Channels :
    (focus = "calm" /\ on[c] # host) ~> (on[c] = host \/ cancel)

(* Without faults a migration does what it is for: it is not refused, and  *)
(* every channel arrives.                                                  *)
CalmMoves ==
  []CalmNotRefused /\ CalmChannelsMove
=============================================================================
