------------------------------- MODULE MCAgent ------------------------------
(***************************************************************************)
(* The Agent runtime's receive window, its two conversations and the bytes *)
(* they travel in, checked one at a time: `focus` names the one that runs in a behaviour, the      *)
(* others stay in their initial states, in which none of their fair        *)
(* actions is enabled.                                                     *)
(***************************************************************************)
EXTENDS AgentSync, Transfers, AgentCredits, AgentStream

CONSTANT Conversations

VARIABLE focus

conversationVars == <<focus, syncVars, transferVars, creditVars, streamVars>>

Init == focus \in Conversations /\ SyncInit /\ TransferInit /\ CreditInit /\ StreamInit

Next ==
  /\ UNCHANGED focus
  /\ \/ focus = "sync" /\ SyncNext /\ UNCHANGED <<transferVars, creditVars, streamVars>>
     \/ focus = "transfers" /\ TransferNext /\ UNCHANGED <<syncVars, creditVars, streamVars>>
     \/ focus = "credits" /\ CreditNext /\ UNCHANGED <<syncVars, transferVars, streamVars>>
     \/ focus = "bytes" /\ StreamNext /\ UNCHANGED <<syncVars, transferVars, creditVars>>

Spec ==
  /\ Init /\ [][Next]_conversationVars
  /\ SyncFairness /\ TransferFairness /\ CreditFairness

(* Every Agent stream stands for itself: what the client says in it begins *)
(* anew, and the messages both sides put together from fragments are whole *)
(* messages of that stream.                                                *)
StreamsSound ==
  StreamsApart /\ FragmentsWhole
=============================================================================
