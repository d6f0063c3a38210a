------------------------------ MODULE Migration -----------------------------
(***************************************************************************)
(* Session migration: `MigrationManager` (crates/oxide-spice-client/src/   *)
(* session.rs), which Main's message handler calls, and the migration path *)
(* of every `Channel` (channel.rs), through which it hands each channel    *)
(* owner a replacement transport.                                          *)
(*                                                                         *)
(* Generation 0 is the server the session connected to; generation g is    *)
(* the target of the g-th value of `active_generation`.  The servers are   *)
(* external: the current one asks for a migration, cancels or ends it,     *)
(* tells channels to migrate, and closes its transports afterwards, or at  *)
(* any time when it goes away.                                             *)
(***************************************************************************)
EXTENDS Naturals, Sequences

CONSTANTS
  Channels,       \* linked channel identities
  Main,           \* the Main channel
  Selecting,      \* owners whose loop selects between reading and other work
  QueueCapacity,  \* capacity of a replacement queue
  TargetMayFail,  \* may a target refuse the links?
  ServerMayVanish,\* may the server close without a migration?
  BackToBack,     \* may a new host migrate before all channels have arrived?
  MaxGeneration   \* bound on `active_generation`

ASSUME MigrationAssumption ==
  /\ Main \in Channels /\ Selecting \subseteq Channels
  /\ QueueCapacity \in Nat \ {0} /\ MaxGeneration \in Nat
  /\ TargetMayFail \in BOOLEAN /\ ServerMayVanish \in BOOLEAN
  /\ BackToBack \in BOOLEAN

Generations == 0..MaxGeneration

(* `MigrationReplacement`; `now` is `activate_immediately`.                *)
Replacement == [gen : Generations, now : BOOLEAN]
None == [gen |-> 0, now |-> FALSE]

VARIABLES
  \* the servers
  host,     \* generation of the server that runs the guest
  phase,    \* what that server is doing about migration
  closed,   \* generations whose transports are closed by the server
  \* `MigrationManager` and Main's handler
  active,   \* `active_generation`
  step,     \* where `prepare` or `switch_host` is
  switch,   \* it is `switch_host`
  target,   \* the generation it prepares
  unsent,   \* channels whose replacement is not queued yet
  baseline, \* `migration_activation_baseline`, 0 is None
  refused,  \* the last preparation failed
  \* the channels and their owners
  queue,    \* queued replacements
  path,     \* `migration_replacements`: held, taken by a read, or lost
  pend,     \* `pending_migration_replacement`
  on,       \* generation of the transport in use
  count,    \* `migration_activation_count`, counted from 1
  pc,       \* position of the owner
  cancel    \* the session's cancellation watch

serverVars == <<host, phase, closed>>
managerVars == <<active, step, switch, target, unsent, baseline, refused>>
ownerVars == <<queue, path, pend, on, count, pc>>
vars == <<serverVars, managerVars, ownerVars, cancel>>

Ended == {"failed", "stopped"}

Init ==
  /\ host = 0 /\ phase = "idle" /\ closed = {}
  /\ active = 0 /\ step = "none" /\ switch = FALSE /\ target = 0
  /\ unsent = {} /\ baseline = 0 /\ refused = FALSE
  /\ queue = [c \in Channels |-> <<>>]
  /\ path = [c \in Channels |-> "held"]
  /\ pend = [c \in Channels |-> None]
  /\ on = [c \in Channels |-> 0]
  /\ count = [c \in Channels |-> 1]
  /\ pc = [c \in Channels |-> "idle"]
  /\ cancel = FALSE

Goto(c, p) == pc' = [pc EXCEPT ![c] = p]

-----------------------------------------------------------------------------
(* The channel owners.  `read_header_transport` takes the replacement      *)
(* receiver out of the channel while it waits.                             *)
StartRead(c) ==
  /\ pc[c] = "idle"
  /\ Goto(c, "reading")
  /\ path' = [path EXCEPT ![c] = IF @ = "held" THEN "taken" ELSE @]
  /\ UNCHANGED <<serverVars, managerVars, queue, pend, on, count, cancel>>

(* Another branch of the owner's `select!` completes first, and the read   *)
(* future is dropped with the receiver and what is queued in it.           *)
AbandonRead(c) ==
  /\ c \in Selecting /\ pc[c] \in {"reading", "replacing"}
  /\ Goto(c, "idle")
  /\ path' = [path EXCEPT ![c] = "lost"] /\ queue' = [queue EXCEPT ![c] = <<>>]
  /\ UNCHANGED <<serverVars, managerVars, pend, on, count, cancel>>

(* A completed read puts the receiver back; the mutant forgets to.         *)
ReadReturnsLosing(c) ==
  /\ pc[c] = "reading" /\ on[c] \notin closed
  /\ path' = [path EXCEPT ![c] = "lost"]

ReadReturns(c) ==
  /\ pc[c] = "reading" /\ on[c] \notin closed
  /\ path' = [path EXCEPT ![c] = IF @ = "taken" THEN "held" ELSE @]

ReadData(c) ==
  /\ ReadReturns(c)
  /\ Goto(c, "idle")
  /\ UNCHANGED <<serverVars, managerVars, queue, pend, on, count, cancel>>

(* A replacement arrives while the owner reads: a stale one is dropped.    *)
Store(c, r) == IF r.gen = active THEN r ELSE pend[c]

TakeReplacement(c) ==
  LET r == Head(queue[c]) IN
  /\ pc[c] = "reading" /\ path[c] = "taken" /\ queue[c] # <<>>
  /\ queue' = [queue EXCEPT ![c] = Tail(@)]
  /\ pend' = [pend EXCEPT ![c] = Store(c, r)]
  /\ pc' = IF pend'[c].now THEN [pc EXCEPT ![c] = "replacing"] ELSE pc
  /\ UNCHANGED <<serverVars, managerVars, path, on, count, cancel>>

(* End of file: `read_message` waits for a replacement if the channel      *)
(* still has a migration path, and is an error otherwise.  The mutant      *)
(* reads again.                                                            *)
EndOfFileRetries(c) ==
  /\ pc[c] = "reading" /\ on[c] \in closed
  /\ Goto(c, IF path[c] = "taken" THEN "idle" ELSE "failed")
  /\ path' = [path EXCEPT ![c] = IF @ = "taken" THEN "held" ELSE @]
  /\ UNCHANGED <<serverVars, managerVars, queue, pend, on, count, cancel>>

EndOfFile(c) ==
  /\ pc[c] = "reading" /\ on[c] \in closed
  /\ Goto(c, IF path[c] = "taken" THEN "replacing" ELSE "failed")
  /\ UNCHANGED <<serverVars, managerVars, queue, path, pend, on, count, cancel>>

(* MIGRATE on a child channel: `migrate_to_replacement`.                   *)
ReadMigrate(c) ==
  /\ c # Main /\ phase \in {"connected", "handover"} /\ on[c] = host
  /\ ReadReturns(c)
  /\ Goto(c, IF path[c] = "lost" THEN "failed" ELSE "activating")
  /\ phase' = "handover"
  /\ UNCHANGED <<host, closed, managerVars, queue, pend, on, count, cancel>>

(* May a replacement be activated?  The mutant trusts what was stored.     *)
UsableOnceStored(c, r) == r.gen = active \/ r = pend[c]
Usable(c, r) == r.gen = active

(* The loop of `activate_replacement`, within a read (`replacing`) or in a *)
(* message handler: the stored replacement or the next queued one; a stale *)
(* one is dropped.                                                         *)
ActivateReplacement(c) ==
  LET stored == pend[c] # None
      r == IF stored THEN pend[c] ELSE Head(queue[c])
  IN
  /\ pc[c] \in {"replacing", "activating"} /\ (stored \/ queue[c] # <<>>)
  /\ pend' = [pend EXCEPT ![c] = None]
  /\ queue' = IF stored THEN queue ELSE [queue EXCEPT ![c] = Tail(@)]
  /\ IF Usable(c, r)
     THEN /\ on' = [on EXCEPT ![c] = r.gen]
          /\ count' = [count EXCEPT ![c] = @ + 1]
          /\ path' = [path EXCEPT ![c] = "held"]
          /\ Goto(c, "idle")
     ELSE UNCHANGED <<on, count, path, pc>>
  /\ UNCHANGED <<serverVars, managerVars, cancel>>

-----------------------------------------------------------------------------
(* Main's handler.  MIGRATE_BEGIN and MIGRATE_SWITCH_HOST start a new      *)
(* generation and link all targets before anything is handed out.          *)
ReadBegin(now) ==
  /\ phase = "idle" /\ on[Main] = host /\ active + 2 < MaxGeneration
  /\ BackToBack \/ \A c \in Channels : on[c] = host
  /\ ReadReturns(Main)
  /\ Goto(Main, "handling")
  /\ active' = active + 1 /\ target' = active' /\ switch' = now
  /\ step' = "link" /\ unsent' = Channels
  /\ phase' = "begun"
  /\ UNCHANGED <<host, closed, baseline, refused, queue, pend, on, count, cancel>>

(* A failed preparation bumps the generation, Main's MIGRATE_BEGIN handler *)
(* once more, and reports it; a failed switch ends Main.                   *)
Refuse ==
  /\ active' = active + (IF switch THEN 1 ELSE 2)
  /\ baseline' = IF switch THEN baseline ELSE 0
  /\ refused' = TRUE /\ step' = "none" /\ phase' = "idle"
  /\ Goto(Main, IF switch THEN "failed" ELSE "idle")
  /\ UNCHANGED <<host, closed, switch, target, unsent, queue, path, pend, on,
                 count, cancel>>

LinkTargets ==
  /\ step = "link" /\ pc[Main] = "handling"
  /\ step' = "send"
  /\ UNCHANGED <<serverVars, active, switch, target, unsent, baseline, refused,
                 ownerVars, cancel>>

LinkFails == TargetMayFail /\ step = "link" /\ pc[Main] = "handling" /\ Refuse

\* A queue has room for another replacement.
HasRoom(c) == Len(queue[c]) < QueueCapacity

(* Handing out one replacement, Main's own first.  The send waits for room *)
(* and fails when the receiver is gone.                                    *)
SendReplacement(c) ==
  /\ step = "send" /\ pc[Main] = "handling"
  /\ c \in unsent /\ (Main \in unsent => c = Main)
  /\ IF path[c] = "lost" \/ pc[c] \in Ended
     THEN Refuse
     ELSE /\ HasRoom(c)
          /\ queue' = [queue EXCEPT ![c] =
                         Append(@, [gen |-> target, now |-> switch])]
          /\ unsent' = unsent \ {c}
          /\ UNCHANGED <<serverVars, active, step, switch, target, baseline,
                         refused, path, pend, on, count, pc, cancel>>

(* All sent, or (mutant) as soon as Main's own is.                         *)
AllSentMain == Main \notin unsent
AllSent == unsent = {}

(* The answer MIGRATE_CONNECTED, or Main's own switch of transports.       *)
Prepared ==
  /\ step = "send" /\ pc[Main] = "handling" /\ AllSent
  /\ step' = "none" /\ refused' = FALSE
  /\ IF switch
     THEN /\ Goto(Main, "activating") /\ phase' = "idle"
          /\ host' = target /\ closed' = closed \cup {host}
          /\ baseline' = 0
     ELSE /\ Goto(Main, "idle") /\ phase' = "connected"
          /\ baseline' = count[Main]
          /\ UNCHANGED <<host, closed>>
  /\ UNCHANGED <<active, switch, target, unsent, queue, path, pend, on, count,
                 cancel>>

ReadCancel ==
  /\ phase = "connected" /\ on[Main] = host /\ active < MaxGeneration
  /\ ReadReturns(Main)
  /\ active' = active + 1 /\ baseline' = 0 /\ phase' = "idle"
  /\ Goto(Main, "idle")
  /\ UNCHANGED <<host, closed, step, switch, target, unsent, refused, queue,
                 pend, on, count, cancel>>

(* MIGRATE_END: Main moves unless it has moved already.  The source closes *)
(* its transports.                                                         *)
ReadEnd ==
  /\ phase \in {"connected", "handover"} /\ on[Main] = host
  /\ ReadReturns(Main)
  /\ Goto(Main, IF baseline = 0 THEN "failed"
                ELSE IF count[Main] # baseline THEN "idle"
                ELSE IF path[Main] = "lost" THEN "failed"
                ELSE "activating")
  /\ baseline' = 0
  /\ phase' = "idle" /\ host' = target /\ closed' = closed \cup {host}
  /\ UNCHANGED <<active, step, switch, target, unsent, refused, queue, pend, on,
                 count, cancel>>

-----------------------------------------------------------------------------
(* The server process ends without a migration.                            *)
ServerVanishes ==
  /\ ServerMayVanish /\ phase = "idle" /\ host \notin closed
  /\ closed' = closed \cup {host} /\ phase' = "gone"
  /\ UNCHANGED <<host, managerVars, ownerVars, cancel>>

(* The supervisor cancels the session once an owner has ended.             *)
SupervisorCancel ==
  /\ ~cancel /\ \E c \in Channels : pc[c] \in Ended
  /\ cancel' = TRUE
  /\ UNCHANGED <<serverVars, managerVars, ownerVars>>

(* A cancelled owner returns by itself or is aborted after the grace       *)
(* period, wherever it is.                                                 *)
Stop(c) ==
  /\ cancel /\ pc[c] \notin Ended
  /\ Goto(c, "stopped")
  /\ UNCHANGED <<serverVars, managerVars, queue, path, pend, on, count, cancel>>

Owner(c) ==
  \/ StartRead(c) \/ ReadData(c) \/ TakeReplacement(c) \/ EndOfFile(c)
  \/ ReadMigrate(c) \/ ActivateReplacement(c) \/ Stop(c)

Manager ==
  \/ LinkTargets \/ LinkFails \/ Prepared
  \/ \E c \in Channels : SendReplacement(c)

Server ==
  \/ \E now \in BOOLEAN : ReadBegin(now)
  \/ ReadCancel \/ ReadEnd \/ ServerVanishes

Next ==
  \/ \E c \in Channels : Owner(c) \/ AbandonRead(c)
  \/ Manager \/ Server \/ SupervisorCancel

(* Owners and the manager's sends are polled whenever they can go on, and  *)
(* the supervisor joins ended owners.  `select!` picks at random among the *)
(* ready branches, so a read is not abandoned for ever while end of file   *)
(* or a replacement is waiting.  A server need not send anything, but a    *)
(* source that has told a channel to migrate ends the migration.           *)
Fairness ==
  /\ \A c \in Channels :
       /\ WF_vars(StartRead(c) \/ ActivateReplacement(c))
       /\ SF_vars(TakeReplacement(c)) /\ SF_vars(EndOfFile(c))
       /\ WF_vars(Stop(c))
  /\ SF_vars(phase = "handover" /\ ReadEnd)
  /\ WF_vars(Manager) /\ WF_vars(SupervisorCancel)

Spec == Init /\ [][Next]_vars
FairSpec == Spec /\ Fairness

-----------------------------------------------------------------------------
(* Type invariant of the manager and the channels.                         *)
TypeOK ==
  /\ host \in Generations /\ closed \subseteq Generations
  /\ phase \in {"idle", "begun", "connected", "handover", "gone"}
  /\ active \in Generations /\ target \in Generations
  /\ step \in {"none", "link", "send"} /\ switch \in BOOLEAN
  /\ unsent \subseteq Channels /\ baseline \in Nat /\ refused \in BOOLEAN
  /\ queue \in [Channels -> Seq(Replacement)]
  /\ \A c \in Channels : Len(queue[c]) <= QueueCapacity
  /\ path \in [Channels -> {"held", "taken", "lost"}]
  /\ pend \in [Channels -> Replacement]
  /\ on \in [Channels -> Generations] /\ count \in [Channels -> Nat]
  /\ pc \in [Channels -> {"idle", "reading", "replacing", "activating",
                          "handling"} \cup Ended]
  /\ cancel \in BOOLEAN

(* No channel is left on the target of a cancelled or refused migration:   *)
(* the transport in use is that of a server that runs or has run the       *)
(* guest, of the acknowledged target, or of the target of a switch, which  *)
(* goes on or ends the session.  It holds while a new host waits for all   *)
(* channels before it migrates on; otherwise an owner at the end of file   *)
(* takes the next target before that is acknowledged.                      *)
OnServerOfGuest ==
  \A c \in Channels :
    \/ on[c] \in closed \cup {host}
    \/ on[c] = target /\ phase \in {"connected", "handover"}
    \/ on[c] = target /\ switch /\ (step = "send" \/ pc[Main] \in Ended)

(* The source is acknowledged only when every channel has its target: from *)
(* MIGRATE_CONNECTED until the end or the cancellation, each channel has   *)
(* the replacement of that generation queued or stored, or has moved; only *)
(* an owner that abandons a read can lose it.                              *)
LinkedBeforeAcknowledged ==
  phase \in {"connected", "handover"} /\ ~cancel =>
    \A c \in Channels :
      \/ pc[c] \in Ended \/ path[c] = "lost"
      \/ on[c] = target \/ pend[c].gen = target
      \/ \E i \in 1..Len(queue[c]) : queue[c][i].gen = target

(* With a target that accepts every link, a migration is never refused and *)
(* no owner is lost to it.                                                 *)
MigrationNotRefused == ~refused /\ \A c \in Channels : pc[c] # "failed"

(* Once the guest runs on another server, every channel gets there, unless *)
(* the session ends.                                                       *)
EveryChannelMoves ==
  \A c \in Channels : (on[c] # host) ~> (on[c] = host \/ cancel)

(* A server that goes away ends the session.                               *)
RemoteTermination == (phase = "gone") ~> cancel

(* Replacement queues keep their capacity, and the source is acknowledged  *)
(* only when every channel has its target.                                 *)
ReplacementsInPlace ==
  TypeOK /\ LinkedBeforeAcknowledged
=============================================================================
