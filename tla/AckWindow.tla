----------------------------- MODULE AckWindow ------------------------------
(***************************************************************************)
(* ACK flow control of one channel: `ControlState`                         *)
(* (crates/oxide-spice-client/src/channel.rs), which every owner applies   *)
(* to each wire envelope it reads, across the replacement of the transport *)
(* during migration.  Main handles MIGRATE_END, MIGRATE_SWITCH_HOST and    *)
(* the seamless decision of a target itself (session.rs).                  *)
(*                                                                         *)
(* One owner handles a channel's envelopes one by one and shares none of   *)
(* this state, so an envelope is one step.  The server of each transport   *)
(* is external and may send any envelope.  `installed`, `counted` and      *)
(* `acks` observe, per transport, the window that its server installed,    *)
(* the envelopes that count towards it, and the ACKs it was sent.          *)
(***************************************************************************)
EXTENDS Naturals

CONSTANTS
  Windows,         \* window sizes that a SET_ACK may carry
  MainKinds,       \* which of Main's own migration messages occur
  MaxEnvelopes,    \* bound: envelopes counted on one transport
  MaxActivations   \* bound: `migration_activation_count`

ASSUME AckAssumption ==
  /\ Windows \subseteq Nat
  /\ MainKinds \subseteq {"end", "switch", "decision"}
  /\ MaxEnvelopes \in Nat /\ MaxActivations \in Nat

Transports == 0..MaxActivations

VARIABLES
  kinds,             \* Main's messages that this channel handles
  window, consumed,  \* `window`, `consumed_since_ack`
  seen,              \* the state's `migration_activation_count`
  epoch,             \* the channel's `migration_activation_count`
  boot,              \* why Main's handler reads a target, or "none"
  target,            \* the ControlState used for reading it
  installed, counted, acks

control == <<window, consumed, seen>>
observed == <<installed, counted, acks>>
ackVars == <<kinds, control, epoch, boot, target, observed>>

New == [window |-> 0, consumed |-> 0]

(* The channel is a child or Main.                                         *)
AckInit ==
  /\ kinds \in {{}, MainKinds}
  /\ window = 0 /\ consumed = 0 /\ seen = 0 /\ epoch = 0
  /\ boot = "none" /\ target = New
  /\ installed = [t \in Transports |-> 0]
  /\ counted = [t \in Transports |-> 0]
  /\ acks = [t \in Transports |-> 0]

-----------------------------------------------------------------------------
(* The state that `handle_inner` works on: a replaced transport resets it. *)
Synchronized ==
  IF seen # epoch THEN New ELSE [window |-> window, consumed |-> consumed]

(* `acknowledge_envelope` from state k: how many ACKs it writes, and the   *)
(* state after it.                                                         *)
Acks(k) == IF k.window # 0 /\ k.consumed + 1 >= k.window THEN 1 ELSE 0

Acknowledged(k) ==
  IF k.window = 0 THEN k
  ELSE [k EXCEPT !.consumed = IF Acks(k) = 1 THEN 0 ELSE @ + 1]

SetControl(k) == window' = k.window /\ consumed' = k.consumed

(* What the server of transport t sees: n envelopes counted, a ACKs.       *)
Observe(t, n, a) ==
  /\ counted[t] + n <= MaxEnvelopes
  /\ counted' = [counted EXCEPT ![t] = @ + n]
  /\ acks' = [acks EXCEPT ![t] = @ + a]

(* SET_ACK on transport t starts a new window there.                       *)
Installs(t, w, n, a) ==
  /\ installed' = [installed EXCEPT ![t] = w]
  /\ counted' = [counted EXCEPT ![t] = n]
  /\ acks' = [acks EXCEPT ![t] = a]

-----------------------------------------------------------------------------
(* An envelope of the transport in use, none of whose messages changes the *)
(* state; at least one of them makes `handle_inner` synchronize it.        *)
Envelope ==
  LET k == Synchronized IN
  /\ SetControl(Acknowledged(k)) /\ seen' = epoch
  /\ Observe(epoch, 1, Acks(k))
  /\ UNCHANGED <<kinds, epoch, installed>>

Data == boot = "none" /\ Envelope /\ UNCHANGED <<boot, target>>

(* A plain SET_ACK, which does not count itself.                           *)
SetAck(w) ==
  /\ boot = "none"
  /\ SetControl([window |-> w, consumed |-> 0]) /\ seen' = epoch
  /\ Installs(epoch, w, 0, 0)
  /\ UNCHANGED <<kinds, epoch, boot, target>>

(* A SET_ACK with or within a list of messages: the envelope counts.       *)
ListedSetAck(w) ==
  LET k == [window |-> w, consumed |-> 0] IN
  /\ boot = "none"
  /\ SetControl(Acknowledged(k)) /\ seen' = epoch
  /\ Installs(epoch, w, 1, Acks(k))
  /\ UNCHANGED <<kinds, epoch, boot, target>>

Activates == epoch < MaxActivations /\ epoch' = epoch + 1

(* MIGRATE: the transport is replaced and the state is reset; with no      *)
(* window the envelope is not acknowledged.  The mutant keeps the window.  *)
MigrateKeepingWindow ==
  LET k == Synchronized IN
  /\ boot = "none" /\ Activates
  /\ SetControl(Acknowledged(k)) /\ seen' = epoch'
  /\ Observe(epoch', 0, Acks(k))
  /\ UNCHANGED <<kinds, boot, target, installed>>

Migrate ==
  /\ boot = "none" /\ Activates
  /\ SetControl(New) /\ seen' = epoch'
  /\ UNCHANGED <<kinds, boot, target, observed>>

(* `read_message` replaces the transport; the next message resets.         *)
ActivateInRead ==
  /\ boot = "none" /\ Activates
  /\ UNCHANGED <<kinds, control, boot, target, observed>>

-----------------------------------------------------------------------------
(* Main, MIGRATE_END before the transport was replaced: it is replaced     *)
(* within the handler, and the envelope is then counted in the state of    *)
(* the old one.  The mutant takes the state over for the new transport.    *)
MigrateEndSynchronized ==
  LET k == Synchronized IN
  /\ "end" \in kinds /\ boot = "none" /\ Activates
  /\ SetControl(Acknowledged(k)) /\ seen' = epoch'
  /\ Observe(epoch', 0, Acks(k))
  /\ UNCHANGED <<kinds, boot, target, installed>>

MigrateEnd ==
  LET k == Synchronized IN
  /\ "end" \in kinds /\ boot = "none" /\ Activates
  /\ SetControl(Acknowledged(k)) /\ seen' = epoch
  /\ Observe(epoch', 0, Acks(k))
  /\ UNCHANGED <<kinds, boot, target, installed>>

(* Main, MIGRATE_CANCEL: the next target will be another server.           *)
MigrateCancel ==
  LET k == Synchronized IN
  /\ "decision" \in kinds /\ boot = "none"
  /\ epoch < MaxActivations /\ counted[epoch] < MaxEnvelopes
  /\ SetControl(Acknowledged(k)) /\ seen' = epoch
  /\ installed' = [installed EXCEPT ![epoch + 1] = 0]
  /\ counted' = [counted EXCEPT ![epoch] = @ + 1, ![epoch + 1] = 0]
  /\ acks' = [acks EXCEPT ![epoch] = @ + Acks(k), ![epoch + 1] = 0]
  /\ UNCHANGED <<kinds, epoch, boot, target>>

(* Main's handler of MIGRATE_SWITCH_HOST (`bootstrap_main`) and of         *)
(* MIGRATE_BEGIN_SEAMLESS (`await_seamless_decision`) reads from a fresh   *)
(* target, with a state of its own.                                        *)
StartTarget(kind) ==
  /\ kind \in kinds /\ kind # "end"
  /\ boot = "none" /\ epoch < MaxActivations
  /\ boot' = kind /\ target' = New
  /\ Installs(epoch + 1, 0, 0, 0)
  /\ UNCHANGED <<kinds, control, epoch>>

TargetSetAck(w) ==
  /\ boot # "none"
  /\ target' = [window |-> w, consumed |-> 0]
  /\ Installs(epoch + 1, w, 0, 0)
  /\ UNCHANGED <<kinds, control, epoch, boot>>

TargetData ==
  /\ boot # "none"
  /\ target' = Acknowledged(target)
  /\ Observe(epoch + 1, 1, Acks(target))
  /\ UNCHANGED <<kinds, control, epoch, boot, installed>>

(* The switch: the target's state takes over, and the envelope of the old  *)
(* transport is counted in it.                                             *)
SwitchHost ==
  /\ boot = "switch" /\ Activates
  /\ SetControl(Acknowledged(target)) /\ seen' = epoch'
  /\ Observe(epoch', 0, Acks(target))
  /\ boot' = "none" /\ target' = New
  /\ UNCHANGED <<kinds, installed>>

(* The seamless decision: the target's state is dropped, and the envelope  *)
(* of the transport in use is counted.                                     *)
Decision ==
  /\ boot = "decision" /\ Envelope
  /\ boot' = "none" /\ target' = New

AckNext ==
  \/ Data \/ Migrate \/ ActivateInRead
  \/ \E w \in Windows : SetAck(w) \/ ListedSetAck(w) \/ TargetSetAck(w)
  \/ MigrateEnd \/ MigrateCancel \/ TargetData \/ SwitchHost \/ Decision
  \/ \E kind \in kinds : StartTarget(kind)

AckSpec == AckInit /\ [][AckNext]_ackVars

-----------------------------------------------------------------------------
(* Type invariant of the control state and the observed transports; an     *)
(* ACK is written as soon as a window is consumed.                         *)
AckTypeOK ==
  /\ kinds \subseteq MainKinds
  /\ window \in Nat /\ consumed \in Nat
  /\ consumed = 0 \/ consumed < window
  /\ seen \in Transports /\ epoch \in Transports
  /\ boot \in {"none", "switch", "decision"}
  /\ target \in [window : Nat, consumed : Nat]
  /\ installed \in [Transports -> Nat]
  /\ counted \in [Transports -> Nat] /\ acks \in [Transports -> Nat]

(* The server of the transport in use gets one ACK for every window of     *)
(* envelopes since it installed the window, no more and no fewer, and none *)
(* without a window, across any sequence of windows and migrations.        *)
AckExact ==
  IF installed[epoch] = 0 THEN acks[epoch] = 0
  ELSE /\ acks[epoch] * installed[epoch] <= counted[epoch]
       /\ counted[epoch] < (acks[epoch] + 1) * installed[epoch]

(* So it is on every channel without migration messages of its own.        *)
AckPerWindow == kinds = {} => AckExact

(* Whatever Main migrates through, the server in use gets at most one ACK  *)
(* before it is due.                                                       *)
AtMostOneEarly ==
  IF installed[epoch] = 0 THEN acks[epoch] <= 1
  ELSE acks[epoch] * installed[epoch] <= counted[epoch] + installed[epoch]
=============================================================================
