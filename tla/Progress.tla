------------------------------ MODULE Progress ------------------------------
(***************************************************************************)
(* Cross-channel barriers: `ProgressRegistry`, the effective receive       *)
(* serials of `Channel`, and the part of every owner loop that reads one   *)
(* wire envelope, runs its WAIT_FOR_CHANNELS messages and publishes the    *)
(* envelope's serial (crates/oxide-spice-client/src/channel.rs).           *)
(*                                                                         *)
(* Each channel has one owner task.  A server instance numbers the         *)
(* messages of each of its transports from 1; `epoch[c]` says which server *)
(* instance channel c is talking to (0 is the source, e+1 the target of    *)
(* the e-th migration).  Only the server's own bookkeeping (wire, sent)    *)
(* and the two observation variables epoch and done mention server         *)
(* instances: the client compares bare effective serials.                  *)
(***************************************************************************)
EXTENDS Naturals, Sequences, FiniteSets

CONSTANTS
  Channels,        \* linked channel identities, `ChannelIdentity`
  Main,            \* the Main channel, the only one read during bootstrap
  SelfWaits,       \* may the peer name the envelope that carries the wait?
  MaxSent,         \* bound: highest local serial a server instance uses
  MaxTotal,        \* bound: serials used on all transports together
  MaxWaits,        \* bound: waits in one WAIT_FOR_CHANNELS list
  MaxActivations,  \* bound: transports a channel migrates through
  MaxBootstrap     \* bound: target messages consumed before activation

ASSUME MainAssumption == Main \in Channels

ASSUME BoundsAssumption ==
  /\ SelfWaits \in BOOLEAN
  /\ MaxSent \in Nat /\ MaxTotal \in Nat /\ MaxWaits \in Nat
  /\ MaxActivations \in Nat /\ MaxBootstrap \in Nat

Epochs == 0..MaxActivations

(* One entry of `WaitForChannels`; `epoch` is the instance that wrote it.  *)
Wait == [chan : Channels, serial : Nat, epoch : Epochs]

(* What an envelope does to the transport: nothing, replace it and keep    *)
(* the captured serial (MIGRATE, Main's MIGRATE_END), or replace it and    *)
(* capture the serial again (MIGRATE_SWITCH_HOST).                         *)
Kinds == {"data", "migrate", "switch"}

(* A wire envelope: its local serial, the waits it carries, and its kind.  *)
Message == [serial : Nat, waits : Seq(Wait), kind : Kinds]

VARIABLES
  wire,       \* wire[e][c]: messages instance e has sent on c, unread
  sent,       \* sent[e][c]: last local serial instance e used on c
  epoch,      \* epoch[c]: instance the transport of c is linked to
  base,       \* `Channel::received_serial_base`
  last,       \* `Channel::last_received_serial`
  completed,  \* the registry's watch value of c
  pc,         \* where the owner of c is
  serial,     \* the owner's local `serial` of the envelope in hand
  todo,       \* waits of that envelope still to be met
  replace,    \* what the envelope still has to do to the transport
  origin,     \* instance and local serial of the envelope in hand
  done,       \* done[e][c]: last local serial of instance e completed by c
  cancel      \* the session's cancellation watch

serverVars == <<wire, sent>>
progressVars == <<wire, sent, epoch, base, last, completed, pc, serial, todo,
          replace, origin, done, cancel>>

(* `Channel::received_serial`.                                             *)
Received(c) == base[c] + last[c]

(* The loop condition of `wait_for`, and an off-by-one in it.              *)
ReachedEarly(w) == completed[w.chan] + 1 >= w.serial
Reached(w) == completed[w.chan] >= w.serial

-----------------------------------------------------------------------------
(* Transports start with nothing read; only Main's bootstrap has consumed  *)
(* messages before the registry slots are created from `received_serial`.  *)
ProgressInit ==
  /\ epoch = [c \in Channels |-> 0]
  /\ base = [c \in Channels |-> 0]
  /\ \E n \in 0..MaxBootstrap :
       last = [c \in Channels |-> IF c = Main THEN n ELSE 0]
  /\ completed = last
  /\ sent = [e \in Epochs |->
               IF e = 0 THEN last ELSE [c \in Channels |-> 0]]
  /\ done = sent
  /\ wire = [e \in Epochs |-> [c \in Channels |-> <<>>]]
  /\ pc = [c \in Channels |-> "idle"]
  /\ serial = [c \in Channels |-> 0]
  /\ todo = [c \in Channels |-> <<>>]
  /\ replace = [c \in Channels |-> "data"]
  /\ origin = [c \in Channels |-> [epoch |-> 0, serial |-> 0]]
  /\ cancel = FALSE

-----------------------------------------------------------------------------
(* The peer.  It refers only to messages it has already sent, but          *)
(* with SelfWaits a list may name the envelope that carries it.  Full      *)
(* headers may skip serials.                                               *)
WaitLists(e, c, s) ==
  LET refs == {w \in [chan : Channels, serial : 1..MaxSent, epoch : {e}] :
                 \/ w.serial <= sent[e][w.chan]
                 \/ SelfWaits /\ w.chan = c /\ w.serial = s}
  IN  UNION {[1..n -> refs] : n \in 0..MaxWaits}

Used(n) == {m \in Epochs \X Channels \X (1..MaxSent) : m[3] <= n[m[1]][m[2]]}

ServerSend(e, c) ==
  \E s \in (sent[e][c] + 1)..MaxSent :
  \E ws \in WaitLists(e, c, s), k \in Kinds :
    /\ k # "data" => ws = <<>> /\ e < MaxActivations
    /\ k = "switch" => c = Main
    /\ wire' = [wire EXCEPT ![e][c] =
                  Append(@, [serial |-> s, waits |-> ws, kind |-> k])]
    /\ sent' = [sent EXCEPT ![e][c] = s]
    /\ Cardinality(Used(sent')) <= MaxTotal
    /\ UNCHANGED <<epoch, base, last, completed, pc, serial, todo, replace,
                   origin, done, cancel>>

-----------------------------------------------------------------------------
(* `read_message` returns the next envelope; the owner then captures       *)
(* `channel.received_serial()`.                                            *)
ReadMessage(c) ==
  LET q == wire[epoch[c]][c] IN
  /\ pc[c] = "idle" /\ q # <<>>
  /\ Head(q).serial > last[c]
  /\ wire' = [wire EXCEPT ![epoch[c]][c] = Tail(q)]
  /\ last' = [last EXCEPT ![c] = Head(q).serial]
  /\ serial' = [serial EXCEPT ![c] = base[c] + Head(q).serial]
  /\ todo' = [todo EXCEPT ![c] = Head(q).waits]
  /\ replace' = [replace EXCEPT ![c] = Head(q).kind]
  /\ origin' = [origin EXCEPT ![c] =
                  [epoch |-> epoch[c], serial |-> Head(q).serial]]
  /\ pc' = [pc EXCEPT ![c] = "busy"]
  /\ UNCHANGED <<sent, epoch, base, completed, done, cancel>>

(* A wait on the requester itself that can never be met is a protocol      *)
(* error.                                                                  *)
SelfWaitUnchecked(c) == FALSE
SelfWait(c) ==
  LET w == Head(todo[c]) IN w.chan = c /\ w.serial >= serial[c]

RejectSelfWait(c) ==
  /\ pc[c] = "busy" /\ todo[c] # <<>> /\ SelfWait(c)
  /\ pc' = [pc EXCEPT ![c] = "failed"]
  /\ UNCHANGED <<serverVars, epoch, base, last, completed, serial, todo,
                 replace, origin, done, cancel>>

(* One iteration of `wait_for`: the target's published serial has reached  *)
(* the one asked for.                                                      *)
WaitMet(c) ==
  /\ pc[c] = "busy" /\ todo[c] # <<>> /\ ~SelfWait(c)
  /\ Reached(Head(todo[c]))
  /\ todo' = [todo EXCEPT ![c] = Tail(@)]
  /\ UNCHANGED <<serverVars, epoch, base, last, completed, pc, serial,
                 replace, origin, done, cancel>>

(* `wait_for` sees the cancellation while a wait is unmet.                 *)
WaitCancelled(c) ==
  /\ pc[c] = "busy" /\ todo[c] # <<>> /\ ~SelfWait(c) /\ cancel
  /\ ~Reached(Head(todo[c]))
  /\ pc' = [pc EXCEPT ![c] = "failed"]
  /\ UNCHANGED <<serverVars, epoch, base, last, completed, serial, todo,
                 replace, origin, done, cancel>>

-----------------------------------------------------------------------------
(* `activate_replacement`: the replacement channel, which may already have *)
(* consumed `n` messages of the target, takes over the migration path and  *)
(* counts from serial base b, or (mutant) from the base it had.            *)
RebasedNot(c, b) == base
Rebased(c, b) == [base EXCEPT ![c] = b]

Install(c, b, n) ==
  LET e == epoch[c] + 1 IN
  /\ e \in Epochs
  /\ n <= Len(wire[e][c]) /\ (n > 0 => c = Main)
  /\ \A i \in 1..n : wire[e][c][i].waits = <<>> /\ wire[e][c][i].kind = "data"
  /\ epoch' = [epoch EXCEPT ![c] = e]
  /\ base' = Rebased(c, b)
  /\ last' = [last EXCEPT ![c] = IF n = 0 THEN 0 ELSE wire[e][c][n].serial]
  /\ done' = [done EXCEPT ![e][c] =
                IF n = 0 THEN 0 ELSE wire[e][c][n].serial]
  /\ wire' = [wire EXCEPT ![e][c] = SubSeq(@, n + 1, Len(@))]

(* An `activate_immediately` replacement, or end of file with one queued,  *)
(* replaces the transport inside `read_message`.                           *)
ActivateInRead(c) ==
  /\ pc[c] = "idle"
  /\ \E n \in 0..MaxBootstrap : Install(c, Received(c), n)
  /\ UNCHANGED <<sent, completed, pc, serial, todo, replace, origin, cancel>>

(* With NEED_DATA_TRANSFER the MIGRATE_DATA message is read first.  It has *)
(* no serial of its own as far as the owner is concerned: the base is the  *)
(* serial of the MIGRATE.                                                  *)
ReadMigrateData(c) ==
  LET q == wire[epoch[c]][c] IN
  /\ pc[c] = "busy" /\ todo[c] = <<>> /\ replace[c] = "migrate" /\ q # <<>>
  /\ serial[c] = Received(c) /\ Head(q).serial > last[c]
  /\ last' = [last EXCEPT ![c] = Head(q).serial]
  /\ wire' = [wire EXCEPT ![epoch[c]][c] = Tail(q)]
  /\ UNCHANGED <<sent, epoch, base, completed, pc, serial, todo, replace,
                 origin, done, cancel>>

MigrateToReplacement(c) ==
  /\ pc[c] = "busy" /\ todo[c] = <<>> /\ replace[c] = "migrate"
  /\ \E n \in 0..MaxBootstrap : Install(c, serial[c], n)
  /\ replace' = [replace EXCEPT ![c] = "data"]
  /\ UNCHANGED <<sent, completed, pc, serial, todo, origin, cancel>>

(* MIGRATE_SWITCH_HOST on Main: the serial to publish is captured again    *)
(* from the bootstrapped target transport.                                 *)
SwitchHost(c) ==
  /\ pc[c] = "busy" /\ todo[c] = <<>> /\ replace[c] = "switch"
  /\ \E n \in 0..MaxBootstrap : Install(c, Received(c), n)
  /\ serial' = [serial EXCEPT ![c] = base'[c] + last'[c]]
  /\ replace' = [replace EXCEPT ![c] = "data"]
  /\ UNCHANGED <<sent, completed, pc, todo, origin, cancel>>

-----------------------------------------------------------------------------
(* The envelope is fully dispatched: `ProgressRegistry::complete`, which   *)
(* refuses a serial that is not beyond the published one.                  *)
Complete(c) ==
  /\ pc[c] = "busy" /\ todo[c] = <<>> /\ replace[c] = "data"
  /\ IF serial[c] <= completed[c]
     THEN /\ pc' = [pc EXCEPT ![c] = "nonMonotonic"]
          /\ UNCHANGED <<completed, done>>
     ELSE /\ pc' = [pc EXCEPT ![c] = "idle"]
          /\ completed' = [completed EXCEPT ![c] = serial[c]]
          /\ done' = [done EXCEPT ![origin[c].epoch][c] = origin[c].serial]
  /\ UNCHANGED <<serverVars, epoch, base, last, serial, todo, replace,
                 origin, cancel>>

(* The host shuts the session down, or the supervisor does after an owner  *)
(* has ended with an error.                                                *)
RequestCancel ==
  /\ ~cancel
  /\ cancel' = TRUE
  /\ UNCHANGED <<serverVars, epoch, base, last, completed, pc, serial, todo,
                 replace, origin, done>>

HostShutdown == RequestCancel

SupervisorCancel ==
  /\ \E c \in Channels : pc[c] \in {"failed", "nonMonotonic"}
  /\ RequestCancel

(* A cancelled owner leaves its loop between envelopes.                    *)
Stop(c) ==
  /\ cancel /\ pc[c] = "idle"
  /\ pc' = [pc EXCEPT ![c] = "stopped"]
  /\ UNCHANGED <<serverVars, epoch, base, last, completed, serial, todo,
                 replace, origin, done, cancel>>

Owner(c) ==
  \/ ReadMessage(c) \/ RejectSelfWait(c) \/ WaitMet(c) \/ WaitCancelled(c)
  \/ ActivateInRead(c) \/ ReadMigrateData(c) \/ MigrateToReplacement(c)
  \/ SwitchHost(c) \/ Complete(c) \/ Stop(c)

ProgressNext ==
  \/ \E e \in Epochs, c \in Channels : ServerSend(e, c)
  \/ \E c \in Channels : Owner(c)
  \/ HostShutdown \/ SupervisorCancel

(* The runtime polls every ready task, a queued envelope is delivered and  *)
(* the supervisor joins a failed owner.  Nothing obliges the server to     *)
(* send, a migration to happen or the host to shut down.                   *)
ProgressFairness ==
  /\ \A c \in Channels :
       WF_progressVars(\/ ReadMessage(c) \/ RejectSelfWait(c) \/ WaitMet(c)
               \/ WaitCancelled(c) \/ MigrateToReplacement(c)
               \/ SwitchHost(c) \/ Complete(c) \/ Stop(c))
  /\ WF_progressVars(SupervisorCancel)

ProgressSpec == ProgressInit /\ [][ProgressNext]_progressVars

ProgressFairSpec == ProgressSpec /\ ProgressFairness

-----------------------------------------------------------------------------
(* Type invariant: owner positions, serials and queues have the shapes     *)
(* that `Channel`, `ProgressRegistry` and the wire give them.              *)
ProgressTypeOK ==
  /\ wire \in [Epochs -> [Channels -> Seq(Message)]]
  /\ sent \in [Epochs -> [Channels -> Nat]]
  /\ epoch \in [Channels -> Epochs]
  /\ base \in [Channels -> Nat] /\ last \in [Channels -> Nat]
  /\ completed \in [Channels -> Nat] /\ serial \in [Channels -> Nat]
  /\ pc \in [Channels -> {"idle", "busy", "failed", "nonMonotonic",
                          "stopped"}]
  /\ todo \in [Channels -> Seq(Wait)]
  /\ replace \in [Channels -> Kinds]
  /\ origin \in [Channels -> [epoch : Epochs, serial : Nat]]
  /\ done \in [Epochs -> [Channels -> Nat]]
  /\ cancel \in BOOLEAN

(* Publishing never trips the internal "non-monotonic completed serial"    *)
(* error: however often transports are replaced, in whichever of the four  *)
(* ways, the effective serial of an envelope is beyond everything its      *)
(* channel has published, although the new transport counts from 1 again.  *)
CompletionMonotonic == \A c \in Channels : pc[c] # "nonMonotonic"

(* The barrier: when `wait_for` lets an owner past a wait, the target      *)
(* channel has completed the very message that the server named, as long   *)
(* as neither the wait nor that channel has to do with a migration.        *)
BarrierHonoured ==
  [][\A c \in Channels :
       (Len(todo'[c]) < Len(todo[c])) =>
         LET w == Head(todo[c]) IN
         w.epoch = 0 /\ epoch[w.chan] = 0 => done[0][w.chan] >= w.serial]_progressVars

(* The same for every wait, also after transports have been replaced.      *)
BarrierAcrossMigration ==
  [][\A c \in Channels :
       (Len(todo'[c]) < Len(todo[c])) =>
         LET w == Head(todo[c]) IN done[w.epoch][w.chan] >= w.serial]_progressVars

(* No owner sleeps in WAIT_FOR_CHANNELS for ever: every envelope it starts *)
(* on is finished, refused or abandoned on cancellation, unless a          *)
(* transport is replaced, with which a message waited for may be lost.     *)
EnvelopesEnd ==
  \A c \in Channels :
    (pc[c] = "busy") ~> (pc[c] # "busy" \/ \E d \in Channels : epoch[d] # 0)
=============================================================================
