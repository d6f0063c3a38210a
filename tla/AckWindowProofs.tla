-------------------------- MODULE AckWindowProofs ---------------------------
(***************************************************************************)
(* ACK flow control is exact, for every window, on every channel that does *)
(* not handle Main's own migration messages.  The inductive invariant says *)
(* that the synchronized state, not the stored one, agrees with what the   *)
(* server of the transport in use has seen, and that the transports not    *)
(* yet in use have seen nothing.                                           *)
(***************************************************************************)
EXTENDS AckWindow, TLAPS

(* The state that the next message will work on agrees with the server.    *)
Agrees(k) ==
  /\ k.window = installed[epoch]
  /\ IF k.window = 0 THEN k.consumed = 0 /\ acks[epoch] = 0
     ELSE k.consumed < k.window
          /\ counted[epoch] = acks[epoch] * k.window + k.consumed

Untouched ==
  \A t \in Transports : t > epoch => installed[t] = 0 /\ acks[t] = 0

AInv ==
  /\ AckTypeOK /\ kinds = {} /\ boot = "none" /\ target = New /\ seen <= epoch
  /\ Agrees(Synchronized) /\ Untouched

-----------------------------------------------------------------------------
(* One more consumed envelope keeps the count of `acknowledge_envelope`    *)
(* exact: either the window closes with an ACK or the count goes on.       *)
LEMMA Exact ==
  ASSUME NEW w \in Nat \ {0}, NEW c \in Nat, NEW n \in Nat, NEW a \in Nat,
         c < w, n = a * w + c
  PROVE  /\ c + 1 >= w => c + 1 = w /\ n + 1 = (a + 1) * w + 0
         /\ ~(c + 1 >= w) => c + 1 < w /\ n + 1 = a * w + (c + 1)
<1>1. a * w \in Nat
  OBVIOUS
<1>2. (a + 1) * w = a * w + w
  OBVIOUS
<1> QED
  BY <1>1, <1>2

(* The count determines how many windows have been consumed.               *)
LEMMA Quotient ==
  ASSUME NEW w \in Nat \ {0}, NEW c \in Nat, NEW n \in Nat, NEW a \in Nat,
         c < w, n = a * w + c
  PROVE  a * w <= n /\ n < (a + 1) * w
<1>1. a * w \in Nat
  OBVIOUS
<1>2. (a + 1) * w = a * w + w
  OBVIOUS
<1> QED
  BY <1>1, <1>2

(* `acknowledge_envelope` on well-typed states.                            *)
LEMMA AcknowledgedShape ==
  ASSUME NEW k \in [window : Nat, consumed : Nat],
         k.consumed = 0 \/ k.consumed < k.window
  PROVE  /\ Acknowledged(k) \in [window : Nat, consumed : Nat]
         /\ Acknowledged(k).window = k.window
         /\ Acks(k) \in {0, 1}
         /\ Acknowledged(k).consumed = 0
              \/ Acknowledged(k).consumed < k.window
         /\ k.window = 0 => Acks(k) = 0 /\ Acknowledged(k) = k
         /\ k.window # 0 /\ k.consumed + 1 >= k.window
              => Acks(k) = 1 /\ Acknowledged(k).consumed = 0
         /\ k.window # 0 /\ ~(k.consumed + 1 >= k.window)
              => Acks(k) = 0 /\ Acknowledged(k).consumed = k.consumed + 1
BY DEF Acknowledged, Acks

LEMMA SynchronizedType ==
  ASSUME AckTypeOK
  PROVE  /\ Synchronized \in [window : Nat, consumed : Nat]
         /\ Synchronized.consumed = 0
              \/ Synchronized.consumed < Synchronized.window
BY DEF AckTypeOK, Synchronized, New

(* The initial state satisfies the invariant.                              *)
LEMMA AInit == AckInit /\ kinds = {} => AInv
BY AckAssumption
   DEF AckInit, AInv, AckTypeOK, Agrees, Untouched, Synchronized, New, Transports

(* An envelope counted from state k, whose count was exact.                *)
LEMMA AData == AInv /\ Data => AInv'
<1> SUFFICES ASSUME AInv, Data PROVE AInv'
  OBVIOUS
<1> DEFINE k == Synchronized
<1> DEFINE r == Acknowledged(k)
<1>0. /\ k \in [window : Nat, consumed : Nat]
      /\ k.consumed = 0 \/ k.consumed < k.window
  BY SynchronizedType DEF AInv
<1>1. /\ r \in [window : Nat, consumed : Nat]
      /\ r.window = k.window /\ Acks(k) \in {0, 1}
      /\ r.consumed = 0 \/ r.consumed < k.window
      /\ k.window = 0 => Acks(k) = 0 /\ r = k
      /\ k.window # 0 /\ k.consumed + 1 >= k.window
           => Acks(k) = 1 /\ r.consumed = 0
      /\ k.window # 0 /\ ~(k.consumed + 1 >= k.window)
           => Acks(k) = 0 /\ r.consumed = k.consumed + 1
  BY <1>0, AcknowledgedShape
<1>2. /\ window' = r.window /\ consumed' = r.consumed
      /\ seen' = epoch /\ epoch' = epoch /\ installed' = installed
      /\ kinds' = kinds /\ boot' = boot /\ target' = target
      /\ counted' = [counted EXCEPT ![epoch] = @ + 1]
      /\ acks' = [acks EXCEPT ![epoch] = @ + Acks(k)]
  BY DEF Data, Envelope, SetControl, Observe
<1>3. /\ Agrees(k) /\ Untouched /\ AckTypeOK
      /\ kinds = {} /\ boot = "none" /\ target = New
  BY DEF AInv
<1>4. Synchronized' = [window |-> r.window, consumed |-> r.consumed]
  <2> HIDE DEF r
  <2> QED BY <1>2 DEF Synchronized
<1> HIDE DEF k, r
<1>5. AckTypeOK'
  <2>1. /\ window' \in Nat /\ consumed' \in Nat
        /\ consumed' = 0 \/ consumed' < window'
    BY <1>1, <1>2
  <2>2. /\ counted' \in [Transports -> Nat] /\ acks' \in [Transports -> Nat]
        /\ installed' \in [Transports -> Nat]
    BY <1>1, <1>2, <1>3 DEF AckTypeOK
  <2>3. /\ seen' \in Transports /\ epoch' \in Transports
        /\ boot' \in {"none", "switch", "decision"}
        /\ target' \in [window : Nat, consumed : Nat]
        /\ kinds' \subseteq MainKinds
    BY <1>2, <1>3 DEF AckTypeOK
  <2> QED
    BY <2>1, <2>2, <2>3 DEF AckTypeOK, Transports
<1>6. Agrees(Synchronized)'
  <2>1. /\ epoch \in Transports
        /\ counted'[epoch] = counted[epoch] + 1
        /\ acks'[epoch] = acks[epoch] + Acks(k)
        /\ counted[epoch] \in Nat /\ acks[epoch] \in Nat
    BY <1>1, <1>2, <1>3 DEF AckTypeOK
  <2>2. CASE k.window = 0
    BY <2>1, <2>2, <1>0, <1>1, <1>2, <1>3, <1>4 DEF Agrees
  <2>3. CASE k.window # 0
    <3>1. /\ k.window \in Nat \ {0} /\ k.consumed \in Nat
          /\ k.consumed < k.window
          /\ counted[epoch] = acks[epoch] * k.window + k.consumed
      BY <2>3, <1>0, <1>3 DEF Agrees
    <3>2. /\ k.consumed + 1 >= k.window =>
               /\ k.consumed + 1 = k.window
               /\ counted[epoch] + 1 = (acks[epoch] + 1) * k.window + 0
          /\ ~(k.consumed + 1 >= k.window) =>
               /\ k.consumed + 1 < k.window
               /\ counted[epoch] + 1
                    = acks[epoch] * k.window + (k.consumed + 1)
      BY <3>1, <2>1, Exact
    <3>3. counted'[epoch'] = acks'[epoch'] * k.window + r.consumed
      BY <3>1, <3>2, <2>1, <2>3, <1>1, <1>2
    <3>4. r.consumed < k.window
      BY <3>1, <1>1, <2>3
    <3>5. installed'[epoch'] = k.window /\ r.window = k.window
      BY <1>1, <1>2, <1>3 DEF Agrees
    <3> QED
      BY <3>3, <3>4, <3>5, <2>3, <1>4 DEF Agrees
  <2> QED BY <2>2, <2>3
<1>7. Untouched'
  BY <1>1, <1>2, <1>3 DEF Untouched, AckTypeOK, Transports
<1>8. seen' <= epoch'
  BY <1>2, <1>3 DEF AckTypeOK, Transports
<1> QED
  BY <1>2, <1>3, <1>5, <1>6, <1>7, <1>8 DEF AInv, New

(* A window installed by SET_ACK starts with an empty count, or with its   *)
(* own envelope when it comes in a list.                                   *)
LEMMA ASetAck ==
  ASSUME AInv, NEW w \in Windows, SetAck(w)
  PROVE  AInv'
<1>1. /\ window' = w /\ consumed' = 0 /\ seen' = epoch /\ epoch' = epoch
      /\ installed' = [installed EXCEPT ![epoch] = w]
      /\ counted' = [counted EXCEPT ![epoch] = 0]
      /\ acks' = [acks EXCEPT ![epoch] = 0]
      /\ kinds' = kinds /\ boot' = boot /\ target' = target
  BY DEF SetAck, SetControl, Installs
<1>2. w \in Nat
  BY AckAssumption
<1>3. AckTypeOK'
  BY <1>1, <1>2 DEF AInv, AckTypeOK
<1>4. Synchronized' = [window |-> w, consumed |-> 0]
  BY <1>1 DEF Synchronized
<1>5. Agrees(Synchronized)'
  BY <1>1, <1>2, <1>4 DEF AInv, AckTypeOK, Agrees
<1>6. Untouched'
  BY <1>1 DEF AInv, AckTypeOK, Untouched, Transports
<1> QED
  BY <1>1, <1>3, <1>5, <1>6 DEF AInv, AckTypeOK, Transports, New

LEMMA AListedSetAck ==
  ASSUME AInv, NEW w \in Windows, ListedSetAck(w)
  PROVE  AInv'
<1> DEFINE k == [window |-> w, consumed |-> 0]
<1> DEFINE r == Acknowledged(k)
<1>1. /\ window' = r.window /\ consumed' = r.consumed
      /\ seen' = epoch /\ epoch' = epoch
      /\ installed' = [installed EXCEPT ![epoch] = w]
      /\ counted' = [counted EXCEPT ![epoch] = 1]
      /\ acks' = [acks EXCEPT ![epoch] = Acks(k)]
      /\ kinds' = kinds /\ boot' = boot /\ target' = target
  BY DEF ListedSetAck, SetControl, Installs
<1>2. w \in Nat
  BY AckAssumption
<1>3. /\ r \in [window : Nat, consumed : Nat]
      /\ r.window = w /\ Acks(k) \in {0, 1}
      /\ r.consumed = 0 \/ r.consumed < w
      /\ w = 0 => Acks(k) = 0 /\ r.consumed = 0
      /\ w # 0 /\ 1 >= w => Acks(k) = 1 /\ r.consumed = 0
      /\ w # 0 /\ ~(1 >= w) => Acks(k) = 0 /\ r.consumed = 1
  BY <1>2 DEF Acknowledged, Acks
<1> HIDE DEF k, r
<1>4. AckTypeOK'
  BY <1>1, <1>2, <1>3 DEF AInv, AckTypeOK
<1>5. Synchronized' = [window |-> r.window, consumed |-> r.consumed]
  BY <1>1 DEF Synchronized
<1>6. /\ installed'[epoch'] = w /\ counted'[epoch'] = 1
      /\ acks'[epoch'] = Acks(k)
  BY <1>1 DEF AInv, AckTypeOK
<1>7. w # 0 => r.consumed < w /\ 1 = Acks(k) * w + r.consumed
  BY <1>2, <1>3
<1>8. Agrees(Synchronized)'
  BY <1>3, <1>5, <1>6, <1>7 DEF Agrees
<1>9. Untouched'
  BY <1>1 DEF AInv, AckTypeOK, Untouched, Transports
<1> QED
  BY <1>1, <1>4, <1>8, <1>9 DEF AInv, AckTypeOK, Transports, New

(* A replaced transport: its server has seen nothing, and the synchronized *)
(* state has no window.                                                    *)
LEMMA AActivate ==
  ASSUME AInv, Migrate \/ ActivateInRead
  PROVE  AInv'
<1>1. /\ epoch < MaxActivations /\ epoch' = epoch + 1
      /\ installed' = installed /\ counted' = counted /\ acks' = acks
      /\ kinds' = kinds /\ boot' = boot /\ target' = target
      /\ \/ window' = 0 /\ consumed' = 0 /\ seen' = epoch'
         \/ window' = window /\ consumed' = consumed /\ seen' = seen
  BY DEF Migrate, ActivateInRead, Activates, SetControl, New, control,
         observed
<1>2. AckTypeOK'
  <2>0. epoch \in Transports /\ seen \in Transports
    BY DEF AInv, AckTypeOK
  <2>1. epoch' \in Transports /\ seen' \in Transports
    <3>1. epoch' \in Transports
      BY <2>0, <1>1, AckAssumption DEF Transports
    <3>2. seen' = epoch' \/ seen' = seen
      BY <1>1
    <3> QED
      BY <3>1, <3>2, <2>0
  <2>2. /\ window' \in Nat /\ consumed' \in Nat
        /\ consumed' = 0 \/ consumed' < window'
    BY <1>1 DEF AInv, AckTypeOK
  <2> QED
    BY <2>1, <2>2, <1>1 DEF AInv, AckTypeOK, Transports
<1>3. installed[epoch'] = 0 /\ acks[epoch'] = 0
  <2>1. epoch \in Transports /\ Untouched
    BY DEF AInv, AckTypeOK
  <2>2. epoch' \in Transports /\ epoch' > epoch
    BY <1>1, <2>1, AckAssumption DEF Transports
  <2> QED
    BY <2>1, <2>2 DEF Untouched
<1>4. Untouched'
  BY <1>1, AckAssumption DEF AInv, AckTypeOK, Untouched, Transports
<1>5. seen' <= epoch'
  BY <1>1 DEF AInv, AckTypeOK, Transports
<1>6. Synchronized' = New
  BY <1>1 DEF AInv, AckTypeOK, Transports, Synchronized, New
<1>7. Agrees(Synchronized)'
  BY <1>1, <1>3, <1>6 DEF Agrees, New
<1> QED
  BY <1>1, <1>2, <1>4, <1>5, <1>7 DEF AInv, New

-----------------------------------------------------------------------------
(* Without Main's own migration messages, every step keeps the invariant.  *)
LEMMA ANext ==
  ASSUME AInv, [AckNext]_ackVars
  PROVE  AInv'
<1>1. CASE Data
  BY <1>1, AData
<1>2. CASE Migrate \/ ActivateInRead
  BY <1>2, AActivate
<1>3. ASSUME NEW w \in Windows, SetAck(w) \/ ListedSetAck(w)
      PROVE  AInv'
  BY <1>3, ASetAck, AListedSetAck
<1>4. ASSUME NEW w \in Windows, TargetSetAck(w)
      PROVE  FALSE
  BY <1>4 DEF TargetSetAck, AInv
<1>5. CASE MigrateEnd \/ MigrateCancel \/ TargetData \/ SwitchHost \/ Decision
  BY <1>5 DEF MigrateEnd, MigrateCancel, TargetData, SwitchHost, Decision, AInv
<1>7. ASSUME NEW kind \in kinds
      PROVE  FALSE
  BY <1>7 DEF AInv
<1>6. CASE UNCHANGED ackVars
  <2>1. Synchronized' = Synchronized
    BY <1>6 DEF ackVars, control, Synchronized
  <2> QED
    BY <2>1, <1>6
       DEF ackVars, control, observed, AInv, AckTypeOK, Agrees, Untouched, New
<1> QED
  BY <1>1, <1>2, <1>3, <1>4, <1>5, <1>6, <1>7 DEF AckNext

(* For every set of windows and any number of replacements: on a child,    *)
(* which migrates by MIGRATE or inside `read_message`, `ControlState` sends *)
(* exactly one ACK for each window of envelopes that the server of the     *)
(* transport in use has counted, and none before it installs a window.     *)
THEOREM AcksAreExact == AckSpec => []AckPerWindow
<1> DEFINE Child == kinds = {} => AInv
<1>1. Child => AckPerWindow
  <2> SUFFICES ASSUME AInv PROVE AckExact
    BY DEF AckPerWindow
  <2> DEFINE k == Synchronized
  <2>1. k \in [window : Nat, consumed : Nat] /\ Agrees(k)
    BY SynchronizedType DEF AInv
  <2>2. /\ installed[epoch] \in Nat /\ counted[epoch] \in Nat
        /\ acks[epoch] \in Nat
    BY DEF AInv, AckTypeOK
  <2> HIDE DEF k
  <2>3. CASE k.window = 0
    BY <2>1, <2>3 DEF Agrees, AckExact
  <2>4. CASE k.window # 0
    <3>1. /\ k.window \in Nat \ {0} /\ k.consumed \in Nat
          /\ k.consumed < k.window /\ installed[epoch] = k.window
          /\ counted[epoch] = acks[epoch] * k.window + k.consumed
      BY <2>1, <2>4 DEF Agrees
    <3>2. /\ acks[epoch] * k.window <= counted[epoch]
          /\ counted[epoch] < (acks[epoch] + 1) * k.window
      BY <3>1, <2>2, Quotient
    <3> QED
      BY <3>1, <3>2 DEF AckExact
  <2> QED
    BY <2>3, <2>4
<1>2. AckInit => Child
  BY AInit
<1>3. Child /\ [AckNext]_ackVars => Child'
  <2>1. [AckNext]_ackVars => kinds' = kinds
    BY DEF AckNext, ackVars, Data, Envelope, SetAck, ListedSetAck, Migrate,
           ActivateInRead, MigrateEnd, MigrateCancel, StartTarget,
           TargetSetAck, TargetData, SwitchHost, Decision
  <2> QED
    BY <2>1, ANext
<1> HIDE DEF Child
<1> QED
  BY <1>1, <1>2, <1>3, PTL DEF AckSpec
=============================================================================
