--------------------------- MODULE ProgressProofs ---------------------------
(***************************************************************************)
(* Theorems about Progress for every set of channels and every bound:      *)
(* type correctness, monotone publication across transport replacements,   *)
(* and the cross-channel barrier while no transport is replaced.           *)
(***************************************************************************)
EXTENDS Progress, SequenceTheorems, TLAPS

(* What `complete` relies on: an idle owner has published nothing beyond   *)
(* what it has received, and the envelope in hand is new.                  *)
SerialOrder ==
  \A c \in Channels :
    /\ pc[c] # "nonMonotonic"
    /\ pc[c] = "idle" => completed[c] <= base[c] + last[c]
    /\ pc[c] = "busy" => /\ completed[c] < serial[c]
                         /\ serial[c] <= base[c] + last[c]

IInv == ProgressTypeOK /\ SerialOrder

(* Updating one entry of a table of tables keeps its type.                 *)
LEMMA TableUpdate ==
  ASSUME NEW E, NEW C, NEW T, NEW f \in [E -> [C -> T]],
         NEW e \in E, NEW c \in C, NEW v \in T
  PROVE  [f EXCEPT ![e][c] = v] \in [E -> [C -> T]]
  OBVIOUS

(* A list the peer may send is a sequence of waits.                        *)
LEMMA WaitListType ==
  ASSUME NEW e \in Epochs, NEW c \in Channels, NEW s \in Nat,
         NEW ws \in WaitLists(e, c, s), ProgressTypeOK
  PROVE  ws \in Seq(Wait)
<1> DEFINE refs == {w \in [chan : Channels, serial : 1..MaxSent,
                           epoch : {e}] :
                      \/ w.serial <= sent[e][w.chan]
                      \/ SelfWaits /\ w.chan = c /\ w.serial = s}
<1>1. PICK n \in 0..MaxWaits : ws \in [1..n -> refs]
  BY DEF WaitLists
<1>2. refs \subseteq Wait
  BY BoundsAssumption DEF Wait, Epochs
<1>3. n \in Nat
  BY BoundsAssumption
<1>4. \A i \in 1..n : ws[i] \in Wait
  BY <1>1, <1>2
<1>5. ws = [i \in 1..n |-> ws[i]]
  BY <1>1
<1> QED
  BY <1>3, <1>4, <1>5, IsASeq

(* What every transport replacement leaves behind: counters that are       *)
(* naturals, counted from the base it was given.                           *)
Installed(c, b) ==
  /\ wire' \in [Epochs -> [Channels -> Seq(Message)]]
  /\ epoch' \in [Channels -> Epochs]
  /\ base' = [base EXCEPT ![c] = b]
  /\ last' \in [Channels -> Nat]
  /\ \A d \in Channels \ {c} : last'[d] = last[d]
  /\ done' \in [Epochs -> [Channels -> Nat]]

LEMMA InstallType ==
  ASSUME ProgressTypeOK, NEW c \in Channels, NEW b \in Nat, NEW n \in 0..MaxBootstrap,
         Install(c, b, n)
  PROVE  Installed(c, b)
<1> DEFINE e == epoch[c] + 1
           q == wire[e][c]
           k == IF n = 0 THEN 0 ELSE q[n].serial
<1>1. e \in Epochs /\ n \in Nat /\ n <= Len(q) /\ q \in Seq(Message)
  BY BoundsAssumption DEF Install, Rebased, ProgressTypeOK
<1>2. k \in Nat
  <2>1. CASE n = 0
    BY <2>1
  <2>2. CASE n # 0
    <3>1. n \in 1..Len(q)
      BY <1>1, <2>2
    <3>2. q[n] \in Message
      BY <1>1, <3>1, ElementOfSeq
    <3> QED
      BY <2>2, <3>2 DEF Message
  <2> QED
    BY <2>1, <2>2
<1>3. SubSeq(q, n + 1, Len(q)) \in Seq(Message)
  <2>1. Len(q) \in Nat /\ n + 1 \in 1..Len(q) + 1
    BY <1>1, LenProperties
  <2> QED
    BY <1>1, <2>1, SubSeqProperties
<1>4. /\ epoch' = [epoch EXCEPT ![c] = e]
      /\ base' = [base EXCEPT ![c] = b]
      /\ last' = [last EXCEPT ![c] = k]
      /\ done' = [done EXCEPT ![e][c] = k]
      /\ wire' = [wire EXCEPT ![e][c] = SubSeq(q, n + 1, Len(q))]
  BY <1>1 DEF Install, Rebased, ProgressTypeOK
<1> HIDE DEF k, q, e
<1> QED
  BY <1>1, <1>2, <1>3, <1>4 DEF ProgressTypeOK, Installed

-----------------------------------------------------------------------------
LEMMA InitIInv == ProgressInit => IInv
<1> SUFFICES ASSUME ProgressInit PROVE IInv
  OBVIOUS
<1>1. PICK n \in 0..MaxBootstrap :
        last = [c \in Channels |-> IF c = Main THEN n ELSE 0]
  BY DEF ProgressInit
<1>2. last \in [Channels -> Nat]
  BY <1>1, BoundsAssumption
<1>3. sent \in [Epochs -> [Channels -> Nat]]
  BY <1>2 DEF ProgressInit
<1>4. wire \in [Epochs -> [Channels -> Seq(Message)]]
  BY DEF ProgressInit
<1>5. epoch \in [Channels -> Epochs]
  BY BoundsAssumption DEF ProgressInit, Epochs
<1>6. todo \in [Channels -> Seq(Wait)]
  BY DEF ProgressInit
<1>7. origin \in [Channels -> [epoch : Epochs, serial : Nat]]
  BY BoundsAssumption DEF ProgressInit, Epochs
<1>8. ProgressTypeOK
  BY <1>2, <1>3, <1>4, <1>5, <1>6, <1>7 DEF ProgressInit, ProgressTypeOK, Kinds
<1> QED
  BY <1>2, <1>8 DEF ProgressInit, IInv, SerialOrder

(* Every step keeps the types and the order of serials, one action at a    *)
(* time.  Only the replacements and the reads touch the counters.          *)
LEMMA NextIInv == IInv /\ [ProgressNext]_progressVars => IInv'
<1> SUFFICES ASSUME ProgressTypeOK, SerialOrder, [ProgressNext]_progressVars
             PROVE  ProgressTypeOK' /\ SerialOrder'
  BY DEF IInv
<1> DEFINE Counters == /\ base \in [Channels -> Nat]
                       /\ last \in [Channels -> Nat]
                       /\ completed \in [Channels -> Nat]
                       /\ serial \in [Channels -> Nat]
                       /\ pc \in [Channels -> {"idle", "busy", "failed",
                                              "nonMonotonic", "stopped"}]
<1>0. Counters
  BY DEF ProgressTypeOK
<1> HIDE DEF Counters
<1>1. ASSUME NEW e \in Epochs, NEW c \in Channels, ServerSend(e, c)
      PROVE  ProgressTypeOK' /\ SerialOrder'
  <2>1. PICK s \in (sent[e][c] + 1)..MaxSent :
          \E ws \in WaitLists(e, c, s), k \in Kinds :
            /\ wire' = [wire EXCEPT ![e][c] =
                          Append(@, [serial |-> s, waits |-> ws, kind |-> k])]
            /\ sent' = [sent EXCEPT ![e][c] = s]
            /\ UNCHANGED <<epoch, base, last, completed, pc, serial, todo,
                           replace, origin, done, cancel>>
    BY <1>1 DEF ServerSend
  <2>2. s \in Nat
    <3>1. sent[e][c] \in Nat
      BY DEF ProgressTypeOK
    <3> QED
      BY <3>1, BoundsAssumption
  <2>3. PICK ws \in WaitLists(e, c, s), k \in Kinds :
          wire' = [wire EXCEPT ![e][c] =
                     Append(@, [serial |-> s, waits |-> ws, kind |-> k])]
    BY <2>1
  <2>6. ws \in Seq(Wait)
    BY <2>2, WaitListType
  <2>4. [serial |-> s, waits |-> ws, kind |-> k] \in Message
    BY <2>2, <2>6 DEF Message
  <2>9. Append(wire[e][c], [serial |-> s, waits |-> ws, kind |-> k])
          \in Seq(Message)
    BY <2>4, AppendProperties DEF ProgressTypeOK
  <2>5. wire' \in [Epochs -> [Channels -> Seq(Message)]]
    <3>1. wire' = [wire EXCEPT ![e][c] = Append(wire[e][c],
                     [serial |-> s, waits |-> ws, kind |-> k])]
      BY <2>3 DEF ProgressTypeOK
    <3>2. wire \in [Epochs -> [Channels -> Seq(Message)]]
      BY DEF ProgressTypeOK
    <3> QED
      BY <2>9, <3>1, <3>2
  <2>10. sent' = [sent EXCEPT ![e][c] = s]
    BY <2>1
  <2>7. sent' \in [Epochs -> [Channels -> Nat]]
    BY <2>2, <2>10, TableUpdate DEF ProgressTypeOK
  <2>8. UNCHANGED <<epoch, base, last, completed, pc, serial, todo, replace,
                    origin, done, cancel>>
    BY <2>1
  <2> QED
    BY <2>5, <2>7, <2>8 DEF ProgressTypeOK, SerialOrder
<1>2. ASSUME NEW c \in Channels, ReadMessage(c)
      PROVE  ProgressTypeOK' /\ SerialOrder'
  <2> DEFINE q == wire[epoch[c]][c]
  <2>1. /\ q \in Seq(Message) /\ q # <<>> /\ Head(q) \in Message
        /\ Tail(q) \in Seq(Message)
    BY <1>2, HeadTailProperties DEF ReadMessage, ProgressTypeOK
  <2>2. Head(q).serial \in Nat /\ Head(q).waits \in Seq(Wait)
        /\ Head(q).kind \in Kinds
    BY <2>1 DEF Message
  <2>3. /\ wire' = [wire EXCEPT ![epoch[c]][c] = Tail(q)]
        /\ last' = [last EXCEPT ![c] = Head(q).serial]
        /\ serial' = [serial EXCEPT ![c] = base[c] + Head(q).serial]
        /\ todo' = [todo EXCEPT ![c] = Head(q).waits]
        /\ replace' = [replace EXCEPT ![c] = Head(q).kind]
        /\ origin' = [origin EXCEPT ![c] =
                        [epoch |-> epoch[c], serial |-> Head(q).serial]]
        /\ pc' = [pc EXCEPT ![c] = "busy"]
        /\ Head(q).serial > last[c] /\ pc[c] = "idle"
        /\ UNCHANGED <<sent, epoch, base, completed, done, cancel>>
    BY <1>2 DEF ReadMessage
  <2> HIDE DEF q
  <2>5. wire' \in [Epochs -> [Channels -> Seq(Message)]]
    BY <2>1, <2>3 DEF ProgressTypeOK
  <2>6. /\ last' \in [Channels -> Nat] /\ serial' \in [Channels -> Nat]
        /\ pc' \in [Channels -> {"idle", "busy", "failed", "nonMonotonic",
                                 "stopped"}]
    BY <1>0, <2>2, <2>3 DEF Counters
  <2>9. /\ todo' \in [Channels -> Seq(Wait)]
        /\ replace' \in [Channels -> Kinds]
    BY <2>2, <2>3 DEF ProgressTypeOK
  <2>8. origin' \in [Channels -> [epoch : Epochs, serial : Nat]]
    BY <2>2, <2>3 DEF ProgressTypeOK
  <2>7. ProgressTypeOK'
    BY <2>3, <2>5, <2>6, <2>8, <2>9 DEF ProgressTypeOK
  <2>4. SerialOrder'
    BY <1>0, <2>2, <2>3 DEF Counters, SerialOrder
  <2> QED
    BY <2>7, <2>4
<1>3. ASSUME NEW c \in Channels,
             RejectSelfWait(c) \/ WaitCancelled(c) \/ Stop(c)
      PROVE  ProgressTypeOK' /\ SerialOrder'
  BY <1>3 DEF RejectSelfWait, WaitCancelled, Stop, ProgressTypeOK, SerialOrder,
              serverVars
<1>4. ASSUME NEW c \in Channels, WaitMet(c)
      PROVE  ProgressTypeOK' /\ SerialOrder'
  <2>1. Tail(todo[c]) \in Seq(Wait)
    BY <1>4, HeadTailProperties DEF WaitMet, ProgressTypeOK
  <2>2. ProgressTypeOK'
    BY <1>4, <2>1 DEF WaitMet, ProgressTypeOK, serverVars
  <2>3. SerialOrder'
    BY <1>4 DEF WaitMet, SerialOrder
  <2> QED
    BY <2>2, <2>3
<1>5. ASSUME NEW c \in Channels, ActivateInRead(c)
      PROVE  ProgressTypeOK' /\ SerialOrder'
  <2>1. PICK n \in 0..MaxBootstrap : Install(c, base[c] + last[c], n)
    BY <1>5 DEF ActivateInRead, Received
  <2>2. base[c] + last[c] \in Nat
    BY DEF ProgressTypeOK
  <2>3. Installed(c, base[c] + last[c])
    BY <2>1, <2>2, InstallType
  <2>4. ProgressTypeOK'
    BY <1>5, <2>2, <2>3 DEF ActivateInRead, Installed, ProgressTypeOK
  <2>5. SerialOrder'
    <3>1. SUFFICES ASSUME NEW d \in Channels
                   PROVE  /\ pc'[d] # "nonMonotonic"
                          /\ pc'[d] = "idle" =>
                               completed'[d] <= base'[d] + last'[d]
                          /\ pc'[d] = "busy" =>
                               /\ completed'[d] < serial'[d]
                               /\ serial'[d] <= base'[d] + last'[d]
      BY DEF SerialOrder
    <3>2. pc' = pc /\ completed' = completed /\ serial' = serial
      BY <1>5 DEF ActivateInRead
    <3>3. CASE d = c
      BY <1>0, <1>5, <2>2, <2>3, <3>2, <3>3
      DEF ActivateInRead, Installed, Counters, SerialOrder
    <3>4. CASE d # c
      BY <1>0, <2>2, <2>3, <3>2, <3>4 DEF Installed, Counters, SerialOrder
    <3> QED
      BY <3>3, <3>4
  <2> QED
    BY <2>4, <2>5
<1>6. ASSUME NEW c \in Channels, ReadMigrateData(c)
      PROVE  ProgressTypeOK' /\ SerialOrder'
  <2> DEFINE q == wire[epoch[c]][c]
  <2>1. /\ q \in Seq(Message) /\ q # <<>> /\ Head(q) \in Message
        /\ Tail(q) \in Seq(Message)
    BY <1>6, HeadTailProperties DEF ReadMigrateData, ProgressTypeOK
  <2>2. Head(q).serial \in Nat
    BY <2>1 DEF Message
  <2>3. ProgressTypeOK'
    BY <1>6, <2>1, <2>2 DEF ReadMigrateData, ProgressTypeOK
  <2>4. SerialOrder'
    <3>1. /\ last' = [last EXCEPT ![c] = Head(q).serial]
          /\ Head(q).serial > last[c]
          /\ UNCHANGED <<base, completed, pc, serial>>
      BY <1>6 DEF ReadMigrateData
    <3>2. \A d \in Channels : last'[d] \in Nat /\ last[d] <= last'[d]
      BY <1>0, <2>2, <3>1 DEF Counters
    <3> QED
      BY <1>0, <3>1, <3>2 DEF Counters, SerialOrder
  <2> QED
    BY <2>3, <2>4
<1>7. ASSUME NEW c \in Channels, MigrateToReplacement(c)
      PROVE  ProgressTypeOK' /\ SerialOrder'
  <2>1. PICK n \in 0..MaxBootstrap : Install(c, serial[c], n)
    BY <1>7 DEF MigrateToReplacement
  <2>2. serial[c] \in Nat
    BY DEF ProgressTypeOK
  <2>3. Installed(c, serial[c])
    BY <2>1, <2>2, InstallType
  <2>4. ProgressTypeOK'
    BY <1>7, <2>2, <2>3 DEF MigrateToReplacement, Installed, ProgressTypeOK, Kinds
  <2>5. SerialOrder'
    <3>1. SUFFICES ASSUME NEW d \in Channels
                   PROVE  /\ pc'[d] # "nonMonotonic"
                          /\ pc'[d] = "idle" =>
                               completed'[d] <= base'[d] + last'[d]
                          /\ pc'[d] = "busy" =>
                               /\ completed'[d] < serial'[d]
                               /\ serial'[d] <= base'[d] + last'[d]
      BY DEF SerialOrder
    <3>2. pc' = pc /\ completed' = completed /\ serial' = serial
      BY <1>7 DEF MigrateToReplacement
    <3>3. CASE d = c
      BY <1>0, <1>7, <2>2, <2>3, <3>2, <3>3
      DEF MigrateToReplacement, Installed, Counters, SerialOrder
    <3>4. CASE d # c
      BY <1>0, <2>2, <2>3, <3>2, <3>4 DEF Installed, Counters, SerialOrder
    <3> QED
      BY <3>3, <3>4
  <2> QED
    BY <2>4, <2>5
<1>8. ASSUME NEW c \in Channels, SwitchHost(c)
      PROVE  ProgressTypeOK' /\ SerialOrder'
  <2>1. PICK n \in 0..MaxBootstrap : Install(c, base[c] + last[c], n)
    BY <1>8 DEF SwitchHost, Received
  <2>2. base[c] + last[c] \in Nat
    BY DEF ProgressTypeOK
  <2>3. Installed(c, base[c] + last[c])
    BY <2>1, <2>2, InstallType
  <2>4. ProgressTypeOK'
    <3>1. serial' \in [Channels -> Nat]
      <4>1. base'[c] + last'[c] \in Nat
        BY <1>0, <2>2, <2>3 DEF Installed, Counters
      <4> QED
        BY <1>0, <1>8, <4>1 DEF SwitchHost, Counters
    <3>2. base' \in [Channels -> Nat] /\ replace' \in [Channels -> Kinds]
      BY <1>8, <2>2, <2>3 DEF SwitchHost, Installed, ProgressTypeOK, Kinds
    <3>3. UNCHANGED <<sent, completed, pc, todo, origin, cancel>>
      BY <1>8 DEF SwitchHost
    <3> QED
      BY <2>3, <3>1, <3>2, <3>3 DEF Installed, ProgressTypeOK
  <2>5. SerialOrder'
    <3>1. SUFFICES ASSUME NEW d \in Channels
                   PROVE  /\ pc'[d] # "nonMonotonic"
                          /\ pc'[d] = "idle" =>
                               completed'[d] <= base'[d] + last'[d]
                          /\ pc'[d] = "busy" =>
                               /\ completed'[d] < serial'[d]
                               /\ serial'[d] <= base'[d] + last'[d]
      BY DEF SerialOrder
    <3>2. pc' = pc /\ completed' = completed /\ serial' = [serial EXCEPT ![c] = base'[c] + last'[c]]
      BY <1>8 DEF SwitchHost
    <3>3. CASE d = c
      BY <1>0, <1>8, <2>2, <2>3, <3>2, <3>3
      DEF SwitchHost, Installed, Counters, SerialOrder
    <3>4. CASE d # c
      BY <1>0, <2>2, <2>3, <3>2, <3>4 DEF Installed, Counters, SerialOrder
    <3> QED
      BY <3>3, <3>4
  <2> QED
    BY <2>4, <2>5
<1>9. ASSUME NEW c \in Channels, Complete(c)
      PROVE  ProgressTypeOK' /\ SerialOrder'
  <2>1. serial[c] > completed[c]
    BY <1>9 DEF Complete, ProgressTypeOK, SerialOrder
  <2>5. ~(serial[c] <= completed[c])
    BY <1>0, <2>1 DEF Counters
  <2>2. /\ pc' = [pc EXCEPT ![c] = "idle"]
        /\ completed' = [completed EXCEPT ![c] = serial[c]]
        /\ done' = [done EXCEPT ![origin[c].epoch][c] = origin[c].serial]
    BY <1>9, <2>5 DEF Complete
  <2>3. ProgressTypeOK'
    BY <1>9, <2>2 DEF Complete, ProgressTypeOK, serverVars
  <2>4. SerialOrder'
    BY <1>9, <2>2 DEF Complete, ProgressTypeOK, SerialOrder
  <2> QED
    BY <2>3, <2>4
<1>10. CASE HostShutdown \/ SupervisorCancel
  BY <1>10 DEF HostShutdown, SupervisorCancel, RequestCancel, ProgressTypeOK,
               SerialOrder, serverVars
<1>11. CASE UNCHANGED progressVars
  BY <1>11 DEF progressVars, ProgressTypeOK, SerialOrder
<1> QED
  BY <1>1, <1>2, <1>3, <1>4, <1>5, <1>6, <1>7, <1>8, <1>9, <1>10, <1>11
  DEF ProgressNext, Owner

(* Publication is monotone for every set of channels, every number of      *)
(* transport replacements and every server: `complete` never reports       *)
(* "non-monotonic completed serial".                                       *)
THEOREM SafeCompletion == ProgressSpec => [](ProgressTypeOK /\ CompletionMonotonic)
<1>1. IInv => ProgressTypeOK /\ CompletionMonotonic
  BY DEF IInv, SerialOrder, CompletionMonotonic
<1> QED
  BY InitIInv, NextIInv, <1>1, PTL DEF ProgressSpec
-----------------------------------------------------------------------------
(* Until its transport is replaced, a channel's registry entry is a local  *)
(* serial of the first server, and says exactly what has been completed.   *)
Settled ==
  \A c \in Channels :
    /\ pc[c] = "idle" => todo[c] = <<>>
    /\ epoch[c] = 0 =>
         /\ base[c] = 0 /\ completed[c] = done[0][c]
         /\ pc[c] = "busy" => origin[c] = [epoch |-> 0, serial |-> serial[c]]

LEMMA InitSettled == ProgressInit => Settled
<1> SUFFICES ASSUME ProgressInit, NEW c \in Channels
             PROVE  /\ base[c] = 0
                    /\ completed[c] = done[0][c]
                    /\ todo[c] = <<>> /\ pc[c] # "busy"
  BY DEF Settled
<1>1. 0 \in Epochs
  BY BoundsAssumption DEF Epochs
<1>2. done[0] = last
  BY <1>1 DEF ProgressInit
<1> QED
  BY <1>2 DEF ProgressInit

(* A replaced transport takes its channel out of what Settled speaks of,   *)
(* and leaves the others alone.                                            *)
LEMMA InstallSettled ==
  ASSUME ProgressTypeOK, Settled, NEW c \in Channels, NEW b, NEW n, Install(c, b, n),
         UNCHANGED <<completed, pc, todo, origin>>,
         \A d \in Channels : d # c => serial'[d] = serial[d]
  PROVE  Settled'
<1> DEFINE e == epoch[c] + 1
           k == IF n = 0 THEN 0 ELSE wire[e][c][n].serial
<1>1. epoch[c] \in Nat /\ e \in Epochs /\ e # 0
  BY DEF Install, Rebased, ProgressTypeOK, Epochs
<1>2. /\ epoch' = [epoch EXCEPT ![c] = e]
      /\ base' = [base EXCEPT ![c] = b]
      /\ done' = [done EXCEPT ![e][c] = k]
  BY DEF Install, Rebased
<1>3. DOMAIN epoch = Channels /\ DOMAIN base = Channels /\ DOMAIN done = Epochs
  BY DEF ProgressTypeOK
<1> HIDE DEF e, k
<1>4. epoch'[c] # 0 /\ done'[0] = done[0]
  BY <1>1, <1>2, <1>3
<1>5. \A d \in Channels : d # c => epoch'[d] = epoch[d] /\ base'[d] = base[d]
  BY <1>2, <1>3
<1> QED
  BY <1>4, <1>5 DEF Settled

LEMMA NextSettled == IInv /\ Settled /\ [ProgressNext]_progressVars => Settled'
<1> SUFFICES ASSUME ProgressTypeOK, SerialOrder, Settled, [ProgressNext]_progressVars
             PROVE  Settled'
  BY DEF IInv
<1>1. ASSUME NEW e \in Epochs, NEW c \in Channels, ServerSend(e, c)
      PROVE  Settled'
  BY <1>1 DEF ServerSend, Settled
<1>2. ASSUME NEW c \in Channels, ReadMessage(c)
      PROVE  Settled'
  <2> DEFINE h == Head(wire[epoch[c]][c])
  <2>1. h.serial \in Nat
    <3>0. wire[epoch[c]][c] \in Seq(Message)
      BY DEF ProgressTypeOK
    <3>1. wire[epoch[c]][c] # <<>>
      BY <1>2 DEF ReadMessage
    <3>2. h \in Message
      BY <3>0, <3>1, HeadTailProperties
    <3> QED
      BY <3>2 DEF Message
  <2>2. /\ serial' = [serial EXCEPT ![c] = base[c] + h.serial]
        /\ origin' = [origin EXCEPT ![c] =
                        [epoch |-> epoch[c], serial |-> h.serial]]
        /\ todo' = [todo EXCEPT ![c] = h.waits]
        /\ pc' = [pc EXCEPT ![c] = "busy"]
        /\ UNCHANGED <<epoch, base, completed, done>>
    BY <1>2 DEF ReadMessage
  <2>3. /\ serial \in [Channels -> Nat] /\ DOMAIN origin = Channels
        /\ DOMAIN todo = Channels /\ DOMAIN pc = Channels
    BY DEF ProgressTypeOK
  <2> HIDE DEF h
  <2>4. epoch[c] = 0 => /\ serial'[c] = h.serial
                        /\ origin'[c] = [epoch |-> 0, serial |-> h.serial]
    BY <2>1, <2>2, <2>3 DEF Settled
  <2> QED
    BY <2>2, <2>3, <2>4 DEF Settled
<1>3. ASSUME NEW c \in Channels,
             \/ RejectSelfWait(c) \/ WaitCancelled(c) \/ Stop(c)
             \/ ReadMigrateData(c)
      PROVE  Settled'
  <2>1. /\ UNCHANGED <<epoch, base, completed, serial, todo, origin, done>>
        /\ \/ pc' = [pc EXCEPT ![c] = "failed"]
           \/ pc' = [pc EXCEPT ![c] = "stopped"]
           \/ pc' = pc
    BY <1>3 DEF RejectSelfWait, WaitCancelled, Stop, ReadMigrateData
  <2>2. DOMAIN pc = Channels
    BY DEF ProgressTypeOK
  <2>3. \A d \in Channels : pc'[d] \in {"idle", "busy"} => pc'[d] = pc[d]
    BY <2>1, <2>2
  <2> QED
    BY <2>1, <2>3 DEF Settled
<1>4. ASSUME NEW c \in Channels, WaitMet(c)
      PROVE  Settled'
  BY <1>4 DEF WaitMet, Settled, ProgressTypeOK
<1>5. ASSUME NEW c \in Channels,
             ActivateInRead(c) \/ MigrateToReplacement(c) \/ SwitchHost(c)
      PROVE  Settled'
  <2>1. PICK b, n : Install(c, b, n)
    BY <1>5 DEF ActivateInRead, MigrateToReplacement, SwitchHost
  <2>2. /\ UNCHANGED <<completed, pc, todo, origin>>
        /\ \A d \in Channels : d # c => serial'[d] = serial[d]
    BY <1>5 DEF ActivateInRead, MigrateToReplacement, SwitchHost, ProgressTypeOK
  <2> QED
    BY <2>1, <2>2, InstallSettled
<1>6. ASSUME NEW c \in Channels, Complete(c)
      PROVE  Settled'
  <2>1. serial[c] \in Nat /\ completed[c] \in Nat /\ completed[c] < serial[c]
    BY <1>6 DEF Complete, ProgressTypeOK, SerialOrder
  <2>2. ~(serial[c] <= completed[c])
    BY <2>1
  <2>3. epoch[c] = 0 => origin[c] = [epoch |-> 0, serial |-> serial[c]]
    BY <1>6 DEF Complete, Settled
  <2>4. /\ pc' = [pc EXCEPT ![c] = "idle"]
        /\ completed' = [completed EXCEPT ![c] = serial[c]]
        /\ done' = [done EXCEPT ![origin[c].epoch][c] = origin[c].serial]
        /\ todo[c] = <<>>
        /\ UNCHANGED <<epoch, base, serial, todo, origin>>
    BY <1>6, <2>2 DEF Complete
  <2>0. 0 \in Epochs
    BY BoundsAssumption DEF Epochs
  <2>5. /\ done \in [Epochs -> [Channels -> Nat]] /\ 0 \in Epochs
        /\ completed \in [Channels -> Nat] /\ DOMAIN pc = Channels
    BY <2>0 DEF ProgressTypeOK
  <2>6. \A d \in Channels : d # c => /\ completed'[d] = completed[d]
                                     /\ done'[0][d] = done[0][d]
    BY <2>4, <2>5
  <2>7. epoch[c] = 0 => completed'[c] = done'[0][c]
    BY <2>3, <2>4, <2>5
  <2> QED
    BY <2>4, <2>5, <2>6, <2>7 DEF Settled
<1>7. CASE HostShutdown \/ SupervisorCancel
  BY <1>7 DEF HostShutdown, SupervisorCancel, RequestCancel, Settled
<1>8. CASE UNCHANGED progressVars
  BY <1>8 DEF progressVars, Settled
<1> QED
  BY <1>1, <1>2, <1>3, <1>4, <1>5, <1>6, <1>7, <1>8 DEF ProgressNext, Owner

(* Any step that lets an owner past a wait does so when the message named  *)
(* has been completed.                                                     *)
LEMMA StepHonoursBarrier ==
  ASSUME ProgressTypeOK, Settled, [ProgressNext]_progressVars, NEW c \in Channels,
         Len(todo'[c]) < Len(todo[c]),
         Head(todo[c]).epoch = 0, epoch[Head(todo[c]).chan] = 0
  PROVE  done[0][Head(todo[c]).chan] >= Head(todo[c]).serial
<1> DEFINE w == Head(todo[c])
<1>0. todo[c] \in Seq(Wait)
  BY DEF ProgressTypeOK
<1>2. Len(todo[c]) \in Nat
  BY <1>0, LenProperties
<1>1. todo[c] \in Seq(Wait) /\ todo'[c] # todo[c]
  BY <1>0, <1>2
<1>3. CASE WaitMet(c)
  <2>1. w \in Wait
    BY <1>1, <1>3, HeadTailProperties DEF WaitMet
  <2>2. w.chan \in Channels /\ w.serial \in Nat
    BY <2>1 DEF Wait
  <2>3. completed[w.chan] >= w.serial
    BY <1>3 DEF WaitMet, Reached
  <2> QED
    BY <2>2, <2>3 DEF Settled
<1>4. CASE ReadMessage(c)
  <2> DEFINE q == wire[epoch[c]][c]
  <2>0. q \in Seq(Message)
    BY DEF ProgressTypeOK
  <2>1. q \in Seq(Message) /\ q # <<>>
    BY <1>4, <2>0 DEF ReadMessage
  <2>2. Head(q).waits \in Seq(Wait)
    <3>1. Head(q) \in Message
      BY <2>1, HeadTailProperties
    <3> QED
      BY <3>1 DEF Message
  <2>3. todo[c] = <<>> /\ todo'[c] = Head(q).waits
    BY <1>4 DEF ReadMessage, Settled, ProgressTypeOK
  <2>4. Len(todo'[c]) \in Nat /\ Len(todo[c]) = 0
    BY <2>2, <2>3, LenProperties, EmptySeq
  <2> QED
    BY <2>4
<1>5. ASSUME NEW d \in Channels, d # c, WaitMet(d) \/ ReadMessage(d)
      PROVE  todo'[c] = todo[c]
  BY <1>5 DEF WaitMet, ReadMessage, ProgressTypeOK
<1>6. ASSUME NEW d \in Channels,
             \/ RejectSelfWait(d) \/ WaitCancelled(d) \/ ReadMigrateData(d)
             \/ ActivateInRead(d) \/ MigrateToReplacement(d)
             \/ SwitchHost(d) \/ Complete(d) \/ Stop(d)
      PROVE  todo'[c] = todo[c]
  BY <1>6 DEF RejectSelfWait, WaitCancelled, ReadMigrateData, ActivateInRead,
              MigrateToReplacement, SwitchHost, Complete, Stop
<1>7. ASSUME NEW e \in Epochs, NEW d \in Channels, ServerSend(e, d)
      PROVE  todo'[c] = todo[c]
  BY <1>7 DEF ServerSend
<1>8. CASE HostShutdown \/ SupervisorCancel \/ UNCHANGED progressVars
  BY <1>1, <1>8 DEF HostShutdown, SupervisorCancel, RequestCancel, progressVars
<1> QED
  BY <1>1, <1>3, <1>4, <1>5, <1>6, <1>7, <1>8 DEF ProgressNext, Owner

(* WAIT_FOR_CHANNELS of the first server is a true barrier, for any number *)
(* of channels, messages and migrations, until the channel waited for is   *)
(* replaced: `wait_for` returns only once the message named is completed.  *)
THEOREM BarrierBeforeMigration == ProgressSpec => BarrierHonoured
<1>1. IInv /\ Settled /\ [ProgressNext]_progressVars =>
        [\A c \in Channels :
           (Len(todo'[c]) < Len(todo[c])) =>
             LET w == Head(todo[c]) IN
             w.epoch = 0 /\ epoch[w.chan] = 0 =>
               done[0][w.chan] >= w.serial]_progressVars
  BY StepHonoursBarrier DEF IInv
<1>2. IInv /\ Settled /\ [ProgressNext]_progressVars => Settled'
  BY NextSettled
<1> QED
  BY InitIInv, NextIInv, InitSettled, <1>1, <1>2, PTL
  DEF ProgressSpec, BarrierHonoured

=============================================================================
