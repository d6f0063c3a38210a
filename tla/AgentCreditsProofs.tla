------------------------- MODULE AgentCreditsProofs -------------------------
(***************************************************************************)
(* Conservation of the Agent receive window, for every window size, queue  *)
(* capacity, number of clipboard requests per fragment, and any number of  *)
(* reconnects and migrations.                                              *)
(*                                                                         *)
(* WindowConserved speaks of the current generation only.  It is kept      *)
(* because no lease is younger than the current generation, so that a new  *)
(* stream starts with no lease of its own (`Generations`), and because a   *)
(* fragment in flight has no lease yet, so that each fragment takes one    *)
(* credit once (`Fresh`).                                                  *)
(***************************************************************************)
EXTENDS AgentCredits, FiniteSetTheorems, SequenceTheorems, TLAPS

Generations ==
  /\ returnGen = generation
  /\ \A f \in Fragments : leaseGen[f] <= generation

Fresh ==
  /\ \A f \in Fragments : f > fragments => clones[f] = 0
  /\ \A i \in 1..Len(toClient) : toClient[i].type = "data" =>
       toClient[i].fragment <= fragments /\ clones[toClient[i].fragment] = 0
  /\ \A i, j \in 1..Len(toClient) :
       i < j /\ toClient[i].type = "data" /\ toClient[j].type = "data" =>
         toClient[i].fragment # toClient[j].fragment

WithinWindow == failure # "window"

CInv ==
  /\ CreditTypeOK /\ Len(events) <= QueueCapacity
  /\ Generations /\ Fresh /\ WindowConserved /\ WithinWindow

USE DEF Running

(* The leases of one generation are finitely many.                         *)
LEMMA LeasedFinite ==
  ASSUME CreditTypeOK, NEW g
  PROVE  IsFiniteSet(Leased(g)) /\ Cardinality(Leased(g)) \in Nat
<1>1. IsFiniteSet(Fragments)
  BY FS_Interval, WindowAssumption DEF Fragments
<1>2. Leased(g) \subseteq Fragments
  BY DEF Leased
<1>. QED
  BY <1>1, <1>2, FS_Subset, FS_CardinalityType

(* What the head of a non-empty pipe leaves behind.                        *)
LEMMA TailOf ==
  ASSUME NEW S, NEW q \in Seq(S), q # <<>>
  PROVE  /\ Head(q) \in S /\ Tail(q) \in Seq(S)
         /\ Head(q) = q[1] /\ Len(q) >= 1
         /\ Len(Tail(q)) = Len(q) - 1
         /\ \A i \in 1..Len(Tail(q)) : Tail(q)[i] = q[i + 1]
BY HeadTailProperties, LenProperties, EmptySeq

(* Reading a message keeps the fragments in flight fresh.                  *)
LEMMA FreshTail ==
  ASSUME CreditTypeOK, Fresh, toClient # <<>>, toClient' = Tail(toClient),
         UNCHANGED <<clones, fragments>>
  PROVE  Fresh'
<1>1. \A i \in 1..Len(toClient') : i + 1 \in 1..Len(toClient)
                                    /\ toClient'[i] = toClient[i + 1]
  BY TailOf, LenProperties DEF CreditTypeOK
<1>2. \A i, j \in 1..Len(toClient') : i < j => i + 1 < j + 1
  BY LenProperties, TailOf DEF CreditTypeOK
<1>. QED
  BY <1>1, <1>2 DEF Fresh

(* Appending a message that is no AgentData keeps them fresh as well.      *)
LEMMA FreshAppend ==
  ASSUME CreditTypeOK, Fresh, NEW m, m.type # "data", toClient' = Append(toClient, m),
         UNCHANGED <<clones, fragments>>
  PROVE  Fresh'
<1>1. /\ Len(toClient') = Len(toClient) + 1 /\ Len(toClient) \in Nat
      /\ toClient'[Len(toClient) + 1] = m
      /\ \A i \in 1..Len(toClient) : toClient'[i] = toClient[i]
  BY DEF CreditTypeOK
<1>2. \A i \in 1..Len(toClient') : i \in 1..Len(toClient) \/ toClient'[i] = m
  BY <1>1
<1>. QED
  BY <1>1, <1>2 DEF Fresh

LEMMA CInit == CreditInit => CInv
<1>. SUFFICES ASSUME CreditInit PROVE CInv
  OBVIOUS
<1>a. /\ events \in Seq(Fragments)
      /\ toClient \in Seq(ToClient) /\ toServer \in Seq(ToServer)
  BY EmptySeq DEF CreditInit
<1>b. 0 \in 0..Window /\ 0 \in 0..MaxFragments
  BY WindowAssumption
<1>1. CreditTypeOK
  BY <1>a, <1>b DEF CreditInit, CreditTypeOK
<1>2. Len(events) <= QueueCapacity
  BY WindowAssumption DEF CreditInit
<1>. QED
  BY <1>1, <1>2 DEF CreditInit, CInv, Generations, Fresh, WindowConserved, WithinWindow

-----------------------------------------------------------------------------
(* A step that leaves the leases and Main's credit state alone.            *)
LEMMA Untouched ==
  ASSUME CInv, CreditTypeOK', Fresh', UNCHANGED <<clientVars, leaseVars, failure>>
  PROVE  CInv'
<1>1. Leased(generation)' = Leased(generation)
  BY DEF clientVars, leaseVars, Leased
<1>. QED
  BY <1>1 DEF CInv, Generations, WindowConserved, WithinWindow, clientVars,
     returnVars, leaseVars

(* The peer only sends messages or counts tokens.                          *)
LEMMA CServer ==
  ASSUME CInv, Server
  PROVE  CInv'
<1>. USE DEF CInv
<1>. clientVars' = clientVars /\ leaseVars' = leaseVars /\ failure' = failure
  BY DEF Server, ServerConnect, ServerDisconnect, ServerData, ServerReceive
<1>1. CASE ServerConnect
  <2>a. [type |-> "connected", tag |-> serverTag'] \in ToClient
    BY <1>1 DEF ServerConnect, CreditTypeOK, ToClient
  <2>b. toClient' \in Seq(ToClient)
    BY <1>1, <2>a, AppendProperties DEF ServerConnect, CreditTypeOK
  <2>c. serverTag' \in Nat /\ tokens' \in Nat
    BY <1>1 DEF ServerConnect, CreditTypeOK
  <2>d. started' \in BOOLEAN
    BY <1>1, Zenon DEF ServerConnect
  <2>1. CreditTypeOK'
    BY <1>1, <2>b, <2>c, <2>d DEF ServerConnect, CreditTypeOK, clientVars, returnVars, leaseVars
  <2>2. Fresh'
    BY <1>1, FreshAppend DEF ServerConnect, leaseVars
  <2>. QED
    BY <2>1, <2>2, Untouched
<1>2. CASE ServerDisconnect
  <2>a. [type |-> "disconnected"] \in ToClient
    BY <1>2 DEF ServerDisconnect, CreditTypeOK, ToClient
  <2>b. toClient' \in Seq(ToClient)
    BY <1>2, <2>a, AppendProperties DEF ServerDisconnect, CreditTypeOK
  <2>1. CreditTypeOK'
    BY <1>2, <2>b DEF ServerDisconnect, CreditTypeOK, clientVars, returnVars, leaseVars
  <2>2. Fresh'
    BY <1>2, FreshAppend DEF ServerDisconnect, leaseVars
  <2>. QED
    BY <2>1, <2>2, Untouched
<1>3. CASE ServerData
  <2>1. PICK n \in 0..MaxRequests :
          toClient' = Append(toClient, [type |-> "data", fragment |-> fragments',
                                        requests |-> n])
    BY <1>3 DEF ServerData
  <2>2. fragments' = fragments + 1 /\ fragments' \in Fragments
        /\ fragments' \in 0..MaxFragments /\ fragments \in Nat
    BY <1>3, WindowAssumption DEF ServerData, CreditTypeOK, Fragments
  <2>. DEFINE m == [type |-> "data", fragment |-> fragments', requests |-> n]
  <2>3. m \in ToClient
    BY <2>2 DEF ToClient
  <2>4. CreditTypeOK'
    BY <1>3, <2>1, <2>2, <2>3 DEF ServerData, CreditTypeOK, clientVars, returnVars,
       leaseVars
  <2>5. /\ Len(toClient') = Len(toClient) + 1 /\ Len(toClient) \in Nat
        /\ toClient'[Len(toClient) + 1] = m
        /\ \A i \in 1..Len(toClient) : toClient'[i] = toClient[i]
    BY <2>1 DEF CreditTypeOK
  <2>6. /\ \A i \in 1..Len(toClient) : toClient[i].type = "data" =>
             toClient[i].fragment \in Fragments
        /\ clones' = clones /\ clones[fragments'] = 0
    <3>1. \A i \in 1..Len(toClient) : toClient[i] \in ToClient
      BY ElementOfSeq DEF CreditTypeOK
    <3>. QED
      BY <3>1, <2>2 DEF ToClient, Fresh, leaseVars, Fragments
  <2>7. \A i, j \in 1..Len(toClient') : i < j =>
          i \in 1..Len(toClient) /\ (j \in 1..Len(toClient) \/ toClient'[j] = m)
    BY <2>5
  <2>8. \A i \in 1..Len(toClient') : i \in 1..Len(toClient) \/ toClient'[i] = m
    BY <2>5
  <2>. HIDE DEF CInv
  <2>9. Fresh'
    <3>1. \A f \in Fragments : f > fragments' => clones'[f] = 0
      BY <2>2, <2>6 DEF Fresh, CInv, Fragments
    <3>2. \A i \in 1..Len(toClient') : toClient'[i].type = "data" =>
            /\ toClient'[i].fragment <= fragments'
            /\ clones'[toClient'[i].fragment] = 0
      BY <2>2, <2>5, <2>6, <2>8 DEF Fresh, CInv, Fragments
    <3>3. \A i, j \in 1..Len(toClient') :
            i < j /\ toClient'[i].type = "data" /\ toClient'[j].type = "data" =>
              toClient'[i].fragment # toClient'[j].fragment
      BY <2>2, <2>5, <2>6, <2>7 DEF Fresh, CInv, Fragments
    <3>. QED
      BY <3>1, <3>2, <3>3 DEF Fresh
  <2>. QED
    BY <2>4, <2>9, Untouched
<1>4. CASE ServerReceive
  <2>1. /\ Head(toServer) \in ToServer /\ Tail(toServer) \in Seq(ToServer)
    BY <1>4, TailOf DEF ServerReceive, CreditTypeOK
  <2>2. Head(toServer).count \in Nat
    BY <2>1 DEF ToServer
  <2>3. tokens' \in Nat /\ started' \in BOOLEAN
    BY <1>4, <2>2 DEF ServerReceive, CreditTypeOK
  <2>4. CreditTypeOK'
    BY <1>4, <2>1, <2>3 DEF ServerReceive, CreditTypeOK, clientVars, returnVars, leaseVars
  <2>5. Fresh'
    BY <1>4 DEF ServerReceive, Fresh, leaseVars
  <2>. QED
    BY <2>4, <2>5, Untouched
<1>. QED
  BY <1>1, <1>2, <1>3, <1>4 DEF Server

-----------------------------------------------------------------------------
(* A new generation: nothing is leased in it yet.                          *)
LEMMA CBegin ==
  ASSUME CInv, NEW t \in Nat, BeginGeneration(t), Receive("connected") \/ Receive("init"),
         UNCHANGED <<notifying, permit, leaseVars, failure, serverVars>>
  PROVE  CInv'
<1>1. toClient # <<>> /\ toClient' = Tail(toClient)
  BY DEF Receive
<1>2. toClient' \in Seq(ToClient)
  BY <1>1, TailOf DEF CInv, CreditTypeOK
<1>3. [type |-> "start", tag |-> t, count |-> Window] \in ToServer
  BY WindowAssumption DEF ToServer
<1>4. toServer' \in Seq(ToServer)
  BY <1>3, AppendProperties DEF BeginGeneration, CInv, CreditTypeOK
<1>5. CreditTypeOK'
  BY <1>2, <1>4, WindowAssumption DEF BeginGeneration, Reset, CInv, CreditTypeOK,
     leaseVars, serverVars
<1>6. Generations'
  BY DEF BeginGeneration, Reset, CInv, CreditTypeOK, Generations, leaseVars
<1>7. Fresh'
  BY <1>1, FreshTail DEF CInv, leaseVars, serverVars
<1>8. Leased(generation)' = {}
  BY DEF BeginGeneration, CInv, CreditTypeOK, Generations, Leased, leaseVars
<1>9. WindowConserved'
  BY <1>8, FS_EmptySet, WindowAssumption DEF BeginGeneration, Reset, WindowConserved
<1>. QED
  BY <1>5, <1>6, <1>7, <1>9 DEF CInv, WithinWindow, leaseVars

LEMMA CDisconnect ==
  ASSUME CInv, Disconnect, Receive("disconnected") \/ Receive("init"),
         UNCHANGED <<notifying, permit, leaseVars, failure, serverVars>>
  PROVE  CInv'
<1>1. toClient # <<>> /\ toClient' = Tail(toClient)
  BY DEF Receive
<1>2. toClient' \in Seq(ToClient)
  BY <1>1, TailOf DEF CInv, CreditTypeOK
<1>a. inbound' \in 0..Window
  BY WindowAssumption DEF Disconnect
<1>b. connected' \in BOOLEAN
  BY Zenon DEF Disconnect
<1>3. CreditTypeOK'
  BY <1>2, <1>a, <1>b DEF Disconnect, CInv, CreditTypeOK, leaseVars, serverVars
<1>4. Fresh'
  BY <1>1, FreshTail DEF CInv, leaseVars, serverVars
<1>5. Generations' /\ WindowConserved' /\ WithinWindow' /\ Len(events') <= QueueCapacity
  BY DEF Disconnect, CInv, Generations, WindowConserved, WithinWindow, leaseVars
<1>. QED
  BY <1>3, <1>4, <1>5 DEF CInv

(* The tag that a message of the given type carries.                       *)
LEMMA HeadTag ==
  ASSUME CInv, NEW type \in {"connected", "init"}, Receive(type)
  PROVE  Head(toClient).tag \in Nat
<1>1. Head(toClient) \in ToClient /\ Head(toClient).type = type
  BY TailOf DEF Receive, CInv, CreditTypeOK
<1>. QED
  BY <1>1 DEF ToClient

LEMMA CActivate ==
  ASSUME CInv, ActivateTarget
  PROVE  CInv'
<1>1. PICK a \in BOOLEAN :
        toClient' = <<[type |-> "init", tag |-> serverTag', agent |-> a]>>
  BY DEF ActivateTarget
<1>. DEFINE m == [type |-> "init", tag |-> serverTag', agent |-> a]
<1>2. serverTag' \in Nat /\ m \in ToClient
  BY DEF ActivateTarget, CInv, CreditTypeOK, ToClient
<1>3. /\ toClient' \in Seq(ToClient) /\ Len(toClient') = 1
      /\ toClient'[1] = m /\ m.type # "data"
  BY <1>1, <1>2
<1>4. toServer' \in Seq(ToServer)
  BY EmptySeq DEF ActivateTarget
<1>5. CreditTypeOK'
  BY <1>2, <1>3, <1>4 DEF ActivateTarget, CInv, CreditTypeOK, clientVars, returnVars, leaseVars
<1>6. Fresh'
  <2>1. \A i \in 1..Len(toClient') : toClient'[i].type # "data"
    BY <1>3
  <2>. QED
    BY <2>1 DEF ActivateTarget, CInv, Fresh, leaseVars
<1>. QED
  BY <1>5, <1>6, Untouched DEF ActivateTarget

-----------------------------------------------------------------------------
(* A fragment moves one credit from the tokens to a new lease, or straight *)
(* to the pending returns.                                                 *)
LEMMA CFragment ==
  ASSUME CInv, HandleFragment
  PROVE  CInv'
<1>. DEFINE f == Head(toClient).fragment
            n == Head(toClient).requests
            k == Accepted(n)
<1>1. toClient # <<>> /\ toClient' = Tail(toClient) /\ Head(toClient).type = "data"
  BY DEF HandleFragment, Receive
<1>2. /\ Head(toClient) \in ToClient /\ toClient' \in Seq(ToClient)
      /\ Head(toClient) = toClient[1] /\ Len(toClient) \in Nat /\ Len(toClient) >= 1
      /\ Len(toClient') = Len(toClient) - 1
      /\ \A i \in 1..Len(toClient') : toClient'[i] = toClient[i + 1]
  BY <1>1, TailOf, LenProperties DEF CInv, CreditTypeOK
<1>3. f \in Fragments /\ n \in Nat
  BY <1>1, <1>2, WindowAssumption DEF ToClient
<1>4. clones[f] = 0 /\ f <= fragments
  BY <1>1, <1>2 DEF CInv, Fresh
<1>5. k \in Nat /\ k <= n /\ Len(events) + k <= QueueCapacity /\ Len(events) \in Nat
  BY <1>3, LenProperties, WindowAssumption DEF Accepted, CInv, CreditTypeOK
<1>6. UNCHANGED <<connected, generation, returnGen, permit, toServer, tag, serverVars>>
  BY DEF HandleFragment
<1>a. CASE ~connected \/ inbound = 0
  <2>1. UNCHANGED <<inbound, pending, notifying, leaseVars>> /\ failure' = "noToken"
    BY <1>a DEF HandleFragment
  <2>2. CreditTypeOK'
    BY <2>1, <1>2, <1>6 DEF CInv, CreditTypeOK, leaseVars, serverVars
  <2>3. Fresh'
    BY <2>1, <1>1, <1>6, FreshTail DEF CInv, leaseVars, serverVars
  <2>. QED
    BY <2>1, <2>2, <2>3, <1>6 DEF CInv, Generations, WindowConserved,
       WithinWindow, leaseVars
<1>b. CASE connected /\ inbound # 0
  <2>1. /\ inbound' = inbound - 1
        /\ failure' = IF open /\ k < n THEN "queueFull" ELSE failure
        /\ clones' = [clones EXCEPT ![f] = k]
        /\ leaseGen' = [leaseGen EXCEPT ![f] = generation]
        /\ events' = events \o [i \in 1..k |-> f]
        /\ IF k = 0 THEN ReturnNow(generation) ELSE UNCHANGED <<pending, notifying>>
        /\ open' = open
    BY <1>b DEF HandleFragment
  <2>. HIDE DEF k, n, f
  <2>2. [i \in 1..k |-> f] \in Seq(Fragments) /\ Len([i \in 1..k |-> f]) = k
    BY <1>3, <1>5
  <2>3. events' \in Seq(Fragments) /\ Len(events') = Len(events) + k
    <3>. DEFINE q == [i \in 1..k |-> f]
    <3>1. events \in Seq(Fragments) /\ q \in Seq(Fragments) /\ Len(q) = k
      BY <2>2 DEF CInv, CreditTypeOK
    <3>2. events' = events \o q
      BY <2>1
    <3>. HIDE DEF q
    <3>. QED
      BY <3>1, <3>2, ConcatProperties
  <2>4. /\ inbound \in 1..Window /\ inbound' \in 0..Window
        /\ pending \in Nat /\ notifying \in Nat /\ generation \in Nat
        /\ returnGen = generation
    BY <1>b, <2>1, WindowAssumption DEF CInv, CreditTypeOK, Generations
  <2>5. pending' = (IF k = 0 THEN pending + 1 ELSE pending) /\ notifying' \in Nat
    BY <2>1, <2>4 DEF ReturnNow
  <2>6. failure' \in {"none", "noToken", "queueFull", "window"}
        /\ (failure = "none" => failure' # "window") /\ (failure' = "none" => failure = "none")
        /\ failure = "none"
    BY <2>1 DEF CInv, CreditTypeOK, HandleFragment, Receive
  <2>7. clones' \in [Fragments -> Nat] /\ leaseGen' \in [Fragments -> Nat]
    BY <2>1, <2>4, <1>3, <1>5 DEF CInv, CreditTypeOK
  <2>8. CreditTypeOK'
    <3>1. /\ connected' \in BOOLEAN /\ generation' \in Nat /\ returnGen' \in Nat
          /\ permit' \in BOOLEAN /\ open' \in BOOLEAN
          /\ toServer' \in Seq(ToServer) /\ tag' \in Nat /\ serverTag' \in Nat
          /\ started' \in BOOLEAN /\ tokens' \in Nat
          /\ fragments' \in 0..MaxFragments
      BY <2>1, <1>6 DEF CInv, CreditTypeOK, serverVars
    <3>2. pending' \in Nat
      BY <2>4, <2>5
    <3>3. toClient' \in Seq(ToClient)
      BY <1>2
    <3>. QED
      BY <3>1, <3>2, <3>3, <2>3, <2>4, <2>5, <2>6, <2>7 DEF CreditTypeOK
  <2>9. Generations'
    BY <2>1, <2>4, <1>3, <1>6 DEF CInv, CreditTypeOK, Generations
  <2>10. Fresh'
    <3>0. fragments' = fragments /\ fragments \in Nat
      BY <1>6 DEF serverVars, CInv, CreditTypeOK
    <3>1. \A g \in Fragments : g > fragments' => clones'[g] = 0
      BY <3>0, <2>1, <1>3, <1>4 DEF CInv, CreditTypeOK, Fresh, Fragments
    <3>2. \A i \in 1..Len(toClient') : i + 1 \in 1..Len(toClient) /\ 1 < i + 1
             /\ 1 \in 1..Len(toClient)
      BY <1>2
    <3>3. \A i \in 1..Len(toClient') : toClient'[i].type = "data" =>
            toClient'[i].fragment # f
      BY <3>2, <1>1, <1>2 DEF CInv, Fresh, f
    <3>4. \A i \in 1..Len(toClient') : toClient'[i].type = "data" =>
            /\ toClient'[i].fragment <= fragments'
            /\ clones[toClient'[i].fragment] = 0
      BY <3>0, <3>2, <1>2 DEF CInv, Fresh
    <3>5. \A i \in 1..Len(toClient') : toClient'[i].type = "data" =>
            clones'[toClient'[i].fragment] = 0
      <4>1. \A i \in 1..Len(toClient') : toClient'[i] \in ToClient
        BY <1>2, ElementOfSeq
      <4>2. \A i \in 1..Len(toClient') : toClient'[i].type = "data" =>
              toClient'[i].fragment \in Fragments
        BY <4>1 DEF ToClient
      <4>. QED
        BY <4>2, <3>3, <3>4, <2>1 DEF CInv, CreditTypeOK
    <3>6. \A i, j \in 1..Len(toClient') :
            i < j /\ toClient'[i].type = "data" /\ toClient'[j].type = "data" =>
              toClient'[i].fragment # toClient'[j].fragment
      <4>1. \A i, j \in 1..Len(toClient') : i < j => i + 1 < j + 1
        BY <1>2
      <4>2. \A i, j \in 1..Len(toClient) :
              i < j /\ toClient[i].type = "data" /\ toClient[j].type = "data" =>
                toClient[i].fragment # toClient[j].fragment
        BY DEF CInv, Fresh
      <4>3. \A i \in 1..Len(toClient') : i + 1 \in 1..Len(toClient)
                                          /\ toClient'[i] = toClient[i + 1]
        BY <3>2, <1>2
      <4>. QED
        BY <4>1, <4>2, <4>3
    <3>. QED
      BY <3>1, <3>4, <3>5, <3>6 DEF Fresh
  <2>11. WindowConserved'
    <3>. DEFINE L == Leased(generation)
    <3>1. IsFiniteSet(L) /\ Cardinality(L) \in Nat
      BY LeasedFinite DEF CInv
    <3>2. f \notin L
      BY <1>4 DEF Leased
    <3>3. inbound + pending + Cardinality(L) = Window
      BY <1>b, <2>6 DEF CInv, WindowConserved
    <3>4. CASE k = 0
      <4>1. Leased(generation)' = L
        BY <3>4, <1>3, <1>4, <1>6, <2>1 DEF Leased, CInv, CreditTypeOK
      <4>. HIDE DEF L
      <4>2. Cardinality(Leased(generation)') = Cardinality(L)
        BY <4>1
      <4>. QED
        BY <4>2, <3>1, <3>3, <3>4, <2>1, <2>4, <2>5, WindowAssumption
           DEF WindowConserved
    <3>5. CASE k # 0
      <4>1. Leased(generation)' = L \cup {f}
        BY <3>5, <1>3, <1>4, <1>5, <1>6, <2>1 DEF Leased, CInv, CreditTypeOK
      <4>2. Cardinality(L \cup {f}) = Cardinality(L) + 1
        BY <3>1, <3>2, FS_AddElement
      <4>. HIDE DEF L
      <4>3. Cardinality(Leased(generation)') = Cardinality(L) + 1
        BY <4>1, <4>2
      <4>. QED
        BY <4>3, <3>1, <3>3, <3>5, <2>1, <2>4, <2>5, WindowAssumption
           DEF WindowConserved
    <3>. QED
      BY <3>4, <3>5
  <2>. QED
    BY <2>3, <2>6, <2>8, <2>9, <2>10, <2>11, <1>5 DEF CInv, WithinWindow
<1>. QED
  BY <1>a, <1>b

(* Returned credits become tokens again; by conservation they fit.         *)
LEMMA CSend ==
  ASSUME CInv, SendReturnedCredits
  PROVE  CInv'
<1>. DEFINE r == Take(generation)
            m == [type |-> "token", tag |-> tag, count |-> r]
            L == Leased(generation)
<1>1. /\ failure = "none" /\ connected /\ permit' = FALSE /\ pending' = pending - r
      /\ IF r = 0 THEN UNCHANGED <<inbound, toServer, failure>>
         ELSE IF inbound + r > Window
         THEN failure' = "window" /\ UNCHANGED <<inbound, toServer>>
         ELSE /\ inbound' = inbound + r
              /\ toServer' = Append(toServer, m)
              /\ UNCHANGED failure
      /\ UNCHANGED <<connected, generation, returnGen, notifying, leaseVars,
                     toClient, tag, serverVars>>
  BY DEF SendReturnedCredits, Exceeds
<1>2. r = pending /\ pending \in Nat /\ inbound \in 0..Window /\ inbound \in Nat
  BY WindowAssumption DEF Take, CInv, Generations, CreditTypeOK
<1>3. IsFiniteSet(L) /\ Cardinality(L) \in Nat
  BY LeasedFinite DEF CInv
<1>4. Leased(generation)' = L
  BY <1>1 DEF Leased, leaseVars
<1>5. inbound + pending + Cardinality(L) = Window
  BY <1>1 DEF CInv, WindowConserved
<1>6. m \in ToServer
  BY <1>2 DEF ToServer, CInv, CreditTypeOK
<1>. HIDE DEF L, m, r
<1>7. inbound + r <= Window
  BY <1>2, <1>3, <1>5, WindowAssumption
<1>8. /\ pending' = 0 /\ inbound' = inbound + pending /\ failure' = failure
      /\ toServer' = toServer \/ toServer' = Append(toServer, m)
  BY <1>1, <1>2, <1>7, WindowAssumption
<1>9. toServer' \in Seq(ToServer) /\ inbound' \in 0..Window
  <2>1. toServer \in Seq(ToServer)
    BY DEF CInv, CreditTypeOK
  <2>. QED
    BY <1>2, <1>6, <1>7, <1>8, <2>1, AppendProperties, WindowAssumption
<1>a. permit' \in BOOLEAN
  BY <1>1, Zenon
<1>10. CreditTypeOK'
  BY <1>1, <1>8, <1>9, <1>a DEF CInv, CreditTypeOK, leaseVars, serverVars
<1>11. Fresh' /\ Generations' /\ WithinWindow' /\ Len(events') <= QueueCapacity
  BY <1>1, <1>8 DEF CInv, Fresh, Generations, WithinWindow, leaseVars, serverVars
<1>12. WindowConserved'
  BY <1>2, <1>3, <1>4, <1>5, <1>8 DEF WindowConserved
<1>. QED
  BY <1>10, <1>11, <1>12 DEF CInv

(* The last clone of a lease turns it into a pending return if it belongs  *)
(* to the current generation, and into nothing otherwise.                  *)
LEMMA CDrop ==
  ASSUME CInv, NEW f \in Fragments, HostDropsEvent(f)
  PROVE  CInv'
<1>. DEFINE L == Leased(generation)
<1>0. Queued(f) \in Nat
  <2>1. IsFiniteSet(1..Len(events))
    BY FS_Interval, LenProperties DEF CInv, CreditTypeOK
  <2>2. IsFiniteSet({i \in 1..Len(events) : events[i] = f})
    BY <2>1, FS_Subset
  <2>. QED
    BY <2>2, FS_CardinalityType DEF Queued
<1>1. /\ clones[f] \in Nat /\ clones[f] >= 1
      /\ clones' = [clones EXCEPT ![f] = clones[f] - 1]
      /\ IF clones[f] = 1 THEN ReturnNow(leaseGen[f])
         ELSE UNCHANGED <<pending, notifying>>
      /\ UNCHANGED <<connected, generation, inbound, returnGen, permit, leaseGen,
                     events, open, failure, toClient, toServer, tag, serverVars>>
  BY <1>0 DEF HostDropsEvent, CInv, CreditTypeOK
<1>2. pending \in Nat /\ notifying \in Nat /\ returnGen = generation
  BY DEF CInv, CreditTypeOK, Generations
<1>3. pending' \in Nat /\ notifying' \in Nat
  BY <1>1, <1>2 DEF ReturnNow
<1>4. clones' \in [Fragments -> Nat]
  BY <1>1 DEF CInv, CreditTypeOK
<1>5. CreditTypeOK'
  BY <1>1, <1>3, <1>4 DEF CInv, CreditTypeOK, serverVars
<1>6. Fresh'
  <2>1. \A g \in Fragments : clones[g] = 0 => clones'[g] = 0
    BY <1>1 DEF CInv, CreditTypeOK
  <2>2. \A i \in 1..Len(toClient) : toClient[i].type = "data" =>
          toClient[i].fragment \in Fragments
    <3>1. \A i \in 1..Len(toClient) : toClient[i] \in ToClient
      BY ElementOfSeq DEF CInv, CreditTypeOK
    <3>. QED
      BY <3>1 DEF ToClient
  <2>. QED
    BY <1>1, <2>1, <2>2 DEF CInv, Fresh, serverVars
<1>7. Generations' /\ WithinWindow' /\ Len(events') <= QueueCapacity
  BY <1>1 DEF CInv, Generations, WithinWindow
<1>8. WindowConserved'
  <2>. SUFFICES ASSUME connected', failure' = "none"
       PROVE  inbound' + pending' + Cardinality(Leased(generation)') = Window
    BY DEF WindowConserved
  <2>1. IsFiniteSet(L) /\ Cardinality(L) \in Nat
    BY LeasedFinite DEF CInv
  <2>2. inbound + pending + Cardinality(L) = Window /\ inbound \in Nat
    BY <1>1, WindowAssumption DEF CInv, WindowConserved, CreditTypeOK
  <2>3. CASE clones[f] = 1 /\ leaseGen[f] = generation
    <3>1. f \in L
      BY <2>3 DEF Leased
    <3>2. Leased(generation)' = L \ {f}
      BY <2>3, <1>1 DEF Leased, CInv, CreditTypeOK
    <3>3. pending' = pending + 1
      BY <2>3, <1>1, <1>2 DEF ReturnNow
    <3>. HIDE DEF L
    <3>4. Cardinality(Leased(generation)') = Cardinality(L) - 1
      BY <2>1, <3>1, <3>2, FS_RemoveElement
    <3>. QED
      BY <3>3, <3>4, <2>1, <2>2, <1>1, <1>2
  <2>4. CASE ~(clones[f] = 1 /\ leaseGen[f] = generation)
    <3>1. Leased(generation)' = L
      BY <2>4, <1>1 DEF Leased, CInv, CreditTypeOK
    <3>2. pending' = pending
      BY <2>4, <1>1, <1>2 DEF ReturnNow
    <3>. HIDE DEF L
    <3>. QED
      BY <3>1, <3>2, <2>2, <1>1
  <2>. QED
    BY <2>3, <2>4
<1>. QED
  BY <1>5, <1>6, <1>7, <1>8 DEF CInv

LEMMA CNext == CInv /\ [CreditNext]_creditVars => CInv'
<1>. SUFFICES ASSUME CInv, [CreditNext]_creditVars PROVE CInv'
  OBVIOUS
<1>1. CASE Server
  BY <1>1, CServer
<1>2. CASE AgentConnected
  BY <1>2, HeadTag, CBegin DEF AgentConnected
<1>3. CASE AgentDisconnected
  BY <1>3, CDisconnect DEF AgentDisconnected
<1>4. CASE HandleFragment
  BY <1>4, CFragment
<1>5. CASE SendReturnedCredits
  BY <1>5, CSend
<1>6. CASE ActivateTarget
  BY <1>6, CActivate
<1>7. CASE ReinitializeAfterMigration
  BY <1>7, HeadTag, CBegin, CDisconnect DEF ReinitializeAfterMigration
<1>8. CASE HostTakesEvent
  <2>1. events' \in Seq(Fragments) /\ Len(events') <= QueueCapacity
    BY <1>8, TailOf, WindowAssumption, LenProperties DEF HostTakesEvent, CInv, CreditTypeOK
  <2>2. Leased(generation)' = Leased(generation)
    BY <1>8 DEF HostTakesEvent, Leased, clientVars
  <2>. QED
    BY <1>8, <2>1, <2>2 DEF HostTakesEvent, CInv, CreditTypeOK, Generations, Fresh,
       WindowConserved, WithinWindow, clientVars, returnVars, serverVars
<1>9. CASE HostClosesEvents
  <2>1. Leased(generation)' = Leased(generation) /\ open' \in BOOLEAN
    BY <1>9, Zenon DEF HostClosesEvents, Leased, clientVars
  <2>. QED
    BY <1>9, <2>1 DEF HostClosesEvents, CInv, CreditTypeOK, Generations, Fresh,
       WindowConserved, WithinWindow, clientVars, returnVars, serverVars
<1>10. CASE NotifyOne
  <2>1. Leased(generation)' = Leased(generation) /\ permit' \in BOOLEAN
    BY <1>10, Zenon DEF NotifyOne, Leased, leaseVars
  <2>2. notifying' \in Nat
    BY <1>10 DEF NotifyOne, CInv, CreditTypeOK
  <2>. QED
    BY <1>10, <2>1, <2>2 DEF NotifyOne, CInv, CreditTypeOK, Generations, Fresh,
       WindowConserved, WithinWindow, leaseVars, serverVars
<1>11. CASE \E f \in Fragments : HostDropsEvent(f)
  BY <1>11, CDrop
<1>12. CASE UNCHANGED creditVars
  <2>1. CreditTypeOK' /\ Fresh'
    BY <1>12 DEF creditVars, CInv, CreditTypeOK, Fresh, clientVars, returnVars, leaseVars, serverVars
  <2>. QED
    BY <1>12, <2>1, Untouched DEF creditVars
<1>. QED
  BY <1>1, <1>2, <1>3, <1>4, <1>5, <1>6, <1>7, <1>8, <1>9, <1>10, <1>11, <1>12
     DEF CreditNext, Client, Host

(* The receive window of the connected Agent stream is conserved, and      *)
(* `send_returned_credits` never fails its window check, whatever the host *)
(* drops and whenever the Agent reconnects or the session migrates.        *)
THEOREM CreditsConserved == CreditSpec => [](CreditTypeOK /\ WindowConserved /\ WithinWindow)
<1>1. CInv => CreditTypeOK /\ WindowConserved /\ WithinWindow
  BY DEF CInv
<1>. QED
  BY CInit, CNext, <1>1, PTL DEF CreditSpec

=============================================================================
