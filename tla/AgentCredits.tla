---------------------------- MODULE AgentCredits ----------------------------
(***************************************************************************)
(* The receive window of the guest Agent stream inside the Main channel    *)
(* (crates/oxide-spice-client/src/agent.rs): `AgentRuntime`'s inbound      *)
(* tokens, the credit leases that clipboard-request events retain          *)
(* (`InboundAgentCredit`), the shared `AgentCreditReturns` and the bounded *)
(* event queue to the host.                                                *)
(*                                                                         *)
(* The host drops event leases from its own threads at any time, also long *)
(* after the Agent stream that they belong to has gone.  The server side   *)
(* is external: it sends one AgentData fragment per token, treats          *)
(* AGENT_START as the answer to its latest AGENT_CONNECTED, and numbers    *)
(* those (`tag`) so that the model can tell stale answers apart.           *)
(***************************************************************************)
EXTENDS Naturals, Sequences, FiniteSets

CONSTANTS
  Window,        \* AGENT_RECEIVE_WINDOW
  QueueCapacity, \* AGENT_EVENT_QUEUE_CAPACITY
  MaxRequests,   \* clipboard requests that one fragment may complete
  MaxFragments,  \* bound: AgentData fragments sent
  MaxTags        \* bound: Agent streams opened

ASSUME WindowAssumption ==
  /\ Window \in Nat \ {0} /\ QueueCapacity \in Nat
  /\ MaxRequests \in Nat /\ MaxFragments \in Nat /\ MaxTags \in Nat

Fragments == 1..MaxFragments

VARIABLES
  \* `AgentRuntime`
  connected, generation, inbound,
  \* `AgentCreditReturns`
  returnGen, pending,
  notifying,     \* `return_now` calls between their unlock and `notify_one`
  permit,        \* the stored permit of `notify`
  \* leases: owner generation and number of live clones per fragment
  leaseGen, clones,
  events,        \* the host event queue, as the fragments of its leases
  open,          \* the host still has its `AgentEvents`
  failure,       \* the error that ended the Main task, or "none"
  \* transport and peer
  toClient, toServer, tag, serverTag, started, tokens, fragments

returnVars == <<returnGen, pending, notifying, permit>>
clientVars == <<connected, generation, inbound, returnVars>>
leaseVars == <<leaseGen, clones, events, open>>
serverVars == <<serverTag, started, tokens, fragments>>
creditVars == <<clientVars, leaseVars, failure, toClient, toServer, tag, serverVars>>

CreditInit ==
  /\ connected = FALSE /\ generation = 0 /\ inbound = 0
  /\ returnGen = 0 /\ pending = 0 /\ notifying = 0 /\ permit = FALSE
  /\ leaseGen = [f \in Fragments |-> 0]
  /\ clones = [f \in Fragments |-> 0]
  /\ events = <<>> /\ open = TRUE /\ failure = "none"
  /\ toClient = <<>> /\ toServer = <<>>
  /\ tag = 0 /\ serverTag = 0
  /\ started = FALSE /\ tokens = 0 /\ fragments = 0

-----------------------------------------------------------------------------
(* The server and the guest Agent.                                         *)
ServerConnect ==
  /\ serverTag < MaxTags
  /\ serverTag' = serverTag + 1 /\ started' = FALSE /\ tokens' = 0
  /\ toClient' = Append(toClient, [type |-> "connected", tag |-> serverTag'])
  /\ UNCHANGED <<clientVars, leaseVars, failure, toServer, tag, fragments>>

ServerDisconnect ==
  /\ started
  /\ started' = FALSE /\ tokens' = 0
  /\ toClient' = Append(toClient, [type |-> "disconnected"])
  /\ UNCHANGED <<clientVars, leaseVars, failure, toServer, tag, serverTag,
                 fragments>>

ServerData ==
  /\ started /\ tokens > 0 /\ fragments < MaxFragments
  /\ tokens' = tokens - 1 /\ fragments' = fragments + 1
  /\ \E n \in 0..MaxRequests :
       toClient' = Append(toClient, [type |-> "data", fragment |-> fragments',
                                     requests |-> n])
  /\ UNCHANGED <<clientVars, leaseVars, failure, toServer, tag, serverTag,
                 started>>

(* A token message counts only for the stream it was sent on.              *)
ServerReceive ==
  /\ toServer # <<>>
  /\ toServer' = Tail(toServer)
  /\ LET m == Head(toServer) IN
     /\ started' = (started \/ (m.type = "start" /\ m.tag = serverTag))
     /\ tokens' = IF m.tag # serverTag THEN tokens
                  ELSE IF m.type = "start" THEN m.count
                  ELSE IF started THEN tokens + m.count
                  ELSE tokens
  /\ UNCHANGED <<clientVars, leaseVars, failure, toClient, tag, serverTag,
                 fragments>>

-----------------------------------------------------------------------------
Running == failure = "none"

Receive(type) ==
  /\ Running /\ toClient # <<>> /\ Head(toClient).type = type
  /\ toClient' = Tail(toClient)

(* `AgentCreditReturns::reset`.                                            *)
Reset(g) == returnGen' = g /\ pending' = 0

(* `begin_generation`, which announces the window with AGENT_START.        *)
BeginGeneration(t) ==
  /\ connected' = TRUE
  /\ generation' = generation + 1
  /\ inbound' = Window
  /\ Reset(generation')
  /\ tag' = t
  /\ toServer' = Append(toServer, [type |-> "start", tag |-> t,
                                   count |-> Window])

(* `disconnect` keeps the generation and the credit returns, and leaves    *)
(* queued events and leases alone.                                         *)
Disconnect ==
  /\ connected' = FALSE /\ inbound' = 0
  /\ UNCHANGED <<generation, returnGen, pending, tag, toServer>>

(* AGENT_CONNECTED and AGENT_CONNECTED_TOKENS.                             *)
AgentConnected ==
  /\ Receive("connected")
  /\ BeginGeneration(Head(toClient).tag)
  /\ UNCHANGED <<notifying, permit, leaseVars, failure, serverVars>>

(* AGENT_DISCONNECTED.                                                     *)
AgentDisconnected ==
  /\ Receive("disconnected")
  /\ Disconnect
  /\ UNCHANGED <<notifying, permit, leaseVars, failure, serverVars>>

(* Non-seamless migration replaces the transport.  Main goes on serving    *)
(* the old Agent generation until it reads the target's Main Init.         *)
ActivateTarget ==
  /\ Running /\ serverTag < MaxTags
  /\ serverTag' = serverTag + 1 /\ started' = FALSE /\ tokens' = 0
  /\ toServer' = <<>>
  /\ \E agent \in BOOLEAN :
       toClient' = <<[type |-> "init", tag |-> serverTag', agent |-> agent]>>
  /\ UNCHANGED <<clientVars, leaseVars, failure, tag, fragments>>

(* INIT of a migrated Main channel: `disconnect`, then a new generation if *)
(* the target has an Agent.                                                *)
ReinitializeAfterMigration ==
  /\ Receive("init")
  /\ IF Head(toClient).agent THEN BeginGeneration(Head(toClient).tag)
     ELSE Disconnect
  /\ UNCHANGED <<notifying, permit, leaseVars, failure, serverVars>>

-----------------------------------------------------------------------------
(* `return_now(g)`: a lease of an older stream is not credited.            *)
ReturnAnyGeneration(g) ==
  pending' = pending + 1 /\ notifying' = notifying + 1
ReturnNow(g) ==
  IF returnGen = g THEN pending' = pending + 1 /\ notifying' = notifying + 1
  ELSE UNCHANGED <<pending, notifying>>

(* The `notify_one` that ends a `return_now`; the mutant stores no permit  *)
(* when Main is not waiting, as `notify_waiters` would not.                *)
NotifyWaiters ==
  /\ notifying > 0
  /\ notifying' = notifying - 1 /\ permit' \in {permit, TRUE}
  /\ UNCHANGED <<connected, generation, inbound, returnGen, pending, leaseVars,
                 failure, toClient, toServer, tag, serverVars>>

NotifyOne ==
  /\ notifying > 0
  /\ notifying' = notifying - 1 /\ permit' = TRUE
  /\ UNCHANGED <<connected, generation, inbound, returnGen, pending, leaseVars,
                 failure, toClient, toServer, tag, serverVars>>

(* How many of a fragment's n events the queue accepts.                    *)
Accepted(n) ==
  LET room == QueueCapacity - Len(events)
  IN  IF ~open THEN 0 ELSE IF n <= room THEN n ELSE room

(* `handle_fragment`: a fragment needs a token.  Every clipboard request   *)
(* it completes queues an event that shares the fragment's lease, and a    *)
(* full queue is an error; a lease that no event retains is dropped.       *)
HandleFragment ==
  LET f == Head(toClient).fragment
      n == Head(toClient).requests
      k == Accepted(n)
  IN
  /\ Receive("data")
  /\ IF ~connected \/ inbound = 0
     THEN /\ failure' = "noToken"
          /\ UNCHANGED <<inbound, pending, notifying, leaseVars>>
     ELSE /\ inbound' = inbound - 1
          /\ failure' = IF open /\ k < n THEN "queueFull" ELSE failure
          /\ clones' = [clones EXCEPT ![f] = k]
          /\ leaseGen' = [leaseGen EXCEPT ![f] = generation]
          /\ events' = events \o [i \in 1..k |-> f]
          /\ IF k = 0 THEN ReturnNow(generation)
             ELSE UNCHANGED <<pending, notifying>>
          /\ UNCHANGED open
  /\ UNCHANGED <<connected, generation, returnGen, permit, toServer, tag,
                 serverVars>>

(* `take`.                                                                 *)
Take(g) == IF returnGen = g THEN pending ELSE 0

(* More credits than the window has, and an off-by-one in it.              *)
ExceedsFull(n) == inbound + n >= Window
Exceeds(n) == inbound + n > Window

(* The `notified()` branch of `run_main`: `send_returned_credits`.         *)
SendReturnedCredits ==
  LET returned == Take(generation) IN
  /\ Running /\ connected /\ permit
  /\ permit' = FALSE
  /\ pending' = pending - returned
  /\ IF returned = 0 THEN UNCHANGED <<inbound, toServer, failure>>
     ELSE IF Exceeds(returned)
     THEN failure' = "window" /\ UNCHANGED <<inbound, toServer>>
     ELSE /\ inbound' = inbound + returned
          /\ toServer' = Append(toServer, [type |-> "token", tag |-> tag,
                                           count |-> returned])
          /\ UNCHANGED failure
  /\ UNCHANGED <<connected, generation, returnGen, notifying, leaseVars,
                 toClient, tag, serverVars>>

-----------------------------------------------------------------------------
(* The host takes an event from the queue; the lease lives on with it.     *)
(* Dropping `AgentEvents` closes the queue and drains it the same way.     *)
HostTakesEvent ==
  /\ events # <<>>
  /\ events' = Tail(events)
  /\ UNCHANGED <<clientVars, leaseGen, clones, open, failure, toClient,
                 toServer, tag, serverVars>>

HostClosesEvents ==
  /\ open
  /\ open' = FALSE
  /\ UNCHANGED <<clientVars, leaseGen, clones, events, failure, toClient,
                 toServer, tag, serverVars>>

Queued(f) == Cardinality({i \in 1..Len(events) : events[i] = f})

(* The host drops an event it has taken: the last clone returns the        *)
(* credit.                                                                 *)
HostDropsEvent(f) ==
  /\ clones[f] > Queued(f)
  /\ clones' = [clones EXCEPT ![f] = @ - 1]
  /\ IF clones[f] = 1 THEN ReturnNow(leaseGen[f])
     ELSE UNCHANGED <<pending, notifying>>
  /\ UNCHANGED <<connected, generation, inbound, returnGen, permit, leaseGen,
                 events, open, failure, toClient, toServer, tag, serverVars>>

Server == ServerConnect \/ ServerDisconnect \/ ServerData \/ ServerReceive
Client ==
  \/ AgentConnected \/ AgentDisconnected \/ HandleFragment
  \/ SendReturnedCredits \/ ActivateTarget \/ ReinitializeAfterMigration
Host ==
  \/ HostTakesEvent \/ HostClosesEvents \/ NotifyOne
  \/ \E f \in Fragments : HostDropsEvent(f)

CreditNext == Server \/ Client \/ Host

(* Main's task is polled, the transport delivers, and the host works off   *)
(* its events.  The server need not send anything.                         *)
CreditFairness ==
  /\ WF_creditVars(AgentConnected \/ AgentDisconnected \/ HandleFragment
             \/ ReinitializeAfterMigration)
  /\ WF_creditVars(SendReturnedCredits)
  /\ WF_creditVars(ServerReceive)
  /\ WF_creditVars(HostTakesEvent) /\ WF_creditVars(NotifyOne)
  /\ \A f \in Fragments : WF_creditVars(HostDropsEvent(f))

CreditSpec == CreditInit /\ [][CreditNext]_creditVars
CreditFairSpec == CreditSpec /\ CreditFairness

-----------------------------------------------------------------------------
(* Leases that are still out for generation g.                             *)
Leased(g) == {f \in Fragments : clones[f] > 0 /\ leaseGen[f] = g}

ToClient ==
  [type : {"connected"}, tag : Nat] \cup [type : {"disconnected"}]
  \cup [type : {"init"}, tag : Nat, agent : BOOLEAN]
  \cup [type : {"data"}, fragment : Fragments, requests : 0..MaxRequests]
ToServer == [type : {"start", "token"}, tag : Nat, count : Nat]

(* Type invariant of the runtime, the leases and the two pipes.            *)
CreditTypeOK ==
  /\ connected \in BOOLEAN /\ generation \in Nat /\ inbound \in 0..Window
  /\ returnGen \in Nat /\ pending \in Nat /\ notifying \in Nat
  /\ permit \in BOOLEAN /\ open \in BOOLEAN
  /\ leaseGen \in [Fragments -> Nat] /\ clones \in [Fragments -> Nat]
  /\ events \in Seq(Fragments)
  /\ failure \in {"none", "noToken", "queueFull", "window"}
  /\ toClient \in Seq(ToClient) /\ toServer \in Seq(ToServer)
  /\ tag \in Nat /\ serverTag \in Nat /\ started \in BOOLEAN
  /\ tokens \in Nat /\ fragments \in 0..MaxFragments

(* Conservation: while a stream is connected, every credit of its window   *)
(* is an unused token, a lease that the host or the queue holds, or a      *)
(* return that is not sent yet.  Leases of earlier streams, dropped        *)
(* however late, never add to it; nothing leaks and nothing is counted     *)
(* twice.                                                                  *)
WindowConserved ==
  connected /\ Running =>
    inbound + pending + Cardinality(Leased(generation)) = Window

(* The window is never overrun: a server that spends only the tokens it    *)
(* was sent never hits "Agent data without inbound token", and returning   *)
(* credits never exceeds the window, across reconnects and migrations.     *)
CreditsAgree == failure \notin {"noToken", "window"}

(* Retained credits are enough backpressure for the bounded event queue: a *)
(* server within its credits hits the "Agent event queue" error only when  *)
(* events of an earlier stream are still queued, or when one fragment has  *)
(* completed several requests, which share its credit.                     *)
BackpressureSuffices ==
  [][failure # "queueFull" /\ failure' = "queueFull" =>
       \/ Head(toClient).requests > 1
       \/ \E i \in 1..Len(events) : \/ leaseGen[events[i]] # generation
                                    \/ Queued(events[i]) > 1]_creditVars

(* A server that has run out of tokens gets more, as long as the stream    *)
(* lives and the host works off its events.                                *)
CreditsReturn ==
  (started /\ tokens = 0) ~> (tokens > 0 \/ ~started \/ ~Running)

(* The window does its work: it is never overrun, it keeps the events      *)
(* within their queue up to the two named exceptions, and spent credits    *)
(* come back.                                                              *)
CreditsFlow ==
  []CreditsAgree /\ BackpressureSuffices /\ CreditsReturn
=============================================================================
