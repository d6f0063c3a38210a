------------------------------- MODULE Session ------------------------------
(***************************************************************************)
(* A session from `Session::connect` to its end (client session.rs): the   *)
(* Main bootstrap, the links of the advertised channels in their order,    *)
(* the tasks of the supervisor, and the first result, the cancellation,    *)
(* the grace period and the joins that end it.                             *)
(*                                                                         *)
(* A channel is a pair <<type, id>>.  Linking one channel, with its        *)
(* timeout, is one step (see Link).  Of an owner only what the supervisor  *)
(* sees is here: it runs, is stuck in a write that does not watch the      *)
(* cancellation, or has ended with a result.                               *)
(***************************************************************************)
EXTENDS Naturals, Sequences, FiniteSets

CONSTANTS
  Advertisements,  \* the sets of channels a server may list
  Limit,           \* type -> most channels of the type
  MaxBootstrap     \* bound: Main messages between Init and the end of bootstrap

TypeOrder == <<"Display", "Inputs", "Cursor", "Playback", "Record", "Usb", "Smartcard", "Port">>
Main == <<"Main", 0>>
All == {Main} \cup UNION Advertisements

ASSUME SessionAssumption ==
  \A a \in Advertisements : \A c \in a : c[1] \in {TypeOrder[i] : i \in DOMAIN TypeOrder}

VARIABLES
  attempt,   \* connect: [stage, list, linked, type]
  bootstrap, \* Main's bootstrap: [init, messages, agent]
  server,    \* the server's Agent: [connected, tokens]
  owners,    \* channel -> "none", "running", "stuck", "ended", "joined"
  result,    \* channel -> NoResult, Ok, Cancelled or Error(channel)
  supervisor, \* [stage, terminal, cleanup, expired, cancel, state]
  caller     \* [asked, waiting]: shutdown or drop called; blocked in next_frame

sessionVars == <<attempt, bootstrap, server, owners, result, supervisor, caller>>

NoResult == <<"none">>
Ok == <<"ok">>
Cancelled == <<"cancelled">>
Error(c) == <<"error", c>>
IsErr(r) == r \notin {NoResult, Ok}
Failed(r) == r[1] = "error"

NotConnecting == [stage |-> "idle", list |-> {}, linked |-> {}, type |-> 0]
NoAgent == [connected |-> FALSE, tokens |-> 0]

NoBootstrap == [init |-> FALSE, messages |-> 0, agent |-> NoAgent]

SessionInit ==
  /\ attempt = NotConnecting /\ bootstrap = NoBootstrap
  /\ server = NoAgent
  /\ owners = [c \in All |-> "none"] /\ result = [c \in All |-> NoResult]
  /\ supervisor = [stage |-> "none", terminal |-> NoResult, cleanup |-> Ok, expired |-> FALSE,
                   cancel |-> FALSE, state |-> "none"]
  /\ caller = [asked |-> FALSE, waiting |-> FALSE]
-----------------------------------------------------------------------------
(* Session::connect. *)

\* Any failure returns from connect; the transports linked so far are dropped.
ConnectFails ==
  /\ attempt.stage \in {"main", "bootstrap", "linking"}
  /\ attempt' = [NotConnecting EXCEPT !.stage = "failed"]
  /\ bootstrap' = NoBootstrap /\ server' = NoAgent
  /\ UNCHANGED <<owners, result, supervisor, caller>>

\* validate_options, then Main's transport and Link.
Connect ==
  /\ attempt.stage = "idle"
  /\ attempt' = [attempt EXCEPT !.stage = "main"]
  /\ UNCHANGED <<bootstrap, server, owners, result, supervisor, caller>>

LinkMain ==
  /\ attempt.stage = "main"
  /\ attempt' = [attempt EXCEPT !.stage = "bootstrap", !.linked = {Main}]
  /\ UNCHANGED <<bootstrap, server, owners, result, supervisor, caller>>

\* Main Init installs the Agent state and asks for the channels.
BootstrapInit ==
  /\ attempt.stage = "bootstrap" /\ ~bootstrap.init
  /\ \E agent \in [connected : BOOLEAN, tokens : 0 .. 1] :
       bootstrap' = [bootstrap EXCEPT !.init = TRUE, !.agent = agent] /\ server' = agent
  /\ UNCHANGED <<attempt, owners, result, supervisor, caller>>

AgentAfterForgetting(agent, kind) ==
  CASE kind = "AGENT_CONNECTED" -> [agent EXCEPT !.connected = TRUE]
    [] kind = "AGENT_CONNECTED_TOKENS" -> [agent EXCEPT !.connected = TRUE]
    [] kind = "AGENT_DISCONNECTED" -> [agent EXCEPT !.connected = FALSE]
    [] kind = "AGENT_TOKEN" -> [agent EXCEPT !.tokens = @ + 1]
    [] OTHER -> agent

\* What a bootstrap message does to the Agent state.
AgentAfter(agent, kind) ==
  CASE kind = "AGENT_CONNECTED" -> [agent EXCEPT !.connected = TRUE]
    [] kind = "AGENT_CONNECTED_TOKENS" -> [connected |-> TRUE, tokens |-> 2]
    [] kind = "AGENT_DISCONNECTED" -> [agent EXCEPT !.connected = FALSE]
    [] kind = "AGENT_TOKEN" -> [agent EXCEPT !.tokens = @ + 1]
    [] OTHER -> agent

\* The server's own account.
Granted(kind) ==
  [connected |-> kind \in {"AGENT_CONNECTED", "AGENT_CONNECTED_TOKENS"}
                 \/ (server.connected /\ kind # "AGENT_DISCONNECTED"),
   tokens |-> IF kind = "AGENT_CONNECTED_TOKENS" THEN 2
              ELSE server.tokens + IF kind = "AGENT_TOKEN" THEN 1 ELSE 0]

\* A message after Init: mouse mode, time, name and uuid leave the Agent alone.
BootstrapMessage(kind) ==
  /\ attempt.stage = "bootstrap" /\ bootstrap.init /\ bootstrap.messages < MaxBootstrap
  /\ bootstrap' = [bootstrap EXCEPT !.messages = @ + 1, !.agent = AgentAfter(@, kind)]
  /\ server' = Granted(kind)
  /\ UNCHANGED <<attempt, owners, result, supervisor, caller>>

\* The list is kept; the rest of its envelope is still handled.
ChannelsList ==
  /\ attempt.stage = "bootstrap" /\ bootstrap.init /\ attempt.list = {}
  /\ attempt' \in {[attempt EXCEPT !.list = a] : a \in Advertisements}
  /\ UNCHANGED <<bootstrap, server, owners, result, supervisor, caller>>

OfType(a, type) == {c \in a : c[1] = type}

\* The channels of the list that are linked: the first Inputs channel, the
\* cursors of listed displays, every channel of the other types.
Wanted(a) ==
  {c \in a : \/ c[1] \notin {"Inputs", "Cursor"}
             \/ c[1] = "Inputs" /\ \A d \in OfType(a, "Inputs") : c[2] <= d[2]
             \/ c[1] = "Cursor" /\ <<"Display", c[2]>> \in a}

\* A session needs a Display; every type but Inputs and Cursor has a limit.
WithinLimit(a, type) ==
  /\ type = "Display" => OfType(a, type) # {}
  /\ type \notin {"Inputs", "Cursor"} => Cardinality(OfType(a, type)) <= Limit[type]

\* The envelope with the list ends: bootstrap_main returns.
BootstrapEnds ==
  /\ attempt.stage = "bootstrap" /\ attempt.list # {}
  /\ attempt' = [attempt EXCEPT !.stage = "linking", !.type = 1]
  /\ UNCHANGED <<bootstrap, server, owners, result, supervisor, caller>>

\* Channels are linked type by type, each type's limit checked when its turn
\* comes, with the session id of Main Init.
LinkChild ==
  LET type == TypeOrder[attempt.type]
      missing == OfType(Wanted(attempt.list), type) \ attempt.linked IN
  /\ attempt.stage = "linking" /\ attempt.type \in DOMAIN TypeOrder
  /\ attempt' = IF ~WithinLimit(attempt.list, type)
                THEN [NotConnecting EXCEPT !.stage = "failed"]
                ELSE IF missing = {} THEN [attempt EXCEPT !.type = @ + 1]
                ELSE [attempt EXCEPT !.linked = @ \cup {CHOOSE c \in missing : \A d \in missing : c[2] <= d[2]}]
  /\ UNCHANGED <<bootstrap, server, owners, result, supervisor, caller>>

\* supervise_channels spawns one task for every linked channel.
Spawned(linked) == [c \in All |-> IF c \in linked THEN "running" ELSE "none"]

\* The paths are made, the supervisor spawns an owner per channel and the
\* Agent runtime starts from the bootstrap's Agent state.
Spawn ==
  /\ attempt.stage = "linking" /\ attempt.type = Len(TypeOrder) + 1
  /\ attempt' = [attempt EXCEPT !.stage = "up", !.list = {}, !.type = 0]
  /\ bootstrap' = NoBootstrap /\ server' = NoAgent
  /\ owners' = Spawned(attempt.linked)
  /\ supervisor' = [supervisor EXCEPT !.stage = "waiting", !.state = "Running"]
  /\ UNCHANGED <<result, caller>>
-----------------------------------------------------------------------------
(* Owners. *)

EndsWith(c, r) == owners' = [owners EXCEPT ![c] = "ended"] /\ result' = [result EXCEPT ![c] = r]
Alive(c) == owners[c] \in {"running", "stuck"}

\* A transport or protocol error.
OwnerFails(c) ==
  /\ Alive(c) /\ EndsWith(c, Error(c))
  /\ UNCHANGED <<attempt, bootstrap, server, supervisor, caller>>

\* A write to a peer that does not read, or Main preparing a migration.
OwnerSticks(c) ==
  /\ owners[c] = "running" /\ owners' = [owners EXCEPT ![c] = "stuck"]
  /\ UNCHANGED <<attempt, bootstrap, server, result, supervisor, caller>>

OwnerGoesOn(c) ==
  /\ owners[c] = "stuck" /\ owners' = [owners EXCEPT ![c] = "running"]
  /\ UNCHANGED <<attempt, bootstrap, server, result, supervisor, caller>>

\* The cancellation ends an owner: its loop returns Ok, a wait for a channel, a
\* replacement, migration data, a GLZ image or a decode slot Err(Cancelled).
\* The end of Main's mouse mode ends Inputs.
OwnerStops(c) ==
  /\ owners[c] = "running"
  /\ \/ supervisor.cancel /\ \E r \in {Ok, Cancelled} : EndsWith(c, r)
     \/ c[1] = "Inputs" /\ ~Alive(Main) /\ EndsWith(c, Ok)
  /\ UNCHANGED <<attempt, bootstrap, server, supervisor, caller>>
-----------------------------------------------------------------------------
(* supervise_channels. *)

Closing(terminal) ==
  [supervisor EXCEPT !.stage = "cleanup", !.terminal = terminal, !.cancel = TRUE, !.state = "Closing"]

\* The first result, or the cancellation, closes the session.
JoinFirst(c) ==
  /\ supervisor.stage = "waiting" /\ owners[c] = "ended"
  /\ owners' = [owners EXCEPT ![c] = "joined"]
  /\ supervisor' = Closing(result[c])
  /\ UNCHANGED <<attempt, bootstrap, server, result, caller>>

SeeCancel ==
  /\ supervisor.stage = "waiting" /\ supervisor.cancel
  /\ supervisor' = Closing(Ok)
  /\ UNCHANGED <<attempt, bootstrap, server, owners, result, caller>>

\* Within the grace period the others are joined; the first Err is kept, be it
\* only the cancellation.
JoinNext(c) ==
  /\ supervisor.stage = "cleanup" /\ owners[c] = "ended"
  /\ owners' = [owners EXCEPT ![c] = "joined"]
  /\ supervisor' = [supervisor EXCEPT !.cleanup = IF IsErr(@) THEN @ ELSE result[c]]
  /\ UNCHANGED <<attempt, bootstrap, server, result, caller>>

Reaped == \A c \in All : owners[c] \in {"none", "joined"}

\* Ok and Err(Cancelled) close the session, any other error fails it.
Final(terminal) ==
  [supervisor EXCEPT !.stage = "done", !.terminal = terminal,
                     !.state = IF Failed(terminal) THEN "Failed" ELSE "Closed"]

FirstResultOnly ==
  /\ supervisor.stage = "cleanup" /\ Reaped
  /\ supervisor' = Final(supervisor.terminal)
  /\ UNCHANGED <<attempt, bootstrap, server, owners, result, caller>>

\* All joined in time: an Err of the cleanup counts if the first result was Ok.
CleanupEnds ==
  /\ supervisor.stage = "cleanup" /\ Reaped
  /\ supervisor' = Final(IF IsErr(supervisor.terminal) THEN supervisor.terminal ELSE supervisor.cleanup)
  /\ UNCHANGED <<attempt, bootstrap, server, owners, result, caller>>

GraceNever == FALSE /\ UNCHANGED sessionVars

\* The grace period passes: the rest is aborted, the cleanup's result is lost.
GraceExpires ==
  /\ supervisor.stage = "cleanup" /\ ~Reaped
  /\ supervisor' = [supervisor EXCEPT !.stage = "aborting", !.cleanup = Ok, !.expired = TRUE]
  /\ UNCHANGED <<attempt, bootstrap, server, owners, result, caller>>

\* An aborted task ends at its await and is joined.
JoinAborted(c) ==
  /\ supervisor.stage = "aborting" /\ owners[c] \in {"running", "stuck", "ended"}
  /\ owners' = [owners EXCEPT ![c] = "joined"]
  /\ UNCHANGED <<attempt, bootstrap, server, result, supervisor, caller>>

AbortsEnd ==
  /\ supervisor.stage = "aborting" /\ Reaped
  /\ supervisor' = Final(supervisor.terminal)
  /\ UNCHANGED <<attempt, bootstrap, server, owners, result, caller>>
-----------------------------------------------------------------------------
(* The caller. *)

\* shutdown() and the drop of the Session cancel.
Shutdown ==
  /\ attempt.stage = "up" /\ ~caller.asked
  /\ caller' = [caller EXCEPT !.asked = TRUE]
  /\ supervisor' = [supervisor EXCEPT !.cancel = TRUE]
  /\ UNCHANGED <<attempt, bootstrap, server, owners, result>>

\* next_frame waits for a frame or a state that is not Running.
NextFrame ==
  /\ attempt.stage = "up" /\ ~caller.waiting /\ ~caller.asked /\ supervisor.state = "Running"
  /\ caller' = [caller EXCEPT !.waiting = TRUE]
  /\ UNCHANGED <<attempt, bootstrap, server, owners, result, supervisor>>

NextFrameReturns ==
  /\ caller.waiting /\ supervisor.state # "Running"
  /\ caller' = [caller EXCEPT !.waiting = FALSE]
  /\ UNCHANGED <<attempt, bootstrap, server, owners, result, supervisor>>

Kinds == {"AGENT_CONNECTED", "AGENT_CONNECTED_TOKENS", "AGENT_DISCONNECTED", "AGENT_TOKEN", "MOUSE_MODE"}

OwnerStep(c) == OwnerFails(c) \/ OwnerSticks(c) \/ OwnerGoesOn(c) \/ OwnerStops(c)
Supervise(c) == JoinFirst(c) \/ JoinNext(c) \/ JoinAborted(c)
SupervisorEnds == SeeCancel \/ CleanupEnds \/ GraceExpires \/ AbortsEnd

SessionNext ==
  \/ Connect \/ ConnectFails \/ LinkMain \/ BootstrapInit
  \/ \E kind \in Kinds : BootstrapMessage(kind)
  \/ ChannelsList \/ BootstrapEnds \/ LinkChild \/ Spawn
  \/ \E c \in All : OwnerStep(c) \/ Supervise(c)
  \/ SupervisorEnds \/ Shutdown \/ NextFrame \/ NextFrameReturns

\* The supervisor and the caller are polled; a grace period passes.
SessionFairness ==
  /\ WF_sessionVars(SupervisorEnds \/ \E c \in All : Supervise(c))
  /\ WF_sessionVars(NextFrameReturns)
-----------------------------------------------------------------------------
\* Types, and a session holds no more channels of a type than the options allow.
SessionTypeOK ==
  /\ supervisor.state \in {"none", "Running", "Closing", "Closed", "Failed"}
  /\ owners \in [All -> {"none", "running", "stuck", "ended", "joined"}]
  /\ attempt.stage = "up" =>
       \A type \in DOMAIN Limit : Cardinality({c \in attempt.linked : c[1] = type}) <= Limit[type]

\* The Agent state Main starts with is the server's: no connection or token
\* announced during the bootstrap is lost or counted twice.
AgentStateCarried == attempt.stage \in {"bootstrap", "linking"} => bootstrap.agent = server

\* docs/protocol-design.md: a session that has ended has no owner left.
ReapedBeforeEnd == supervisor.state \in {"Closed", "Failed"} => Reaped

\* A session that closes without an abort had no failing owner, in whatever
\* order owners ended and were joined, unless the first Err joined was the
\* cancellation of another owner: Inputs ending well after Main failed does not
\* hide the failure, an owner cancelled while it waits for a channel or an image
\* does.  A session fails only with the failure of one of its owners, never
\* because it was cancelled.
FailuresReported ==
  /\ supervisor.state = "Closed" /\ ~supervisor.expired =>
       supervisor.terminal = Cancelled \/ \A c \in All : ~Failed(result[c])
  /\ supervisor.state = "Failed" =>
       \E c \in All : Failed(result[c]) /\ supervisor.terminal = result[c]

\* A shutdown or an owner's end brings the session to its end, stuck owners
\* included.
SessionEnds ==
  (supervisor.cancel \/ \E c \in All : owners[c] = "ended") ~> (supervisor.stage = "done")

\* A caller waiting for a frame learns that the session has ended.
FrameWaiterReleased == (caller.waiting /\ supervisor.stage = "cleanup") ~> ~caller.waiting

(* A session accounts for its channels and for how it ended: no more       *)
(* channels than the options allow, the Agent's state handed over from the *)
(* bootstrap, no owner left behind, no failure hidden by the orderly end   *)
(* of another owner, and none reported that no owner had.                  *)
SessionAccounted ==
  /\ SessionTypeOK /\ AgentStateCarried
  /\ ReapedBeforeEnd /\ FailuresReported
=============================================================================
