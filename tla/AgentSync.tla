----------------------------- MODULE AgentSync ------------------------------
(***************************************************************************)
(* What the Main task tells the guest Agent (client agent.rs AgentRuntime, *)
(* session.rs run_main): the capability announcement, the clipboard limit, *)
(* the desired monitor layout, clipboard ownership with its serials, and   *)
(* clipboard reads, over Agent streams that come and go.                   *)
(*                                                                         *)
(* Main loops: `prepare_internal` queues at most one message of its own,   *)
(* then one ready arm of the select runs.  A message is one fragment; a    *)
(* layout or an offer is a number.  The guest Agent is external.           *)
(***************************************************************************)
EXTENDS Naturals, Sequences

CONSTANTS
  Selections,      \* clipboard selections
  Clipboard,       \* the one every Agent has
  FeatureSets,     \* what a guest may announce, out of Features
  SyncCapacity,    \* AGENT_COMMAND_QUEUE_CAPACITY
  MaxLayouts,      \* bound: layouts the host sets
  MaxOffers,       \* bound: offers and releases the host makes
  MaxReads,        \* bound: clipboard reads of the host
  MaxAnnouncements, \* bound: announcements of a guest in a stream
  MaxGenerations   \* bound: Agent streams

Features == {"demand", "selection", "serial", "monitors", "sparse", "max_clipboard"}

ASSUME SyncAssumption == Clipboard \in Selections /\ FeatureSets \subseteq SUBSET Features

VARIABLES
  sync,      \* AgentRuntime
  turn,      \* "prepare" or "select": where run_main's loop is
  wishes,    \* AgentCommands
  layout,    \* the layout watch: [value, sparse, changed]
  creditDue, \* the permit of the credit returns
  owner,     \* the host: [owns, calls, reads]
  read,      \* a clipboard read: "none", "queued", "pending"
  vdagent    \* the guest: [announced, layout, grabs, expects, unread, said, steady, early]

syncVars == <<sync, turn, wishes, layout, creditDue, owner, read, vdagent>>

Nothing == [kind |-> "none"]
Zero == [s \in Selections |-> 0]
NewAgent == [announced |-> FALSE, layout |-> 0, grabs |-> Zero, expects |-> Zero,
             unread |-> 0, said |-> 0, steady |-> TRUE, early |-> FALSE]

SyncInit ==
  /\ sync = [generation |-> 0, connected |-> FALSE, ready |-> FALSE, tokens |-> 0,
                announce |-> FALSE, max_clipboard |-> FALSE, laidOut |-> FALSE, dirty |-> FALSE,
                features |-> {}, desired |-> Zero, offered |-> Selections, serial |-> Zero,
                outbound |-> Nothing, overlap |-> FALSE]
  /\ turn = "select" /\ wishes = <<>>
  /\ layout = [value |-> 0, sparse |-> FALSE, changed |-> FALSE]
  /\ creditDue = FALSE
  /\ owner = [owns |-> Zero, calls |-> 0, reads |-> 0]
  /\ read = "none"
  /\ vdagent = NewAgent
-----------------------------------------------------------------------------
(* AgentRuntime. *)

Message(kind, g, s, value, serial) ==
  [kind |-> kind, generation |-> g, selection |-> s, value |-> value, serial |-> serial]
Plain(kind, value) == Message(kind, sync.generation, Clipboard, value, 0)

\* queue() refuses a second message.
Queue(r, message) ==
  IF r.outbound # Nothing THEN [r EXCEPT !.overlap = TRUE] ELSE [r EXCEPT !.outbound = message]

\* A grab takes the next serial of its selection, counted from 1, if the guest
\* knows serials, and none (0) otherwise.
Grab(r, s, types, g) ==
  LET serial == IF "serial" \in r.features THEN r.serial[s] + 1 ELSE 0 IN
  Queue([r EXCEPT !.serial[s] = IF serial = 0 THEN @ ELSE serial, !.offered = @ \cup {s}],
        Message("GRAB", g, s, types, serial))

\* The selections whose desired offer this stream has not seen; one the guest
\* does not support is marked as seen.
Supported(r, s) == s = Clipboard \/ "selection" \in r.features
Unoffered(r) == {s \in Selections \ r.offered : r.desired[s] # 0 /\ Supported(r, s)}
Passed(r) == {s \in Selections : r.desired[s] # 0 /\ ~Supported(r, s)}

LayoutDueOnChange(r) == r.dirty \/ layout.changed
\* A stream gets the layout once, and again when it changes.
LayoutDue(r) == ~r.laidOut \/ r.dirty \/ layout.changed

\* A layout with empty monitors is only for guests that know sparse layouts.
TakesLayout(features) == "monitors" \in features /\ (layout.sparse => "sparse" \in features)

\* prepare_internal, in its order.  A layout the guest cannot take counts as
\* sent, and still ends the call, so an offer waits for the next turn.
PrepareInternal ==
  LET r == sync IN
  IF ~r.connected \/ r.outbound # Nothing THEN UNCHANGED <<sync, layout>>
  ELSE IF r.announce THEN /\ sync' = Queue([r EXCEPT !.announce = FALSE], Plain("ANNOUNCE", 0))
                          /\ UNCHANGED layout
  ELSE IF r.max_clipboard THEN /\ sync' = Queue([r EXCEPT !.max_clipboard = FALSE], Plain("MAX_CLIPBOARD", 0))
                               /\ UNCHANGED layout
  ELSE IF r.ready /\ LayoutDue(r)
       THEN LET seen == [r EXCEPT !.laidOut = TRUE, !.dirty = FALSE] IN
            /\ layout' = [layout EXCEPT !.changed = FALSE]
            /\ sync' = IF layout.value # 0 /\ TakesLayout(r.features)
                          THEN Queue(seen, Plain("MONITORS", layout.value)) ELSE seen
  ELSE IF r.ready /\ Unoffered(r) # {}
       THEN LET s == CHOOSE s \in Unoffered(r) : TRUE IN
            sync' = Grab(r, s, r.desired[s], r.generation) /\ UNCHANGED layout
  ELSE IF r.ready THEN sync' = [r EXCEPT !.offered = @ \cup Passed(r)] /\ UNCHANGED layout
  ELSE UNCHANGED <<sync, layout>>

Prepare ==
  /\ turn = "prepare" /\ turn' = "select"
  /\ PrepareInternal
  /\ UNCHANGED <<wishes, creditDue, owner, read, vdagent>>

Select == turn = "select" /\ turn' = "prepare"

\* What the guest makes of a message.
Heard(m) ==
  [vdagent EXCEPT
     !.announced = @ \/ m.kind = "ANNOUNCE",
     !.early = @ \/ (~vdagent.announced /\ m.kind # "ANNOUNCE"),
     !.layout = IF m.kind = "MONITORS" THEN m.value ELSE @,
     !.grabs[m.selection] = IF m.kind \in {"GRAB", "RELEASE"} THEN m.value ELSE @,
     !.expects[m.selection] = IF m.kind = "GRAB" /\ m.serial # 0 THEN m.serial ELSE @,
     !.unread = @ + 1]

\* send_one: a fragment costs a token.
SendFragment ==
  /\ Select
  /\ sync.connected /\ sync.tokens > 0 /\ sync.outbound # Nothing
  /\ sync' = [sync EXCEPT !.outbound = Nothing, !.tokens = @ - 1]
  /\ vdagent' = Heard(sync.outbound)
  /\ UNCHANGED <<wishes, layout, creditDue, owner, read>>

\* can_accept_command.
CanAcceptCommand == sync.ready /\ ~sync.announce /\ ~sync.max_clipboard /\ sync.outbound = Nothing

StaleByReadiness(command) == ~sync.ready
\* Commands of another stream are answered or dropped, never sent.
Stale(command) == command.generation # sync.generation \/ ~sync.ready

\* So are those for a guest that no longer has a clipboard.
Refused(command) == Stale(command) \/ "demand" \notin sync.features

TakeWish ==
  LET command == Head(wishes) IN
  /\ Select /\ CanAcceptCommand /\ wishes # <<>>
  /\ wishes' = Tail(wishes)
  /\ IF Refused(command)
     THEN /\ read' = IF command.kind = "Request" THEN "none" ELSE read
          /\ UNCHANGED sync
     ELSE /\ read' = IF command.kind = "Request" THEN "pending" ELSE read
          /\ sync' =
               CASE command.kind = "Offer" ->
                      Grab([sync EXCEPT !.desired[command.selection] = command.value],
                           command.selection, command.value, command.generation)
                 [] command.kind = "Release" ->
                      Queue([sync EXCEPT !.desired[command.selection] = 0,
                                            !.offered = @ \cup {command.selection}],
                            Message("RELEASE", command.generation, command.selection, 0, 0))
                 [] command.kind = "Request" ->
                      Queue(sync, Message("REQUEST", command.generation, command.selection, 0, 0))
  /\ UNCHANGED <<layout, creditDue, owner, vdagent>>

\* monitor_layout.changed() marks the value seen.
NoteLayoutChanged ==
  /\ Select /\ layout.changed
  /\ layout' = [layout EXCEPT !.changed = FALSE]
  /\ sync' = [sync EXCEPT !.dirty = TRUE]
  /\ UNCHANGED <<wishes, creditDue, owner, read, vdagent>>

\* The credits of fragments nobody retains are returned.
ReturnCredits ==
  /\ Select /\ creditDue /\ sync.connected
  /\ creditDue' = FALSE
  /\ UNCHANGED <<sync, wishes, layout, owner, read, vdagent>>
-----------------------------------------------------------------------------
(* Messages of the server and the guest. *)

FreshKeepingSerials(r) ==
  [r EXCEPT !.generation = @ + 1, !.connected = TRUE, !.ready = FALSE, !.features = {},
            !.outbound = Nothing, !.announce = TRUE, !.max_clipboard = FALSE,
            !.laidOut = FALSE, !.offered = {}]

\* begin_generation.
Fresh(r) ==
  [r EXCEPT !.generation = @ + 1, !.connected = TRUE, !.ready = FALSE, !.features = {},
            !.outbound = Nothing, !.announce = TRUE, !.max_clipboard = FALSE,
            !.serial = Zero, !.laidOut = FALSE, !.offered = {}]

\* AGENT_CONNECTED keeps the tokens, AGENT_CONNECTED_TOKENS and the Main Init of
\* a migration target set them.
StreamBegins(tokens) ==
  /\ Select /\ sync.generation < MaxGenerations
  /\ sync' = Fresh([sync EXCEPT !.tokens = tokens])
  /\ read' = IF read = "pending" THEN "none" ELSE read
  /\ vdagent' = NewAgent
  /\ creditDue' = FALSE
  /\ UNCHANGED <<wishes, layout, owner>>

\* disconnect().
StreamEnds ==
  /\ Select /\ sync.connected
  /\ sync' = [sync EXCEPT !.connected = FALSE, !.ready = FALSE, !.features = {},
                                !.outbound = Nothing, !.announce = FALSE, !.max_clipboard = FALSE]
  /\ read' = IF read = "pending" THEN "none" ELSE read
  /\ vdagent' = NewAgent
  /\ UNCHANGED <<wishes, layout, creditDue, owner>>

\* The guest announces its features, perhaps again and perhaps others, and may
\* ask back.
GuestAnnounces ==
  /\ Select /\ sync.connected /\ vdagent.said < MaxAnnouncements
  /\ \E features \in FeatureSets, request_reply \in BOOLEAN :
       /\ sync' = [sync EXCEPT !.ready = TRUE, !.features = features,
                                  !.max_clipboard = "max_clipboard" \in features,
                                  !.announce = @ \/ request_reply]
       /\ vdagent' = [vdagent EXCEPT !.said = @ + 1, !.steady = @ /\ (sync.ready => features = sync.features)]
  /\ creditDue' = TRUE
  /\ UNCHANGED <<wishes, layout, owner, read>>

\* CLIPBOARD answers the pending read.
GuestGivesData ==
  /\ Select /\ sync.connected /\ read = "pending"
  /\ read' = "none"
  /\ creditDue' = TRUE
  /\ UNCHANGED <<sync, wishes, layout, owner, vdagent>>

\* AGENT_TOKEN, for a message the guest has consumed or when none is left.
GuestReturnsToken ==
  /\ Select /\ sync.connected /\ (vdagent.unread > 0 \/ sync.tokens = 0)
  /\ sync' = [sync EXCEPT !.tokens = @ + 1]
  /\ vdagent' = [vdagent EXCEPT !.unread = IF @ > 0 THEN @ - 1 ELSE 0]
  /\ UNCHANGED <<wishes, layout, creditDue, owner, read>>
-----------------------------------------------------------------------------
(* The host: AgentHandle. *)

Available(s) == sync.ready /\ "demand" \in sync.features /\ Supported(sync, s)
Wish(kind, s, value) ==
  /\ Len(wishes) < SyncCapacity
  /\ wishes' = Append(wishes, [kind |-> kind, generation |-> sync.generation,
                               selection |-> s, value |-> value])

\* offer_clipboard and release_clipboard return once the command is queued.
CallClipboard(s, offer) ==
  /\ Available(s) /\ owner.calls < MaxOffers
  /\ LET value == IF offer THEN owner.calls + 1 ELSE 0 IN
       /\ Wish(IF offer THEN "Offer" ELSE "Release", s, value)
       /\ owner' = [owner EXCEPT !.calls = @ + 1, !.owns[s] = value]
  /\ UNCHANGED <<sync, turn, layout, creditDue, read, vdagent>>

\* request_clipboard.
ReadClipboard(s) ==
  /\ Available(s) /\ read = "none" /\ owner.reads < MaxReads
  /\ Wish("Request", s, 0)
  /\ read' = "queued"
  /\ owner' = [owner EXCEPT !.reads = @ + 1]
  /\ UNCHANGED <<sync, turn, layout, creditDue, vdagent>>

\* set_monitor_layout refuses a sparse layout only of an Agent that is ready.
SetLayout ==
  /\ layout.value < MaxLayouts
  /\ \E sparse \in BOOLEAN :
       /\ sparse /\ sync.ready => "sparse" \in sync.features
       /\ layout' = [value |-> layout.value + 1, sparse |-> sparse, changed |-> TRUE]
  /\ UNCHANGED <<sync, turn, wishes, creditDue, owner, read, vdagent>>

SyncNext ==
  \/ Prepare \/ SendFragment \/ TakeWish \/ NoteLayoutChanged \/ ReturnCredits
  \/ \E tokens \in {sync.tokens, 1} : StreamBegins(tokens)
  \/ StreamEnds \/ GuestAnnounces \/ GuestGivesData \/ GuestReturnsToken
  \/ \E s \in Selections : (\E offer \in BOOLEAN : CallClipboard(s, offer)) \/ ReadClipboard(s)
  \/ SetLayout

\* Main is polled, its select is unbiased among ready arms, and a guest that
\* consumes messages returns their tokens.
SyncFairness ==
  /\ WF_syncVars(Prepare)
  /\ SF_syncVars(SendFragment) /\ SF_syncVars(TakeWish) /\ SF_syncVars(NoteLayoutChanged)
  /\ SF_syncVars(ReturnCredits) /\ SF_syncVars(GuestReturnsToken)
-----------------------------------------------------------------------------
\* Every variable has its type and the command queue keeps its capacity.
SyncTypeOK ==
  /\ sync.tokens \in Nat /\ sync.generation \in 0 .. MaxGenerations
  /\ Len(wishes) <= SyncCapacity /\ layout.value \in 0 .. MaxLayouts
  /\ read \in {"none", "queued", "pending"} /\ turn \in {"prepare", "select"}

\* Main never queues a message over another one (the Internal errors of queue
\* and send_one do not occur), whatever the select picks.
NoOverlap == ~sync.overlap

\* A stream opens with the client's capabilities, whoever speaks first.
AnnounceFirst == ~vdagent.early

\* Client and guest agree on the next grab serial of every selection in every
\* stream, whatever the guest announces in between: no grab is ignored as out of
\* date.
SerialsAgree ==
  \A s \in Selections :
    sync.connected =>
      sync.serial[s] = vdagent.expects[s] +
        (IF sync.outbound.kind = "GRAB" /\ sync.outbound.selection = s /\ sync.outbound.serial # 0 THEN 1 ELSE 0)

\* docs/protocol-design.md: "stale generation commands cannot enter the
\* replacement stream".
NoStaleCommand == sync.outbound # Nothing => sync.outbound.generation = sync.generation

\* A pending clipboard read belongs to the connected stream: disconnect and
\* reconnect fail the others.
ReadOfThisStream == read = "pending" => sync.ready

\* The desired layout, set before the Agent is there or while it is, reaches
\* every Agent that can take it, stays and keeps to the features it announced
\* first.  A sparse layout that is stored when a guest without sparse layouts
\* becomes ready is not one it can take: prepare_internal passes over it, and
\* over every layout of a guest that learns of layouts only later.
LayoutReplayed ==
  \A v \in 1 .. MaxLayouts :
    (layout.value = v /\ sync.ready /\ TakesLayout(sync.features))
      ~> (vdagent.layout = v \/ layout.value # v \/ ~sync.ready \/ ~vdagent.steady)

\* docs/protocol-design.md: "local clipboard ownership are replayed in the new
\* Agent generation", for an offer the sync knows of and an Agent that stays.
OfferReplayed ==
  \A v \in 1 .. MaxOffers :
    (sync.ready /\ sync.desired[Clipboard] = v)
      ~> (vdagent.grabs[Clipboard] = v \/ ~sync.ready \/ sync.desired[Clipboard] # v)

(* Every Agent stream stands for itself: it opens with the announcement,   *)
(* its messages do not overlap, its clipboard serials are those the guest  *)
(* counts, and neither commands nor reads of an earlier stream reach it.   *)
StreamsApart ==
  /\ SyncTypeOK /\ NoOverlap /\ AnnounceFirst
  /\ SerialsAgree /\ NoStaleCommand /\ ReadOfThisStream
=============================================================================
