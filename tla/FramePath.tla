----------------------------- MODULE FramePath -----------------------------
(***************************************************************************)
(* Pixels on their way to the host.  A Display owner (client display.rs)   *)
(* draws on a primary surface and publishes it in a latest-only map        *)
(* (display/updates.rs); the helper's task takes one notification at a     *)
(* time, copies the surface and queues a frame event (helper runtime.rs);  *)
(* the writer thread flushes it (EventWriter).                             *)
(*                                                                         *)
(* One primary surface per Display channel.  A picture is a number that    *)
(* every draw on the channel increases.  A surface handle is the number of *)
(* the surface's creation; the pixels of a surface that was dropped stay   *)
(* as they were while a notification or the helper still holds a handle.   *)
(* Every notification asks for a full refresh, as notify_surface does, so  *)
(* every frame event is a full snapshot.                                   *)
(***************************************************************************)
EXTENDS EventWriter

CONSTANTS
  Channels,      \* Display channel ids, numbers: the map is ordered by them
  MaxDraws,      \* bound on the pictures of all channels
  MaxResets,     \* bound on the resets of all channels
  MaxCreations   \* bound on the surfaces created on all channels

ASSUME FrameAssumption ==
  /\ Channels \subseteq Nat
  /\ {MaxDraws, MaxResets, MaxCreations} \subseteq Nat

VARIABLES
  owner,      \* where each Display owner is in its handler
  surface,    \* the creation number of the live surface, 0 if none
  creations,  \* surfaces created so far
  pixels,     \* per creation: the picture it holds
  drawn,      \* pictures drawn so far on the channel
  epoch,      \* graphics_epoch
  frames,     \* Snapshot.values of the frame map: <<>> or <<notification>>
  freshFrame, \* the value in the map is not the one the receiver has seen
  previous,   \* DisplayReceiver.previous of the frame receiver
  topology,   \* the value in the topology map: the newest surface it no longer has
  freshTopology,
  hand,       \* what publish_frame is working on, <<>> if the task is selecting
  shown,      \* what the host shows: picture per channel
  announced,  \* the newest surface the host has been told is gone
  bypassed,   \* frames of other channels taken since a frame became fresh
  working     \* the helper still drives the session

ownerVars == <<owner, surface, creations, pixels, drawn, epoch>>
mapVars == <<frames, freshFrame, topology, freshTopology>>
helperVars == <<previous, hand, bypassed, working>>
hostVars == <<shown, announced>>
frameVars == <<ownerVars, mapVars, helperVars, hostVars, writerVars>>

Total(counter) == MapThenSumSet(LAMBDA c : counter[c], Channels)

FrameInit ==
  /\ WriterInit
  /\ owner = [c \in Channels |-> "idle"]
  /\ surface = [c \in Channels |-> 0]
  /\ creations = [c \in Channels |-> 0]
  /\ pixels = [c \in Channels |-> [n \in 1 .. MaxCreations |-> 0]]
  /\ drawn = [c \in Channels |-> 0]
  /\ epoch = [c \in Channels |-> 1]
  /\ frames = [c \in Channels |-> <<>>]
  /\ freshFrame = [c \in Channels |-> FALSE]
  /\ previous = -1
  /\ topology = [c \in Channels |-> 0]
  /\ freshTopology = [c \in Channels |-> FALSE]
  /\ hand = <<>>
  /\ shown = [c \in Channels |-> 0]
  /\ announced = [c \in Channels |-> 0]
  /\ bypassed = [c \in Channels |-> 0]
  /\ working = TRUE

-----------------------------------------------------------------------------
\* The Display owner.

\* SURFACE_CREATE, up to the publication of the topology, which follows unless the
\* server describes its monitors itself.
CreateSurface(c) ==
  /\ owner[c] = "idle" /\ surface[c] = 0 /\ Total(creations) < MaxCreations
  /\ surface' = [surface EXCEPT ![c] = creations[c] + 1]
  /\ creations' = [creations EXCEPT ![c] = @ + 1]
  /\ \E announce \in {"topology", "idle"} : owner' = [owner EXCEPT ![c] = announce]
  /\ UNCHANGED <<pixels, drawn, epoch, mapVars, helperVars, hostVars, writerVars>>

\* Any drawing message or stream frame, under the surface's write lock, and
\* notify_surface with DisplaySender::publish.  A copy taken between the two would
\* only be followed by a notification that finds the same picture.
Draw(c) ==
  /\ owner[c] = "idle" /\ surface[c] # 0 /\ Total(drawn) < MaxDraws
  /\ drawn' = [drawn EXCEPT ![c] = @ + 1]
  /\ pixels' = [pixels EXCEPT ![c][surface[c]] = drawn[c] + 1]
  /\ frames' = [frames EXCEPT ![c] = <<[epoch |-> epoch[c], handle |-> surface[c]]>>]
  /\ freshFrame' = [freshFrame EXCEPT ![c] = TRUE]
  /\ bypassed' = [bypassed EXCEPT ![c] = IF freshFrame[c] THEN @ ELSE 0]
  /\ UNCHANGED <<owner, surface, creations, epoch, topology, freshTopology,
                 previous, hand, working, hostVars, writerVars>>

\* Mutant of RemoveFrames: the notification stays in the map.
RemoveFramesForgotten(c) == UNCHANGED <<frames, freshFrame>>

\* DisplaySender::remove and clear_channel.
RemoveFrames(c) ==
  /\ frames' = [frames EXCEPT ![c] = <<>>]
  /\ freshFrame' = [freshFrame EXCEPT ![c] = FALSE]

\* SURFACE_DESTROY, up to the publication of the topology.
DestroySurface(c) ==
  /\ owner[c] = "idle" /\ surface[c] # 0
  /\ surface' = [surface EXCEPT ![c] = 0]
  /\ RemoveFrames(c)
  /\ owner' = [owner EXCEPT ![c] = "topology"]
  /\ UNCHANGED <<creations, pixels, drawn, epoch, topology, freshTopology, helperVars,
                 hostVars, writerVars>>

\* RESET, and the first message after a non-seamless replacement, likewise.
Reset(c) ==
  /\ owner[c] = "idle" /\ Total(epoch) < Cardinality(Channels) + MaxResets
  /\ surface' = [surface EXCEPT ![c] = 0]
  /\ epoch' = [epoch EXCEPT ![c] = @ + 1]
  /\ RemoveFrames(c)
  /\ owner' = [owner EXCEPT ![c] = "topology"]
  /\ UNCHANGED <<creations, pixels, drawn, topology, freshTopology, helperVars, hostVars,
                 writerVars>>

\* The newest surface that a topology published now says is gone.
Gone(c) == IF surface[c] = 0 THEN creations[c] ELSE creations[c] - 1

PublishTopology(c) ==
  /\ owner[c] = "topology"
  /\ topology' = [topology EXCEPT ![c] = Gone(c)]
  /\ freshTopology' = [freshTopology EXCEPT ![c] = TRUE]
  /\ owner' = [owner EXCEPT ![c] = "idle"]
  /\ UNCHANGED <<surface, creations, pixels, drawn, epoch, frames, freshFrame,
                 helperVars, hostVars, writerVars>>

-----------------------------------------------------------------------------
\* The helper's task.

Fresh == {c \in Channels : freshFrame[c]}
After == {c \in Fresh : c > previous}

\* Mutant of NextKey: always the first fresh key.
NextKeyFirst == Min(Fresh)

\* DisplayReceiver::next: the first fresh key behind the previous one, else the first.
NextKey == IF After # {} THEN Min(After) ELSE Min(Fresh)

TakeFrame ==
  /\ working /\ hand = <<>> /\ Fresh # {}
  /\ hand' = <<[channel |-> NextKey, note |-> frames[NextKey][1]]>>
  /\ previous' = NextKey
  /\ freshFrame' = [freshFrame EXCEPT ![NextKey] = FALSE]
  /\ bypassed' = [c \in Channels |->
                    IF freshFrame[c] /\ c # NextKey THEN bypassed[c] + 1 ELSE 0]
  /\ UNCHANGED <<ownerVars, frames, topology, freshTopology, working,
                 hostVars, writerVars>>

\* publish_frame after its await: snapshot() copies the surface under its read lock,
\* and nothing is awaited between the copy and send_frame.
FrameEvent ==
  [kind |-> "frame", key |-> <<hand[1].channel, hand[1].note.epoch>>, full |-> TRUE,
   picture |-> pixels[hand[1].channel][hand[1].note.handle], handle |-> hand[1].note.handle]

PublishFrame ==
  /\ working /\ hand # <<>>
  /\ SendFrame(FrameEvent)
  /\ hand' = <<>>
  /\ UNCHANGED <<ownerVars, mapVars, previous, bypassed, working, hostVars>>

\* A refused event ends drive_session; the event is lost.
PublishFrameRefused ==
  /\ working /\ hand # <<>> /\ FrameRefused(FrameEvent)
  /\ working' = FALSE /\ hand' = <<>>
  /\ UNCHANGED <<ownerVars, mapVars, previous, bypassed, hostVars, writerVars>>

PublishTopologyEvent(c) ==
  /\ working /\ hand = <<>> /\ freshTopology[c]
  /\ freshTopology' = [freshTopology EXCEPT ![c] = FALSE]
  /\ \/ /\ SendControl([kind |-> "topology", channel |-> c, gone |-> topology[c]])
        /\ UNCHANGED working
     \/ /\ ~HasRoom
        /\ working' = FALSE
        /\ UNCHANGED writerVars
  /\ UNCHANGED <<ownerVars, frames, freshFrame, topology, previous, hand,
                 bypassed, hostVars>>

-----------------------------------------------------------------------------
\* The writer thread and the host.

HostReceives(event) ==
  /\ shown' = IF event.kind = "frame"
              THEN [shown EXCEPT ![event.key[1]] = event.picture] ELSE shown
  /\ announced' = IF event.kind = "topology"
                  THEN [announced EXCEPT ![event.channel] = event.gone] ELSE announced

WriterWrites ==
  /\ WriteNext
  /\ HostReceives(Head(queue).event)
  /\ UNCHANGED <<ownerVars, mapVars, helperVars>>

HelperStep == TakeFrame \/ PublishFrame \/ PublishFrameRefused

FrameNext ==
  \/ \E c \in Channels :
       /\ working
       /\ CreateSurface(c) \/ Draw(c) \/ DestroySurface(c) \/ Reset(c) \/ PublishTopology(c)
  \/ HelperStep
  \/ \E c \in Channels : PublishTopologyEvent(c)
  \/ WriterWrites

\* The task and the writer thread are scheduled.  select! picks among its ready
\* branches at random, so a frame that stays ready is taken; the host reads.
FrameFairness == WF_frameVars(HelperStep) /\ WF_frameVars(WriterWrites)

-----------------------------------------------------------------------------

\* Types; the queue never exceeds its capacity.
FrameTypeOK ==
  /\ owner \in [Channels -> {"idle", "topology"}]
  /\ \A c \in Channels : surface[c] \in 0 .. creations[c]
  /\ epoch \in [Channels -> 1 .. MaxResets + 1]
  /\ Len(queue) <= Capacity
  /\ Len(hand) <= 1

\* Frames cannot flood the queue of a host that does not read: between two control
\* events there is at most one frame of each surface in each epoch.
CoalescedBetweenControls ==
  \A i, j \in DOMAIN queue :
    /\ i < j
    /\ IsFrame(queue[i].event) /\ IsFrame(queue[j].event)
    /\ queue[i].event.key = queue[j].event.key
    => \E k \in i .. j : ~IsFrame(queue[k].event)

\* A host that has been told that a surface is gone never gets a frame of it
\* afterwards: the owner clears the frame map before it publishes the topology, and
\* coalescing moves no frame over a control event.
NoFrameOfGoneSurface ==
  /\ \A i \in DOMAIN queue :
       IsFrame(queue[i].event) => queue[i].event.handle > announced[queue[i].event.key[1]]
  /\ \A i, j \in DOMAIN queue :
       /\ i < j
       /\ queue[i].event.kind = "topology" /\ IsFrame(queue[j].event)
       /\ queue[i].event.channel = queue[j].event.key[1]
       => queue[j].event.handle > queue[i].event.gone

\* "A continuously updating primary display must not starve a quieter display"
\* (display/updates.rs:92): while a notification waits, each other display is served
\* at most once.
NoStarvation == \A c \in Channels : bypassed[c] < Cardinality(Channels)

ScreenRefined ==
  INSTANCE Screen WITH
    Displays <- Channels,
    current <- drawn,
    visible <- [c \in Channels |-> surface[c] # 0 /\ pixels[c][surface[c]] > 0],
    working <- working

\* The path implements Screen: pictures reach the host in order and the newest one
\* arrives, however draws, resets, snapshots and the writer interleave.
ImplementsScreen == ScreenRefined!ScreenSpec

FrameSpec == FrameInit /\ [][FrameNext]_frameVars /\ FrameFairness

(* On the way to the host frames are coalesced between control events      *)
(* only, none is sent of a surface the host was told is gone, and no       *)
(* display starves another.                                                *)
FramesInOrder ==
  FrameTypeOK /\ CoalescedBetweenControls /\ NoFrameOfGoneSurface /\ NoStarvation
=============================================================================
