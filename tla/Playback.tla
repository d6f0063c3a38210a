------------------------------ MODULE Playback ------------------------------
(***************************************************************************)
(* The Playback owners (playback.rs) and the bounded packet queue they     *)
(* share.  An owner reads one message per step from an arbitrary server;   *)
(* a packet that finds the queue full is dropped and flagged on the next   *)
(* one.  A packet is its channel, stream generation, sequence and flag.    *)
(***************************************************************************)
EXTENDS Naturals, Sequences, SequencesExt

CONSTANTS
  PlaybackIds,        \* linked Playback channels modelled in detail
  PacketCapacity,     \* PLAYBACK_PACKET_QUEUE_CAPACITY
  MaxPackets,         \* bound: packets of one stream
  MaxPlaybackStreams, \* bound: streams of one channel
  MaxPlaybackMoves    \* bound: non-seamless activations of one channel

VARIABLES
  players,   \* per channel: the local variables of run_playback and its watches
  packets,   \* the mpsc queue of PCM packets
  heard,     \* per channel, the last packet the host received
  listening  \* the host still holds PlaybackPackets

playbackVars == <<players, packets, heard, listening>>

NoMode == "None"
OtherChannel == 1000
DataModes == {"Raw", "Opus", "Celt051"}
-----------------------------------------------------------------------------
NewPlayer ==
  [up |-> "running", observed |-> TRUE, moves |-> 0,
   mode |-> NoMode, active |-> FALSE, decoder |-> FALSE,
   stream |-> 0, sequence |-> 0, discontinuity |-> FALSE,
   shown |-> "AwaitingMode", tuned |-> FALSE]

PlaybackInit ==
  /\ players = [c \in PlaybackIds |-> NewPlayer]
  /\ packets = <<>>
  /\ heard = [c \in PlaybackIds |-> [stream |-> 0, sequence |-> 0]]
  /\ listening = TRUE

\* The first message of a non-seamless transport forgets the old server's stream.
AwaitingAfterMove(p) ==
  [p EXCEPT !.observed = TRUE, !.sequence = 0, !.mode = NoMode, !.active = FALSE,
            !.decoder = FALSE, !.discontinuity = TRUE, !.tuned = FALSE,
            !.shown = "AwaitingMode"]

\* The owner's variables when it looks at the next message.
Listening(c) ==
  IF players[c].observed THEN players[c] ELSE AwaitingAfterMove(players[c])

Becomes(c, p) == players' = [players EXCEPT ![c] = p]

\* The locals of an owner that returned are gone; its last state stays published.
Gone(up, shown) == [NewPlayer EXCEPT !.up = up, !.shown = shown]
Failed(p) == Gone("failed", p.shown)

PlaybackMode(c, mode) ==
  LET p == Listening(c) IN
  /\ p.up = "running"
  /\ Becomes(c, IF mode = "Celt051" THEN Failed(p)
                ELSE [p EXCEPT !.mode = mode,
                               !.decoder = p.active /\ mode = "Opus",
                               !.shown = IF p.active THEN "Started" ELSE "Stopped"])
  /\ UNCHANGED <<packets, heard, listening>>

StartKeepsSequence(c) ==
  LET p == Listening(c) IN
  /\ p.up = "running" /\ p.stream < MaxPlaybackStreams
  /\ Becomes(c, IF p.active \/ p.mode = NoMode THEN Failed(p)
                ELSE [p EXCEPT !.stream = @ + 1, !.discontinuity = FALSE,
                               !.active = TRUE, !.decoder = p.mode = "Opus",
                               !.shown = "Started"])
  /\ UNCHANGED <<packets, heard, listening>>

\* START numbers a new stream from zero and forgets an unflagged gap of the last.
PlaybackStart(c) ==
  LET p == Listening(c) IN
  /\ p.up = "running" /\ p.stream < MaxPlaybackStreams
  /\ Becomes(c, IF p.active \/ p.mode = NoMode THEN Failed(p)
                ELSE [p EXCEPT !.stream = @ + 1, !.sequence = 0, !.discontinuity = FALSE,
                               !.active = TRUE, !.decoder = p.mode = "Opus",
                               !.shown = "Started"])
  /\ UNCHANGED <<packets, heard, listening>>

\* A decodable, frame-aligned DATA is numbered and offered to the queue; any
\* other one ends the owner.
PlaybackData(c, valid) ==
  LET p == Listening(c) IN
  /\ p.up = "running" /\ p.sequence < MaxPackets
  /\ IF ~valid \/ ~p.active \/ p.mode = NoMode \/ (p.mode = "Opus" /\ ~p.decoder)
     THEN Becomes(c, Failed(p)) /\ UNCHANGED packets
     ELSE LET fits == Len(packets) < PacketCapacity IN
          /\ Becomes(c, [p EXCEPT !.sequence = @ + 1,
                                  !.discontinuity = IF listening THEN ~fits ELSE @])
          /\ packets' = IF listening /\ fits
                        THEN Append(packets, [channel |-> c, stream |-> p.stream,
                                              sequence |-> p.sequence,
                                              discontinuity |-> p.discontinuity])
                        ELSE packets
  /\ UNCHANGED <<heard, listening>>

PlaybackStop(c) ==
  LET p == Listening(c) IN
  /\ p.up = "running"
  /\ Becomes(c, IF ~p.active THEN Failed(p)
                ELSE [p EXCEPT !.active = FALSE, !.decoder = FALSE, !.shown = "Stopped"])
  /\ UNCHANGED <<packets, heard, listening>>

\* VOLUME, MUTE and LATENCY replace the latest settings.
PlaybackSetting(c) ==
  LET p == Listening(c) IN
  /\ p.up = "running"
  /\ Becomes(c, [p EXCEPT !.tuned = TRUE])
  /\ UNCHANGED <<packets, heard, listening>>

PlaybackMoves(c) ==
  /\ players[c].up = "running" /\ players[c].moves < MaxPlaybackMoves
  /\ Becomes(c, [players[c] EXCEPT !.observed = FALSE, !.moves = @ + 1])
  /\ UNCHANGED <<packets, heard, listening>>

PlaybackCancelled(c) ==
  /\ players[c].up = "running"
  /\ Becomes(c, Gone("done", "Closed"))
  /\ UNCHANGED <<packets, heard, listening>>

\* The owner of any other Playback channel puts a packet into the shared queue.
OtherChannelPacket ==
  /\ listening /\ Len(packets) < PacketCapacity
  /\ packets' = Append(packets, [channel |-> OtherChannel, stream |-> 1,
                                 sequence |-> 0, discontinuity |-> FALSE])
  /\ UNCHANGED <<players, heard, listening>>

\* PlaybackPackets::next, and dropping it.
HearPacket ==
  /\ listening /\ packets # <<>>
  /\ LET p == Head(packets) IN
       heard' = IF p.channel = OtherChannel THEN heard
                ELSE [heard EXCEPT ![p.channel] =
                        [stream |-> p.stream, sequence |-> p.sequence]]
  /\ packets' = Tail(packets)
  /\ UNCHANGED <<players, listening>>

StopListening ==
  /\ listening
  /\ listening' = FALSE /\ packets' = <<>>
  /\ UNCHANGED <<players, heard>>

PlaybackNext ==
  \/ \E c \in PlaybackIds :
       \/ \E mode \in DataModes : PlaybackMode(c, mode)
       \/ \E valid \in BOOLEAN : PlaybackData(c, valid)
       \/ PlaybackStart(c) \/ PlaybackStop(c) \/ PlaybackSetting(c)
       \/ PlaybackMoves(c) \/ PlaybackCancelled(c)
  \/ OtherChannelPacket \/ HearPacket \/ StopListening
-----------------------------------------------------------------------------
(* Properties. *)

\* The type invariant of the Playback owners and their queue.
PlaybackTypeOK ==
  /\ \A c \in PlaybackIds :
       /\ players[c].up \in {"running", "done", "failed"}
       /\ players[c].mode \in {NoMode, "Raw", "Opus"}
       /\ players[c].shown \in {"AwaitingMode", "Stopped", "Started", "Closed"}
       /\ players[c].sequence \in 0..MaxPackets
  /\ Len(packets) <= PacketCapacity

\* The packets of channel c the host has last received and will receive next.
Pending(c) == SelectSeq(packets, LAMBDA p : p.channel = c)

\* Does packet q follow packet p with its flag set exactly at a gap?
Follows(p, q) ==
  /\ q.stream >= p.stream
  /\ q.discontinuity <=> q.sequence # IF q.stream = p.stream THEN p.sequence + 1 ELSE 0

\* A host adapter can trust the flag: within one channel a delivered packet is
\* flagged exactly when packets of its stream before it were dropped, streams
\* never mix, and the packets of other channels in the shared queue do not matter.
GapsFlagged ==
  \A c \in PlaybackIds :
    LET queue == Pending(c) IN
      \A i \in DOMAIN queue :
        IF i > 1 THEN Follows(queue[i - 1], queue[i])
        ELSE Follows(heard[c], queue[1])

\* The published state follows the server's stream through Mode, Start, Stop and
\* migration: Started exactly while a format is active, which has a mode (the
\* expect() calls of run_playback cannot panic) and, for Opus, its decoder.
PlaybackStateAgrees ==
  \A c \in PlaybackIds :
    LET p == players[c] IN
      p.up = "running" =>
        /\ p.active => p.mode # NoMode
        /\ p.decoder <=> p.active /\ p.mode = "Opus"
        /\ p.shown = IF p.active THEN "Started"
                     ELSE IF p.mode = NoMode THEN "AwaitingMode" ELSE "Stopped"
=============================================================================
