------------------------------ MODULE Surfaces ------------------------------
(***************************************************************************)
(* The surfaces, video streams and monitors of one Display owner (client   *)
(* display.rs, run_display): its messages, the session-wide byte budget    *)
(* that a surface keeps until its last handle is gone, the frame and       *)
(* topology slots the host reads, and the clear after a migration that is  *)
(* not seamless, which the first message of the new transport triggers.    *)
(*                                                                         *)
(* The server is a conforming one: it uses only what it has created.  A    *)
(* surface it has destroyed takes its streams with it.  Pixels are left    *)
(* out; `n` tells apart the surfaces that have had one identifier.         *)
(***************************************************************************)
EXTENDS Integers, Sequences, FiniteSets, FiniteSetsExt, Functions

CONSTANTS
  SurfaceIds, StreamIds,
  Primaries,       \* the identifiers whose surfaces carry SURFACE_FLAG_PRIMARY
  SurfaceSizes,    \* bytes of a surface
  SurfaceLimit,    \* DEFAULT_MAX_SURFACE_BYTES
  MaxActive,       \* MAX_ACTIVE_STREAMS
  Windows,         \* maximum_window_frames of a stream report
  MaxMade,         \* bound: surfaces created
  MaxStreamsMade,  \* bound: streams created
  MaxResets        \* bound: resets and migrations

ASSUME SurfacesAssumption ==
  /\ Primaries \subseteq SurfaceIds
  /\ SurfaceSizes \subseteq Nat /\ Windows \subseteq Nat
  /\ {SurfaceLimit, MaxActive, MaxMade, MaxStreamsMade, MaxResets} \subseteq Nat

VARIABLES
  display,  \* the owner: stage, epoch, surfaces, streams, explicit, and the
            \* slots it publishes: shown (frames) and topology
  view,     \* the server: surfaces and streams it believes to exist
  host,     \* held: frames the host keeps; seen: the receiver's own copies
  moved,    \* a transport of another server is in use and not yet observed
  made      \* bounds: [surfaces, streams, resets]

surfacesVars == <<display, view, host, moved, made>>

NoSurface == [n |-> 0, size |-> 0]
NoStream == [surface |-> "none", n |-> 0, window |-> 0, count |-> 0]
NoFrame == [epoch |-> 0, n |-> 0, size |-> 0]
NoView == [surfaces |-> {}, streams |-> {}]

SurfacesInit ==
  /\ display = [stage |-> "run", epoch |-> 1, explicit |-> FALSE,
                surfaces |-> [i \in SurfaceIds |-> NoSurface],
                streams |-> [s \in StreamIds |-> NoStream],
                shown |-> [i \in SurfaceIds |-> NoFrame],
                topology |-> [epoch |-> 1, monitors |-> {}]]
  /\ view = NoView
  /\ host = [held |-> {}, seen |-> [i \in SurfaceIds |-> NoFrame]]
  /\ moved = FALSE
  /\ made = [surfaces |-> 0, streams |-> 0, resets |-> 0]

Existing(d) == {i \in SurfaceIds : d.surfaces[i] # NoSurface}
Active(d) == {s \in StreamIds : d.streams[s] # NoStream}
-----------------------------------------------------------------------------
(* Clearing: RESET, and the observation of a new server. *)

ClearedKeepingEpoch(d) ==
  [d EXCEPT !.epoch = @ + 1, !.explicit = FALSE,
            !.surfaces = [i \in SurfaceIds |-> NoSurface],
            !.streams = [s \in StreamIds |-> NoStream],
            !.shown = [i \in SurfaceIds |-> NoFrame],
            !.topology.monitors = {}]

Cleared(d) ==
  [d EXCEPT !.epoch = @ + 1, !.explicit = FALSE,
            !.surfaces = [i \in SurfaceIds |-> NoSurface],
            !.streams = [s \in StreamIds |-> NoStream],
            !.shown = [i \in SurfaceIds |-> NoFrame],
            !.topology = [epoch |-> d.epoch + 1, monitors |-> {}]]

\* The owner as the handler of a message finds it: observe_migration_activation
\* comes first, whatever the message.
Observed == IF moved THEN Cleared(display) ELSE display

\* One message of the server has been handled: d is the owner after it.
Handled(d) == display' = d /\ moved' = FALSE

Refused(d, cause) == [d EXCEPT !.stage = cause]

Listening == display.stage = "run"

Reset ==
  /\ Listening /\ made.resets < MaxResets
  /\ Handled(Cleared(Observed))
  /\ view' = NoView
  /\ made' = [made EXCEPT !.resets = @ + 1]
  /\ UNCHANGED host

\* A migration that is not seamless; the new server starts with nothing.
MoveDisplay ==
  /\ Listening /\ ~moved /\ made.resets < MaxResets
  /\ moved' = TRUE
  /\ view' = NoView
  /\ made' = [made EXCEPT !.resets = @ + 1]
  /\ UNCHANGED <<display, host>>
-----------------------------------------------------------------------------
(* Surfaces and monitors. *)

\* Every handle to a surface's pixels: the owner's, the frame slot's, the
\* host's and those its receiver keeps to tell old frames from new ones.
Handles(d) ==
  {[n |-> s.n, size |-> s.size] :
     s \in (Range(d.surfaces) \cup Range(d.shown) \cup host.held \cup Range(host.seen))
           \ {NoSurface, NoFrame}}

UsedPerHandle(d) ==
  MapThenSumSet(LAMBDA s : s.size, Handles(d)) + MapThenSumSet(LAMBDA i : d.shown[i].size, SurfaceIds)
Used(d) == MapThenSumSet(LAMBDA s : s.size, Handles(d))

\* Without MONITORS_CONFIG the primary surfaces are the monitors.
Implicit(d) ==
  IF d.explicit THEN d
  ELSE [d EXCEPT !.topology.monitors = Existing(d) \cap Primaries]

SurfaceCreate ==
  /\ Listening /\ made.surfaces < MaxMade
  /\ \E i \in SurfaceIds \ view.surfaces, size \in SurfaceSizes :
       LET d == Observed
           new == [d EXCEPT !.surfaces[i] = [n |-> made.surfaces + 1, size |-> size]] IN
       /\ Handled(CASE d.surfaces[i] # NoSurface -> Refused(d, "duplicate")
                    [] Used(d) + size > SurfaceLimit -> Refused(d, "budget")
                    [] OTHER -> IF i \in Primaries THEN Implicit(new) ELSE new)
       /\ view' = [view EXCEPT !.surfaces = @ \cup {i}]
  /\ made' = [made EXCEPT !.surfaces = @ + 1]
  /\ UNCHANGED host

\* Only primary surfaces are shown, and only they are taken off.
WithoutFrame(d, i) == IF i \in Primaries THEN [d.shown EXCEPT ![i] = NoFrame] ELSE d.shown

RetainedAll(d, i) == d.streams
Retained(d, i) ==
  [s \in StreamIds |-> IF d.streams[s].surface = i THEN NoStream ELSE d.streams[s]]

\* A server may destroy a surface it never created; nothing happens then.
SurfaceDestroy ==
  /\ Listening
  /\ \E i \in SurfaceIds :
       LET d == Observed IN
       /\ Handled([d EXCEPT !.surfaces[i] = NoSurface,
                            !.shown = IF d.surfaces[i] # NoSurface THEN WithoutFrame(d, i) ELSE @,
                            !.streams = Retained(d, i),
                            !.topology.monitors = @ \ {i}])
       /\ view' = [surfaces |-> view.surfaces \ {i},
                   streams |-> {s \in view.streams : d.streams[s].surface # i}]
  /\ UNCHANGED <<host, made>>

MonitorsConfig ==
  /\ Listening
  /\ \E heads \in SUBSET view.surfaces :
       LET d == Observed IN
       Handled(IF heads \subseteq Existing(d)
               THEN [d EXCEPT !.explicit = TRUE,
                              !.topology = [epoch |-> d.epoch, monitors |-> heads]]
               ELSE Refused(d, "monitor"))
  /\ UNCHANGED <<view, host, made>>

\* notify_surface.
Notified(d, i) ==
  IF i \in Primaries
  THEN [d EXCEPT !.shown[i] = [epoch |-> d.epoch, n |-> d.surfaces[i].n, size |-> d.surfaces[i].size]]
  ELSE d

\* Every drawing message resolves its surface, draws, and shows the result.
Draw ==
  /\ Listening
  /\ \E i \in view.surfaces :
       LET d == Observed IN
       Handled(IF i \in Existing(d) THEN Notified(d, i) ELSE Refused(d, "surface"))
  /\ UNCHANGED <<view, host, made>>
-----------------------------------------------------------------------------
(* Video streams. *)

StreamCreate ==
  /\ Listening /\ made.streams < MaxStreamsMade
  /\ \E s \in StreamIds \ view.streams, i \in view.surfaces :
       LET d == Observed IN
       /\ Handled(CASE d.streams[s] # NoStream -> Refused(d, "duplicate")
                    [] Cardinality(Active(d)) = MaxActive -> Refused(d, "streams")
                    [] i \notin Existing(d) -> Refused(d, "surface")
                    [] OTHER -> [d EXCEPT !.streams[s] =
                         [surface |-> i, n |-> d.surfaces[i].n, window |-> 0, count |-> 0]])
       /\ view' = [view EXCEPT !.streams = @ \cup {s}]
  /\ made' = [made EXCEPT !.streams = @ + 1]
  /\ UNCHANGED host

\* A window of 0 stands for a stream whose reports are not activated.
StreamActivateReport ==
  /\ Listening
  /\ \E s \in view.streams, w \in Windows :
       LET d == Observed IN
       Handled(IF d.streams[s] = NoStream THEN Refused(d, "stream")
               ELSE [d EXCEPT !.streams[s].window = w, !.streams[s].count = 0])
  /\ UNCHANGED <<view, host, made>>

\* The report of a frame: the window is full, or its time is over.
Counted(c, window, late) == IF c + 1 < window /\ ~late THEN c + 1 ELSE 0

\* The worker decodes a frame, or returns none yet; both count for the report.
StreamData ==
  /\ Listening
  /\ \E s \in view.streams, decoded, late \in BOOLEAN :
       LET d == Observed
           stream == d.streams[s]
           drawn == IF decoded THEN Notified(d, stream.surface) ELSE d IN
       Handled(CASE stream = NoStream -> Refused(d, "stream")
                 [] decoded /\ stream.surface \notin Existing(d) -> Refused(d, "surface")
                 [] OTHER -> IF stream.window = 0 THEN drawn
                             ELSE [drawn EXCEPT !.streams[s].count = Counted(@, stream.window, late)])
  /\ UNCHANGED <<view, host, made>>

StreamDestroy ==
  /\ Listening
  /\ \E gone \in {{s} : s \in view.streams} \cup {StreamIds} :
       LET d == Observed IN
       /\ Handled(IF gone # StreamIds /\ gone \cap Active(d) = {} THEN Refused(d, "stream")
                  ELSE [d EXCEPT !.streams = [s \in StreamIds |-> IF s \in gone THEN NoStream ELSE @[s]]])
       /\ view' = [view EXCEPT !.streams = @ \ gone]
  /\ UNCHANGED <<host, made>>
-----------------------------------------------------------------------------
(* The host. *)

\* DisplayReceiver::next first forgets what it saw of surfaces no longer shown.
Refreshed == [i \in SurfaceIds |-> IF display.shown[i] = NoFrame THEN NoFrame ELSE host.seen[i]]

TakeShown ==
  \E i \in SurfaceIds :
    /\ display.shown[i] \notin {NoFrame, host.seen[i]}
    /\ host' = [held |-> host.held \cup {display.shown[i]},
                seen |-> [Refreshed EXCEPT ![i] = display.shown[i]]]
    /\ UNCHANGED <<display, view, moved, made>>

WaitForShown ==
  /\ Refreshed # host.seen
  /\ host' = [host EXCEPT !.seen = Refreshed]
  /\ UNCHANGED <<display, view, moved, made>>

ReleaseShown ==
  /\ \E f \in host.held : host' = [host EXCEPT !.held = @ \ {f}]
  /\ UNCHANGED <<display, view, moved, made>>

SurfacesNext ==
  \/ Reset \/ MoveDisplay
  \/ SurfaceCreate \/ SurfaceDestroy \/ MonitorsConfig \/ Draw
  \/ StreamCreate \/ StreamActivateReport \/ StreamData \/ StreamDestroy
  \/ TakeShown \/ WaitForShown \/ ReleaseShown
-----------------------------------------------------------------------------
\* Types; the pixels that anyone keeps and the streams stay within their limits,
\* and a report is sent when its window is full.
SurfacesTypeOK ==
  /\ display.epoch \in Nat /\ display.explicit \in BOOLEAN
  /\ display.topology.monitors \subseteq SurfaceIds
  /\ Used(display) <= SurfaceLimit
  /\ Cardinality(Active(display)) <= MaxActive
  /\ \A s \in StreamIds : display.streams[s].window > 0 =>
       display.streams[s].count < display.streams[s].window

\* A server that uses only what it has created, on this transport, is never
\* refused for an unknown or duplicate surface, stream or monitor, in whatever
\* order resets, destructions and migrations come.
ConformingAccepted == display.stage \in {"run", "budget", "streams"}

\* What the host can read belongs to what the owner has now: the topology names
\* existing surfaces and the current epoch, and without MONITORS_CONFIG every
\* primary surface; a frame in its slot shows the surface that has its identifier.
ShownIsCurrent ==
  /\ display.topology.epoch = display.epoch
  /\ display.topology.monitors \subseteq Existing(display)
  /\ ~display.explicit => display.topology.monitors = Existing(display) \cap Primaries
  /\ \A i \in SurfaceIds : display.shown[i] # NoFrame =>
       display.shown[i].epoch = display.epoch /\ display.shown[i].n = display.surfaces[i].n

\* A stream only ever draws on the surface it was created for, not on a later
\* surface with the same identifier.
StreamKeepsSurface ==
  \A s \in Active(display) : display.streams[s].n = display.surfaces[display.streams[s].surface].n

\* Once the host has let go of its frames and its receiver is up to date, only existing surfaces use the
\* budget: nothing that the owner or the slots keep leaks it.
BudgetNotLeaked ==
  host.held = {} /\ (\A i \in SurfaceIds : host.seen[i] \in {NoFrame, display.shown[i]}) =>
    Used(display) = MapThenSumSet(LAMBDA i : display.surfaces[i].size, Existing(display))

\* docs/protocol-design.md:249: a recreated surface has another epoch, so that
\* the frames a host keeps tell by epoch and identifier which surface they show.
EpochNamesSurface ==
  \A i \in SurfaceIds : host.seen[i] # NoFrame /\ display.shown[i] # NoFrame =>
    (host.seen[i].epoch = display.shown[i].epoch => host.seen[i].n = display.shown[i].n)
=============================================================================
