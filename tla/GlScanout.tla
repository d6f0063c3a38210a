------------------------------ MODULE GlScanout -----------------------------
(***************************************************************************)
(* GL drawing over Unix transports (client display.rs): every Display      *)
(* keeps the scanout that its server announced last, hands each GL_DRAW to *)
(* the host through one queue that all Displays share, and answers         *)
(* GL_DRAW_DONE when the host completes or drops the frame.                *)
(***************************************************************************)
EXTENDS Naturals, Sequences, FiniteSets

CONSTANTS
  GlDisplays,    \* Displays linked over Unix transports
  GlCapacity,    \* capacity of gl_frame_events
  MaxScanouts,   \* bound: scanouts and clears per Display
  MaxDraws       \* bound: draws per Display

ASSUME GlAssumption == {GlCapacity, MaxScanouts, MaxDraws} \subseteq Nat /\ GlCapacity > 0

VARIABLES
  gl,       \* Display -> [stage, scanout, result]
  glServer, \* Display -> [scanouts, scanout, drawn, done]
  glQueue,  \* gl_frame_events
  glHost,   \* [held: frames in its hands, open: it has the receiver, stuck]
  glCancel

glVars == <<gl, glServer, glQueue, glHost, glCancel>>

NoScanout == 0

GlInit ==
  /\ gl = [d \in GlDisplays |-> [stage |-> "run", scanout |-> NoScanout, completed |-> FALSE]]
  /\ glServer = [d \in GlDisplays |-> [scanouts |-> 0, scanout |-> NoScanout, drawn |-> 0, done |-> 0]]
  /\ glQueue = <<>>
  /\ glHost = [held |-> {}, open |-> TRUE, stuck |-> FALSE]
  /\ glCancel = FALSE

Frame(d) == [display |-> d, scanout |-> gl[d].scanout, draw |-> glServer[d].drawn]

\* GL_SCANOUT_UNIX and GL_SCANOUT2_UNIX, or a RESET or migration that drops it.
Scanout(d) ==
  /\ gl[d].stage = "run" /\ glServer[d].scanouts < MaxScanouts
  /\ \E s \in {NoScanout, glServer[d].scanouts + 1} :
       /\ gl' = [gl EXCEPT ![d].scanout = s]
       /\ glServer' = [glServer EXCEPT ![d].scanout = s, ![d].scanouts = @ + 1]
  /\ UNCHANGED <<glQueue, glHost, glCancel>>

\* GL_DRAW, of a server that has announced a scanout and waits for GL_DRAW_DONE.
GlDraw(d) ==
  /\ gl[d].stage = "run"
  /\ glServer[d].scanout # NoScanout
  /\ glServer[d].drawn < MaxDraws
  /\ glServer' = [glServer EXCEPT ![d].drawn = @ + 1]
  /\ gl' = [gl EXCEPT ![d].stage = IF gl[d].scanout = NoScanout THEN "failed" ELSE "sending"]
  /\ UNCHANGED <<glQueue, glHost, glCancel>>

\* The frame is queued for the host, once there is room.
SendGlFrame(d) ==
  /\ gl[d].stage = "sending" /\ glHost.open
  /\ Len(glQueue) < GlCapacity
  /\ glQueue' = Append(glQueue, Frame(d))
  /\ gl' = [gl EXCEPT ![d].stage = "waiting", ![d].completed = FALSE]
  /\ UNCHANGED <<glServer, glHost, glCancel>>

\* Without a receiver the send fails and the Display ends.
SendGlFrameFails(d) ==
  /\ gl[d].stage = "sending" /\ ~glHost.open
  /\ gl' = [gl EXCEPT ![d].stage = "ended"]
  /\ UNCHANGED <<glServer, glQueue, glHost, glCancel>>

AcknowledgeEarly(d) ==
  /\ gl[d].stage = "waiting"
  /\ gl' = [gl EXCEPT ![d].stage = "run"]
  /\ glServer' = [glServer EXCEPT ![d].done = @ + 1]
  /\ UNCHANGED <<glQueue, glHost, glCancel>>

\* The completion arrives: GL_DRAW_DONE.
Acknowledge(d) ==
  /\ gl[d].stage = "waiting" /\ gl[d].completed
  /\ gl' = [gl EXCEPT ![d].stage = "run", ![d].completed = FALSE]
  /\ glServer' = [glServer EXCEPT ![d].done = @ + 1]
  /\ UNCHANGED <<glQueue, glHost, glCancel>>

\* Every wait of the Display, for a message, for room or for the completion,
\* also watches the cancellation.
StopGl(d) ==
  /\ glCancel /\ gl[d].stage \in {"run", "sending", "waiting"}
  /\ gl' = [gl EXCEPT ![d].stage = "ended"]
  /\ UNCHANGED <<glServer, glQueue, glHost, glCancel>>

\* The host takes the oldest frame, ...
TakeGlFrame ==
  /\ glQueue # <<>> /\ glHost.open /\ ~glHost.stuck
  /\ glHost' = [glHost EXCEPT !.held = @ \cup {Head(glQueue)}]
  /\ glQueue' = Tail(glQueue)
  /\ UNCHANGED <<gl, glServer, glCancel>>

Completed(frames) ==
  [d \in GlDisplays |->
    IF gl[d].stage = "waiting" /\ \E f \in frames : f.display = d THEN [gl[d] EXCEPT !.completed = TRUE]
    ELSE gl[d]]

DropIgnored(frames) == gl
\* ... and completes or drops it, which answers the same.
Dropped(frames) == Completed(frames)

CompleteGlFrame ==
  /\ ~glHost.stuck
  /\ \E f \in glHost.held :
       /\ gl' = Dropped({f})
       /\ glHost' = [glHost EXCEPT !.held = @ \ {f}]
  /\ UNCHANGED <<glServer, glQueue, glCancel>>

\* The host drops its receiver, and the queued frames with it.
CloseGlFrames ==
  /\ glHost.open /\ ~glHost.stuck
  /\ glHost' = [glHost EXCEPT !.open = FALSE]
  /\ gl' = Dropped({glQueue[i] : i \in DOMAIN glQueue})
  /\ glQueue' = <<>>
  /\ UNCHANGED <<glServer, glCancel>>

\* The host keeps what it has and reads no more.
GlHostSticks ==
  /\ ~glHost.stuck /\ glHost' = [glHost EXCEPT !.stuck = TRUE]
  /\ UNCHANGED <<gl, glServer, glQueue, glCancel>>

CancelGl ==
  /\ ~glCancel /\ glCancel' = TRUE
  /\ UNCHANGED <<gl, glServer, glQueue, glHost>>

GlNext ==
  \/ \E d \in GlDisplays :
       Scanout(d) \/ GlDraw(d) \/ SendGlFrame(d) \/ SendGlFrameFails(d) \/ Acknowledge(d) \/ StopGl(d)
  \/ TakeGlFrame \/ CompleteGlFrame \/ CloseGlFrames
  \/ GlHostSticks \/ CancelGl

\* Owners run; a host that is not stuck reads its frames and lets go of each.
\* Room in the queue is granted in turn, as the semaphore of the mpsc queue does.
GlFairness ==
  /\ \A d \in GlDisplays : SF_glVars(SendGlFrame(d)) /\ WF_glVars(SendGlFrameFails(d) \/ Acknowledge(d))
  /\ \A d \in GlDisplays : WF_glVars(StopGl(d))
  /\ WF_glVars(TakeGlFrame) /\ WF_glVars(CompleteGlFrame)
-----------------------------------------------------------------------------
\* Types and the capacity of the queue.
GlTypeOK ==
  /\ \A d \in GlDisplays : gl[d].stage \in {"run", "sending", "waiting", "ended", "failed"}
  /\ Len(glQueue) <= GlCapacity
  /\ glHost.open \in BOOLEAN /\ glCancel \in BOOLEAN

\* The server reuses a scanout after GL_DRAW_DONE: no frame of an acknowledged
\* draw is still in the queue or with the host, and every draw is acknowledged
\* at most once.
DoneAfterHost ==
  \A d \in GlDisplays :
    /\ glServer[d].done <= glServer[d].drawn
    /\ \A f \in glHost.held \cup {glQueue[i] : i \in DOMAIN glQueue} :
         f.display = d => f.draw > glServer[d].done

\* Every draw is acknowledged or its Display ends, unless the host sticks: also
\* for a host that drops frames or closes its receiver with frames queued.
DrawsAcknowledged ==
  \A d \in GlDisplays : gl[d].stage \in {"sending", "waiting"} ~>
                          (gl[d].stage \in {"run", "ended"} \/ glHost.stuck)

\* A cancelled Display ends even if the host never lets go of its frame or the
\* queue stays full.
CancelEndsGl == \A d \in GlDisplays : glCancel /\ gl[d].stage # "failed" ~> gl[d].stage = "ended"
=============================================================================
