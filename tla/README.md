# A TLA+ verification of OxideSpice

OxideSpice is a SPICE client in Rust: a library that connects to a SPICE server over
one Main and many child channels, and a helper process that offers it to a desktop
application over stdin and stdout. This directory holds TLA+ models of it, TLC runs
over small instances, and TLAPS proofs for every value of the constants.
`PROJECT.json` maps each definition to the source lines it translates and lists the
hazards of the code, each with the properties that would notice it.

Paths are relative to `src/crates/`; `client` is `oxide-spice-client/src`, `helper` is
`oxide-spice-helper/src`, `codecs` is `oxide-spice-codecs/src`; `docs` is `src/docs`.

## The system and its parts

A session (`client/session.rs`) links Main, learns the channel list, links the
children, and starts one *owner* task per channel under a supervisor. An owner reads
wire envelopes one at a time, applies the common control messages (`ControlState`),
runs barriers on other channels (`ProgressRegistry`), dispatches the messages, counts
the envelope for flow control and publishes its serial. Owners talk to the host
application through bounded queues, latest-only slots and handles. When the guest
migrates, Main links every channel to the target and hands each owner a replacement
transport, which it activates at its own pace; an owner whose migration was not
seamless forgets its state at the first message of the new transport. The helper
consumes the owners' queues in tasks and threads of its own and coalesces frames for
the host. These parts and their modules:

| Module | Models | State and actions |
|---|---|---|
| `Progress` | `ProgressRegistry`, effective serials (`client/channel.rs`) | one owner per channel, idle or busy; `ReadMessage`, the three ways out of `wait_for`, `Complete`, and the four places where a transport is replaced |
| `AckWindow` | `ControlState` (`client/channel.rs`, `session.rs`) | window, count and activation seen; one envelope is one step, as its owner shares this state with nobody |
| `Framing` | `read_message` byte by byte, SASL tokens, descriptors (`client/channel.rs`, `unix_stream.rs`) | a byte is its position in the stream; a read returns any number of the bytes asked for |
| `SubLists` | the logical messages of an envelope (`oxide-spice-protocol/src/channel.rs`, `client/channel.rs`) | any body of small numbers; a list is checked as a whole, then walked |
| `Link` | link message, capabilities, ticket and SASL (`client/channel.rs`, `sasl.rs`, `sasl/gssapi.rs`, `auth.rs`) | client and server stages; a password mechanism is the shape of its exchange, GSSAPI its three phases with the tokens and layers of a server |
| `Session` | `Session::connect`, supervision, shutdown (`client/session.rs`) | bootstrap, channel limits, the first result, grace period, abort, final state, waiting callers |
| `Migration` | `MigrationManager`, replacement queues, owners' reads | the read that holds the replacement receiver, and Main's handlers |
| `GlzWindow` | the shared dictionary and the decode slot (`client/display.rs`) | read, acquire, resolve, wait without the slot, insert, clear |
| `AgentCredits` | receive credits, leases, event queue (`client/agent.rs`) | `ReturnNow` and `NotifyOne` apart, as the code notifies after it unlocks |
| `AgentSync` | announcement, clipboard limit, layout, offers, reads (`client/agent.rs`) | `prepare_internal`, then one arm of the `select!` |
| `AgentStream` | fragments of Agent messages (`oxide-spice-protocol/src/agent.rs`, `client/agent.rs`) | a byte is its stream, message and position; bodies cut anywhere, streams ending in mid-message |
| `Transfers` | outgoing files from the helper's request to the guest (`helper/runtime.rs`, `client/agent.rs`) | the task, the handle with its `Drop`, the Agent's table, the guest |
| `Surfaces` | surfaces, streams, monitors, byte budget, frame and topology slots (`client/display.rs`) | one action per message, the host's handles, the clear after a migration |
| `GlScanout` | GL scanouts on the queue all Displays share | draw, queue, completion or drop, acknowledgement |
| `Palettes` | `PaletteCache` | insert, reference, invalidate, clear |
| `Canvas` | drawing commands on the pixel array (`client/display/canvas.rs`, `display.rs`) | every command next to the picture on points that it means; the host that is notified and copies; extends `Strokes` |
| `Strokes` | `rasterize_polyline`, clipping, dashes, work limit (`client/display/canvas.rs`) | a path drawn line by line, in arithmetic that rounds to a given number of bits |
| `Blending` | coverage, alpha and interpolation in u8, u16, u64 (`canvas.rs`) | one pixel blended, one image stretched, over and over |
| `Compression` | the LZ and GLZ decoders (`codecs/lz.rs`, `glz.rs`) | a server encodes token by token, the decoder decodes token by token |
| `Inputs` | edges, pointer slot, relative motion, motion window (`client/inputs.rs`) | the owner's `select!` arms, the application's sends, the mode |
| `Cursor` | cursor owner and the helper's cursor events (`client/cursor.rs`, `helper/runtime.rs`) | cache, budget, epochs, the watch, the shape the host was sent last |
| `Playback`, `Record` | sound in both directions (`client/playback.rs`, `record.rs`) | modes, streams, the packet queue, commands with completions, cutting into Opus frames |
| `Port` | ports and WebDAV with their consumers (`client/port.rs`, `helper/runtime.rs`, `webdav.rs`) | messages, commands, the bridge that polls the state |
| `UsbBridge` | usbredir owner, helper task, blocking worker | both queues, stop and restart per generation |
| `Smartcard` | smartcard owner and the task that serves a reader | add, acknowledgement, ATR, one request at a time |
| `EventWriter` | the helper's event queue and writer thread (`helper/event_writer.rs`) | each send is one critical section |
| `FramePath` | a draw on its way to the host (`client/display/updates.rs`, `helper/runtime.rs`) | publish, take, snapshot, coalesce, write; extends `EventWriter` |
| `Screen` | the promise of the frame path (abstract) | the host shows a picture the surface had, never an older one, and catches up |
| `HelperLife` | the helper from handshake to exit (`helper/stdio.rs`, `runtime.rs`) | reader, request queue, `run_helper` with its tasks, session result; extends `EventWriter` |
| `HelperIpc` | the pipes between host and helper, and the Hello (`oxide-spice-helper-protocol/src/wire.rs`, `handshake.rs`, `helper/stdio.rs`) | a byte is its message and position; writer, pipe, buffer, and a reader in a line or a payload |

Servers, guests, hosts and libraries are external: their actions are what the protocol
and the code's use of them allow, and `PROJECT.json` marks them.

`MC*` modules compose the parts of a subsystem for TLC. The parts of one of them share
no variables (each is the whole of an interaction, its neighbours included), so
running two at once would only multiply their states; `focus` picks the part that moves
in a behaviour. `FramePath` and `HelperLife` are themselves compositions with
`EventWriter`, `Transfers` composes helper, Agent and guest, and `Port`, `UsbBridge`,
`Smartcard` and `Cursor` compose an owner with its helper task.

Operators whose name is that of the definition after them with a fault added
(`RebasedNot`, `TakeNewest`) are deliberately wrong variants of it; no specification
uses them. They show that a property would notice that mistake.

## Runs

| Run | Module | Shows |
|---|---|---|
| `waits` | `MCWaits` | published serials are monotonic, barriers of the first server are honoured and every envelope ends; eviction keeps every reference still needed, the dictionary and its slots are accounted for, and with one slot every decode finishes |
| `migration` | `MCMigration` | under abandoned reads, refused links, full queues, a vanishing server and back-to-back migrations the source is acknowledged only when every channel has its target; when the new host waits for all channels before it migrates on, no channel is left on the target of a cancelled or refused migration (`NeverOnAbandonedTarget`); without these faults every channel arrives |
| `connection` | `MCConnection` | a session accounts for its channels and its end; the ends of a link agree, and on plain TCP it has the best layer the server offers (`LinkSound`); every message is handled whole, and the messages listed in an envelope once and in order (`MessagesIntact`); one ACK per window, and on Main at most one early; links, sessions and waiting callers end |
| `agent` | `MCAgent` | Agent streams do not leak into one another, not even a fragment of a message (`StreamsSound`), and replay the layout; transfers have one outcome, exact bytes and an end; receive credits are conserved and come back |
| `helper` | `MCHelper` | the frame path implements `Screen`; frames stay in order with control events; what the host is told is true and in order; both pipes deliver whole messages with their own payloads, behind a Hello both sides take (`PipeFaithful`); the helper ends after its input |
| `media` | `MCMedia` | a click follows the move before it; the motion window is exact (`InputsAccepted`); cached cursor shapes agree; sound keeps to its stream with gaps flagged; what is pending is served |
| `devices` | `MCDevices` | bytes around a gap or of two servers are never joined; a card's answers are in order; everything a device task waits for ends, but for one deadlock (below) |
| `display` | `MCDisplay` | a conforming server is refused nothing but a surface or a stream beyond the limits, and its streams keep their surfaces; nothing stale is left for the host, nor a GL draw acknowledged before it is done (`NothingStale`); GL draws are acknowledged |
| `raster` | `MCRaster` | commands draw the picture they mean and it reaches the host; strokes stay on their path, miss no two successive pixels, are exact where no ratio is rounded, and are refused only for what is shown of them; blending and scaling stay between their operands; decoders return what was encoded |
| `migration_selecting` | `Migration` | violated: an abandoned read loses the migration path |
| `migration_vanish` | `Migration` | violated: a vanished server does not end the session |
| `connection_interrupted` | `MCConnection` | violated: a read abandoned mid-header leaves the next one misaligned |

Each violated run is a finding in `PROJECT.json`, with the line it disagrees with.
Many properties of the passing runs are conjunctions, each of one idea; the conjuncts
are defined and commented above them.

### What the code does not promise

Some properties carry a condition because the code does not promise more. What lies
outside can be seen by checking the property named here instead:

- `BarrierAcrossMigration` (`Progress`): after a replacement a barrier of the new server
  passes on serials of the old one (`client/channel.rs:107`;
  `docs/protocol-design.md:64-66`).
- `AckExact` (`AckWindow`): a window installed before the seamless decision is never
  acknowledged (`client/session.rs:444`), and MIGRATE_END counts its envelope after the
  new transport is installed, which may cause one early ACK.
- `OwnServerPixels` (`GlzWindow`): with two Displays, pixels of two servers can be in one
  dictionary (`client/display.rs:594`). With two Displays images ahead of a gap are also
  retained without eviction, so the budget can be exceeded by a server within its
  window; `WithinAdvertisedWindow` is checked where each server uses one Display.
- `OfferReplayed` (`AgentSync`): a clipboard offer may never be replayed in a new Agent
  stream (`client/agent.rs:1256`).
- `MotionWindowExact` (`Inputs`) excludes motion written between an activation and the
  first read, which is wiped from the motion window (`docs/protocol-design.md:217`). With
  every button press one motion message beyond the window may be under way, as a press
  sends the movement before it without asking the window (`client/inputs.rs:453`).
- `DataAlwaysAfterMark` (`Record`): the same gap lets data reach a new server before its
  start mark (`docs/protocol-design.md:202`).
- `NoAnswerForAnotherServer` (`Smartcard`): the task ignores the transport generation.
- `EpochNamesSurface` (`Surfaces`): a surface recreated within one graphics epoch has
  the same epoch.
- `TerminalStateReported` (`Transfers`): a transfer may end with no terminal state
  reported to the host (`docs/helper-ipc.md:79`).
- `EndpointExclusive` (`Strokes`): a path that comes from outside and ends on the left or
  upper edge of the area draws its end point.
- `EveryPixelCovered` (`Strokes`): a line may miss a pixel because the product of a ratio
  rounds below a whole number. With six bits it is pixel 1 of a line of 13; in f64 a line
  of 49 is the first of its kind, as `49.0 * (1.0 / 49.0) < 1.0`. A line that leaves
  through the left or upper edge also spares the pixel there. `NeverTwoMissed` and
  `ExactWhenRepresentable` say how far this goes.
- `OnServerOfGuest` (`Migration`) fails in the faulty environment of `MCMigration`: when a
  new host migrates on at once, an owner at end of file takes the next target before that
  is acknowledged, and is left there if the migration is cancelled.
- `OutputForItsServer` (`UsbBridge`): output that a worker queued for one server may be
  written to the next one after the owner has moved; `NoServersJoined` says that the parser
  and the worker of one server never see bytes of another.
- `EveryChannelMoves` (`Migration`): with `BackToBack = TRUE` a superseded replacement is
  dropped, and when the second migration is cancelled the channel stays behind.
- `BackpressureSuffices` names the two ways in which the Agent's event queue overflows:
  events of an earlier stream, and a fragment that completes several requests with one
  credit. `AbandonedIsRemoved` excludes a handle whose cancellation found the command
  queue full (`client/agent.rs:423`). `StopReturnsOrDeadlocks` allows
  `StopDeadlocked`: the task waits for a USB worker that is blocked on the output queue
  which only the task drains, and both stay so until the task is aborted
  (`helper/usbredir.rs:81`). `EnvelopesEnd` stops at the
  first replacement, since a message waited for may be lost with the transport.
- `WholeIsRead` (`HelperIpc`) excludes events whose payload contradicts their line:
  `read_event` refuses them (`wire.rs:1128-1242`), `write_event` does not check.
- Behaviour that the models have and no property forbids: a Break that finds a port's
  queue full ends the session (`client/port.rs:327`); a SASL mechanism that finishes with
  output in answer to the server, such as LOGIN, is refused (`client/sasl.rs:297`), and a
  GSSAPI server that offers none beside a layer, with the size of the layer, is refused when
  none is selected (`client/sasl/gssapi.rs:212`), the two exceptions of `NoFalseBreak`;
  an owner that is cancelled in a barrier returns `Err(Cancelled)`, and if it is the first
  error the supervisor joins, a later failure is not reported (`FailuresReported` excludes
  it); a helper whose cursor, topology or playback receiver closes first tells the host
  TaskTerminated and not what ended the session (`helper/runtime.rs:282`); a sparse layout
  that is stored when a guest without sparse layouts becomes ready is passed over for good
  (`client/agent.rs:1266`); a smartcard task whose owner moves while it waits for the
  acknowledgement of its reader waits for one of the new server; START resets
  Playback's discontinuity flag; nothing bounds the wait for a seamless decision.

### Bounds

A bound is a constant whose name begins with `Max`, or a capacity; each `.cfg` names all.

- *waits*: serials 1 and 2 and one wait per list give a wait on a message in flight, on
  the own envelope and on a completed one, and a skipped serial; each channel is replaced
  once. Three images on two Displays contain one that arrives ahead of a gap whose filler
  still refers to an older one; four on one Display go through a migration. One slot is
  what the code configures.
- *migration*: capacity 1 stands for 4 and makes a full queue reachable; the generations
  admit a refused or cancelled migration before a completed one.
- *connection*: the channel lists have a second Inputs, a second Cursor without its
  Display, no Display at all, and one channel more than a limit allows. The mechanisms are the shapes of PLAIN, SCRAM
  and LOGIN; GSSAPI contexts take one or two tokens, with and without a last one, and offer
  every set of layers. Three messages of a two-byte header, with tokens of up to three
  bytes, put every boundary inside a token and every token across a boundary. Bodies of up
  to five numbers 0 to 4 hold every list of two entries, sound or overlapping. Windows 0
  to 2, four envelopes and two replacements complete each window more than once.
- *agent*: two streams, one message of each kind and a queue of one; a transfer of zero
  or two bytes is empty, or sent in two chunks; a window of 2 stands for 10, and three
  fragments exceed it. With headers of two bytes and fragments of three, a message takes
  up to two fragments and a fragment may hold parts of two; one size exceeds the limit.
- *helper*: two displays and a queue of two make coalescing, a full queue and starvation
  reachable; three requests, one of which starts a task, meet every stage of shutdown. Each
  kind of message is sent at its limit and beyond, with payloads of newlines, through a
  buffer smaller than a message.
- *media*, *devices*: every queue holds one or two entries and its producers send more;
  each owner moves to a new server once. Cache and budget of the cursor hold one and two.
- *display*: two surface identifiers, one of them primary, and three creations reuse an
  identifier while the old surface lives in a handle; two surfaces fill the budget and one
  stream the limit on streams, so both are exceeded; two Displays on a queue of one.
- *raster*: a 3 by 3 surface has an inside, edges and corners, and every command is
  followed by another. Strokes have two lines between points inside, on every edge and far
  outside, with six significant bits, few enough that a line of 13 pixels shows what
  rounding does, and a work limit that one line across the area respects, two exceed, and
  a longer one would exceed if it were not clipped. Blending has the real 8-bit values 0, 1, 254, 255 and real
  rounding. In `Compression` a byte has 16 values and a control field 4, so that every
  escape value and its neighbours occur on images of a few dozen pixels. The decoder has its
  own constants, not those of the encoder.

Deadlock is not checked: a session that has ended, and a server that has used up the
bound on its messages, are ordinary final states of every run.

### Fairness

The Tokio runtime polls every task that is ready, and the operating system runs every
thread, so the steps a task or thread takes by itself are weakly fair: owners,
supervisor, helper tasks, writer, workers. An arm of a `select!` that competes with others
that are ready is strongly fair, as `select!` starts at a random arm (`AgentSync`,
`Port`), and so is a send on a bounded queue that several tasks share, whose permits are
handed out first in, first out (`GlScanout`). In `Migration` a read that can take a
replacement, or see end of file, whenever it is polled is strongly fair. Timeouts expire.
What has been sent is delivered. Nothing is assumed of the server's willingness to send,
of the host's to shut down or of a migration to begin, with these exceptions, without
which waiting is the right behaviour: in `AgentCredits` the host works off its events, in
`AgentSync` the guest returns tokens, in `GlScanout` a host that is not stuck completes
its frames, in `Smartcard` a server acknowledges the reader it was told of, in `Migration`
a server that has begun to hand over finishes, in `Inputs` an
application that has begun to store a motion finishes. In `HelperLife` a request handler
that waits for the Agent's queue is fair only once the session has ended, as a guest that
returns no tokens may keep that queue full; `EndsAfterInput` therefore assumes
`HandlersReturn`.

## Proofs

The theorems hold for every value of the constants that satisfies the named
assumptions of each module (bounds are naturals, Main is a channel).

- `ProgressProofs!SafeCompletion`: types and `CompletionMonotonic`. The invariant
  `SerialOrder` adds that an idle channel has published no more than it has received,
  and that the serial in hand lies strictly above the published one and not above the
  received one. Without the second bound a replacement could be based too low.
- `ProgressProofs!BarrierBeforeMigration`: `BarrierHonoured`. As long as a channel's
  transport is not replaced, its base is 0, so its registry entry is the local serial
  of the last message it completed (`Settled`).
- `AckWindowProofs!AcksAreExact`: `AckPerWindow`. The invariant says that the count of
  envelopes is ACKs times window plus the part consumed, for the state as the next
  message will synchronize it, and that transports not yet in use are untouched.
- `GlzWindowProofs!EvictionIsSafe`: `ReferencesRetained` and `NoSpuriousFailure` with
  one server, for any number of Displays, slots and images. The invariant ties
  `oldest` to the window head of the newest contiguous image; as heads never move
  back, an image still to be decoded refers to nothing below it.
- `AgentCreditsProofs!CreditsConserved`: types, `WindowConserved`, and that returned
  credits never exceed the window. The invariant adds that no lease belongs to a
  generation yet to come and that fragments under way are distinct and unleased.

Only model-checked: everything else. Liveness under fairness (`EnvelopesEnd`,
`DecodesFinish`, `CalmMoves`, `ConnectionEnds`, `LayoutReplayed`, `TransfersEnd`,
`CreditsFlow`, `EndsAfterInput`, `PendingIsServed`, `DeviceWaitsEnd`, `DrawsEnd`, and the
fairness of `Screen`) is outside what TLAPS proves, and so is what the loops of
`Compression`, `Canvas` and `Strokes` compute, which would need induction over data. The safety
parts of `Migration`, `Session`, `Framing`, `AgentSync`, `AgentStream`, `Transfers`, `HelperIpc` and the refinement of
`Screen` could be proved in the same way and are not yet.

## Not modelled

- Libraries and what only wraps them: TLS, RSA, rsasl, the Kerberos library, PC/SC, the usbredir parser,
  HTTP, JPEG, Opus, LZ4, zlib and video decoders. They are external actions or left out.
- QUIC images (`codecs/quic.rs`), an adaptive entropy coder whose state has no small
  instance; palette expansion and bitmap formats before a pixel array; Bezier curves
  (`flatten_cubic`), paths of several segments, and lines that are slanted or between pixels.
- Byte encodings: the fields of message bodies (`oxide-spice-protocol`) and of the
  helper's JSON. They are bounds-checked readers with round-trip tests and fuzz targets,
  and hold no state between messages.
- Volume, mute, latency and Agent audio, which are values passed on.
- The product of `Migration` and `Progress`: a child that waits in a barrier for Main
  while Main waits for room in its replacement queue. Its states exceed a run.
- Errors, public re-exports, build information and scripts, which carry no state.
