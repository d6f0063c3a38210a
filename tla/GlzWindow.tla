----------------------------- MODULE GlzWindow ------------------------------
(***************************************************************************)
(* The session-wide GLZ dictionary and the Display owners that decode with *)
(* it (crates/oxide-spice-client/src/display.rs): `GlzWindow`, the GLZ     *)
(* loop of `prepare_composite_image` and the shared image decode slot.     *)
(*                                                                         *)
(* A server numbers the images of all its Display transports from 0 in one *)
(* sequence, image i may refer to images head(i)..i-1, and each transport  *)
(* delivers its own images in order.  Different transports interleave      *)
(* freely.  A non-seamless migration gives each Display, at its own pace,  *)
(* a transport to a new server that numbers its images from 0 again.       *)
(***************************************************************************)
EXTENDS Integers, FiniteSets

CONSTANTS
  Displays,      \* linked Display channels
  Slots,         \* DEFAULT_MAX_CONCURRENT_IMAGE_DECODES
  Budget,        \* DEFAULT_GLZ_DICTIONARY_BYTES, in images of one unit
  ServerWindow,  \* images the server keeps referable
  MaxImages,     \* bound: images one server instance encodes
  MaxInstances   \* bound: server instances after the first

ASSUME GlzAssumption ==
  /\ Slots \in Nat \ {0} /\ Budget \in Nat /\ ServerWindow \in Nat
  /\ MaxImages \in Nat /\ MaxInstances \in Nat

Ids == 0..(MaxImages - 1)
Instances == 0..MaxInstances

VARIABLES
  \* the servers, one entry per instance
  count,      \* images encoded so far
  head,       \* head[e][i]: `oldest_retained_image_id` of image i
  refs,       \* refs[e][i]: images that the pixels of i copy from
  to,         \* to[e][i]: the Display whose transport carries i
  unread,     \* unread[e]: images sent and not yet read
  \* `GlzWindowState`
  images,     \* keys of `images`
  source,     \* instance that the retained pixels of an id came from
  early,      \* keys of `oldest_by_image`
  oldestBy,   \* and its values
  bytes,      \* `retained_bytes`
  oldest,     \* `oldest_image_id`
  next,       \* `next_contiguous_image_id`
  cleared,    \* `last_cleared_migration`
  \* the Display owners
  inst,       \* instance the transport is linked to = activation count
  observed,   \* `observed_migration_activation`
  stage, cur, \* position, and the image in hand
  unresolved, \* references of the image in hand still to be resolved
  free,       \* permits of the decode semaphore
  cancelled   \* the session's cancellation watch

encoderVars == <<count, head, refs, to>>
windowVars == <<images, source, early, oldestBy, bytes, oldest, next, cleared>>
glzVars == <<encoderVars, unread, windowVars, inst, observed, stage, cur, unresolved,
          free, cancelled>>

GlzInit ==
  /\ count = [e \in Instances |-> 0]
  /\ head = [e \in Instances |-> [i \in Ids |-> 0]]
  /\ refs = [e \in Instances |-> [i \in Ids |-> {}]]
  /\ to \in [Instances -> [Ids -> Displays]]
  /\ unread = [e \in Instances |-> {}]
  /\ images = {} /\ early = {} /\ bytes = 0
  /\ source = [i \in Ids |-> 0] /\ oldestBy = [i \in Ids |-> 0]
  /\ oldest = 0 /\ next = 0 /\ cleared = 0
  /\ inst = [d \in Displays |-> 0] /\ observed = inst
  /\ stage = [d \in Displays |-> "idle"]
  /\ cur = [d \in Displays |-> 0]
  /\ unresolved = [d \in Displays |-> {}]
  /\ free = Slots
  /\ cancelled = FALSE

-----------------------------------------------------------------------------
(* The encoder: the window head never moves back, the image itself is in   *)
(* the window, and the window never exceeds the size that was advertised.  *)
Encode(e) ==
  LET i == count[e]
      low == IF i = 0 THEN 0 ELSE head[e][i - 1]
  IN
  /\ i < MaxImages
  /\ \E h \in low..i : \E r \in SUBSET (h..(i - 1)) :
       /\ i - h + 1 <= ServerWindow
       /\ head' = [head EXCEPT ![e][i] = h]
       /\ refs' = [refs EXCEPT ![e][i] = r]
  /\ count' = [count EXCEPT ![e] = i + 1]
  /\ unread' = [unread EXCEPT ![e] = @ \cup {i}]
  /\ UNCHANGED <<to, windowVars, inst, observed, stage, cur, unresolved, free, cancelled>>

-----------------------------------------------------------------------------
(* `activate_replacement` of a non-seamless target.                        *)
Activate(d) ==
  /\ stage[d] = "idle" /\ inst[d] < MaxInstances
  /\ inst' = [inst EXCEPT ![d] = @ + 1]
  /\ UNCHANGED <<encoderVars, unread, windowVars, observed, stage, cur, unresolved,
                 free, cancelled>>

(* `clear_for_migration(a)`: the first owner to observe activation a       *)
(* clears.  The mutant leaves a counter behind.                            *)
ClearKeepingBytes(a) ==
  IF cleared >= a THEN UNCHANGED windowVars
  ELSE /\ images' = {} /\ early' = {}
       /\ oldest' = 0 /\ next' = 0 /\ cleared' = a
       /\ UNCHANGED <<source, oldestBy, bytes>>

ClearForMigration(a) ==
  IF cleared >= a THEN UNCHANGED windowVars
  ELSE /\ images' = {} /\ early' = {} /\ bytes' = 0
       /\ oldest' = 0 /\ next' = 0 /\ cleared' = a
       /\ UNCHANGED <<source, oldestBy>>

(* The owner reads its next image; an activation since the last message is *)
(* observed first.                                                         *)
ReadImage(d) ==
  LET e == inst[d]
      mine == {i \in unread[e] : to[e][i] = d}
  IN
  /\ stage[d] = "idle"
  /\ \E i \in mine :
       /\ \A j \in mine : i <= j
       /\ unread' = [unread EXCEPT ![e] = @ \ {i}]
       /\ cur' = [cur EXCEPT ![d] = i]
  /\ IF observed[d] # e THEN ClearForMigration(e) ELSE UNCHANGED windowVars
  /\ observed' = [observed EXCEPT ![d] = e]
  /\ stage' = [stage EXCEPT ![d] = "acquire"]
  /\ UNCHANGED <<encoderVars, inst, unresolved, free, cancelled>>

(* `acquire_image_decode_slot`; decoding (re)starts from the first byte.   *)
(* The mutant leaves the last permit alone.                                *)
AcquireSpareSlot(d) ==
  /\ stage[d] = "acquire" /\ free > 1
  /\ free' = free - 1
  /\ unresolved' = [unresolved EXCEPT ![d] = refs[inst[d]][cur[d]]]
  /\ stage' = [stage EXCEPT ![d] = "decode"]
  /\ UNCHANGED <<encoderVars, unread, windowVars, inst, observed, cur, cancelled>>

AcquireSlot(d) ==
  /\ stage[d] = "acquire" /\ free > 0
  /\ free' = free - 1
  /\ unresolved' = [unresolved EXCEPT ![d] = refs[inst[d]][cur[d]]]
  /\ stage' = [stage EXCEPT ![d] = "decode"]
  /\ UNCHANGED <<encoderVars, unread, windowVars, inst, observed, cur, cancelled>>

(* `resolve` of one reference.  A missing one ends the attempt: the slot   *)
(* goes back before the owner waits.                                       *)
ResolveHoldingSlot(d) ==
  /\ stage[d] = "decode"
  /\ \E r \in unresolved[d] :
       IF r \in images
       THEN /\ unresolved' = [unresolved EXCEPT ![d] = @ \ {r}]
            /\ UNCHANGED <<stage, free>>
       ELSE /\ unresolved' = [unresolved EXCEPT ![d] = {r}]
            /\ stage' = [stage EXCEPT ![d] = "missing"]
            /\ UNCHANGED free
  /\ UNCHANGED <<encoderVars, unread, windowVars, inst, observed, cur, cancelled>>

Resolve(d) ==
  /\ stage[d] = "decode"
  /\ \E r \in unresolved[d] :
       IF r \in images
       THEN /\ unresolved' = [unresolved EXCEPT ![d] = @ \ {r}]
            /\ UNCHANGED <<stage, free>>
       ELSE /\ unresolved' = [unresolved EXCEPT ![d] = {r}]
            /\ stage' = [stage EXCEPT ![d] = "missing"]
            /\ free' = free + 1
  /\ UNCHANGED <<encoderVars, unread, windowVars, inst, observed, cur, cancelled>>

(* `wait_for`: the reference has arrived, or can no longer arrive.         *)
WaitFor(d) ==
  /\ stage[d] = "missing"
  /\ \E r \in unresolved[d] :
       /\ r \in images \/ r < oldest
       /\ stage' = [stage EXCEPT ![d] =
                   IF r \in images THEN "acquire" ELSE "evicted"]
  /\ UNCHANGED <<encoderVars, unread, windowVars, inst, observed, cur,
                 unresolved, free, cancelled>>

-----------------------------------------------------------------------------
Greatest(S) == CHOOSE m \in S : \A x \in S : x <= m

(* How far `insert` advances: over the ids present in `oldest_by_image`,   *)
(* or (mutant) up to the newest of them.                                   *)
AdvancesAcrossGaps(all, k) == k = Greatest(all) + 1

Advances(all, k) == k \notin all /\ \A j \in next..(k - 1) : j \in all

(* What survives eviction below `low`.                                     *)
Kept(all, low) == {j \in all : j >= low}

(* `insert`, called with the slot still held, which is then dropped with   *)
(* the successful and with the failed return alike.                        *)
Insert(d) ==
  LET i == cur[d]
      e == inst[d]
      all == early \cup {i}
      by == [oldestBy EXCEPT ![i] = head[e][i]]
  IN
  /\ stage[d] = "decode" /\ unresolved[d] = {}
  /\ free' = free + 1
  /\ IF i \in images
     THEN /\ stage' = [stage EXCEPT ![d] = "duplicate"]
          /\ UNCHANGED windowVars
     ELSE \E k \in next..MaxImages :
          LET low == Greatest({oldest} \cup {by[j] : j \in next..(k - 1)})
              kept == Kept(images \cup {i}, low)
          IN
          /\ Advances(all, k)
          /\ next' = k /\ oldest' = low
          /\ early' = all \ (next..(k - 1)) /\ oldestBy' = by
          /\ images' = kept
          /\ source' = [source EXCEPT ![i] = e]
          /\ bytes' = bytes + 1 - Cardinality((images \cup {i}) \ kept)
          /\ stage' = [stage EXCEPT ![d] =
                      IF bytes' > Budget THEN "overBudget" ELSE "idle"]
          /\ UNCHANGED cleared
  /\ UNCHANGED <<encoderVars, unread, inst, observed, cur, unresolved, cancelled>>

-----------------------------------------------------------------------------
Failures == {"evicted", "duplicate", "overBudget"}

CancelDecoding ==
  /\ ~cancelled /\ cancelled' = TRUE
  /\ UNCHANGED <<encoderVars, unread, windowVars, inst, observed, stage, cur,
                 unresolved, free>>

(* Every wait of an owner, and the decoder itself, watches `cancel`.       *)
StopDecoding(d) ==
  /\ cancelled /\ stage[d] \in {"idle", "acquire", "decode", "missing"}
  /\ stage' = [stage EXCEPT ![d] = "stopped"]
  /\ free' = IF stage[d] = "decode" THEN free + 1 ELSE free
  /\ UNCHANGED <<encoderVars, unread, windowVars, inst, observed, cur, unresolved,
                 cancelled>>

DecodeOwner(d) ==
  \/ ReadImage(d) \/ AcquireSlot(d) \/ Resolve(d) \/ WaitFor(d)
  \/ Insert(d) \/ StopDecoding(d)

GlzNext ==
  \/ \E e \in Instances : Encode(e)
  \/ \E d \in Displays : DecodeOwner(d) \/ Activate(d)
  \/ CancelDecoding

GlzSpec == GlzInit /\ [][GlzNext]_glzVars

(* The runtime polls every ready owner, and a sent image is delivered.  A  *)
(* permit is not promised to any particular owner.                         *)
GlzFairness ==
  /\ \A d \in Displays :
       /\ WF_glzVars(ReadImage(d) \/ Resolve(d) \/ WaitFor(d) \/ Insert(d))
       /\ WF_glzVars(AcquireSlot(d))
       /\ WF_glzVars(StopDecoding(d))

GlzFairSpec == GlzSpec /\ GlzFairness

-----------------------------------------------------------------------------
(* Type invariant of the dictionary, the owners and the decode semaphore.  *)
GlzTypeOK ==
  /\ count \in [Instances -> 0..MaxImages]
  /\ head \in [Instances -> [Ids -> Nat]]
  /\ refs \in [Instances -> [Ids -> SUBSET Ids]]
  /\ to \in [Instances -> [Ids -> Displays]]
  /\ unread \in [Instances -> SUBSET Ids]
  /\ images \subseteq Ids /\ early \subseteq Ids
  /\ source \in [Ids -> Instances] /\ oldestBy \in [Ids -> Nat]
  /\ bytes \in Nat /\ oldest \in Nat /\ next \in 0..MaxImages
  /\ cleared \in Instances
  /\ inst \in [Displays -> Instances] /\ observed \in [Displays -> Instances]
  /\ stage \in [Displays -> {"idle", "acquire", "decode", "missing", "stopped"}
                          \cup Failures]
  /\ cur \in [Displays -> Ids \cup {0}]
  /\ unresolved \in [Displays -> SUBSET Ids]
  /\ free \in 0..Slots
  /\ cancelled \in BOOLEAN

(* An image that `insert` has taken in since the window was last cleared.  *)
Inserted(i) == i < next \/ i \in early

(* Eviction never outruns decoding: whatever the transports interleave, a  *)
(* reference of an image that is still to be decoded is retained once it   *)
(* has been inserted, because `oldest_image_id` advances only over         *)
(* contiguous ids.  The images are those of the server that the window was *)
(* last cleared for.                                                       *)
ReferencesRetained ==
  \A i \in 0..(count[cleared] - 1) : ~Inserted(i) =>
    \A r \in refs[cleared][i] : Inserted(r) => r \in images

(* A conforming server never makes a Display fail: no reference is found   *)
(* evicted by `wait_for` and no id is inserted twice.                      *)
NoSpuriousFailure ==
  \A d \in Displays : stage[d] \notin {"evicted", "duplicate"}

(* `retained_bytes` is the size of what is retained, after any sequence of *)
(* insertions, evictions and clears.                                       *)
BytesAccounted == bytes = Cardinality(images)

(* Every permit of the decode semaphore is either free or in the hands of  *)
(* an owner that is decoding; an owner that waits for another Display      *)
(* holds none.                                                             *)
SlotsAccounted ==
  free + Cardinality({d \in Displays : stage[d] = "decode"}) = Slots

(* A server that keeps its window within the advertised size never trips   *)
(* the client's dictionary bound.                                          *)
WithinAdvertisedWindow == \A d \in Displays : stage[d] # "overBudget"

(* Pixels that a decoder copies from come from the server that its own     *)
(* transport is linked to.                                                 *)
OwnServerPixels ==
  \A d \in Displays : stage[d] = "decode" =>
    \A r \in refs[inst[d]][cur[d]] \cap images : source[r] = inst[d]

(* With a single slot for all Displays, every image that has been read is  *)
(* decoded unless the session is cancelled: owners waiting for one another *)
(* never block the decoder they wait for.                                  *)
DecodesFinish ==
  \A d \in Displays :
    (stage[d] \in {"acquire", "decode", "missing"}) ~>
      (stage[d] \in {"idle", "stopped"})

(* The dictionary and the decode semaphore account for everything in them: *)
(* permits, bytes and retained images are what the counters say, and       *)
(* therefore a server that keeps within its window is never refused.       *)
DictionaryAccounted ==
  /\ GlzTypeOK /\ SlotsAccounted /\ BytesAccounted
  /\ WithinAdvertisedWindow /\ NoSpuriousFailure
=============================================================================
