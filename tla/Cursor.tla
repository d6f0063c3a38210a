------------------------------- MODULE Cursor -------------------------------
(***************************************************************************)
(* A cursor owner (client cursor.rs: cache, live-byte budget, epochs), the *)
(* watch it publishes complete states in, and the helper's cursor events   *)
(* (runtime.rs publish_cursor), which leave the pixels out when the host   *)
(* was sent the same shape last.                                           *)
(*                                                                         *)
(* A shape is [id, address, pixels]: the server's id, the allocation of    *)
(* its pixels (free again once nobody retains it) and what they show.      *)
(***************************************************************************)
EXTENDS Naturals, FiniteSets

CONSTANTS
  CursorIds,        \* server-supplied shape ids
  Pictures,         \* what pixels can show
  CacheEntries,     \* MAX_CURSOR_CACHE_ENTRIES
  CursorBudget,     \* MAX_CURSOR_CACHE_BYTES, in shapes
  MaxCursorEpochs   \* bound: resets and non-seamless activations

VARIABLES
  cursor,     \* the owner: [up, epoch, shape, visible, awaiting_init, observed]
  cursors,    \* CursorCache entries, by id
  latest,     \* the watch: [some, epoch, shape, visible, changed]
  lastShape,  \* CursorShapeCache::last: [epoch, shape]
  pointer,    \* what the host shows: [shape, pixels, visible]
  cached      \* the ids the current server takes to be cached

cursorVars == <<cursor, cursors, latest, lastShape, pointer, cached>>

NoShape == [id |-> 0, address |-> 0, pixels |-> 0]
NoShapes == [id \in CursorIds |-> NoShape]
Cached(c) == {id \in CursorIds : c[id] # NoShape}
\* The shapes charged to the budget: the Arcs of the cache, state and watch.
LiveShapes(c) == ({c[id] : id \in CursorIds} \cup {cursor.shape, latest.shape}) \ {NoShape}
Addresses == 1 .. Cardinality(CursorIds) + 4
FreeAddress(c) ==
  CHOOSE a \in Addresses : \A s \in LiveShapes(c) \cup {lastShape.shape} : s.address # a
-----------------------------------------------------------------------------
(* resolve_image: None, Cached, or Data with or without CACHE_ME. *)

Images ==
  {[kind |-> "none", id |-> 0, cache_me |-> FALSE, pixels |-> 0]} \cup
  [kind : {"cached"}, id : cached, cache_me : {FALSE}, pixels : {0}] \cup
  [kind : {"data"}, id : CursorIds, cache_me : BOOLEAN, pixels : Pictures]

Resolved(c, image) ==
  LET decoded == [id |-> image.id, address |-> FreeAddress(c), pixels |-> image.pixels] IN
  CASE image.kind = "none"   -> [ok |-> TRUE, shape |-> NoShape, cache |-> c]
    [] image.kind = "cached" -> [ok |-> c[image.id] # NoShape, shape |-> c[image.id], cache |-> c]
    [] image.kind = "data"   ->
         [ok |-> /\ Cardinality(LiveShapes(c)) < CursorBudget
                 /\ image.cache_me =>
                      image.id \in Cached(c) \/ Cardinality(Cached(c)) < CacheEntries,
          shape |-> decoded,
          cache |-> IF image.cache_me THEN [c EXCEPT ![image.id] = decoded] ELSE c]
-----------------------------------------------------------------------------
CursorInit ==
  /\ cursor = [up |-> TRUE, epoch |-> 1, shape |-> NoShape, visible |-> FALSE,
               awaiting_init |-> TRUE, observed |-> TRUE]
  /\ cursors = NoShapes
  /\ latest = [some |-> FALSE, epoch |-> 0, shape |-> NoShape, visible |-> FALSE, changed |-> FALSE]
  /\ lastShape = [epoch |-> 0, shape |-> NoShape]
  /\ pointer = [shape |-> NoShape, pixels |-> 0, visible |-> FALSE]
  /\ cached = {}

\* Cancellation, a message out of place, a full cache, an exhausted budget.
CursorGone ==
  /\ cursor' = [up |-> FALSE, epoch |-> 0, shape |-> NoShape, visible |-> FALSE,
                awaiting_init |-> TRUE, observed |-> TRUE]
  /\ cursors' = NoShapes /\ cached' = {}

Serving == cursor.up /\ cursor.observed /\ ~cursor.awaiting_init

\* Every handled message publishes the complete state.
Publish(c) ==
  latest' = [some |-> TRUE, epoch |-> c.epoch, shape |-> c.shape, visible |-> c.visible,
             changed |-> TRUE]

Show(c, cache, image, visible) ==
  LET r == Resolved(cache, image) IN
  /\ UNCHANGED <<lastShape, pointer>>
  /\ IF r.ok
     THEN LET shown == [c EXCEPT !.shape = r.shape, !.visible = visible,
                                 !.awaiting_init = FALSE]
          IN  /\ cursor' = shown /\ cursors' = r.cache /\ Publish(shown)
              /\ cached' = (IF c.awaiting_init THEN {} ELSE cached) \cup
                           (IF image.cache_me THEN {image.id} ELSE {})
     ELSE CursorGone /\ UNCHANGED latest

\* INIT clears the cache; a repeated INIT is an error.
CursorInitMessage ==
  /\ cursor.up /\ cursor.observed /\ cursor.awaiting_init
  /\ \E image \in Images, visible \in BOOLEAN :
       image.kind # "cached" /\ Show(cursor, NoShapes, image, visible)

CursorSet ==
  /\ Serving
  /\ \E image \in Images, visible \in BOOLEAN : Show(cursor, cursors, image, visible)

NextEpoch == [cursor EXCEPT !.epoch = @ + 1, !.shape = NoShape, !.visible = FALSE,
                            !.awaiting_init = TRUE, !.observed = TRUE]

\* RESET publishes the empty state of the next epoch.
CursorReset ==
  /\ Serving /\ cursor.epoch < MaxCursorEpochs
  /\ cursor' = NextEpoch /\ Publish(NextEpoch)
  /\ cursors' = NoShapes /\ cached' = {}
  /\ UNCHANGED <<lastShape, pointer>>

\* MOVE shows the cursor, HIDE hides it; TRAIL only publishes.
CursorMoveOrHide ==
  /\ Serving
  /\ \E visible \in BOOLEAN :
       LET moved == [cursor EXCEPT !.visible = visible] IN cursor' = moved /\ Publish(moved)
  /\ UNCHANGED <<cursors, lastShape, pointer, cached>>

InvalidateAlways ==
  /\ Serving
  /\ \E gone \in {{id} : id \in CursorIds} \cup {CursorIds} :
       /\ cursors' = NoShapes
       /\ cached' = cached \ gone
  /\ Publish(cursor)
  /\ UNCHANGED <<cursor, lastShape, pointer>>

\* INVALIDATE_ONE and INVALIDATE_ALL; the shape in use stays in use.
Invalidate ==
  /\ Serving
  /\ \E gone \in {{id} : id \in CursorIds} \cup {CursorIds} :
       /\ cursors' = [id \in CursorIds |-> IF id \in gone THEN NoShape ELSE cursors[id]]
       /\ cached' = cached \ gone
  /\ Publish(cursor)
  /\ UNCHANGED <<cursor, lastShape, pointer>>

\* A non-seamless replacement was activated.
CursorMoves ==
  /\ cursor.up /\ cursor.observed /\ cursor.epoch < MaxCursorEpochs
  /\ cursor' = [cursor EXCEPT !.observed = FALSE]
  /\ cached' = {}
  /\ UNCHANGED <<cursors, latest, lastShape, pointer>>

\* Its first message: a new epoch, an empty cache, and no published state.
ObserveCursorMove ==
  /\ cursor.up /\ ~cursor.observed
  /\ cursor' = NextEpoch
  /\ cursors' = NoShapes
  /\ latest' = [some |-> FALSE, epoch |-> 0, shape |-> NoShape, visible |-> FALSE, changed |-> TRUE]
  /\ UNCHANGED <<lastShape, pointer, cached>>

CursorEnds ==
  /\ cursor.up
  /\ CursorGone
  /\ UNCHANGED <<latest, lastShape, pointer>>
-----------------------------------------------------------------------------
(* The helper: CursorEvents::next, then publish_cursor. *)

SameId(epoch, shape) == lastShape.epoch = epoch /\ lastShape.shape.id = shape.id

SameShape(epoch, shape) ==
  /\ lastShape.epoch = epoch /\ lastShape.shape.id = shape.id
  /\ lastShape.shape.address = shape.address

\* A state of None is skipped.  Without a shape `last` is forgotten; the host
\* keeps the pixels it has when the event carries none.
PublishCursor ==
  /\ latest.changed
  /\ latest' = [latest EXCEPT !.changed = FALSE]
  /\ IF latest.some
     THEN /\ lastShape' = IF latest.shape = NoShape THEN [epoch |-> 0, shape |-> NoShape]
                          ELSE [epoch |-> latest.epoch, shape |-> latest.shape]
          /\ pointer' = [shape |-> latest.shape, visible |-> latest.visible,
                         pixels |-> IF latest.shape # NoShape /\ SameShape(latest.epoch, latest.shape)
                                    THEN pointer.pixels ELSE latest.shape.pixels]
     ELSE UNCHANGED <<lastShape, pointer>>
  /\ UNCHANGED <<cursor, cursors, cached>>
-----------------------------------------------------------------------------
CursorNext ==
  \/ CursorInitMessage \/ CursorSet \/ CursorReset \/ CursorMoveOrHide \/ Invalidate
  \/ CursorMoves \/ ObserveCursorMove \/ CursorEnds \/ PublishCursor

\* A changed watch wakes the helper.
CursorFairness == WF_cursorVars(PublishCursor)
-----------------------------------------------------------------------------
\* Every variable has its type; cache and budget keep their limits.
CursorTypeOK ==
  /\ cursor.up \in BOOLEAN /\ cursor.epoch \in 0 .. MaxCursorEpochs
  /\ Cardinality(Cached(cursors)) <= CacheEntries
  /\ Cardinality(LiveShapes(cursors)) <= CursorBudget
  /\ cached \subseteq CursorIds /\ latest.changed \in BOOLEAN

\* A server that names only ids it had cached and has not invalidated never
\* meets the "cursor cache miss" that ends the session.
NoCacheMiss == cached \subseteq Cached(cursors)

\* The host shows the pixels of the shape it was last told of, although an
\* event leaves them out, ids are reused and freed allocations come back.
HostPixelsRight == pointer.pixels = pointer.shape.pixels

\* The host catches up with the last state published (no state after a
\* migration leaves the old pointer on screen until the new INIT).
HostCatchesUp ==
  latest.changed ~> ~latest.changed /\ (latest.some =>
    pointer.shape = latest.shape /\ pointer.visible = latest.visible)

(* A cached shape is the same one for everybody: the server never names    *)
(* one that the client has dropped, and the host shows the pixels that the *)
(* server meant.                                                           *)
ShapesAgree ==
  CursorTypeOK /\ NoCacheMiss /\ HostPixelsRight
=============================================================================
