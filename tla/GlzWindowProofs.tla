-------------------------- MODULE GlzWindowProofs ---------------------------
(***************************************************************************)
(* While one server numbers the images, contiguous eviction never removes  *)
(* what an image still to be decoded refers to, for any number of Display  *)
(* transports, images, decode slots and any interleaving.                  *)
(***************************************************************************)
EXTENDS GlzWindow, TLAPS

Busy == {"acquire", "decode", "missing"}

(* The shapes that the argument needs.                                     *)
Shapes ==
  /\ count \in [Instances -> Nat] /\ count[0] <= MaxImages
  /\ head \in [Instances -> [Ids -> Nat]]
  /\ refs \in [Instances -> [Ids -> SUBSET Ids]]
  /\ unread \in [Instances -> SUBSET Ids]
  /\ images \subseteq Ids /\ early \subseteq Ids
  /\ oldestBy \in [Ids -> Nat] /\ oldest \in Nat /\ next \in Nat
  /\ cleared = 0
  /\ inst = [d \in Displays |-> 0] /\ observed = inst
  /\ DOMAIN stage = Displays /\ DOMAIN cur = Displays /\ DOMAIN unresolved = Displays

(* The encoder's window head never moves back and bounds the references.   *)
EncoderWindow ==
  /\ \A i \in Ids : i < count[0] =>
       head[0][i] <= i /\ \A r \in refs[0][i] : head[0][i] <= r
  /\ \A i, j \in Ids : i <= j /\ j < count[0] => head[0][i] <= head[0][j]

(* The dictionary: everything below `next` has been inserted and nothing   *)
(* at it, `oldest` is the window head of the last contiguous image, and    *)
(* exactly the inserted images at or above it are retained.                *)
WindowState ==
  /\ next <= count[0]
  /\ next = 0 => oldest = 0
  /\ next > 0 => oldest = head[0][next - 1]
  /\ \A i \in early : next < i /\ i < count[0] /\ oldestBy[i] = head[0][i]
  /\ \A i \in Ids : i \in images <=> (Inserted(i) /\ oldest <= i)

(* An image is unread, in one owner's hands, or inserted, and never two of *)
(* these at once.                                                          *)
Undecoded ==
  /\ \A i \in unread[0] : i < count[0] /\ ~Inserted(i)
  /\ \A d \in Displays : stage[d] \in Busy =>
       /\ cur[d] \in Ids /\ cur[d] < count[0] /\ cur[d] \notin unread[0]
       /\ ~Inserted(cur[d]) /\ to[0][cur[d]] = d
  /\ \A d \in Displays : stage[d] \in {"decode", "missing"} =>
       unresolved[d] \subseteq refs[0][cur[d]]

GlzInv ==
  Shapes /\ EncoderWindow /\ WindowState /\ Undecoded /\ NoSpuriousFailure

-----------------------------------------------------------------------------
LEMMA OneInstance ==
  ASSUME MaxInstances = 0
  PROVE  Instances = {0}
BY DEF Instances

LEMMA IdsAre == \A i : i \in Ids <=> (i \in Nat /\ i < MaxImages)
BY GlzAssumption DEF Ids

LEMMA InitGlz ==
  ASSUME MaxInstances = 0, GlzInit
  PROVE  GlzInv
<1>1. Instances = {0}
  BY OneInstance
<1>2. Shapes
  BY <1>1, GlzAssumption DEF GlzInit, Shapes
<1>3. EncoderWindow
  <2>1. count[0] = 0
    BY <1>1 DEF GlzInit
  <2>2. \A i \in Ids : ~(i < count[0])
    BY <2>1, GlzAssumption DEF Ids
  <2> QED
    BY <2>2 DEF EncoderWindow
<1>4. WindowState
  BY <1>1, GlzAssumption DEF GlzInit, WindowState, Inserted, Ids
<1>5. Undecoded /\ NoSpuriousFailure
  BY <1>1 DEF GlzInit, Undecoded, NoSpuriousFailure, Busy
<1> QED
  BY <1>2, <1>3, <1>4, <1>5 DEF GlzInv

(* Every reference of an image that is not inserted yet is at or above     *)
(* `oldest`: the image lies at or beyond `next`, so the head of its window *)
(* is at or beyond the head of the last contiguous one.                    *)
LEMMA ReferencesAboveOldest ==
  ASSUME Shapes, EncoderWindow, WindowState,
         NEW i \in Ids, i < count[0], ~Inserted(i), NEW r \in refs[0][i],
         0 \in Instances
  PROVE  oldest <= r /\ r \in Ids
<1>1. /\ next \in Nat /\ oldest \in Nat /\ count[0] \in Nat
      /\ head[0] \in [Ids -> Nat] /\ refs[0] \in [Ids -> SUBSET Ids]
  BY DEF Shapes
<1>2. r \in Ids
  BY <1>1
<1>3. i \in Nat /\ r \in Nat
  BY <1>2, GlzAssumption DEF Ids
<1>4. next <= i
  BY <1>1, <1>3 DEF Inserted
<1>5. head[0][i] <= r /\ head[0][i] \in Nat
  BY <1>1 DEF EncoderWindow
<1>6. CASE next = 0
  BY <1>2, <1>3, <1>6 DEF WindowState
<1>7. CASE next > 0
  <2>1. next - 1 \in Ids /\ next - 1 <= i
    BY <1>1, <1>3, <1>4, <1>7, GlzAssumption DEF Ids
  <2>2. head[0][next - 1] <= head[0][i] /\ head[0][next - 1] \in Nat
    BY <1>1, <2>1 DEF EncoderWindow
  <2>3. oldest = head[0][next - 1]
    BY <1>7 DEF WindowState
  <2> QED
    BY <1>2, <1>3, <1>5, <2>2, <2>3
<1> QED
  BY <1>1, <1>6, <1>7

(* The greatest element of a set, when there is one.                       *)
LEMMA GreatestIs ==
  ASSUME NEW S, NEW m \in S, S \subseteq Nat, \A x \in S : x <= m
  PROVE  Greatest(S) = m
<1>1. Greatest(S) \in S /\ \A x \in S : x <= Greatest(S)
  BY DEF Greatest
<1>2. Greatest(S) \in Nat /\ m \in Nat
  BY <1>1
<1>3. Greatest(S) <= m /\ m <= Greatest(S)
  BY <1>1
<1> HIDE DEF Greatest
<1> QED
  BY <1>2, <1>3
-----------------------------------------------------------------------------
(* A new image is numbered `count`, and its window head is not before that *)
(* of its predecessor.                                                     *)
LEMMA GlzEncode ==
  ASSUME MaxInstances = 0, GlzInv, Encode(0)
  PROVE  GlzInv'
<1> DEFINE n == count[0]
<1>0. Instances = {0}
  BY OneInstance
<1>1. /\ n \in Nat /\ n < MaxImages /\ n \in Ids
      /\ count' = [count EXCEPT ![0] = n + 1]
      /\ unread' = [unread EXCEPT ![0] = @ \cup {n}]
      /\ UNCHANGED <<to, images, source, early, oldestBy, bytes, oldest, next,
                     cleared, inst, observed, stage, cur, unresolved>>
  BY <1>0, GlzAssumption DEF Encode, GlzInv, Shapes, Ids, windowVars
<1>2. PICK h \in (IF n = 0 THEN 0 ELSE head[0][n - 1])..n :
        \E r \in SUBSET (h..(n - 1)) :
          /\ head' = [head EXCEPT ![0][n] = h]
          /\ refs' = [refs EXCEPT ![0][n] = r]
  BY DEF Encode
<1>3. PICK r \in SUBSET (h..(n - 1)) :
          /\ head' = [head EXCEPT ![0][n] = h]
          /\ refs' = [refs EXCEPT ![0][n] = r]
  BY <1>2
<1>14. n \in Nat /\ n < MaxImages /\ n \in Ids /\ MaxImages \in Nat
  BY <1>1, GlzAssumption
<1>15. head[0] \in [Ids -> Nat]
  BY <1>0 DEF GlzInv, Shapes
<1>4. n > 0 => n - 1 \in Ids /\ head[0][n - 1] \in Nat
  <2> HIDE DEF n
  <2>1. n > 0 => n - 1 \in Nat /\ n - 1 < MaxImages
    BY <1>14
  <2> QED
    BY <1>15, <2>1, IdsAre
<1>5. h \in Nat /\ h <= n /\ (n > 0 => head[0][n - 1] <= h)
  BY <1>1, <1>4
<1>6. r \subseteq Ids /\ \A x \in r : h <= x
  <2> HIDE DEF n
  <2>1. \A x \in r : x \in Nat /\ x < MaxImages /\ h <= x
    BY <1>14, <1>5
  <2> QED
    BY <2>1, IdsAre
<1>7. /\ head'[0] = [head[0] EXCEPT ![n] = h] /\ head[0] \in [Ids -> Nat]
      /\ refs'[0] = [refs[0] EXCEPT ![n] = r]
      /\ refs[0] \in [Ids -> SUBSET Ids]
      /\ count'[0] = n + 1 /\ unread'[0] = unread[0] \cup {n}
  BY <1>0, <1>1, <1>3 DEF GlzInv, Shapes
<1> HIDE DEF n
<1>8. Shapes'
  <2>1. head' \in [Instances -> [Ids -> Nat]]
    BY <1>0, <1>1, <1>3, <1>5 DEF GlzInv, Shapes
  <2>2. refs' \in [Instances -> [Ids -> SUBSET Ids]]
    BY <1>0, <1>1, <1>3, <1>6 DEF GlzInv, Shapes
  <2>3. /\ count' \in [Instances -> Nat] /\ count'[0] <= MaxImages
        /\ unread' \in [Instances -> SUBSET Ids]
    BY <1>0, <1>1, GlzAssumption DEF GlzInv, Shapes, n
  <2> QED
    BY <1>1, <2>1, <2>2, <2>3 DEF GlzInv, Shapes
<1>9. EncoderWindow'
  <2>1. \A i \in Ids : i < n =>
          head[0][i] <= i /\ \A x \in refs[0][i] : head[0][i] <= x
    BY DEF GlzInv, EncoderWindow, n
  <2>2. \A i, j \in Ids : i <= j /\ j < n => head[0][i] <= head[0][j]
    BY DEF GlzInv, EncoderWindow, n
  <2>3. \A i \in Ids : i \in Nat /\ (i < n + 1 => i < n \/ i = n)
    BY <1>1, GlzAssumption DEF Ids
  <2>4. ASSUME NEW i \in Ids, i < n
        PROVE  head[0][i] <= h
    <3>1. n > 0 /\ i <= n - 1 /\ n - 1 < n
      BY <1>14, <2>3, <2>4
    <3>2. head[0][i] <= head[0][n - 1]
      BY <1>4, <2>2, <3>1
    <3>3. head[0][i] \in Nat
      BY <1>7
    <3> QED
      BY <1>4, <1>5, <3>1, <3>2, <3>3
  <2>5. \A i \in Ids : i < n + 1 =>
          head'[0][i] <= i /\ \A x \in refs'[0][i] : head'[0][i] <= x
    <3> SUFFICES ASSUME NEW i \in Ids, i < n + 1
                 PROVE  /\ head'[0][i] <= i
                        /\ \A x \in refs'[0][i] : head'[0][i] <= x
      OBVIOUS
    <3>1. CASE i < n
      <4>1. head'[0][i] = head[0][i] /\ refs'[0][i] = refs[0][i]
        BY <1>7, <1>14, <3>1
      <4> QED
        BY <2>1, <3>1, <4>1
    <3>2. CASE i = n
      <4>1. head'[0][n] = h /\ refs'[0][n] = r
        BY <1>7, <1>14
      <4> QED
        BY <1>5, <1>6, <3>2, <4>1
    <3> QED
      BY <2>3, <3>1, <3>2
  <2>6. \A i, j \in Ids : i <= j /\ j < n + 1 => head'[0][i] <= head'[0][j]
    <3> SUFFICES ASSUME NEW i \in Ids, NEW j \in Ids, i <= j, j < n + 1
                 PROVE  head'[0][i] <= head'[0][j]
      OBVIOUS
    <3>1. CASE j < n
      BY <1>1, <1>7, <2>2, <2>3, <3>1
    <3>2. CASE j = n /\ i < n
      BY <1>1, <1>7, <2>4, <3>2
    <3>3. CASE j = n /\ i = n
      BY <1>1, <1>5, <1>7, <3>3
    <3>4. i \in Nat /\ j \in Nat /\ (j < n \/ j = n)
      BY <2>3
    <3>5. i < n \/ i = n
      BY <1>14, <3>4
    <3> QED
      BY <3>1, <3>2, <3>3, <3>4, <3>5
  <2> QED
    BY <1>7, <2>5, <2>6 DEF EncoderWindow
<1>10. /\ next \in Nat /\ next <= n
       /\ \A i : Inserted(i)' <=> Inserted(i)
  BY <1>1 DEF GlzInv, Shapes, WindowState, Inserted, n
<1>11. WindowState'
  <2>1. next > 0 => next - 1 \in Ids /\ head'[0][next - 1] = head[0][next - 1]
    <3>1. next > 0 => next - 1 \in Nat /\ next - 1 < n
      BY <1>10, <1>14
    <3>2. next > 0 => next - 1 \in Ids
      BY <1>14, <3>1, IdsAre
    <3> QED
      BY <1>7, <1>14, <3>1, <3>2
  <2>2. \A i \in early : i \in Ids /\ i < n /\ head'[0][i] = head[0][i]
    <3>1. \A i \in early : i \in Ids /\ i < n
      BY DEF GlzInv, Shapes, WindowState, n
    <3>2. \A i \in early : i # n
      BY <1>14, <3>1
    <3> QED
      BY <1>7, <3>1, <3>2
  <2>3. \A i \in early : next < i /\ i < n + 1
    BY <1>14, <2>2, IdsAre DEF GlzInv, WindowState
  <2> QED
    BY <1>1, <1>7, <1>10, <2>1, <2>2, <2>3 DEF GlzInv, WindowState
<1>12. Undecoded'
  <2>1. ~Inserted(n)
    BY <1>1, <1>10 DEF GlzInv, WindowState, Inserted, n
  <2>2. \A i \in unread[0] : i \in Nat /\ i < n
    BY <1>0, GlzAssumption DEF GlzInv, Shapes, Undecoded, Ids, n
  <2>3. \A d \in Displays : stage[d] \in Busy =>
          cur[d] \in Nat /\ cur[d] < n /\ refs'[0][cur[d]] = refs[0][cur[d]]
    <3>1. \A d \in Displays : stage[d] \in Busy => cur[d] \in Ids /\ cur[d] < n
      BY DEF GlzInv, Undecoded, n
    <3>2. \A i \in Ids : i < n => i \in Nat /\ i # n
      BY <1>14, IdsAre
    <3> QED
      BY <1>7, <3>1, <3>2
  <2>4. \A i \in unread'[0] : i < count'[0] /\ ~Inserted(i)'
    BY <1>1, <1>7, <1>10, <2>1, <2>2 DEF GlzInv, Undecoded
  <2>5. \A d \in Displays : stage[d] \in Busy =>
          /\ cur[d] \in Ids /\ cur[d] < count'[0] /\ cur[d] \notin unread'[0]
          /\ ~Inserted(cur[d]) /\ to[0][cur[d]] = d
    BY <1>1, <1>7, <2>3 DEF GlzInv, Undecoded
  <2>6. \A d \in Displays : stage[d] \in {"decode", "missing"} =>
          unresolved[d] \subseteq refs'[0][cur[d]]
    BY <2>3 DEF GlzInv, Undecoded, Busy
  <2> QED
    BY <1>1, <1>10, <2>4, <2>5, <2>6 DEF Undecoded
<1> QED
  BY <1>1, <1>8, <1>9, <1>11, <1>12 DEF GlzInv, NoSpuriousFailure
-----------------------------------------------------------------------------
(* The steps of an owner other than `insert` leave the dictionary alone.   *)
LEMMA GlzRead ==
  ASSUME MaxInstances = 0, GlzInv, NEW d \in Displays, ReadImage(d)
  PROVE  GlzInv'
<1>0. 0 \in Instances /\ inst[d] = 0 /\ observed[d] = 0
  BY OneInstance DEF GlzInv, Shapes
<1>1. PICK i \in unread[0] :
        /\ to[0][i] = d
        /\ unread' = [unread EXCEPT ![0] = @ \ {i}]
        /\ cur' = [cur EXCEPT ![d] = i]
  BY <1>0 DEF ReadImage
<1>2. /\ UNCHANGED <<windowVars, encoderVars, inst, unresolved>>
      /\ observed' = [observed EXCEPT ![d] = 0]
      /\ stage' = [stage EXCEPT ![d] = "acquire"] /\ stage[d] = "idle"
  BY <1>0 DEF ReadImage
<1>3. observed' = observed
  BY <1>0, <1>2 DEF GlzInv, Shapes
<1>4. /\ UNCHANGED <<count, head, refs, to, images, early, oldestBy, oldest,
                     next, cleared, inst, unresolved>>
      /\ DOMAIN stage = Displays /\ DOMAIN cur = Displays
      /\ unread \in [Instances -> SUBSET Ids]
  BY <1>2 DEF GlzInv, Shapes, windowVars, encoderVars
<1>5. unread'[0] = unread[0] \ {i} /\ unread' \in [Instances -> SUBSET Ids]
  BY <1>0, <1>1, <1>4
<1>6. Shapes'
  BY <1>1, <1>2, <1>3, <1>4, <1>5 DEF GlzInv, Shapes
<1>7. EncoderWindow' /\ WindowState'
  BY <1>4 DEF GlzInv, EncoderWindow, WindowState, Inserted
<1>8. i \in Ids /\ i < count[0] /\ ~Inserted(i)
  BY <1>0, <1>4 DEF GlzInv, Undecoded
<1>9. \A x : Inserted(x)' <=> Inserted(x)
  BY <1>4 DEF Inserted
<1>10. Undecoded'
  <2>1. \A x \in unread'[0] : x < count'[0] /\ ~Inserted(x)'
    BY <1>4, <1>5, <1>9 DEF GlzInv, Undecoded
  <2>2. ASSUME NEW f \in Displays
        PROVE  /\ stage'[f] \in Busy =>
                    /\ cur'[f] \in Ids /\ cur'[f] < count'[0]
                    /\ cur'[f] \notin unread'[0]
                    /\ ~Inserted(cur'[f]) /\ to'[0][cur'[f]] = f
               /\ stage'[f] \in {"decode", "missing"} =>
                    unresolved'[f] \subseteq refs'[0][cur'[f]]
    <3>1. CASE f = d
      BY <1>1, <1>2, <1>4, <1>5, <1>8, <3>1
    <3>2. CASE f # d
      BY <1>1, <1>2, <1>4, <1>5, <3>2 DEF GlzInv, Undecoded
    <3> QED
      BY <3>1, <3>2
  <2> QED
    BY <1>9, <2>1, <2>2 DEF Undecoded
<1>11. NoSpuriousFailure'
  BY <1>2, <1>4 DEF GlzInv, NoSpuriousFailure
<1> QED
  BY <1>6, <1>7, <1>10, <1>11 DEF GlzInv

LEMMA GlzOwner ==
  ASSUME MaxInstances = 0, GlzInv, NEW d \in Displays,
         AcquireSlot(d) \/ Resolve(d) \/ WaitFor(d) \/ StopDecoding(d)
  PROVE  GlzInv'
<1>0. 0 \in Instances /\ inst[d] = 0
  BY OneInstance DEF GlzInv, Shapes
<1>1. /\ UNCHANGED <<count, head, refs, to, unread, images, early, oldestBy,
                     oldest, next, cleared, inst, observed, cur>>
      /\ DOMAIN stage = Displays /\ DOMAIN unresolved = Displays
  BY DEF AcquireSlot, Resolve, WaitFor, StopDecoding, encoderVars, windowVars, GlzInv,
         Shapes
<1>2. \A f \in Displays \ {d} : stage'[f] = stage[f] /\ unresolved'[f] = unresolved[f]
  BY <1>1 DEF AcquireSlot, Resolve, WaitFor, StopDecoding
<1>3. DOMAIN stage' = Displays /\ DOMAIN unresolved' = Displays
  BY <1>1 DEF AcquireSlot, Resolve, WaitFor, StopDecoding
<1>4. /\ stage'[d] \in Busy => stage[d] \in Busy
      /\ stage'[d] \in {"decode", "missing"} => unresolved'[d] \subseteq refs[0][cur[d]]
      /\ stage'[d] \notin {"evicted", "duplicate"}
  <2>1. CASE AcquireSlot(d)
    BY <1>0, <1>1, <2>1 DEF AcquireSlot, Busy
  <2>2. CASE Resolve(d)
    <3>1. stage[d] = "decode" /\ unresolved[d] \subseteq refs[0][cur[d]]
      BY <2>2 DEF Resolve, GlzInv, Undecoded
    <3>2. PICK x \in unresolved[d] :
            \/ /\ unresolved' = [unresolved EXCEPT ![d] = @ \ {x}]
               /\ stage' = stage
            \/ /\ unresolved' = [unresolved EXCEPT ![d] = {x}]
               /\ stage' = [stage EXCEPT ![d] = "missing"]
      BY <2>2 DEF Resolve
    <3> QED
      BY <1>1, <3>1, <3>2 DEF Busy
  <2>3. CASE WaitFor(d)
    <3>1. stage[d] = "missing" /\ unresolved[d] \subseteq refs[0][cur[d]]
      BY <2>3 DEF WaitFor, GlzInv, Undecoded
    <3>2. PICK x \in unresolved[d] :
            /\ x \in images \/ x < oldest
            /\ stage' = [stage EXCEPT ![d] =
                        IF x \in images THEN "acquire" ELSE "evicted"]
      BY <2>3 DEF WaitFor
    <3>3. oldest <= x /\ x \in Ids
      <4>1. x \in refs[0][cur[d]] /\ cur[d] \in Ids /\ cur[d] < count[0]
            /\ ~Inserted(cur[d])
        BY <3>1 DEF GlzInv, Undecoded, Busy
      <4> QED
        BY <1>0, <4>1, ReferencesAboveOldest DEF GlzInv
    <3>4. x \in images
      BY <3>2, <3>3, IdsAre DEF GlzInv, Shapes
    <3> QED
      BY <1>1, <3>1, <3>2, <3>4 DEF Busy
  <2>4. CASE StopDecoding(d)
    BY <1>1, <2>4 DEF StopDecoding, Busy
  <2> QED
    BY <2>1, <2>2, <2>3, <2>4
<1>5. Shapes' /\ EncoderWindow' /\ WindowState'
  BY <1>1, <1>3 DEF GlzInv, Shapes, EncoderWindow, WindowState, Inserted
<1>6. \A x : Inserted(x)' <=> Inserted(x)
  BY <1>1 DEF Inserted
<1>7. Undecoded'
  BY <1>1, <1>2, <1>4, <1>6 DEF GlzInv, Undecoded
<1>8. NoSpuriousFailure'
  BY <1>2, <1>4 DEF GlzInv, NoSpuriousFailure
<1> QED
  BY <1>5, <1>7, <1>8 DEF GlzInv
-----------------------------------------------------------------------------
(* `insert`: the id is new, the contiguous prefix grows from `next` to k,  *)
(* and the new `oldest` is the head of image k - 1.                        *)
LEMMA GlzInsert ==
  ASSUME MaxInstances = 0, GlzInv, NEW d \in Displays, Insert(d)
  PROVE  GlzInv'
<1> DEFINE i == cur[d]
           all == early \cup {i}
           by == [oldestBy EXCEPT ![i] = head[inst[d]][i]]
<1>0. 0 \in Instances /\ inst[d] = 0 /\ stage[d] = "decode"
  BY OneInstance DEF GlzInv, Shapes, Insert
<1>1. /\ i \in Ids /\ i \in Nat /\ i < count[0] /\ i \notin unread[0]
      /\ ~Inserted(i) /\ to[0][i] = d
  BY <1>0, IdsAre DEF GlzInv, Undecoded, Busy
<1>2. i \notin images
  BY <1>1 DEF GlzInv, WindowState
<1>3. PICK k \in next..MaxImages :
        LET low == Greatest({oldest} \cup {by[j] : j \in next..(k - 1)})
            kept == Kept(images \cup {i}, low)
        IN /\ Advances(all, k)
           /\ next' = k /\ oldest' = low
           /\ early' = all \ (next..(k - 1)) /\ oldestBy' = by
           /\ images' = kept
           /\ stage' = [stage EXCEPT ![d] =
                       IF bytes' > Budget THEN "overBudget" ELSE "idle"]
  BY <1>2 DEF Insert
<1>4. UNCHANGED <<count, head, refs, to, unread, cleared, inst, observed, cur,
                unresolved>>
  BY DEF Insert, encoderVars, windowVars
<1>5. /\ next \in Nat /\ oldest \in Nat /\ count[0] \in Nat
      /\ head[0] \in [Ids -> Nat] /\ oldestBy \in [Ids -> Nat]
      /\ early \subseteq Ids /\ images \subseteq Ids
      /\ next <= count[0] /\ count[0] <= MaxImages /\ MaxImages \in Nat
      /\ DOMAIN stage = Displays
  BY <1>0, GlzAssumption DEF GlzInv, Shapes, WindowState
<1>6. k \in Nat /\ next <= k /\ k <= MaxImages /\ next <= i
  BY <1>1, <1>3, <1>5 DEF Inserted
<1>7. all \subseteq Ids /\ \A j \in all : j < count[0] /\ by[j] = head[0][j]
  BY <1>0, <1>1, <1>5 DEF GlzInv, WindowState
<1>8. k \notin all /\ \A j \in next..(k - 1) : j \in all
  BY <1>3 DEF Advances
<1> HIDE DEF i, all, by
<1>9. /\ k = next => oldest' = oldest
      /\ k > next => oldest' = head[0][k - 1]
      /\ oldest <= oldest' /\ oldest' \in Nat
  <2> DEFINE S == {oldest} \cup {by[j] : j \in next..(k - 1)}
  <2>0. oldest' = Greatest(S)
    BY <1>3
  <2>1. S \subseteq Nat
    BY <1>5, <1>7, <1>8
  <2>2. CASE k = next
    <3>1. S = {oldest}
      BY <1>5, <2>2
    <3>2. Greatest(S) = oldest
      <4>1. oldest \in S /\ \A x \in S : x <= oldest
        BY <1>5, <3>1
      <4> HIDE DEF S
      <4> QED
        BY <2>1, <4>1, GreatestIs
    <3> QED
      BY <1>5, <1>6, <2>0, <2>2, <3>2
  <2>3. CASE k > next
    <3>1. k - 1 \in next..(k - 1) /\ k - 1 \in Ids /\ k - 1 < count[0]
      BY <1>5, <1>6, <1>7, <1>8, <2>3
    <3>2. by[k - 1] = head[0][k - 1] /\ head[0][k - 1] \in S
          /\ head[0][k - 1] \in Nat
      BY <1>5, <1>7, <1>8, <3>1
    <3>3. \A j \in next..(k - 1) : by[j] <= head[0][k - 1]
      <4> SUFFICES ASSUME NEW j \in next..(k - 1)
                   PROVE  by[j] <= head[0][k - 1]
        OBVIOUS
      <4>1. j \in Ids /\ j <= k - 1 /\ by[j] = head[0][j]
        BY <1>5, <1>6, <1>7, <1>8
      <4> QED
        BY <3>1, <4>1 DEF GlzInv, EncoderWindow
    <3>4. oldest <= head[0][k - 1]
      <4>1. CASE next = 0
        BY <3>2, <4>1 DEF GlzInv, WindowState
      <4>2. CASE next > 0
        <5>1. next - 1 \in Ids /\ next - 1 <= k - 1
          BY <1>5, <1>6, <4>2, IdsAre
        <5>2. head[0][next - 1] <= head[0][k - 1]
          BY <3>1, <5>1 DEF GlzInv, EncoderWindow
        <5> QED
          BY <4>2, <5>2 DEF GlzInv, WindowState
      <4> QED
        BY <1>5, <4>1, <4>2
    <3>5. \A x \in S : x <= head[0][k - 1]
      BY <3>3, <3>4
    <3>6. Greatest(S) = head[0][k - 1]
      BY <2>1, <3>2, <3>5, GreatestIs
    <3> QED
      BY <2>0, <2>3, <3>2, <3>4, <3>6
  <2> QED
    BY <1>5, <1>6, <2>2, <2>3
<1>10. next' = k /\ early' = all \ (next..(k - 1)) /\ oldestBy' = by
  BY <1>3
<1>11. \A x \in Nat : Inserted(x)' <=> (Inserted(x) \/ x = i)
  <2> SUFFICES ASSUME NEW x \in Nat
               PROVE  (x < k \/ x \in early') <=>
                        (x < next \/ x \in early \/ x = i)
    BY <1>10 DEF Inserted
  <2>1. x < k <=> (x < next \/ x \in next..(k - 1))
    BY <1>5, <1>6
  <2> QED
    BY <1>8, <1>10, <2>1 DEF all
<1>12. Shapes'
  <2>1. by \in [Ids -> Nat] /\ images' \subseteq Ids /\ early' \subseteq Ids
    BY <1>0, <1>1, <1>3, <1>5, <1>7 DEF by, Kept
  <2>2. DOMAIN stage' = Displays
    BY <1>3, <1>5
  <2> QED
    BY <1>4, <1>6, <1>9, <1>10, <2>1, <2>2 DEF GlzInv, Shapes
<1>13. EncoderWindow'
  BY <1>4 DEF GlzInv, EncoderWindow
<1>14. WindowState'
  <2>1. k <= count[0]
    <3>1. CASE k = next
      BY <1>5, <3>1
    <3>2. CASE k > next
      <4>1. k - 1 \in all
        BY <1>5, <1>6, <1>8, <3>2
      <4> QED
        BY <1>5, <1>6, <1>7, <4>1
    <3> QED
      BY <1>5, <1>6, <3>1, <3>2
  <2>2. (k = 0 => oldest' = 0) /\ (k > 0 => oldest' = head[0][k - 1])
    BY <1>5, <1>6, <1>9 DEF GlzInv, WindowState
  <2>3. \A j \in early' : k < j /\ j < count[0] /\ by[j] = head[0][j]
    <3> SUFFICES ASSUME NEW j \in early' PROVE k < j
      BY <1>7, <1>10
    <3>1. j \in all /\ j \in Nat /\ j \notin next..(k - 1) /\ j # k
      BY <1>7, <1>8, <1>10, IdsAre
    <3>2. next <= j
      BY <1>5, <1>6, <3>1 DEF all, GlzInv, WindowState
    <3> QED
      BY <1>5, <1>6, <3>1, <3>2
  <2>4. \A j \in Ids : j \in images' <=> (Inserted(j)' /\ oldest' <= j)
    <3> SUFFICES ASSUME NEW j \in Ids
                 PROVE  j \in images' <=> (Inserted(j)' /\ oldest' <= j)
      OBVIOUS
    <3>1. j \in Nat
      BY IdsAre
    <3>2. j \in images' <=> ((j \in images \/ j = i) /\ j >= oldest')
      BY <1>3 DEF Kept
    <3>3. j \in images <=> (Inserted(j) /\ oldest <= j)
      BY DEF GlzInv, WindowState
    <3>4. oldest' <= j => oldest <= j
      BY <1>5, <1>9, <3>1
    <3> QED
      BY <1>9, <1>11, <3>1, <3>2, <3>3, <3>4
  <2> QED
    BY <1>4, <1>10, <2>1, <2>2, <2>3, <2>4 DEF WindowState
<1>15. Undecoded'
  <2>1. \A x \in unread[0] : x \in Nat /\ x # i /\ x < count[0] /\ ~Inserted(x)
    BY <1>0, <1>1, IdsAre DEF GlzInv, Shapes, Undecoded
  <2>2. stage'[d] \notin Busy /\ \A f \in Displays \ {d} : stage'[f] = stage[f]
    BY <1>3, <1>5 DEF Busy
  <2>3. \A f \in Displays \ {d} : stage[f] \in Busy =>
          cur[f] # i /\ cur[f] \in Nat /\ ~Inserted(cur[f])
    BY <1>1, IdsAre DEF GlzInv, Undecoded
  <2>4. \A x \in unread'[0] : x < count'[0] /\ ~Inserted(x)'
    BY <1>4, <1>11, <2>1
  <2>5. \A f \in Displays : stage'[f] \in Busy =>
          /\ cur'[f] \in Ids /\ cur'[f] < count'[0] /\ cur'[f] \notin unread'[0]
          /\ ~Inserted(cur[f])' /\ to'[0][cur'[f]] = f
    BY <1>4, <1>11, <2>2, <2>3 DEF GlzInv, Undecoded
  <2>6. \A f \in Displays : stage'[f] \in {"decode", "missing"} =>
          unresolved'[f] \subseteq refs'[0][cur'[f]]
    BY <1>4, <2>2 DEF GlzInv, Undecoded, Busy
  <2> QED
    BY <1>4, <2>4, <2>5, <2>6 DEF Undecoded, Inserted
<1>16. NoSpuriousFailure'
  BY <1>3, <1>5 DEF GlzInv, NoSpuriousFailure
<1> QED
  BY <1>12, <1>13, <1>14, <1>15, <1>16 DEF GlzInv

-----------------------------------------------------------------------------
LEMMA NextGlz ==
  ASSUME MaxInstances = 0, GlzInv, [GlzNext]_glzVars
  PROVE  GlzInv'
<1>1. ASSUME NEW e \in Instances, Encode(e)
      PROVE  GlzInv'
  BY <1>1, OneInstance, GlzEncode
<1>2. ASSUME NEW d \in Displays, Activate(d)
      PROVE  GlzInv'
  BY <1>2 DEF Activate, GlzInv, Shapes
<1>3. CASE CancelDecoding \/ UNCHANGED glzVars
  <2>1. UNCHANGED <<count, head, refs, to, unread, images, early, oldestBy,
                    oldest, next, cleared, inst, observed, stage, cur, unresolved>>
    BY <1>3 DEF CancelDecoding, glzVars, encoderVars, windowVars
  <2> QED
    BY <2>1 DEF GlzInv, Shapes, EncoderWindow, WindowState, Undecoded,
                NoSpuriousFailure, Inserted
<1> QED
  BY <1>1, <1>2, <1>3, GlzRead, GlzOwner, GlzInsert DEF GlzNext, DecodeOwner

(* Contiguous eviction is safe: with a conforming server, every reference  *)
(* of an undecoded image stays in the dictionary from its insertion until  *)
(* the image is decoded, so `wait_for` never reports an evicted reference  *)
(* and `insert` never reports a duplicate id.                              *)
THEOREM EvictionIsSafe ==
  ASSUME MaxInstances = 0
  PROVE  GlzSpec => [](ReferencesRetained /\ NoSpuriousFailure)
<1>1. GlzInit => GlzInv
  BY InitGlz
<1>2. GlzInv /\ [GlzNext]_glzVars => GlzInv'
  BY NextGlz
<1>3. GlzInv => ReferencesRetained /\ NoSpuriousFailure
  <2> SUFFICES ASSUME GlzInv, NEW i \in 0..(count[0] - 1), ~Inserted(i),
                      NEW r \in refs[0][i], Inserted(r)
               PROVE  r \in images
    BY DEF GlzInv, Shapes, ReferencesRetained
  <2>1. 0 \in Instances
    BY OneInstance
  <2>2. i \in Ids /\ i < count[0]
    <3>1. count[0] \in Nat /\ count[0] <= MaxImages /\ MaxImages \in Nat
      BY <2>1, GlzAssumption DEF GlzInv, Shapes
    <3>2. i \in Nat /\ i < count[0] /\ i < MaxImages
      BY <3>1
    <3> QED
      BY <3>2, IdsAre
  <2>3. oldest <= r /\ r \in Ids
    BY <2>1, <2>2, ReferencesAboveOldest DEF GlzInv
  <2> QED
    BY <2>3 DEF GlzInv, WindowState
<1> QED
  BY <1>1, <1>2, <1>3, PTL DEF GlzSpec

=============================================================================
