------------------------------ MODULE SubLists ------------------------------
(***************************************************************************)
(* The logical messages of one envelope (protocol channel.rs               *)
(* SubMessageList, client channel.rs IncomingEnvelope): a list of offsets  *)
(* behind the main body, or alone in a LIST envelope, checked as a whole   *)
(* before the first message is handed out, then read again one by one.     *)
(*                                                                         *)
(* A body is any sequence of small numbers.  Where the code reads a count, *)
(* an offset or a message header (its size), the model reads one number;   *)
(* the largest number is also the header of a nested list.                 *)
(***************************************************************************)
EXTENDS Integers, Sequences, FiniteSets

CONSTANTS
  MaxNumber,      \* bound: the largest number in a body
  MaxBody,        \* bound: the length of a body
  MaxSubMessages  \* MAX_SUBMESSAGES

ASSUME ListAssumption == {MaxNumber, MaxBody, MaxSubMessages} \subseteq Nat

VARIABLES
  envelope, \* [body, list, offset]: list is the LIST type, offset sub_list_offset
  walk,     \* the iterator: [stage, at, index, main]
  handed    \* the messages handed out: [from, to] and whether it is the main one

listVars == <<envelope, walk, handed>>

NoEnvelope == [body |-> <<>>, list |-> FALSE, offset |-> 0]
NoWalk == [stage |-> "none", at |-> -1, index |-> 0, main |-> -1]

ListInit == envelope = NoEnvelope /\ walk = NoWalk /\ handed = <<>>

Nested(number) == number = MaxNumber

\* The number at an offset, which counts from 0.
Cell(body, offset) == body[offset + 1]
OffsetAt(body, at, index) == Cell(body, at + 1 + index)

\* resolve_range
InRange(body, offset, length) == offset + length <= Len(body)

\* message_end counts the header of the message.
EndWithoutHeader(offset, size) == offset + size
MessageEnd(offset, size) == offset + 1 + size

StartsInside(start, end, otherStart, otherEnd) == start >= otherStart /\ start < otherEnd
RangesOverlap(start, end, otherStart, otherEnd) == start < otherEnd /\ otherStart < end

\* The checks on one entry of the list.
EntryDecodes(body, at, index) ==
  LET offset == OffsetAt(body, at, index)
      size == Cell(body, offset)
  IN /\ \A earlier \in 0..(index - 1) : OffsetAt(body, at, earlier) # offset
     /\ InRange(body, offset, 1)
     /\ ~Nested(size)
     /\ MessageEnd(offset, size) <= Len(body)
     /\ ~RangesOverlap(offset, MessageEnd(offset, size), at, at + 1 + Cell(body, at))

\* SubMessageList::decode
Decodes(body, at) ==
  /\ InRange(body, at, 1)
  /\ Cell(body, at) <= MaxSubMessages
  /\ InRange(body, at + 1, Cell(body, at))
  /\ \A index \in 0..(Cell(body, at) - 1) : EntryDecodes(body, at, index)

\* IncomingEnvelope::decode: where the list is, and where the main body ends.
Received(e) ==
  CASE e.list /\ e.offset # 0 -> [NoWalk EXCEPT !.stage = "refused"]
    [] e.list /\ e.offset = 0 -> [stage |-> "walking", at |-> 0, index |-> 0, main |-> -1]
    [] ~e.list /\ e.offset = 0 -> [stage |-> "walking", at |-> -1, index |-> 0, main |-> Len(e.body)]
    [] OTHER -> [stage |-> "walking", at |-> e.offset, index |-> 0, main |-> e.offset]

ReceiveEnvelope ==
  /\ walk.stage = "none"
  /\ \E n \in 0..MaxBody : \E body \in [1..n -> 0..MaxNumber], list \in BOOLEAN, offset \in 0..(n + 1) :
       LET e == [body |-> body, list |-> list, offset |-> offset]
           received == Received(e)
       IN /\ envelope' = e
          /\ walk' = IF received.at # -1 /\ ~Decodes(body, received.at)
                     THEN [NoWalk EXCEPT !.stage = "refused"] ELSE received
  /\ UNCHANGED handed

\* The count of the list.
Listed == IF walk.at = -1 THEN 0 ELSE Cell(envelope.body, walk.at)

\* SubMessages::next, which expects every read to succeed.
NextSubMessage ==
  /\ walk.stage = "walking" /\ walk.index < Listed
  /\ LET offset == OffsetAt(envelope.body, walk.at, walk.index) IN
       IF /\ InRange(envelope.body, offset, 1)
          /\ InRange(envelope.body, offset + 1, Cell(envelope.body, offset))
       THEN /\ handed' = Append(handed, [from |-> offset, to |-> offset + 1 + Cell(envelope.body, offset),
                                         main |-> FALSE])
            /\ walk' = [walk EXCEPT !.index = @ + 1]
       ELSE walk' = [walk EXCEPT !.stage = "panicked"] /\ UNCHANGED handed
  /\ UNCHANGED envelope

\* IncomingMessages::next after the list: the main message, once.
NextMain ==
  /\ walk.stage = "walking" /\ walk.index = Listed
  /\ walk' = [walk EXCEPT !.stage = "done"]
  /\ handed' = IF walk.main = -1 THEN handed
               ELSE Append(handed, [from |-> 0, to |-> walk.main, main |-> TRUE])
  /\ UNCHANGED envelope

ListNext == ReceiveEnvelope \/ NextSubMessage \/ NextMain
-----------------------------------------------------------------------------
\* Every variable has its type.
ListTypeOK ==
  /\ walk.stage \in {"none", "walking", "refused", "panicked", "done"}
  /\ Len(handed) <= MaxSubMessages + 1

\* Handing out never meets an entry that decode let through and cannot be read:
\* the expects of SubMessages::next hold for every body a server may send.
NeverPanics == walk.stage # "panicked"

\* Every message lies in the body and apart from the list, no entry is handed
\* out twice, none is a list, and the main message is the last.
HandedSound ==
  \A k \in DOMAIN handed :
    /\ handed[k].to <= Len(envelope.body)
    /\ handed[k].main => k = Len(handed)
    /\ ~handed[k].main =>
         /\ \A i \in handed[k].from..(handed[k].to - 1) :
              i \notin walk.at..(walk.at + Cell(envelope.body, walk.at))
         /\ \A j \in DOMAIN handed : j # k /\ ~handed[j].main => handed[j].from # handed[k].from

\* When the envelope is done, every entry of the list has been handed out in
\* its order, and the main message unless the envelope is only a list.
AllHanded ==
  walk.stage = "done" =>
    LET subs == SelectSeq(handed, LAMBDA m : ~m.main) IN
    /\ walk.at = -1 <=> envelope.offset = 0 /\ ~envelope.list
    /\ Len(subs) = Listed
    /\ \A k \in DOMAIN subs : subs[k].from = OffsetAt(envelope.body, walk.at, k - 1)
    /\ envelope.list <=> Len(subs) = Len(handed)

(* An envelope is refused as a whole or each of its messages is handed out *)
(* once, in order, from bytes that belong to it.                           *)
ListsWhole == ListTypeOK /\ NeverPanics /\ HandedSound /\ AllHanded
=============================================================================
