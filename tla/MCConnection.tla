----------------------------- MODULE MCConnection ---------------------------
(***************************************************************************)
(* How a session comes up and ends, the link of one channel, the bytes of  *)
(* one transport, the lists in its envelopes and its ACK windows, checked one at a time: `focus` names *)
(* the part that runs in a behaviour, the others stay in their initial     *)
(* states, in which none of their fair actions is enabled.                 *)
(***************************************************************************)
EXTENDS Session, Link, Framing, SubLists, AckWindow

CONSTANT Parts

VARIABLE focus

connectionVars == <<focus, sessionVars, linkVars, framingVars, listVars, ackVars>>

Advertised ==
  {{<<"Display", 0>>, <<"Inputs", 0>>, <<"Inputs", 1>>},
   {<<"Display", 0>>, <<"Cursor", 0>>, <<"Cursor", 1>>},
   {<<"Record", 0>>},
   {<<"Display", 0>>, <<"Record", 0>>, <<"Record", 1>>}}

OneOfEach == [Display |-> 1, Playback |-> 1, Record |-> 1, Usb |-> 1, Smartcard |-> 1, Port |-> 1]

Mechanism(first, steps, quiet, data) == [first |-> first, steps |-> steps, quiet |-> quiet, data |-> data]

\* One message like PLAIN, a last step without output that checks the server's
\* data like SCRAM, and the server first with output at the end like LOGIN.
Known == {Mechanism(TRUE, 1, FALSE, FALSE), Mechanism(TRUE, 3, TRUE, TRUE), Mechanism(FALSE, 2, FALSE, FALSE)}

\* One or two context tokens of the server and every offer of layers.
Kerberos ==
  [tokens : 1 .. 2, last : BOOLEAN, layers : (SUBSET {"none", "integrity", "confidentiality"}) \ {{}}]

Shape(size, descriptors, beyond) == [body |-> size, fds |-> descriptors, large |-> beyond]
Sizes == {Shape(0, 0, FALSE), Shape(1, 0, FALSE), Shape(2, 1, FALSE), Shape(1, 2, FALSE), Shape(0, 0, TRUE)}

Init ==
  /\ focus \in Parts
  /\ SessionInit /\ LinkInit /\ FramingInit /\ ListInit
  /\ AckInit /\ (focus = "windows" \/ kinds = {})

Next ==
  /\ UNCHANGED focus
  /\ \/ focus = "session" /\ SessionNext /\ UNCHANGED <<linkVars, framingVars, listVars, ackVars>>
     \/ focus = "link" /\ LinkNext /\ UNCHANGED <<sessionVars, framingVars, listVars, ackVars>>
     \/ focus = "framing" /\ FramingNext /\ UNCHANGED <<sessionVars, linkVars, listVars, ackVars>>
     \/ focus = "lists" /\ ListNext /\ UNCHANGED <<sessionVars, linkVars, framingVars, ackVars>>
     \/ focus = "windows" /\ AckNext /\ UNCHANGED <<sessionVars, linkVars, framingVars, listVars>>

Spec == Init /\ [][Next]_connectionVars /\ SessionFairness /\ LinkFairness

(* Every message of a transport is handled whole: the envelopes are cut    *)
(* from the bytes as the server sent them, and the messages an envelope    *)
(* lists are handed out once, in order, from bytes of their own.           *)
MessagesIntact ==
  MessagesWhole /\ ListsWhole

(* Nothing waits for a server for ever: a link is up or fails, a session   *)
(* that was told to close or whose owner ended is over, and a caller       *)
(* waiting for a frame is released.                                        *)
ConnectionEnds ==
  LinkEnds /\ SessionEnds /\ FrameWaiterReleased
=============================================================================
