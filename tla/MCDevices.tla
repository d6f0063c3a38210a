------------------------------ MODULE MCDevices -----------------------------
(***************************************************************************)
(* The owners of ports, USB devices and smartcard readers with the helper  *)
(* tasks they serve, checked one at a time: `focus` names the owner that   *)
(* runs in a behaviour, the others stay in their initial states, in which  *)
(* none of their fair actions is enabled.                                  *)
(***************************************************************************)
EXTENDS Port, UsbBridge, Smartcard

CONSTANT Owners

VARIABLE focus

deviceVars == <<focus, portVars, usbVars, cardVars>>

Init == focus \in Owners /\ PortInit /\ UsbInit /\ SmartcardInit

Next ==
  /\ UNCHANGED focus
  /\ \/ focus = "port" /\ PortNext /\ UNCHANGED <<usbVars, cardVars>>
     \/ focus = "usb" /\ UsbNext /\ UNCHANGED <<portVars, cardVars>>
     \/ focus = "smartcard" /\ SmartcardNext /\ UNCHANGED <<portVars, usbVars>>

Spec == Init /\ [][Next]_deviceVars /\ PortFairness /\ UsbFairness /\ SmartcardFairness

\* Every variable of every owner and helper task has its type, and every bounded
\* queue keeps its limit.
DevicesTypeOK == PortTypeOK /\ UsbTypeOK /\ SmartcardTypeOK

(* A consumer of a byte stream never joins what does not belong together:  *)
(* bytes around a dropped chunk are flagged, bytes of two servers meet in  *)
(* no parser, and no output of a replaced worker is written once its       *)
(* successor serves the transport.  Every bounded queue keeps its limit.   *)
BytesNotJoined ==
  DevicesTypeOK /\ JoinsFlagged /\ NoServersJoined

(* What a device task waits for ends: the host learns the state of a port, *)
(* port calls return, an aborted worker is gone, every card request is     *)
(* answered.  Two waits may not: that for a stopped USB worker, whose only *)
(* other outcome is the deadlock that lasts until the abort, and that of a *)
(* smartcard task for the acknowledgement of a server the channel left.    *)
DeviceWaitsEnd ==
  /\ HostLearnsState /\ PortCallsReturn
  /\ StopReturnsOrDeadlocks /\ AbortReapsWorker
  /\ ReaderAcknowledged /\ RequestsAnswered
=============================================================================
