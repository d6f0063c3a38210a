------------------------------ MODULE MCHelper ------------------------------
(***************************************************************************)
(* The helper process, checked part by part: `focus` names the part that   *)
(* runs in a behaviour, the others stay in their initial states.           *)
(***************************************************************************)
EXTENDS FramePath, HelperLife, HelperIpc

CONSTANT Parts

VARIABLE focus

helperAllVars == <<focus, frameVars, lifeVars, ipcVars>>

frameOnly == <<ownerVars, mapVars, helperVars, hostVars>>
lifeOnly == <<reader, receipt, requests, sent, stage, outbox, tasks, session, drive,
              shutdown, events, refused, host>>

Shape(name, text, bytes, per, breaks) ==
  [kind |-> name, line |-> text, payload |-> bytes, unit |-> per, newlines |-> breaks]

\* Every kind that has a check of its own, at its bound and beyond, and payloads
\* that look like the end of a line.
Kinds ==
  [requests |-> {Shape("plain", 3, 0, 1, FALSE), Shape("plain", 4, 0, 1, FALSE),
                 Shape("file", 1, 2, 1, TRUE), Shape("file", 2, 3, 1, FALSE),
                 Shape("port", 1, 1, 1, FALSE), Shape("port", 2, 2, 1, FALSE),
                 Shape("clipboard", 2, 3, 1, TRUE), Shape("record", 1, 0, 1, FALSE)},
   events |-> {Shape("plain", 3, 0, 1, FALSE), Shape("frame", 1, 2, 2, TRUE),
               Shape("frame", 1, 1, 2, FALSE), Shape("cursor", 1, 0, 0, FALSE),
               Shape("cursor", 1, 1, 1, FALSE), Shape("playback", 1, 2, 2, FALSE),
               Shape("playback", 1, 1, 2, FALSE), Shape("clipboard", 2, 3, 1, TRUE),
               Shape("port", 2, 2, 1, FALSE)}]

Asks(number, needs) == [version |-> number, required |-> needs]
Hosts ==
  {Asks(1, <<>>), Asks(1, <<"tls">>), Asks(1, <<"tls", "tls">>), Asks(1, <<"usb">>),
   Asks(2, <<"tls">>), Asks(1, <<"tls", "core", "tls">>)}

Capabilities == <<"core", "tls", "core">>

Init ==
  /\ focus \in Parts
  /\ FrameInit /\ LifeInit
  /\ IpcInit /\ (focus = "ipc" \/ direction = "events")

Next ==
  /\ UNCHANGED focus
  /\ \/ focus = "frames" /\ FrameNext /\ UNCHANGED <<lifeOnly, ipcVars>>
     \/ focus = "life" /\ LifeNext /\ UNCHANGED <<frameOnly, ipcVars>>
     \/ focus = "ipc" /\ IpcNext /\ UNCHANGED <<frameVars, lifeVars>>

\* In a part that does not run, the fair actions are disabled or are the writer's.
Spec == Init /\ [][Next]_helperAllVars /\ FrameFairness /\ LifeFairness
=============================================================================
