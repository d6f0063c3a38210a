-------------------------------- MODULE Link --------------------------------
(***************************************************************************)
(* Linking one channel (client channel.rs link_channel_inner, sasl.rs,     *)
(* sasl/gssapi.rs, auth.rs; protocol link.rs): the Link message and its    *)
(* reply, the choice of the authentication, the Ticket, the SASL exchange  *)
(* with a password mechanism or with GSSAPI, and the framing and the       *)
(* security layer the channel starts with.                                 *)
(*                                                                         *)
(* The server is external: it may refuse, stop answering, or go by the     *)
(* rules.  A password mechanism (external, rsasl) is the number of its     *)
(* client steps, whether the client speaks first, whether its last step is *)
(* quiet (has no output) and whether the server's last message has data;   *)
(* none brings a security layer.  A GSSAPI server (external, Kerberos) is  *)
(* the number of its context tokens, whether the client's last step has a  *)
(* token too, and the layers it offers.                                    *)
(***************************************************************************)
EXTENDS Naturals

CONSTANTS
  Mechanisms,  \* records [first, steps, quiet, data]
  Contexts     \* records [tokens, last, layers]

Capabilities == {"auth_selection", "auth_spice", "auth_sasl", "mini_header"}

VARIABLES
  options,  \* the client's: [sasl, gssapi, plainTcp]
  link,     \* the client: [stage, phase, codec, framing, step, finished, output]
  peer      \* the server: [stage, caps, mechanism, heard, context, framing, layer]

linkVars == <<options, link, peer>>

None == [first |-> FALSE, steps |-> 0, quiet |-> FALSE, data |-> FALSE]
NoContext == [tokens |-> 0, last |-> FALSE, layers |-> {}]

LinkInit ==
  /\ options = [sasl |-> FALSE, gssapi |-> FALSE, plainTcp |-> FALSE]
  /\ link = [stage |-> "idle", phase |-> "none", codec |-> "none", framing |-> "none", step |-> 0,
             finished |-> FALSE, output |-> FALSE]
  /\ peer = [stage |-> "idle", caps |-> {}, mechanism |-> None, heard |-> 0, context |-> NoContext,
             framing |-> "none", layer |-> "none"]

LocalCaps == {"auth_selection", "auth_spice", "mini_header"}
             \cup (IF options.sasl THEN {"auth_sasl"} ELSE {})
Both(capability) == capability \in LocalCaps \cap peer.caps

Fails == link' = [link EXCEPT !.stage = "failed"]

\* The transport connects and the Link message is written.
StartLink ==
  /\ link.stage = "idle"
  /\ options' \in {o \in [sasl : BOOLEAN, gssapi : BOOLEAN, plainTcp : BOOLEAN] : o.gssapi => o.sasl}
  /\ link' = [link EXCEPT !.stage = "reply"]
  /\ UNCHANGED peer

\* The server's reply: a refusal, or its capabilities and its Ticket key.
ServerReplies ==
  /\ link.stage = "reply" /\ peer.stage = "idle"
  /\ \E caps \in SUBSET Capabilities, result \in {"ok", "refused"} :
       peer' = [peer EXCEPT !.stage = result, !.caps = caps,
                            !.framing = IF "mini_header" \in caps THEN "mini" ELSE "full"]
  /\ UNCHANGED <<options, link>>

\* The mechanism is chosen from both sides' capabilities, and the server then
\* reads the mechanism word only if both sides select.
ChooseAuthentication ==
  /\ link.stage = "reply" /\ peer.stage \in {"ok", "refused"}
  /\ IF peer.stage = "refused" THEN Fails /\ UNCHANGED peer
     ELSE IF Both("auth_selection") /\ Both("auth_sasl")
     THEN /\ link' = [link EXCEPT !.stage = "mechanisms"]
          /\ peer' = [peer EXCEPT !.stage = "mechanisms"]
     ELSE IF Both("auth_selection") /\ "auth_spice" \notin peer.caps THEN Fails /\ UNCHANGED peer
     ELSE /\ link' = [link EXCEPT !.stage = "ticket"]
          /\ peer' = [peer EXCEPT !.stage = "ticket"]
  /\ UNCHANGED options

HeaderFramingOfClient == "mini"
\* Mini headers need both sides.
HeaderFraming == IF Both("mini_header") THEN "mini" ELSE "full"

Linked == link' = [link EXCEPT !.stage = "linked", !.framing = HeaderFraming]

\* The encrypted Ticket goes out and the server accepts or denies it.
Ticket ==
  /\ link.stage = "ticket" /\ peer.stage = "ticket"
  /\ \/ peer' = [peer EXCEPT !.stage = "accepted"] /\ Linked
     \/ peer' = [peer EXCEPT !.stage = "denied"] /\ Fails
  /\ UNCHANGED options
-----------------------------------------------------------------------------
(* authenticate_sasl. *)

\* One step of the mechanism.
Step(l) ==
  LET last == l.step + 1 = peer.mechanism.steps IN
  [l EXCEPT !.step = @ + 1, !.finished = last, !.output = ~(last /\ peer.mechanism.quiet)]

\* With GSSAPI offered and allowed its own exchange starts with the token of a
\* new context; otherwise rsasl picks an offered password mechanism and, if the
\* client speaks first, makes its first step.
PickMechanism ==
  /\ link.stage = "mechanisms"
  /\ \E offered \in BOOLEAN :
       IF options.gssapi /\ offered
       THEN \E context \in Contexts :
              /\ peer' = [peer EXCEPT !.stage = "exchange", !.context = context]
              /\ link' = [link EXCEPT !.stage = "write", !.phase = "establishing", !.output = TRUE]
       ELSE \E m \in Mechanisms :
              /\ peer' = [peer EXCEPT !.stage = "exchange", !.mechanism = m]
              /\ link' = [link EXCEPT !.stage = "write", !.phase = "rsasl",
                                      !.step = IF m.first THEN 1 ELSE 0,
                                      !.finished = m.first /\ m.steps = 1, !.output = m.first]
  /\ UNCHANGED options

\* write_sasl_step: the output, or an empty step.
WriteStep ==
  /\ link.stage = "write"
  /\ link' = [link EXCEPT !.stage = "read", !.output = FALSE]
  /\ peer' = [peer EXCEPT !.heard = @ + IF link.output THEN 1 ELSE 0]
  /\ UNCHANGED options

\* What the server has to hear before it is satisfied.
Needed(m) == IF m.quiet THEN m.steps - 1 ELSE m.steps

\* ClientError::Sasl.
Breaks == link' = [link EXCEPT !.stage = "broken"]

StepAlways(input) == TRUE
\* Without data from the server a finished mechanism is not stepped again.
StepsOn(input) == input \/ ~link.finished

\* The server's step: data or none, and whether it is complete; then the
\* client's checks in their order.
ReadStep ==
  LET complete == peer.heard = Needed(peer.mechanism)
      input == ~complete \/ peer.mechanism.data
      l == IF StepsOn(input) THEN Step(link) ELSE link IN
  /\ link.stage = "read" /\ link.phase = "rsasl" /\ peer.stage = "exchange"
  /\ IF StepsOn(input) /\ link.finished THEN Breaks /\ UNCHANGED peer
     ELSE IF ~complete
     THEN /\ link' = [l EXCEPT !.stage = IF l.finished THEN "broken" ELSE "write"]
          /\ UNCHANGED peer
     ELSE IF ~l.finished \/ l.output THEN Breaks /\ UNCHANGED peer
     ELSE /\ link' = [l EXCEPT !.stage = "result"]
          /\ peer' = [peer EXCEPT !.stage = "deciding"]
  /\ UNCHANGED options

-----------------------------------------------------------------------------
(* gssapi::authenticate. *)

\* ContextPhase::Establishing: a token of the server steps the context, which
\* goes on or is finished, with or without a last token for the server.
EstablishContext ==
  LET last == peer.context.tokens = 1 IN
  /\ link.stage = "read" /\ link.phase = "establishing" /\ peer.stage = "exchange"
  /\ peer' = [peer EXCEPT !.context.tokens = @ - 1]
  /\ link' = [link EXCEPT !.stage = "write", !.phase = IF last THEN "layer" ELSE "establishing",
                          !.output = last => peer.context.last]
  /\ UNCHANGED options

SelectLayerRelaxed(offered, required) ==
  IF "none" \in offered THEN "none"
  ELSE IF "confidentiality" \in offered THEN "confidentiality"
  ELSE IF "integrity" \in offered THEN "integrity" ELSE "refused"

\* select_layer: none is taken only when no layer is required, confidentiality
\* before integrity.
SelectLayer(offered, required) ==
  IF ~required /\ "none" \in offered THEN "none"
  ELSE IF "confidentiality" \in offered THEN "confidentiality"
  ELSE IF "integrity" \in offered THEN "integrity" ELSE "refused"

\* RFC 4752: the server's maximum size is zero if it supports no layer.
Sized(layers) == layers # {"none"}

\* ContextPhase::AwaitingLayer: negotiate_security_layer wants a maximum size
\* exactly if it selects a layer.  The server reads the selection.
NegotiateLayer ==
  LET layer == SelectLayer(peer.context.layers, options.plainTcp) IN
  /\ link.stage = "read" /\ link.phase = "layer" /\ peer.stage = "exchange"
  /\ IF layer = "refused" THEN Fails /\ UNCHANGED peer
     ELSE IF (layer # "none") # Sized(peer.context.layers) THEN Breaks /\ UNCHANGED peer
     ELSE /\ link' = [link EXCEPT !.stage = "write", !.phase = "completion", !.codec = layer, !.output = TRUE]
          /\ peer' = [peer EXCEPT !.layer = layer]
  /\ UNCHANGED options

\* ContextPhase::AwaitingCompletion: the server is complete and adds nothing.
CompleteGssapi ==
  /\ link.stage = "read" /\ link.phase = "completion" /\ peer.stage = "exchange"
  /\ link' = [link EXCEPT !.stage = "result"]
  /\ peer' = [peer EXCEPT !.stage = "deciding"]
  /\ UNCHANGED options
-----------------------------------------------------------------------------
\* On plain TCP a password mechanism, which brings no layer, does not suffice.
LayerSuffices == link.phase = "rsasl" => ~options.plainTcp

\* The server's result, then the client's requirement.
SaslResult ==
  /\ link.stage = "result" /\ peer.stage = "deciding"
  /\ \/ peer' = [peer EXCEPT !.stage = "denied"] /\ Fails
     \/ /\ peer' = [peer EXCEPT !.stage = "accepted"]
        /\ IF LayerSuffices THEN Linked ELSE Fails
  /\ UNCHANGED options

NoTimeout == FALSE /\ UNCHANGED linkVars

\* The handshake timeout, a lost transport, a malformed answer or an error of
\* the Kerberos library.
LinkTimesOut ==
  /\ link.stage \notin {"idle", "linked", "failed", "broken"}
  /\ Fails
  /\ UNCHANGED <<options, peer>>

LinkNext ==
  \/ StartLink \/ ServerReplies \/ ChooseAuthentication \/ Ticket
  \/ PickMechanism \/ WriteStep \/ ReadStep
  \/ EstablishContext \/ NegotiateLayer \/ CompleteGssapi
  \/ SaslResult \/ LinkTimesOut

\* Timers run; nothing is assumed of the server.
LinkFairness == WF_linkVars(LinkTimesOut)
-----------------------------------------------------------------------------
\* Types.
LinkTypeOK ==
  /\ link.stage \in {"idle", "reply", "ticket", "mechanisms", "write", "read", "result", "linked", "failed", "broken"}
  /\ link.framing \in {"none", "mini", "full"} /\ peer.framing \in {"none", "mini", "full"}
  /\ peer.heard \in Nat

\* A linked channel is one the server accepted, and both sides frame and
\* protect what follows in the same way.
SidesAgree ==
  link.stage = "linked" =>
    /\ peer.stage = "accepted"
    /\ link.framing = peer.framing
    /\ link.codec = peer.layer

\* docs/protocol-design.md: on plain TCP a SASL session has a security layer;
\* it is the confidential one if the server offers that.
LayerWhenRequired ==
  link.stage = "linked" /\ options.plainTcp /\ link.phase # "none" =>
    /\ link.codec # "none"
    /\ "confidentiality" \in peer.context.layers => link.codec = "confidentiality"

\* With a server that goes by the mechanism the client breaks off the exchange in
\* two cases only: a mechanism whose last step, an answer to the server, has
\* output (LOGIN) is refused as continued, and a GSSAPI server that offers layers
\* as well as none is refused for its maximum size when none is selected.
NoFalseBreak ==
  link.stage = "broken" =>
    \/ link.phase = "rsasl" /\ ~peer.mechanism.quiet /\ ~(peer.mechanism.first /\ peer.mechanism.steps = 1)
    \/ link.phase = "layer" /\ ~options.plainTcp /\ "none" \in peer.context.layers /\ Sized(peer.context.layers)

\* A link attempt ends, whatever the server does.
LinkEnds == (link.stage \notin {"idle", "linked", "failed", "broken"}) 
              ~> (link.stage \in {"linked", "failed", "broken"})

(* With every server that follows the protocol, a link that comes up has   *)
(* the same framing and layer at both ends and the layer that was asked    *)
(* for, and the client breaks off no exchange but those with LOGIN and     *)
(* with a GSSAPI server that leaves the layer to the client.               *)
LinkSound ==
  LinkTypeOK /\ SidesAgree /\ LayerWhenRequired /\ NoFalseBreak
=============================================================================
