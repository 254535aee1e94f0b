-------------------------- MODULE StreamManagement --------------------------
(***************************************************************************)
(* xep.StreamManagement (XEP-0198): Enable, the counters and the queue of  *)
(* unacknowledged stanzas that event handlers keep, acknowledgements, and  *)
(* resumption after the connection is lost.                                *)
(*                                                                         *)
(* Send writes a stanza and only then emits sent_stanza, whose handler     *)
(* enters it into the queue: two steps, between which others send, the     *)
(* reader runs, and Enable completes.  After a loss the application calls  *)
(* Connect again on the same Client, which binds a resource and sends      *)
(* presence, and stanzas pass in both directions, before it can send       *)
(* <resume/>; state.Enabled has stayed true.                               *)
(*                                                                         *)
(* The server is a correct one: it counts from <enable/> on, and only what *)
(* passes on a stream of the managed session, acknowledges what it has     *)
(* handled, and resumes the session or refuses to.  What it may send again *)
(* after resumption is any other stanza here.                              *)
(* Counters are uint32, here modulo Modulus.                               *)
(***************************************************************************)
EXTENDS Naturals, Sequences, SequencesExt, FiniteSets

CONSTANTS
    Senders,   \* goroutines that call Send
    Modulus,   \* 2^32 in the code
    MaxSend,   \* bound: stanzas the client sends, and of those the server sends
    MaxServer, \* bound: what the server sends of its own accord
    MaxDrops   \* bound: lost connections

ASSUME ModulusAssumption == Modulus \in Nat \ {0}
ASSUME BoundsAssumption == MaxSend \in Nat /\ MaxServer \in Nat /\ MaxDrops \in Nat

VARIABLES
    enabled, inbound, outbound, acked, unacked,  \* SMState and StreamManagement.unacked
    enabling,  \* Enable: "idle", "sent", "got" (its channel is filled) or "over"
    holds,     \* what each sender has written and not yet recorded; 0 is nothing
    toServer, toClient,  \* elements under way
    stream,    \* "up", "down", "new" (connected again) or "resuming" (<resume/> is sent)
    counting,  \* server: stream management is on
    managed,   \* server: the stream is one of the managed session
    handled,   \* server: stanzas handled since, in the order they came
    taken,     \* server: all stanzas it received
    given,     \* server: stanzas sent since on streams of the session
    strays,    \* server: stanzas sent since on streams that were not resumed by then
    counted,   \* history: inbound without the wrap
    recorded,  \* history: stanzas that entered the queue
    replay,    \* what the application has still to send again after resumption
    orderly,   \* history: no Send overlapped another Send, Enable or a <resume/> and its answer
    nextStanza, nextServer, drops

smVars == <<enabled, inbound, outbound, acked, unacked>>
serverVars == <<counting, managed, handled, taken, given, strays>>
bounds == <<nextStanza, nextServer, drops>>
vars == <<smVars, enabling, holds, toServer, toClient, stream, serverVars, counted, recorded,
          replay, orderly, bounds>>

Stanzas == 1..MaxSend
Element == [kind : {"enable", "enabled", "failed", "stanza", "r", "a", "resume", "resumed"}, n : Nat]
El(kind, n) == [kind |-> kind, n |-> n]

TypeOK ==
    /\ enabled \in BOOLEAN
    /\ inbound \in 0..(Modulus - 1) /\ outbound \in 0..(Modulus - 1) /\ acked \in 0..(Modulus - 1)
    /\ unacked \in Seq(Stanzas)
    /\ enabling \in {"idle", "sent", "got", "over"}
    /\ holds \in [Senders -> {0} \cup Stanzas]
    /\ toServer \in Seq(Element) /\ toClient \in Seq(Element)
    /\ stream \in {"up", "down", "new", "resuming"}
    /\ counting \in BOOLEAN /\ managed \in BOOLEAN /\ handled \in Seq(Stanzas)
    /\ taken \subseteq Stanzas /\ given \in Nat /\ strays \in Nat
    /\ counted \in Nat /\ recorded \subseteq Stanzas /\ replay \in Seq(Stanzas) /\ orderly \in BOOLEAN
    /\ nextStanza \in 1..(MaxSend + 1) /\ nextServer \in 0..MaxServer /\ drops \in 0..MaxDrops

Init ==
    /\ enabled = FALSE /\ inbound = 0 /\ outbound = 0 /\ acked = 0 /\ unacked = <<>>
    /\ enabling = "idle" /\ holds = [s \in Senders |-> 0]
    /\ toServer = <<>> /\ toClient = <<>> /\ stream = "up"
    /\ counting = FALSE /\ managed = TRUE /\ handled = <<>> /\ taken = {}
    /\ given = 0 /\ strays = 0
    /\ counted = 0 /\ recorded = {} /\ replay = <<>> /\ orderly = TRUE
    /\ nextStanza = 1 /\ nextServer = 0 /\ drops = 0

-----------------------------------------------------------------------------
(* Client.Send and the sent_stanza handler. *)

\* A stanza is on the wire: after resumption one that is to be sent again first, else a
\* new one, Connect's presence among them.
SendWrite(s) ==
    /\ stream # "down" /\ holds[s] = 0
    /\ \/ /\ stream = "up" /\ replay # <<>>
          /\ holds' = [holds EXCEPT ![s] = Head(replay)]
          /\ replay' = Tail(replay)
          /\ UNCHANGED nextStanza
       \/ /\ stream = "up" => replay = <<>>
          /\ nextStanza <= MaxSend
          /\ holds' = [holds EXCEPT ![s] = nextStanza]
          /\ nextStanza' = nextStanza + 1
          /\ UNCHANGED replay
    /\ toServer' = Append(toServer, El("stanza", holds'[s]))
    /\ orderly' = (/\ orderly /\ enabling \notin {"sent", "got"} /\ stream # "resuming"
                   /\ \A x \in Senders : holds[x] = 0)
    /\ UNCHANGED <<smVars, enabling, toClient, stream, serverVars, counted, recorded, nextServer,
                   drops>>

\* onSent: counted and queued, if stream management is enabled by now.
OnSent(s) ==
    /\ holds[s] # 0
    /\ IF enabled THEN /\ outbound' = (outbound + 1) % Modulus
                       /\ unacked' = Append(unacked, holds[s])
                       /\ recorded' = recorded \cup {holds[s]}
                  ELSE UNCHANGED <<outbound, unacked, recorded>>
    /\ holds' = [holds EXCEPT ![s] = 0]
    /\ UNCHANGED <<enabled, inbound, acked, enabling, toServer, toClient, stream, serverVars,
                   counted, replay, orderly, bounds>>

-----------------------------------------------------------------------------
(* Enable, in the goroutine of the application. *)

\* Counting begins with the request.
EnableSendEager ==
    /\ enabling = "idle" /\ stream = "up"
    /\ enabling' = "sent"
    /\ enabled' = TRUE
    /\ toServer' = Append(toServer, El("enable", 0))
    /\ orderly' = (orderly /\ \A s \in Senders : holds[s] = 0)
    /\ UNCHANGED <<inbound, outbound, acked, unacked, holds, toClient, stream, serverVars, counted,
                   recorded, replay, bounds>>

EnableSend ==
    /\ enabling = "idle" /\ stream = "up"
    /\ enabling' = "sent"
    /\ toServer' = Append(toServer, El("enable", 0))
    /\ orderly' = (orderly /\ \A s \in Senders : holds[s] = 0)
    /\ UNCHANGED <<smVars, holds, toClient, stream, serverVars, counted, recorded, replay, bounds>>

\* The reply is taken from the channel: everything is reset and counting begins.
EnableTake ==
    /\ enabling = "got"
    /\ enabling' = "over"
    /\ enabled' = TRUE /\ inbound' = 0 /\ outbound' = 0 /\ acked' = 0 /\ unacked' = <<>>
    /\ counted' = 0 /\ recorded' = {}
    /\ UNCHANGED <<holds, toServer, toClient, stream, serverVars, replay, orderly, bounds>>

\* The context ends or the client closes first; the subscription is gone.
EnableGivesUp ==
    /\ enabling \in {"sent", "got"}
    /\ enabling' = "over"
    /\ UNCHANGED <<smVars, holds, toServer, toClient, stream, serverVars, counted, recorded,
                   replay, orderly, bounds>>

-----------------------------------------------------------------------------
(* The reader: received_stanza and stream_element. *)

Read(kind) == toClient # <<>> /\ Head(toClient).kind = kind /\ toClient' = Tail(toClient)

OnReceived ==
    /\ Read("stanza")
    /\ IF enabled THEN inbound' = (inbound + 1) % Modulus /\ counted' = counted + 1
                  ELSE UNCHANGED <<inbound, counted>>
    /\ UNCHANGED <<enabled, outbound, acked, unacked, enabling, holds, toServer, stream,
                   serverVars, recorded, replay, orderly, bounds>>

\* <enabled/> and <failed/> go to Enable, if it still waits; sm_failed tells the
\* application that it may not resume.
OnEnabled ==
    /\ Read("enabled")
    /\ enabling' = IF enabling = "sent" THEN "got" ELSE enabling
    /\ UNCHANGED <<smVars, holds, toServer, stream, serverVars, counted, recorded, replay, orderly, bounds>>

OnFailed ==
    /\ Read("failed")
    /\ enabling' = IF enabling = "sent" THEN "over" ELSE enabling
    /\ stream' = IF stream = "resuming" THEN "new" ELSE stream
    /\ UNCHANGED <<smVars, holds, toServer, serverVars, counted, recorded, replay, orderly, bounds>>

\* <r/>: the count so far, if there is one.
OnRequest ==
    /\ Read("r")
    /\ toServer' = IF enabled THEN Append(toServer, El("a", inbound)) ELSE toServer
    /\ UNCHANGED <<smVars, enabling, holds, stream, serverVars, counted, recorded, replay, orderly, bounds>>

\* As many as were handled in all are taken off the queue.
ApplyAckTotal(h) ==
    LET delta == IF h > Len(unacked) THEN Len(unacked) ELSE h
    IN /\ unacked' = SubSeq(unacked, delta + 1, Len(unacked))
       /\ acked' = h

\* applyAck: what was handled since the last acknowledgement, by unsigned subtraction,
\* is taken off the queue, at most all of it.
ApplyAck(h) ==
    LET since == (h + Modulus - acked) % Modulus
        delta == IF since > Len(unacked) THEN Len(unacked) ELSE since
    IN /\ unacked' = SubSeq(unacked, delta + 1, Len(unacked))
       /\ acked' = h

OnAck ==
    /\ Read("a")
    /\ ApplyAck(Head(toClient).n)
    /\ UNCHANGED <<enabled, inbound, outbound, enabling, holds, toServer, stream, serverVars,
                   counted, recorded, replay, orderly, bounds>>

\* sm_resumed gives the application the queue, which it sends again.
OnResumed ==
    /\ Read("resumed")
    /\ ApplyAck(Head(toClient).n)
    /\ enabled' = TRUE
    /\ stream' = "up" /\ replay' = unacked'
    /\ UNCHANGED <<inbound, outbound, enabling, holds, toServer, serverVars, counted, recorded,
                   orderly, bounds>>

-----------------------------------------------------------------------------
(* The connection is lost; the application connects again and resumes. *)

Drop ==
    /\ stream # "down" /\ enabled /\ drops < MaxDrops
    /\ stream' = "down" /\ managed' = FALSE /\ drops' = drops + 1
    /\ toServer' = <<>> /\ toClient' = <<>>
    /\ UNCHANGED <<smVars, enabling, holds, counting, handled, taken, given, strays, counted,
                   recorded, replay, orderly, nextStanza, nextServer>>

\* Connect: the reader runs on a stream that the server does not know as the session's.
Reconnect ==
    /\ stream = "down"
    /\ stream' = "new"
    /\ UNCHANGED <<smVars, enabling, holds, toServer, toClient, serverVars, counted, recorded,
                   replay, orderly, bounds>>

\* ResumeNode with the ID and count of SMState.
Resume ==
    /\ stream = "new"
    /\ stream' = "resuming"
    /\ toServer' = Append(toServer, El("resume", inbound))
    /\ orderly' = (orderly /\ \A s \in Senders : holds[s] = 0)
    /\ UNCHANGED <<smVars, enabling, holds, toClient, serverVars, counted, recorded, replay,
                   bounds>>

-----------------------------------------------------------------------------
(* The server. *)

ServerTakes ==
    /\ toServer # <<>>
    /\ toServer' = Tail(toServer)
    /\ LET m == Head(toServer)
       IN CASE m.kind = "enable" ->
                 \/ /\ counting' = TRUE
                    /\ toClient' = Append(toClient, El("enabled", 0))
                    /\ UNCHANGED <<managed, handled, taken, given, strays>>
                 \/ /\ toClient' = Append(toClient, El("failed", 0))
                    /\ UNCHANGED serverVars
            [] m.kind = "stanza" ->
                 /\ handled' = IF counting /\ managed THEN Append(handled, m.n) ELSE handled
                 /\ taken' = taken \cup {m.n}
                 /\ UNCHANGED <<counting, managed, given, strays, toClient>>
            [] m.kind = "resume" ->
                 \/ /\ m.n \in {g % Modulus : g \in 0..given}  \* not more than it sent
                    /\ managed' = TRUE
                    /\ toClient' = Append(toClient, El("resumed", Len(handled) % Modulus))
                    /\ UNCHANGED <<counting, handled, taken, given, strays>>
                 \/ /\ toClient' = Append(toClient, El("failed", 0))
                    /\ UNCHANGED serverVars
            [] OTHER -> UNCHANGED <<serverVars, toClient>>
    /\ UNCHANGED <<smVars, enabling, holds, stream, counted, recorded, replay, orderly, bounds>>

\* A stanza of its own, on any stream, or in the session a request for a count or an
\* acknowledgement.
ServerSends ==
    /\ stream # "down" /\ nextServer < MaxServer
    /\ nextServer' = nextServer + 1
    /\ \/ /\ toClient' = Append(toClient, El("stanza", 0))
          /\ given' = IF counting /\ managed THEN given + 1 ELSE given
          /\ strays' = IF counting /\ ~managed THEN strays + 1 ELSE strays
       \/ /\ counting /\ managed
          /\ \E m \in {El("r", 0), El("a", Len(handled) % Modulus)} : toClient' = Append(toClient, m)
          /\ UNCHANGED <<given, strays>>
    /\ UNCHANGED <<smVars, enabling, holds, toServer, stream, counting, managed, handled, taken,
                   counted, recorded, replay, orderly, nextStanza, drops>>

-----------------------------------------------------------------------------
Next ==
    \/ \E s \in Senders : SendWrite(s) \/ OnSent(s)
    \/ EnableSend \/ EnableTake \/ EnableGivesUp
    \/ OnReceived \/ OnEnabled \/ OnFailed \/ OnRequest \/ OnAck \/ OnResumed
    \/ Drop \/ Reconnect \/ Resume \/ ServerTakes \/ ServerSends

Spec == Init /\ [][Next]_vars

-----------------------------------------------------------------------------
(* Properties. *)

\* "retains the unacknowledged stanza queue" (docs/stateful-xeps.md:76): what was
\* queued and the server has not handled is in the queue, to be sent again.
UnackedRetained == \A n \in recorded : n \in taken \/ n \in ToSet(unacked)

\* It is, through acknowledgements that are late, wrapped, repeated or overtaken by
\* the stanzas' own bookkeeping, through losses, what is sent on the streams in between,
\* and resumption granted or refused, as long as no two Sends, no Send and Enable, and no
\* Send and a <resume/> that is not answered overlap (client_control.go:316-328, 375-386).
OrderlyRetained == orderly => UnackedRetained

\* The count that <a/> and <resume/> report never exceeds what the server sent after
\* <enabled/>, although Enable turns counting on in a goroutine of its own
\* (client_control.go:282-293, 329-336, 344-351).  What it sent includes the strays of
\* streams that were not yet resumed: onReceived counts them like those of the session, as
\* Enabled outlives the connection, and the session that <resume/> brings back reports
\* them.  Before the first loss there are none, and the count is at most the session's own.
NotOverstated == inbound = counted % Modulus /\ counted <= given + strays
=============================================================================
