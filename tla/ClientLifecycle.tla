--------------------------- MODULE ClientLifecycle ---------------------------
(***************************************************************************)
(* The life of one xmpp.Client: Connect, the reader and keepalive          *)
(* goroutines it starts, Close, and finish, which either the reader or a   *)
(* Close reaches first.  Negotiation (TLS, SASL, binding) is one step here *)
(* that succeeds or fails; module Negotiation has its inside.              *)
(*                                                                         *)
(* A critical section of stateMu is one step.  The application calls Close *)
(* at any time, also while a Connect is under way (raced remembers that).  *)
(* It makes one Connect at a time, and none after the session has ended or *)
(* Close was called: doneOnce and the channels of a Client serve once.     *)
(***************************************************************************)
EXTENDS Naturals, Sequences

CONSTANTS
    Connects,     \* calls of Connect, each of which dials a transport of its own
    Closes,       \* calls of Close by the application
    Hooks,        \* those of them that a subscriber of session_end or disconnected makes
    NoConn,       \* a nil net.Conn
    KeepAlive,    \* Config.KeepAlive > 0
    AutoPresence, \* Config.AutoPresence
    CanStall,     \* the peer may stop reading, so that a write does not return
    MaxTicks      \* bound: keepalive writes

ASSUME NoConnAssumption == NoConn \notin Connects
ASSUME DisjointAssumption == Connects \cap Closes = {}
ASSUME HooksAssumption == Hooks \subseteq Closes
ASSUME OptionsAssumption == /\ {KeepAlive, AutoPresence, CanStall} \subseteq BOOLEAN
                            /\ MaxTicks \in Nat

VARIABLES
    cpc,       \* where each Connect stands
    xpc,       \* where each Close stands
    captured,  \* the connection each Close read under stateMu
    rpc,       \* the reader goroutine of each Connect
    kpc,       \* the keepalive goroutine of each Connect
    sock,      \* each transport: "none", "open" or "closed" by this side
    over,      \* the transports whose stream the peer has ended
    conn, connected, closing, \* of Client, under stateMu
    done,      \* Client.done is closed
    once,      \* Client.doneOnce: "free", "running" or "spent"
    kaDone,    \* Client.keepaliveDone is closed
    events,    \* lifecycle events, in the order they were emitted
    ticks,     \* keepalive writes so far
    stuck,     \* a write that does not return holds writeMu
    raced      \* history: Close was called while a Connect was under way

client == <<conn, connected, closing, done, once, kaDone>>
vars == <<cpc, xpc, captured, rpc, kpc, sock, over, client, events, ticks, stuck, raced>>

\* finishConnect itself calls Close when the initial presence cannot be sent.
Closers == Closes \cup Connects

\* The places of finish, which the reader and Close share.
FinishPlaces == {"finish", "body", "emit", "ended", "gone", "returned"}

TypeOK ==
    /\ cpc \in [Connects -> {"idle", "dial", "negotiate", "fail", "finish", "mark", "start",
                             "emit", "presence", "closing", "ok", "failed"}]
    /\ xpc \in [Closers -> {"idle", "wait", "plugins", "transport"} \cup FinishPlaces]
    /\ captured \in [Closers -> Connects \cup {NoConn}]
    /\ rpc \in [Connects -> {"none", "read"} \cup FinishPlaces]
    /\ kpc \in [Connects -> {"none", "tick", "write", "stopped"}]
    /\ sock \in [Connects -> {"none", "open", "closed"}]
    /\ over \subseteq Connects
    /\ conn \in Connects \cup {NoConn}
    /\ connected \in BOOLEAN /\ closing \in BOOLEAN /\ done \in BOOLEAN /\ kaDone \in BOOLEAN
    /\ once \in {"free", "running", "spent"}
    /\ events \in Seq({"connected", "session_start", "session_end", "disconnected"})
    /\ ticks \in 0..MaxTicks
    /\ stuck \in BOOLEAN /\ raced \in BOOLEAN

Init ==
    /\ cpc = [k \in Connects |-> "idle"]
    /\ xpc = [x \in Closers |-> "idle"]
    /\ captured = [x \in Closers |-> NoConn]
    /\ rpc = [k \in Connects |-> "none"] /\ kpc = [k \in Connects |-> "none"]
    /\ sock = [k \in Connects |-> "none"] /\ over = {}
    /\ conn = NoConn /\ connected = FALSE /\ closing = FALSE
    /\ done = FALSE /\ once = "free" /\ kaDone = FALSE
    /\ events = <<>> /\ ticks = 0 /\ stuck = FALSE /\ raced = FALSE

CGoto(k, to) == cpc' = [cpc EXCEPT ![k] = to]
XGoto(x, to) == xpc' = [xpc EXCEPT ![x] = to]
Connecting == \E k \in Connects : cpc[k] \notin {"idle", "ok", "failed"}

-----------------------------------------------------------------------------
(* Connect. *)

\* Refused while there is a connection; otherwise dials, with stateMu released.
ConnectEnter(k) ==
    /\ cpc[k] = "idle"
    /\ CGoto(k, IF connected \/ conn # NoConn THEN "failed" ELSE "dial")
    /\ ~Connecting
    /\ ~closing /\ once = "free"
    /\ UNCHANGED <<xpc, captured, rpc, kpc, sock, over, client, events, ticks, stuck, raced>>

\* The dial fails, or setConn stores the new transport.
DialFails(k) ==
    /\ cpc[k] = "dial"
    /\ CGoto(k, "failed")
    /\ UNCHANGED <<xpc, captured, rpc, kpc, sock, over, client, events, ticks, stuck, raced>>

Dial(k) ==
    /\ cpc[k] = "dial"
    /\ sock' = [sock EXCEPT ![k] = "open"]
    /\ conn' = k
    /\ CGoto(k, "negotiate")
    /\ UNCHANGED <<xpc, captured, rpc, kpc, over, connected, closing, done, once, kaDone,
                   events, ticks, stuck, raced>>

\* openAndReadFeatures to the legacy session, all of it on c.conn.
Negotiated(k) ==
    /\ cpc[k] = "negotiate" /\ conn = k /\ sock[k] = "open"
    /\ CGoto(k, "finish")
    /\ UNCHANGED <<xpc, captured, rpc, kpc, sock, over, client, events, ticks, stuck, raced>>

NegotiationFails(k) ==
    /\ cpc[k] = "negotiate"
    /\ CGoto(k, "fail")
    /\ UNCHANGED <<xpc, captured, rpc, kpc, sock, over, client, events, ticks, stuck, raced>>

\* The connection stays in the client.
FailConnectKeeps(k) ==
    /\ cpc[k] = "fail"
    /\ sock' = [sock EXCEPT ![k] = "closed"]
    /\ CGoto(k, "failed")
    /\ UNCHANGED <<xpc, captured, rpc, kpc, over, client, events, ticks, stuck, raced>>

\* failConnect: closes the transport and clears the connection.  Its argument is
\* the dialled connection or, after TLS, the client's current one (possibly nil).
FailConnect(k) ==
    /\ cpc[k] = "fail"
    /\ \E victim \in {k, conn} :
          sock' = IF victim = NoConn THEN sock ELSE [sock EXCEPT ![victim] = "closed"]
    /\ conn' = NoConn /\ connected' = FALSE
    /\ CGoto(k, "failed")
    /\ UNCHANGED <<xpc, captured, rpc, kpc, over, closing, done, once, kaDone, events, ticks,
                   stuck, raced>>

\* finishConnect, in the order of its statements.
FinishConnect(k) ==
    /\ cpc[k] = "finish"
    /\ CGoto(k, IF conn = NoConn THEN "failed" ELSE "mark")
    /\ UNCHANGED <<xpc, captured, rpc, kpc, sock, over, client, events, ticks, stuck, raced>>

MarkConnected(k) ==
    /\ cpc[k] = "mark"
    /\ connected' = TRUE
    /\ CGoto(k, "start")
    /\ UNCHANGED <<xpc, captured, rpc, kpc, sock, over, conn, closing, done, once, kaDone,
                   events, ticks, stuck, raced>>

StartGoroutines(k) ==
    /\ cpc[k] = "start"
    /\ rpc' = [rpc EXCEPT ![k] = "read"]
    /\ kpc' = [kpc EXCEPT ![k] = IF KeepAlive THEN "tick" ELSE "none"]
    /\ CGoto(k, "emit")
    /\ UNCHANGED <<xpc, captured, sock, over, client, events, ticks, stuck, raced>>

EmitStart(k) ==
    /\ cpc[k] = "emit"
    /\ events' = events \o <<"connected", "session_start">>
    /\ CGoto(k, IF AutoPresence THEN "presence" ELSE "ok")
    /\ UNCHANGED <<xpc, captured, rpc, kpc, sock, over, client, ticks, stuck, raced>>

\* The initial presence is written, or the write fails and the client is closed.
SendPresence(k) ==
    /\ cpc[k] = "presence" /\ ~stuck /\ conn # NoConn /\ sock[conn] = "open"
    /\ CGoto(k, "ok")
    /\ UNCHANGED <<xpc, captured, rpc, kpc, sock, over, client, events, ticks, stuck, raced>>

PresenceFails(k) ==
    /\ cpc[k] = "presence" /\ ~stuck
    /\ conn = NoConn \/ (conn # NoConn /\ (conn \in over \/ sock[conn] = "closed"))
    /\ CGoto(k, "closing")
    /\ UNCHANGED <<xpc, captured, rpc, kpc, sock, over, client, events, ticks, stuck, raced>>

ConnectClosed(k) ==
    /\ cpc[k] = "closing" /\ xpc[k] = "returned"
    /\ CGoto(k, "failed")
    /\ UNCHANGED <<xpc, captured, rpc, kpc, sock, over, client, events, ticks, stuck, raced>>

-----------------------------------------------------------------------------
(* finish: the body of doneOnce runs in the first goroutine that arrives; the *)
(* others wait for it to end.                                                 *)

\* Connected() is not reset.
FinishBodyKeeps == /\ once = "free" /\ once' = "running"
                   /\ conn' = NoConn
                   /\ UNCHANGED <<connected, closing, kaDone, done>>

FinishBody == /\ once = "free" /\ once' = "running"
              /\ connected' = FALSE /\ conn' = NoConn
              /\ UNCHANGED <<closing, kaDone, done>>

\* done stays open when the session ends.
FinishDoneOpen == UNCHANGED client

FinishDone == /\ done' = TRUE
              /\ UNCHANGED <<conn, connected, closing, once, kaDone>>

\* Subscribers run in the goroutine of the body, and what they call must return first.
SubscribersDone == \A h \in Hooks : xpc[h] \in {"idle", "returned"}

\* What finish does in a goroutine at place at, which it leaves for place to.
Finish(at, to) ==
    \/ at = "finish" /\ to = "body" /\ FinishBody /\ UNCHANGED events
    \/ at = "body" /\ to = "emit" /\ FinishDone /\ UNCHANGED events
    \/ at = "emit" /\ to = "ended"
       /\ events' = Append(events, "session_end") /\ UNCHANGED client
    \/ at = "ended" /\ to = "gone" /\ SubscribersDone
       /\ events' = Append(events, "disconnected") /\ UNCHANGED client
    \/ at = "gone" /\ to = "returned" /\ SubscribersDone /\ once' = "spent"
       /\ UNCHANGED <<conn, connected, closing, done, kaDone, events>>
    \/ at = "finish" /\ to = "returned" /\ once = "spent" /\ UNCHANGED <<client, events>>

\* The places in which the body has emitted and its subscribers run.
Emitting == \/ \E k \in Connects : rpc[k] \in {"ended", "gone"}
            \/ \E x \in Closers : xpc[x] \in {"ended", "gone"}

-----------------------------------------------------------------------------
(* Close. *)

\* The application calls Close in a goroutine of its own or, in a subscriber, in the
\* one that runs the body of doneOnce.  Tests and sets closing, and reads the
\* connection, under stateMu.
CloseEnter(x) ==
    /\ xpc[x] = "idle" /\ (x \in Hooks => Emitting)
    /\ IF x \in Connects THEN cpc[x] = "closing" /\ UNCHANGED raced
                         ELSE raced' = (raced \/ Connecting)
    /\ IF closing THEN /\ XGoto(x, "wait")
                       /\ UNCHANGED <<captured, closing>>
                  ELSE /\ XGoto(x, "plugins")
                       /\ captured' = [captured EXCEPT ![x] = conn]
                       /\ closing' = TRUE
    /\ UNCHANGED <<cpc, rpc, kpc, sock, over, conn, connected, done, once, kaDone, events, ticks, stuck>>

\* A second Close waits for done, not for the first Close to return.
CloseWait(x) ==
    /\ xpc[x] = "wait" /\ done
    /\ XGoto(x, "returned")
    /\ UNCHANGED <<cpc, captured, rpc, kpc, sock, over, client, events, ticks, stuck, raced>>

\* keepaliveDone is closed and the plugins are shut down (module Plugins).
ClosePlugins(x) ==
    /\ xpc[x] = "plugins"
    /\ kaDone' = TRUE
    /\ XGoto(x, "transport")
    /\ UNCHANGED <<cpc, captured, rpc, kpc, sock, over, conn, connected, closing, done, once,
                   events, ticks, stuck, raced>>

\* </stream:stream> is written, with whatever result, and the transport closed.
CloseTransport(x) ==
    /\ xpc[x] = "transport" /\ (captured[x] = NoConn \/ ~stuck)
    /\ sock' = IF captured[x] = NoConn THEN sock ELSE [sock EXCEPT ![captured[x]] = "closed"]
    /\ XGoto(x, "finish")
    /\ UNCHANGED <<cpc, captured, rpc, kpc, over, client, events, ticks, stuck, raced>>

\* finish without the sync.Once.
CloseFinishAgain(x) ==
    /\ xpc[x] = "finish"
    /\ events' = events \o <<"session_end", "disconnected">>
    /\ once' = "spent"
    /\ connected' = FALSE /\ conn' = NoConn /\ done' = TRUE
    /\ XGoto(x, "returned")
    /\ UNCHANGED <<cpc, captured, rpc, kpc, sock, over, closing, kaDone, ticks, stuck, raced>>

CloseFinish(x) ==
    \E to \in FinishPlaces :
        /\ Finish(xpc[x], to)
        /\ XGoto(x, to)
        /\ UNCHANGED <<cpc, captured, rpc, kpc, sock, over, ticks, stuck, raced>>

-----------------------------------------------------------------------------
(* readLoop and keepaliveLoop. *)

\* The peer ends the stream, reports a stream error, or goes away.
PeerEnds(k) ==
    /\ sock[k] = "open" /\ k \notin over
    /\ over' = over \cup {k}
    /\ UNCHANGED <<cpc, xpc, captured, rpc, kpc, sock, client, events, ticks, stuck, raced>>

\* The reader's deferred finish leaves connected as it is.
ReadEndSilent(k) ==
    /\ rpc[k] = "read" /\ (k \in over \/ sock[k] = "closed")
    /\ rpc' = [rpc EXCEPT ![k] = "returned"]
    /\ UNCHANGED <<cpc, xpc, captured, kpc, sock, over, client, events, ticks, stuck, raced>>

\* The read returns an error, or a stream error was read: readLoop returns.
ReadEnd(k) ==
    /\ rpc[k] = "read" /\ (k \in over \/ sock[k] = "closed")
    /\ rpc' = [rpc EXCEPT ![k] = "finish"]
    /\ UNCHANGED <<cpc, xpc, captured, kpc, sock, over, client, events, ticks, stuck, raced>>

ReadFinish(k) ==
    \E to \in FinishPlaces :
        /\ Finish(rpc[k], to)
        /\ rpc' = [rpc EXCEPT ![k] = to]
        /\ UNCHANGED <<cpc, xpc, captured, kpc, sock, over, ticks, stuck, raced>>

\* The peer of a session stops reading, and a write of any goroutine fills the buffers:
\* it has no deadline after finishConnect and does not return.  Only Close would close
\* the transport, and it writes first.
WriteStalls(k) ==
    /\ CanStall /\ ~stuck /\ conn = k /\ sock[k] = "open" /\ rpc[k] # "none"
    /\ stuck' = TRUE
    /\ UNCHANGED <<cpc, xpc, captured, rpc, kpc, sock, over, client, events, ticks, raced>>

\* A tick writes a blank: it fails without a connection or on a closed one, may fail
\* once the peer is gone, and a failure ends the goroutine; or it waits for writeMu.
Tick(k) ==
    /\ kpc[k] = "tick" /\ ticks < MaxTicks
    /\ ticks' = ticks + 1
    /\ LET dead == conn = NoConn \/ (conn # NoConn /\ sock[conn] = "closed")
           mayFail == dead \/ (conn # NoConn /\ conn \in over)
       IN \/ ~stuck /\ mayFail /\ kpc' = [kpc EXCEPT ![k] = "stopped"]
          \/ ~stuck /\ ~dead /\ UNCHANGED kpc
          \/ stuck /\ kpc' = [kpc EXCEPT ![k] = "write"]
    /\ UNCHANGED <<cpc, xpc, captured, rpc, sock, over, client, events, stuck, raced>>

\* keepaliveDone or done is closed.
KeepaliveStop(k) ==
    /\ kpc[k] = "tick" /\ (kaDone \/ done)
    /\ kpc' = [kpc EXCEPT ![k] = "stopped"]
    /\ UNCHANGED <<cpc, xpc, captured, rpc, sock, over, client, events, ticks, stuck, raced>>

-----------------------------------------------------------------------------
ConnectStep(k) ==
    \/ DialFails(k) \/ Dial(k) \/ Negotiated(k) \/ NegotiationFails(k) \/ FailConnect(k)
    \/ FinishConnect(k) \/ MarkConnected(k) \/ StartGoroutines(k) \/ EmitStart(k)
    \/ SendPresence(k) \/ PresenceFails(k) \/ ConnectClosed(k)

CloseStep(x) == CloseWait(x) \/ ClosePlugins(x) \/ CloseTransport(x) \/ CloseFinish(x)

Next ==
    \/ \E k \in Connects : \/ ConnectEnter(k) \/ ConnectStep(k) \/ PeerEnds(k)
                           \/ ReadEnd(k) \/ ReadFinish(k) \/ WriteStalls(k) \/ Tick(k) \/ KeepaliveStop(k)
    \/ \E x \in Closers : CloseEnter(x) \/ CloseStep(x)

Spec == Init /\ [][Next]_vars

\* Goroutines are scheduled; a write returns unless it is stuck.  Nothing is assumed of
\* the application (ConnectEnter, CloseEnter by Closes), the peer or the keepalive clock.
FairSpec == /\ Spec
            /\ \A k \in Connects : /\ WF_vars(ConnectStep(k))
                                   /\ WF_vars(ReadEnd(k) \/ ReadFinish(k))
                                   /\ WF_vars(KeepaliveStop(k))
                                   /\ WF_vars(CloseEnter(k))
            /\ \A x \in Closers : WF_vars(CloseStep(x))

-----------------------------------------------------------------------------
(* Properties. *)

\* Unless Close raced Connect, a client never says Connected() without a connection
\* or after done was closed (client.go:180-211, 592-604): finishConnect, failConnect
\* and finish keep the three in step although they run in different goroutines.
ConnectedIsLive == ~raced /\ connected => conn # NoConn /\ ~done

\* A Connect that fails before its session starts leaves no connection in the client
\* and no open transport, so that Connect may be called again (client.go:107,
\* 205-211); again unless Close raced it, when failConnect may find a nil connection.
FailedConnectClean ==
    \A k \in Connects : ~raced /\ cpc[k] = "failed" /\ rpc[k] = "none" =>
        conn # k /\ sock[k] # "open"

\* However Close, the reader and further Closes race, each of session_end and
\* disconnected is emitted at most once, in that order (client.go:593-602).
EndsOnce ==
    LET at(e) == {i \in DOMAIN events : events[i] = e}
    IN \/ at("session_end") = {} /\ at("disconnected") = {}
       \/ \E i \in DOMAIN events : /\ at("session_end") = {i}
                                  /\ \/ at("disconnected") = {}
                                     \/ \E j \in DOMAIN events : i < j /\ at("disconnected") = {j}

\* A subscriber's Close has come to the doneOnce whose body called it, and waits for
\* itself: no Close came before it, so it was not turned away by closing.
Reentered(x) == x \in Hooks /\ xpc[x] = "finish"

\* Every Close returns (client.go:562-588), also when it races another Close or the end
\* of the stream, or is called by a subscriber while another Close is under way.  Two
\* cases are left out, in which the code does hang: a write is stuck, and the Close in
\* question is the first one and is called by a subscriber of session_end or
\* disconnected (client.go:601-602); the Closes of others return in that case too.
CloseReturns ==
    \A x \in Closers : (xpc[x] # "idle") ~> (xpc[x] = "returned" \/ stuck \/ Reentered(x))

\* When the stream ends or the client is closed, done is closed and the goroutines of
\* the session stop (client.go:452, 543-546, 583), but for a keepalive whose write is
\* stuck and a reader whose subscriber called the first Close.
SessionWindsDown ==
    \A k \in Connects :
        (rpc[k] # "none" /\ (k \in over \/ sock[k] = "closed"))
            ~> /\ done /\ kpc[k] # "tick"
               /\ rpc[k] = "returned" \/ (rpc[k] \in {"ended", "gone"} /\ \E x \in Hooks : Reentered(x))

\* "Close closes plugins, the XML stream, and the transport." (client.go:561)
CloseClosesTransport ==
    \A x \in Closes : ~raced /\ xpc[x] = "returned" => \A k \in Connects : sock[k] # "open"
=============================================================================
