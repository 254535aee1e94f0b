------------------------ MODULE ClientLifecycleProofs ------------------------
(***************************************************************************)
(* Proofs about ClientLifecycle for any number of calls of Connect and     *)
(* Close, with and without keepalive and automatic presence.               *)
(***************************************************************************)
EXTENDS ClientLifecycle, TLAPS

Early == {"dial", "negotiate", "fail", "finish", "mark", "start"}  \* before the session runs
Late == {"emit", "presence", "closing", "ok"}
InBody == {"body", "emit", "ended", "gone"}                        \* inside doneOnce.Do
EventNames == {"connected", "session_start", "session_end", "disconnected"}

(* The application makes one Connect at a time.                             *)
OneConnect == \A j, k \in Connects : /\ cpc[j] \notin {"idle", "ok", "failed"}
                                     /\ cpc[k] \notin {"idle", "ok", "failed"}
                                     => j = k

(* No Close has begun while closing is not set.                             *)
NotClosing == closing = FALSE => \A x \in Closers : xpc[x] = "idle"

(* A Connect has its reader from the start of the session on, and a         *)
(* transport from the dial on.                                              *)
Started == \A k \in Connects : /\ cpc[k] \in Late => rpc[k] # "none"
                               /\ cpc[k] \in Early \cup {"idle"} => rpc[k] = "none"
                               /\ cpc[k] \in {"idle", "dial"} =>
                                     /\ sock[k] = "none" /\ conn # k
                                     /\ \A x \in Closers : captured[x] # k

(* The body of doneOnce runs in one goroutine, while once is "running".     *)
Runner ==
    /\ \A k \in Connects : rpc[k] \in InBody => once = "running"
    /\ \A x \in Closers : xpc[x] \in InBody => once = "running"
    /\ \A j, k \in Connects : rpc[j] \in InBody /\ rpc[k] \in InBody => j = k
    /\ \A x, y \in Closers : xpc[x] \in InBody /\ xpc[y] \in InBody => x = y
    /\ \A k \in Connects, x \in Closers : ~(rpc[k] \in InBody /\ xpc[x] \in InBody)

(* Unless Close raced it, a Connect under way has the client to itself: its *)
(* own transport is the client's, nothing has ended, no reader runs.        *)
Alone == raced = FALSE => \A k \in Connects : cpc[k] \in Early =>
    /\ closing = FALSE /\ once = "free" /\ done = FALSE
    /\ \A j \in Connects : rpc[j] = "none"
    /\ conn = IF cpc[k] = "dial" THEN NoConn ELSE k
    /\ connected = TRUE <=> cpc[k] = "start"

(* Unless Close raced Connect, the connection lives from the start of the   *)
(* session to the body of doneOnce, and done is closed only after that.     *)
Ending == raced = FALSE =>
    /\ once = "free" => done = FALSE
    /\ once = "free" /\ (\E k \in Connects : rpc[k] # "none") => conn # NoConn
    /\ once # "free" => conn = NoConn /\ connected = FALSE
    /\ connected = TRUE => conn # NoConn

(* The body of doneOnce has emitted the second event, too.                  *)
Parted == (\E k \in Connects : rpc[k] = "gone") \/ (\E x \in Closers : xpc[x] = "gone")

(* Each event of the end is emitted where the body of doneOnce emits it, and *)
(* session_end before the body emits disconnected.                          *)
NoEndYet ==
    /\ once # "spent" /\ ~Emitting => \A i \in DOMAIN events : events[i] # "session_end"
    /\ once # "spent" /\ ~Parted => \A i \in DOMAIN events : events[i] # "disconnected"
    /\ Emitting => \E i \in DOMAIN events : events[i] = "session_end"

(* The inductive invariant.                                                 *)
LInv == /\ TypeOK /\ OneConnect /\ NotClosing /\ Started /\ Runner /\ Alone /\ Ending
        /\ FailedConnectClean /\ NoEndYet /\ EndsOnce

(* A new client (client.go: New) satisfies the invariant.                   *)
LEMMA InitLInv == Init => LInv
<1> SUFFICES ASSUME Init PROVE LInv
  OBVIOUS
<1> USE NoConnAssumption, OptionsAssumption DEF Init
<1>1. TypeOK
  <2>1. events \in Seq({"connected", "session_start", "session_end", "disconnected"})
    OBVIOUS
  <2>2. ticks \in 0..MaxTicks
    OBVIOUS
  <2> QED
    BY <2>1, <2>2, Zenon DEF TypeOK
<1>2. OneConnect /\ NotClosing /\ Started /\ Runner
  BY DEF OneConnect, NotClosing, Started, Runner, Early, Late, InBody
<1>3. Alone /\ Ending /\ FailedConnectClean
  BY DEF Alone, Ending, FailedConnectClean, Early
<1>4. NoEndYet /\ EndsOnce
  BY DEF NoEndYet, EndsOnce, Emitting
<1> QED
  BY <1>1, <1>2, <1>3, <1>4 DEF LInv

(* A step that emits nothing keeps what was emitted in order, unless it     *)
(* leaves the places of the body or takes back that the session has ended.  *)
LEMMA EventsKept ==
  ASSUME NoEndYet, EndsOnce, events' = events, once' = "spent" <=> once = "spent",
         Emitting' <=> Emitting, Parted' <=> Parted
  PROVE  NoEndYet' /\ EndsOnce'
<1>1. NoEndYet'
  BY DEF NoEndYet
<1>2. EndsOnce'
  BY DEF EndsOnce
<1> QED
  BY <1>1, <1>2

(* The start of a session adds no end to the events (client.go:186-190).    *)
LEMMA StartEmitted ==
  ASSUME NoEndYet, EndsOnce, events \in Seq(EventNames), once' = once,
         Emitting' <=> Emitting, Parted' <=> Parted,
         events' = events \o <<"connected", "session_start">>
  PROVE  events' \in Seq(EventNames) /\ NoEndYet' /\ EndsOnce'
<1>1. <<"connected", "session_start">> \in Seq(EventNames)
  BY DEF EventNames
<1>2. /\ events' \in Seq(EventNames) /\ DOMAIN events' = 1..(Len(events) + 2)
      /\ DOMAIN events = 1..Len(events) /\ Len(events) \in Nat
  BY <1>1
<1>3. /\ \A i \in DOMAIN events : events'[i] = events[i]
      /\ events'[Len(events) + 1] = "connected" /\ events'[Len(events) + 2] = "session_start"
  BY <1>1
<1>4. \A i \in DOMAIN events' : i \in DOMAIN events \/ i = Len(events) + 1 \/ i = Len(events) + 2
  BY <1>2
<1>5. NoEndYet'
  <2>1. DOMAIN events \subseteq DOMAIN events'
    BY <1>2
  <2> QED
    BY <2>1, <1>3, <1>4 DEF NoEndYet
<1>6. \A e \in {"session_end", "disconnected"} :
        {i \in DOMAIN events' : events'[i] = e} = {i \in DOMAIN events : events[i] = e}
  BY <1>2, <1>3, <1>4
<1>7. EndsOnce'
  <2>1. DOMAIN events \subseteq DOMAIN events'
    BY <1>2
  <2> QED
    BY <1>6, <2>1 DEF EndsOnce
<1> QED
  BY <1>2, <1>5, <1>7

(* One more event is one more place, and the earlier ones keep theirs.      *)
LEMMA OneMore ==
  ASSUME NEW e \in EventNames, events \in Seq(EventNames), events' = Append(events, e)
  PROVE  /\ events' \in Seq(EventNames)
         /\ Len(events) \in Nat /\ DOMAIN events = 1..Len(events)
         /\ DOMAIN events' = 1..(Len(events) + 1)
         /\ \A i \in DOMAIN events : events'[i] = events[i]
         /\ events'[Len(events) + 1] = e
OBVIOUS

(* The step that emits session_end finds no end emitted before it           *)
(* (client.go:593-601).                                                     *)
LEMMA EndEmitted ==
  ASSUME NoEndYet, once # "spent", ~Emitting, ~Parted, events \in Seq(EventNames),
         Emitting', ~Parted', events' = Append(events, "session_end")
  PROVE  events' \in Seq(EventNames) /\ NoEndYet' /\ EndsOnce'
<1>1. /\ events' \in Seq(EventNames) /\ DOMAIN events' = 1..(Len(events) + 1)
      /\ DOMAIN events = 1..Len(events) /\ Len(events) \in Nat
      /\ \A i \in DOMAIN events : events'[i] = events[i]
      /\ events'[Len(events) + 1] = "session_end"
  <2>1. "session_end" \in EventNames
    BY DEF EventNames
  <2> QED
    BY <2>1, OneMore
<1>2. Len(events) + 1 \in DOMAIN events'
  BY <1>1
<1>3. \A i \in DOMAIN events' : i \in DOMAIN events \/ i = Len(events) + 1
  BY <1>1
<1>4. /\ \A i \in DOMAIN events : events[i] # "session_end"
      /\ \A i \in DOMAIN events : events[i] # "disconnected"
  BY DEF NoEndYet
<1>5. /\ {i \in DOMAIN events' : events'[i] = "session_end"} = {Len(events) + 1}
      /\ {i \in DOMAIN events' : events'[i] = "disconnected"} = {}
  BY <1>1, <1>2, <1>3, <1>4
<1>6. NoEndYet'
  BY <1>1, <1>2, <1>3, <1>4 DEF NoEndYet
<1>7. EndsOnce'
  BY <1>2, <1>5 DEF EndsOnce
<1> QED
  BY <1>1, <1>6, <1>7

(* The step that emits disconnected comes after session_end and before any  *)
(* other (client.go:602).                                                   *)
LEMMA PartEmitted ==
  ASSUME NoEndYet, EndsOnce, once # "spent", Emitting, ~Parted, events \in Seq(EventNames),
         Emitting', Parted', events' = Append(events, "disconnected")
  PROVE  events' \in Seq(EventNames) /\ NoEndYet' /\ EndsOnce'
<1>1. /\ events' \in Seq(EventNames) /\ DOMAIN events' = 1..(Len(events) + 1)
      /\ DOMAIN events = 1..Len(events) /\ Len(events) \in Nat
      /\ \A i \in DOMAIN events : events'[i] = events[i]
      /\ events'[Len(events) + 1] = "disconnected"
  <2>1. "disconnected" \in EventNames
    BY DEF EventNames
  <2> QED
    BY <2>1, OneMore
<1>2. Len(events) + 1 \in DOMAIN events' /\ DOMAIN events \subseteq DOMAIN events'
  BY <1>1
<1>3. \A i \in DOMAIN events' : i \in DOMAIN events \/ i = Len(events) + 1
  BY <1>1
<1>4. \A i \in DOMAIN events : events[i] # "disconnected"
  BY DEF NoEndYet
<1>5. PICK i \in DOMAIN events : {j \in DOMAIN events : events[j] = "session_end"} = {i}
  <2>1. {j \in DOMAIN events : events[j] = "session_end"} # {}
    BY DEF NoEndYet
  <2> QED
    BY <2>1 DEF EndsOnce
<1>6. /\ {j \in DOMAIN events' : events'[j] = "session_end"} = {i}
      /\ {j \in DOMAIN events' : events'[j] = "disconnected"} = {Len(events) + 1}
  BY <1>1, <1>2, <1>3, <1>4, <1>5
<1>7. NoEndYet'
  BY <1>1, <1>2 DEF NoEndYet
<1>8. EndsOnce'
  <2>1. i < Len(events) + 1 /\ i \in DOMAIN events'
    BY <1>1, <1>2
  <2> QED
    BY <1>2, <1>6, <2>1 DEF EndsOnce
<1> QED
  BY <1>1, <1>7, <1>8

(* Connect up to the start of the session (client.go:100-196).             *)
LEMMA ConnectSteps ==
  ASSUME LInv, \E k \in Connects :
            \/ ConnectEnter(k)
            \/ DialFails(k)
            \/ Dial(k)
            \/ Negotiated(k)
            \/ NegotiationFails(k)
            \/ FailConnect(k)
            \/ FinishConnect(k)
            \/ MarkConnected(k)
            \/ StartGoroutines(k)
  PROVE  LInv'
<1> USE NoConnAssumption, DisjointAssumption, OptionsAssumption
    DEF LInv, client, CGoto, XGoto, Closers, Connecting, FinishPlaces
<1>1. ASSUME NEW k \in Connects, ConnectEnter(k) PROVE LInv'
  <2>1. TypeOK'
    BY <1>1 DEF ConnectEnter, TypeOK
  <2>2. OneConnect' /\ NotClosing' /\ Started'
    BY <1>1 DEF ConnectEnter, OneConnect, NotClosing, Started, TypeOK, Early, Late
  <2>3. Runner'
    BY <1>1 DEF ConnectEnter, Runner, TypeOK, InBody
  <2>4. Alone' /\ Ending'
    BY <1>1 DEF ConnectEnter, Alone, Ending, OneConnect, TypeOK, Early
  <2>5. FailedConnectClean'
    BY <1>1 DEF ConnectEnter, FailedConnectClean, Started, Alone, TypeOK, Early, Late
  <2>6. NoEndYet' /\ EndsOnce'
    BY <1>1, EventsKept DEF ConnectEnter, TypeOK, Emitting, Parted
  <2> QED
    BY <2>1, <2>2, <2>3, <2>4, <2>5, <2>6
<1>2. ASSUME NEW k \in Connects, DialFails(k) PROVE LInv'
  <2>1. TypeOK'
    BY <1>2 DEF DialFails, TypeOK
  <2>2. OneConnect' /\ NotClosing' /\ Started'
    BY <1>2 DEF DialFails, OneConnect, NotClosing, Started, TypeOK, Early, Late
  <2>3. Runner'
    BY <1>2 DEF DialFails, Runner, TypeOK, InBody
  <2>4. Alone' /\ Ending'
    BY <1>2 DEF DialFails, Alone, Ending, OneConnect, TypeOK, Early
  <2>5. FailedConnectClean'
    BY <1>2 DEF DialFails, FailedConnectClean, Started, Alone, TypeOK, Early, Late
  <2>6. NoEndYet' /\ EndsOnce'
    BY <1>2, EventsKept DEF DialFails, TypeOK, Emitting, Parted
  <2> QED
    BY <2>1, <2>2, <2>3, <2>4, <2>5, <2>6
<1>3. ASSUME NEW k \in Connects, Dial(k) PROVE LInv'
  <2>1. TypeOK'
    BY <1>3 DEF Dial, TypeOK
  <2>2. OneConnect' /\ NotClosing' /\ Started'
    BY <1>3 DEF Dial, OneConnect, NotClosing, Started, TypeOK, Early, Late
  <2>3. Runner'
    BY <1>3 DEF Dial, Runner, TypeOK, InBody
  <2>4. Alone' /\ Ending'
    BY <1>3 DEF Dial, Alone, Ending, OneConnect, TypeOK, Early
  <2>5. FailedConnectClean'
    BY <1>3 DEF Dial, FailedConnectClean, Started, Alone, TypeOK, Early, Late
  <2>6. NoEndYet' /\ EndsOnce'
    BY <1>3, EventsKept DEF Dial, TypeOK, Emitting, Parted
  <2> QED
    BY <2>1, <2>2, <2>3, <2>4, <2>5, <2>6
<1>4. ASSUME NEW k \in Connects, Negotiated(k) PROVE LInv'
  <2>1. TypeOK'
    BY <1>4 DEF Negotiated, TypeOK
  <2>2. OneConnect' /\ NotClosing' /\ Started'
    BY <1>4 DEF Negotiated, OneConnect, NotClosing, Started, TypeOK, Early, Late
  <2>3. Runner'
    BY <1>4 DEF Negotiated, Runner, TypeOK, InBody
  <2>4. Alone' /\ Ending'
    BY <1>4 DEF Negotiated, Alone, Ending, OneConnect, TypeOK, Early
  <2>5. FailedConnectClean'
    BY <1>4 DEF Negotiated, FailedConnectClean, Started, Alone, TypeOK, Early, Late
  <2>6. NoEndYet' /\ EndsOnce'
    BY <1>4, EventsKept DEF Negotiated, TypeOK, Emitting, Parted
  <2> QED
    BY <2>1, <2>2, <2>3, <2>4, <2>5, <2>6
<1>5. ASSUME NEW k \in Connects, NegotiationFails(k) PROVE LInv'
  <2>1. TypeOK'
    BY <1>5 DEF NegotiationFails, TypeOK
  <2>2. OneConnect' /\ NotClosing' /\ Started'
    BY <1>5 DEF NegotiationFails, OneConnect, NotClosing, Started, TypeOK, Early, Late
  <2>3. Runner'
    BY <1>5 DEF NegotiationFails, Runner, TypeOK, InBody
  <2>4. Alone' /\ Ending'
    BY <1>5 DEF NegotiationFails, Alone, Ending, OneConnect, TypeOK, Early
  <2>5. FailedConnectClean'
    BY <1>5 DEF NegotiationFails, FailedConnectClean, Started, Alone, TypeOK, Early, Late
  <2>6. NoEndYet' /\ EndsOnce'
    BY <1>5, EventsKept DEF NegotiationFails, TypeOK, Emitting, Parted
  <2> QED
    BY <2>1, <2>2, <2>3, <2>4, <2>5, <2>6
<1>6. ASSUME NEW k \in Connects, FailConnect(k) PROVE LInv'
  <2>1. TypeOK'
    BY <1>6 DEF FailConnect, TypeOK
  <2>2. OneConnect' /\ NotClosing' /\ Started'
    BY <1>6 DEF FailConnect, OneConnect, NotClosing, Started, TypeOK, Early, Late
  <2>3. Runner'
    BY <1>6 DEF FailConnect, Runner, TypeOK, InBody
  <2>4. Alone' /\ Ending'
    BY <1>6 DEF FailConnect, Alone, Ending, OneConnect, TypeOK, Early
  <2>5. FailedConnectClean'
    BY <1>6 DEF FailConnect, FailedConnectClean, Started, Alone, TypeOK, Early, Late
  <2>6. NoEndYet' /\ EndsOnce'
    BY <1>6, EventsKept DEF FailConnect, TypeOK, Emitting, Parted
  <2> QED
    BY <2>1, <2>2, <2>3, <2>4, <2>5, <2>6
<1>7. ASSUME NEW k \in Connects, FinishConnect(k) PROVE LInv'
  <2>1. TypeOK'
    BY <1>7 DEF FinishConnect, TypeOK
  <2>2. OneConnect' /\ NotClosing' /\ Started'
    BY <1>7 DEF FinishConnect, OneConnect, NotClosing, Started, TypeOK, Early, Late
  <2>3. Runner'
    BY <1>7 DEF FinishConnect, Runner, TypeOK, InBody
  <2>4. Alone' /\ Ending'
    BY <1>7 DEF FinishConnect, Alone, Ending, OneConnect, TypeOK, Early
  <2>5. FailedConnectClean'
    BY <1>7 DEF FinishConnect, FailedConnectClean, Started, Alone, TypeOK, Early, Late
  <2>6. NoEndYet' /\ EndsOnce'
    BY <1>7, EventsKept DEF FinishConnect, TypeOK, Emitting, Parted
  <2> QED
    BY <2>1, <2>2, <2>3, <2>4, <2>5, <2>6
<1>8. ASSUME NEW k \in Connects, MarkConnected(k) PROVE LInv'
  <2>1. TypeOK'
    BY <1>8 DEF MarkConnected, TypeOK
  <2>2. OneConnect' /\ NotClosing' /\ Started'
    BY <1>8 DEF MarkConnected, OneConnect, NotClosing, Started, TypeOK, Early, Late
  <2>3. Runner'
    BY <1>8 DEF MarkConnected, Runner, TypeOK, InBody
  <2>4. Alone' /\ Ending'
    BY <1>8 DEF MarkConnected, Alone, Ending, OneConnect, TypeOK, Early
  <2>5. FailedConnectClean'
    BY <1>8 DEF MarkConnected, FailedConnectClean, Started, Alone, TypeOK, Early, Late
  <2>6. NoEndYet' /\ EndsOnce'
    BY <1>8, EventsKept DEF MarkConnected, TypeOK, Emitting, Parted
  <2> QED
    BY <2>1, <2>2, <2>3, <2>4, <2>5, <2>6
<1>9. ASSUME NEW k \in Connects, StartGoroutines(k) PROVE LInv'
  <2>1. TypeOK'
    BY <1>9 DEF StartGoroutines, TypeOK
  <2>2. OneConnect' /\ NotClosing' /\ Started'
    BY <1>9 DEF StartGoroutines, OneConnect, NotClosing, Started, TypeOK, Early, Late
  <2>3. Runner'
    BY <1>9 DEF StartGoroutines, Runner, TypeOK, InBody
  <2>4. Alone' /\ Ending'
    BY <1>9 DEF StartGoroutines, Alone, Ending, OneConnect, TypeOK, Early
  <2>5. FailedConnectClean'
    BY <1>9 DEF StartGoroutines, FailedConnectClean, Started, Alone, TypeOK, Early, Late
  <2>6. NoEndYet' /\ EndsOnce'
    BY <1>9, EventsKept DEF StartGoroutines, Started, Early, TypeOK, Emitting, Parted
  <2> QED
    BY <2>1, <2>2, <2>3, <2>4, <2>5, <2>6
<1> QED
  BY <1>1, <1>2, <1>3, <1>4, <1>5, <1>6, <1>7, <1>8, <1>9

(* Connect after the start, the peer, and the goroutines of the session     *)
(* (client.go:186-200, 451-487, 530-558).                                   *)
LEMMA SessionSteps ==
  ASSUME LInv, \E k \in Connects :
            \/ EmitStart(k)
            \/ SendPresence(k)
            \/ PresenceFails(k)
            \/ ConnectClosed(k)
            \/ PeerEnds(k)
            \/ ReadEnd(k)
            \/ Tick(k)
            \/ KeepaliveStop(k)
            \/ WriteStalls(k)
  PROVE  LInv'
<1> USE NoConnAssumption, DisjointAssumption, OptionsAssumption
    DEF LInv, client, CGoto, XGoto, Closers, Connecting, FinishPlaces
<1>1. ASSUME NEW k \in Connects, EmitStart(k) PROVE LInv'
  <2>1. TypeOK'
    BY <1>1, StartEmitted DEF EmitStart, TypeOK, EventNames, Emitting, Parted
  <2>2. OneConnect' /\ NotClosing' /\ Started'
    BY <1>1 DEF EmitStart, OneConnect, NotClosing, Started, TypeOK, Early, Late
  <2>3. Runner'
    BY <1>1 DEF EmitStart, Runner, TypeOK, InBody
  <2>4. Alone' /\ Ending'
    BY <1>1 DEF EmitStart, Alone, Ending, OneConnect, TypeOK, Early
  <2>5. FailedConnectClean'
    BY <1>1 DEF EmitStart, FailedConnectClean, Started, Alone, TypeOK, Early, Late
  <2>6. NoEndYet' /\ EndsOnce'
    BY <1>1, StartEmitted DEF EmitStart, TypeOK, EventNames, Emitting, Parted
  <2> QED
    BY <2>1, <2>2, <2>3, <2>4, <2>5, <2>6
<1>2. ASSUME NEW k \in Connects, SendPresence(k) PROVE LInv'
  <2>1. TypeOK'
    BY <1>2 DEF SendPresence, TypeOK
  <2>2. OneConnect' /\ NotClosing' /\ Started'
    BY <1>2 DEF SendPresence, OneConnect, NotClosing, Started, TypeOK, Early, Late
  <2>3. Runner'
    BY <1>2 DEF SendPresence, Runner, TypeOK, InBody
  <2>4. Alone' /\ Ending'
    BY <1>2 DEF SendPresence, Alone, Ending, OneConnect, TypeOK, Early
  <2>5. FailedConnectClean'
    BY <1>2 DEF SendPresence, FailedConnectClean, Started, Alone, TypeOK, Early, Late
  <2>6. NoEndYet' /\ EndsOnce'
    BY <1>2, EventsKept DEF SendPresence, TypeOK, Emitting, Parted
  <2> QED
    BY <2>1, <2>2, <2>3, <2>4, <2>5, <2>6
<1>3. ASSUME NEW k \in Connects, PresenceFails(k) PROVE LInv'
  <2>1. TypeOK'
    BY <1>3 DEF PresenceFails, TypeOK
  <2>2. OneConnect' /\ NotClosing' /\ Started'
    BY <1>3 DEF PresenceFails, OneConnect, NotClosing, Started, TypeOK, Early, Late
  <2>3. Runner'
    BY <1>3 DEF PresenceFails, Runner, TypeOK, InBody
  <2>4. Alone' /\ Ending'
    BY <1>3 DEF PresenceFails, Alone, Ending, OneConnect, TypeOK, Early
  <2>5. FailedConnectClean'
    BY <1>3 DEF PresenceFails, FailedConnectClean, Started, Alone, TypeOK, Early, Late
  <2>6. NoEndYet' /\ EndsOnce'
    BY <1>3, EventsKept DEF PresenceFails, TypeOK, Emitting, Parted
  <2> QED
    BY <2>1, <2>2, <2>3, <2>4, <2>5, <2>6
<1>4. ASSUME NEW k \in Connects, ConnectClosed(k) PROVE LInv'
  <2>1. TypeOK'
    BY <1>4 DEF ConnectClosed, TypeOK
  <2>2. OneConnect' /\ NotClosing' /\ Started'
    BY <1>4 DEF ConnectClosed, OneConnect, NotClosing, Started, TypeOK, Early, Late
  <2>3. Runner'
    BY <1>4 DEF ConnectClosed, Runner, TypeOK, InBody
  <2>4. Alone' /\ Ending'
    BY <1>4 DEF ConnectClosed, Alone, Ending, OneConnect, TypeOK, Early
  <2>5. FailedConnectClean'
    BY <1>4 DEF ConnectClosed, FailedConnectClean, Started, Alone, TypeOK, Early, Late
  <2>6. NoEndYet' /\ EndsOnce'
    BY <1>4, EventsKept DEF ConnectClosed, TypeOK, Emitting, Parted
  <2> QED
    BY <2>1, <2>2, <2>3, <2>4, <2>5, <2>6
<1>5. ASSUME NEW k \in Connects, PeerEnds(k) PROVE LInv'
  <2>1. TypeOK'
    BY <1>5 DEF PeerEnds, TypeOK
  <2>2. OneConnect' /\ NotClosing' /\ Started'
    BY <1>5 DEF PeerEnds, OneConnect, NotClosing, Started, TypeOK, Early, Late
  <2>3. Runner'
    BY <1>5 DEF PeerEnds, Runner, TypeOK, InBody
  <2>4. Alone' /\ Ending'
    BY <1>5 DEF PeerEnds, Alone, Ending, OneConnect, TypeOK, Early
  <2>5. FailedConnectClean'
    BY <1>5 DEF PeerEnds, FailedConnectClean, Started, Alone, TypeOK, Early, Late
  <2>6. NoEndYet' /\ EndsOnce'
    BY <1>5, EventsKept DEF PeerEnds, TypeOK, Emitting, Parted
  <2> QED
    BY <2>1, <2>2, <2>3, <2>4, <2>5, <2>6
<1>6. ASSUME NEW k \in Connects, ReadEnd(k) PROVE LInv'
  <2>1. TypeOK'
    BY <1>6 DEF ReadEnd, TypeOK
  <2>2. OneConnect' /\ NotClosing' /\ Started'
    BY <1>6 DEF ReadEnd, OneConnect, NotClosing, Started, TypeOK, Early, Late
  <2>3. Runner'
    BY <1>6 DEF ReadEnd, Runner, TypeOK, InBody
  <2>4. Alone' /\ Ending'
    BY <1>6 DEF ReadEnd, Alone, Ending, OneConnect, TypeOK, Early
  <2>5. FailedConnectClean'
    BY <1>6 DEF ReadEnd, FailedConnectClean, Started, Alone, TypeOK, Early, Late
  <2>6. NoEndYet' /\ EndsOnce'
    BY <1>6, EventsKept DEF ReadEnd, TypeOK, Emitting, Parted
  <2> QED
    BY <2>1, <2>2, <2>3, <2>4, <2>5, <2>6
<1>7. ASSUME NEW k \in Connects, Tick(k) PROVE LInv'
  <2>1. TypeOK'
    BY <1>7 DEF Tick, TypeOK
  <2>2. OneConnect' /\ NotClosing' /\ Started'
    BY <1>7 DEF Tick, OneConnect, NotClosing, Started, TypeOK, Early, Late
  <2>3. Runner'
    BY <1>7 DEF Tick, Runner, TypeOK, InBody
  <2>4. Alone' /\ Ending'
    BY <1>7 DEF Tick, Alone, Ending, OneConnect, TypeOK, Early
  <2>5. FailedConnectClean'
    BY <1>7 DEF Tick, FailedConnectClean, Started, Alone, TypeOK, Early, Late
  <2>6. NoEndYet' /\ EndsOnce'
    BY <1>7, EventsKept DEF Tick, TypeOK, Emitting, Parted
  <2> QED
    BY <2>1, <2>2, <2>3, <2>4, <2>5, <2>6
<1>8. ASSUME NEW k \in Connects, KeepaliveStop(k) PROVE LInv'
  <2>1. TypeOK'
    BY <1>8 DEF KeepaliveStop, TypeOK
  <2>2. OneConnect' /\ NotClosing' /\ Started'
    BY <1>8 DEF KeepaliveStop, OneConnect, NotClosing, Started, TypeOK, Early, Late
  <2>3. Runner'
    BY <1>8 DEF KeepaliveStop, Runner, TypeOK, InBody
  <2>4. Alone' /\ Ending'
    BY <1>8 DEF KeepaliveStop, Alone, Ending, OneConnect, TypeOK, Early
  <2>5. FailedConnectClean'
    BY <1>8 DEF KeepaliveStop, FailedConnectClean, Started, Alone, TypeOK, Early, Late
  <2>6. NoEndYet' /\ EndsOnce'
    BY <1>8, EventsKept DEF KeepaliveStop, TypeOK, Emitting, Parted
  <2> QED
    BY <2>1, <2>2, <2>3, <2>4, <2>5, <2>6
<1>9. ASSUME NEW k \in Connects, WriteStalls(k) PROVE LInv'
  <2>1. TypeOK'
    BY <1>9 DEF WriteStalls, TypeOK
  <2>2. OneConnect' /\ NotClosing' /\ Started'
    BY <1>9 DEF WriteStalls, OneConnect, NotClosing, Started, TypeOK, Early, Late
  <2>3. Runner'
    BY <1>9 DEF WriteStalls, Runner, TypeOK, InBody
  <2>4. Alone' /\ Ending'
    BY <1>9 DEF WriteStalls, Alone, Ending, OneConnect, TypeOK, Early
  <2>5. FailedConnectClean'
    BY <1>9 DEF WriteStalls, FailedConnectClean, Started, Alone, TypeOK, Early, Late
  <2>6. NoEndYet' /\ EndsOnce'
    BY <1>9, EventsKept DEF WriteStalls, TypeOK, Emitting, Parted
  <2> QED
    BY <2>1, <2>2, <2>3, <2>4, <2>5, <2>6
<1> QED
  BY <1>1, <1>2, <1>3, <1>4, <1>5, <1>6, <1>7, <1>8, <1>9

(* Close up to finish (client.go:562-588).                                  *)
LEMMA CloseSteps ==
  ASSUME LInv, \E x \in Closers :
            \/ CloseEnter(x)
            \/ CloseWait(x)
            \/ ClosePlugins(x)
            \/ CloseTransport(x)
  PROVE  LInv'
<1> USE NoConnAssumption, DisjointAssumption, OptionsAssumption
    DEF LInv, client, CGoto, XGoto, Closers, Connecting, FinishPlaces
<1>1. ASSUME NEW x \in Closers, CloseEnter(x) PROVE LInv'
  <2>1. TypeOK'
    <3>1. raced' \in BOOLEAN
      BY <1>1 DEF CloseEnter, TypeOK
    <3>2. closing' \in BOOLEAN
      BY <1>1, Zenon DEF CloseEnter, TypeOK
    <3>3. captured' \in [Closers -> Connects \cup {NoConn}]
      BY <1>1 DEF CloseEnter, TypeOK
    <3>4. xpc' \in [Closers -> {"idle", "wait", "plugins", "transport"} \cup FinishPlaces]
      BY <1>1 DEF CloseEnter, TypeOK
    <3>5. UNCHANGED <<cpc, rpc, kpc, sock, over, conn, connected, done, once, kaDone, events, ticks, stuck>>
      BY <1>1 DEF CloseEnter
    <3> QED
      BY <3>1, <3>2, <3>3, <3>4, <3>5 DEF TypeOK
  <2>2. OneConnect' /\ NotClosing' /\ Started'
    BY <1>1 DEF CloseEnter, OneConnect, NotClosing, Started, TypeOK, Early, Late
  <2>3. Runner'
    BY <1>1 DEF CloseEnter, Runner, TypeOK, InBody
  <2>4. Alone' /\ Ending'
    BY <1>1 DEF CloseEnter, Alone, Ending, OneConnect, TypeOK, Early
  <2>5. FailedConnectClean'
    BY <1>1 DEF CloseEnter, FailedConnectClean, Started, Alone, TypeOK, Early, Late
  <2>6. NoEndYet' /\ EndsOnce'
    BY <1>1, EventsKept DEF CloseEnter, TypeOK, Emitting, Parted
  <2> QED
    BY <2>1, <2>2, <2>3, <2>4, <2>5, <2>6
<1>2. ASSUME NEW x \in Closers, CloseWait(x) PROVE LInv'
  <2>1. TypeOK'
    BY <1>2 DEF CloseWait, TypeOK
  <2>2. OneConnect' /\ NotClosing' /\ Started'
    BY <1>2 DEF CloseWait, OneConnect, NotClosing, Started, TypeOK, Early, Late
  <2>3. Runner'
    BY <1>2 DEF CloseWait, Runner, TypeOK, InBody
  <2>4. Alone' /\ Ending'
    BY <1>2 DEF CloseWait, Alone, Ending, OneConnect, TypeOK, Early
  <2>5. FailedConnectClean'
    BY <1>2 DEF CloseWait, FailedConnectClean, Started, Alone, TypeOK, Early, Late
  <2>6. NoEndYet' /\ EndsOnce'
    BY <1>2, EventsKept DEF CloseWait, TypeOK, Emitting, Parted
  <2> QED
    BY <2>1, <2>2, <2>3, <2>4, <2>5, <2>6
<1>3. ASSUME NEW x \in Closers, ClosePlugins(x) PROVE LInv'
  <2>1. TypeOK'
    BY <1>3 DEF ClosePlugins, TypeOK
  <2>2. OneConnect' /\ NotClosing' /\ Started'
    BY <1>3 DEF ClosePlugins, OneConnect, NotClosing, Started, TypeOK, Early, Late
  <2>3. Runner'
    BY <1>3 DEF ClosePlugins, Runner, TypeOK, InBody
  <2>4. Alone' /\ Ending'
    BY <1>3 DEF ClosePlugins, Alone, Ending, OneConnect, TypeOK, Early
  <2>5. FailedConnectClean'
    BY <1>3 DEF ClosePlugins, FailedConnectClean, Started, Alone, TypeOK, Early, Late
  <2>6. NoEndYet' /\ EndsOnce'
    BY <1>3, EventsKept DEF ClosePlugins, TypeOK, Emitting, Parted
  <2> QED
    BY <2>1, <2>2, <2>3, <2>4, <2>5, <2>6
<1>4. ASSUME NEW x \in Closers, CloseTransport(x) PROVE LInv'
  <2>1. TypeOK'
    BY <1>4 DEF CloseTransport, TypeOK
  <2>2. OneConnect' /\ NotClosing' /\ Started'
    BY <1>4 DEF CloseTransport, OneConnect, NotClosing, Started, TypeOK, Early, Late
  <2>3. Runner'
    BY <1>4 DEF CloseTransport, Runner, TypeOK, InBody
  <2>4. Alone' /\ Ending'
    BY <1>4 DEF CloseTransport, Alone, Ending, OneConnect, TypeOK, Early
  <2>5. FailedConnectClean'
    BY <1>4 DEF CloseTransport, FailedConnectClean, Started, Alone, TypeOK, Early, Late
  <2>6. NoEndYet' /\ EndsOnce'
    BY <1>4, EventsKept DEF CloseTransport, TypeOK, Emitting, Parted
  <2> QED
    BY <2>1, <2>2, <2>3, <2>4, <2>5, <2>6
<1> QED
  BY <1>1, <1>2, <1>3, <1>4

(* finish, in the reader or in Close: the goroutine that is first runs its  *)
(* body, the others find doneOnce spent (client.go:592-604).                *)
LEMMA FinishSteps ==
  ASSUME LInv, (\E x \in Closers : CloseFinish(x)) \/ (\E k \in Connects : ReadFinish(k))
  PROVE  LInv'
<1> USE NoConnAssumption, DisjointAssumption, OptionsAssumption
    DEF LInv, client, CGoto, XGoto, Closers, Connecting, FinishPlaces
<1>1. ASSUME NEW x \in Closers, CloseFinish(x) PROVE LInv'
  <2>1. CASE /\ xpc[x] = "finish" /\ xpc' = [xpc EXCEPT ![x] = "body"]
             /\ FinishBody /\ UNCHANGED events
             /\ UNCHANGED <<cpc, rpc, captured, kpc, sock, over, ticks, stuck, raced>>
    <3> USE <2>1 DEF FinishBody
    <3>1. events' \in Seq(EventNames) /\ NoEndYet' /\ EndsOnce'
      BY EventsKept DEF TypeOK, EventNames, Emitting, Parted
    <3>2. TypeOK'
      BY <3>1 DEF TypeOK, EventNames
    <3>3. OneConnect' /\ NotClosing' /\ Started'
      BY DEF OneConnect, NotClosing, Started, TypeOK, Early, Late
    <3>4. Runner'
      BY DEF Runner, TypeOK, InBody
    <3>5. Alone' /\ Ending'
      BY DEF Alone, Ending, NotClosing, Started, Runner, TypeOK, Early, InBody
    <3>6. FailedConnectClean'
      BY DEF FailedConnectClean, TypeOK
    <3> QED
      BY <3>1, <3>2, <3>3, <3>4, <3>5, <3>6
  <2>2. CASE /\ xpc[x] = "body" /\ xpc' = [xpc EXCEPT ![x] = "emit"]
             /\ FinishDone /\ UNCHANGED events
             /\ UNCHANGED <<cpc, rpc, captured, kpc, sock, over, ticks, stuck, raced>>
    <3> USE <2>2 DEF FinishDone
    <3>1. events' \in Seq(EventNames) /\ NoEndYet' /\ EndsOnce'
      BY EventsKept DEF TypeOK, EventNames, Emitting, Parted
    <3>2. TypeOK'
      BY <3>1 DEF TypeOK, EventNames
    <3>3. OneConnect' /\ NotClosing' /\ Started'
      BY DEF OneConnect, NotClosing, Started, TypeOK, Early, Late
    <3>4. Runner'
      BY DEF Runner, TypeOK, InBody
    <3>5. Alone' /\ Ending'
      BY DEF Alone, Ending, Runner, TypeOK, Early, InBody
    <3>6. FailedConnectClean'
      BY DEF FailedConnectClean, TypeOK
    <3> QED
      BY <3>1, <3>2, <3>3, <3>4, <3>5, <3>6
  <2>3. CASE /\ xpc[x] = "emit" /\ xpc' = [xpc EXCEPT ![x] = "ended"]
             /\ events' = Append(events, "session_end") /\ UNCHANGED client
             /\ UNCHANGED <<cpc, rpc, captured, kpc, sock, over, ticks, stuck, raced>>
    <3> USE <2>3
    <3>1. events' \in Seq(EventNames) /\ NoEndYet' /\ EndsOnce'
      <4>1. once # "spent" /\ ~Emitting /\ ~Parted
        BY DEF Runner, InBody, Emitting, Parted, TypeOK
      <4>2. Emitting' /\ ~Parted'
        BY <4>1 DEF Emitting, Parted, TypeOK
      <4> QED
        BY <4>1, <4>2, EndEmitted DEF TypeOK, EventNames
    <3>2. TypeOK'
      BY <3>1 DEF TypeOK, EventNames
    <3>3. OneConnect' /\ NotClosing' /\ Started'
      BY DEF OneConnect, NotClosing, Started, TypeOK, Early, Late
    <3>4. Runner'
      BY DEF Runner, TypeOK, InBody
    <3>5. Alone' /\ Ending'
      BY DEF Alone, Ending, Runner, TypeOK, Early, InBody
    <3>6. FailedConnectClean'
      BY DEF FailedConnectClean, TypeOK
    <3> QED
      BY <3>1, <3>2, <3>3, <3>4, <3>5, <3>6
  <2>4. CASE /\ xpc[x] = "ended" /\ xpc' = [xpc EXCEPT ![x] = "gone"]
             /\ events' = Append(events, "disconnected") /\ UNCHANGED client
             /\ UNCHANGED <<cpc, rpc, captured, kpc, sock, over, ticks, stuck, raced>>
    <3> USE <2>4
    <3>1. events' \in Seq(EventNames) /\ NoEndYet' /\ EndsOnce'
      <4>1. once # "spent" /\ Emitting /\ ~Parted
        BY DEF Runner, InBody, Emitting, Parted, TypeOK
      <4>2. Emitting' /\ Parted'
        BY DEF Emitting, Parted, TypeOK
      <4> QED
        BY <4>1, <4>2, PartEmitted DEF TypeOK, EventNames
    <3>2. TypeOK'
      BY <3>1 DEF TypeOK, EventNames
    <3>3. OneConnect' /\ NotClosing' /\ Started'
      BY DEF OneConnect, NotClosing, Started, TypeOK, Early, Late
    <3>4. Runner'
      BY DEF Runner, TypeOK, InBody
    <3>5. Alone' /\ Ending'
      BY DEF Alone, Ending, Runner, TypeOK, Early, InBody
    <3>6. FailedConnectClean'
      BY DEF FailedConnectClean, TypeOK
    <3> QED
      BY <3>1, <3>2, <3>3, <3>4, <3>5, <3>6
  <2>5. CASE /\ xpc[x] = "gone" /\ xpc' = [xpc EXCEPT ![x] = "returned"]
             /\ once' = "spent" /\ UNCHANGED <<conn, connected, closing, done, kaDone, events>>
             /\ UNCHANGED <<cpc, rpc, captured, kpc, sock, over, ticks, stuck, raced>>
    <3> USE <2>5
    <3>1. events' \in Seq(EventNames) /\ NoEndYet' /\ EndsOnce'
      <4>1. Emitting' => Emitting
        BY DEF Emitting, TypeOK
      <4> QED
        BY <4>1 DEF NoEndYet, EndsOnce, TypeOK, EventNames
    <3>2. TypeOK'
      BY <3>1 DEF TypeOK, EventNames
    <3>3. OneConnect' /\ NotClosing' /\ Started'
      BY DEF OneConnect, NotClosing, Started, TypeOK, Early, Late
    <3>4. Runner'
      BY DEF Runner, TypeOK, InBody
    <3>5. Alone' /\ Ending'
      BY DEF Alone, Ending, Runner, TypeOK, Early, InBody
    <3>6. FailedConnectClean'
      BY DEF FailedConnectClean, TypeOK
    <3> QED
      BY <3>1, <3>2, <3>3, <3>4, <3>5, <3>6
  <2>6. CASE /\ xpc[x] = "finish" /\ xpc' = [xpc EXCEPT ![x] = "returned"]
             /\ once = "spent" /\ UNCHANGED <<client, events>>
             /\ UNCHANGED <<cpc, rpc, captured, kpc, sock, over, ticks, stuck, raced>>
    <3> USE <2>6
    <3>1. events' \in Seq(EventNames) /\ NoEndYet' /\ EndsOnce'
      BY EventsKept DEF TypeOK, EventNames, Emitting, Parted
    <3>2. TypeOK'
      BY <3>1 DEF TypeOK, EventNames
    <3>3. OneConnect' /\ NotClosing' /\ Started'
      BY DEF OneConnect, NotClosing, Started, TypeOK, Early, Late
    <3>4. Runner'
      BY DEF Runner, TypeOK, InBody
    <3>5. Alone' /\ Ending'
      BY DEF Alone, Ending, Runner, TypeOK, Early, InBody
    <3>6. FailedConnectClean'
      BY DEF FailedConnectClean, TypeOK
    <3> QED
      BY <3>1, <3>2, <3>3, <3>4, <3>5, <3>6
  <2> QED
    BY <1>1, <2>1, <2>2, <2>3, <2>4, <2>5, <2>6 DEF CloseFinish, Finish
<1>2. ASSUME NEW k \in Connects, ReadFinish(k) PROVE LInv'
  <2>1. CASE /\ rpc[k] = "finish" /\ rpc' = [rpc EXCEPT ![k] = "body"]
             /\ FinishBody /\ UNCHANGED events
             /\ UNCHANGED <<cpc, xpc, captured, kpc, sock, over, ticks, stuck, raced>>
    <3> USE <2>1 DEF FinishBody
    <3>1. events' \in Seq(EventNames) /\ NoEndYet' /\ EndsOnce'
      BY EventsKept DEF TypeOK, EventNames, Emitting, Parted
    <3>2. TypeOK'
      BY <3>1 DEF TypeOK, EventNames
    <3>3. OneConnect' /\ NotClosing' /\ Started'
      BY DEF OneConnect, NotClosing, Started, TypeOK, Early, Late
    <3>4. Runner'
      BY DEF Runner, TypeOK, InBody
    <3>5. Alone' /\ Ending'
      BY DEF Alone, Ending, NotClosing, Started, Runner, TypeOK, Early, InBody
    <3>6. FailedConnectClean'
      BY DEF FailedConnectClean, TypeOK
    <3> QED
      BY <3>1, <3>2, <3>3, <3>4, <3>5, <3>6
  <2>2. CASE /\ rpc[k] = "body" /\ rpc' = [rpc EXCEPT ![k] = "emit"]
             /\ FinishDone /\ UNCHANGED events
             /\ UNCHANGED <<cpc, xpc, captured, kpc, sock, over, ticks, stuck, raced>>
    <3> USE <2>2 DEF FinishDone
    <3>1. events' \in Seq(EventNames) /\ NoEndYet' /\ EndsOnce'
      BY EventsKept DEF TypeOK, EventNames, Emitting, Parted
    <3>2. TypeOK'
      BY <3>1 DEF TypeOK, EventNames
    <3>3. OneConnect' /\ NotClosing' /\ Started'
      BY DEF OneConnect, NotClosing, Started, TypeOK, Early, Late
    <3>4. Runner'
      BY DEF Runner, TypeOK, InBody
    <3>5. Alone' /\ Ending'
      BY DEF Alone, Ending, Runner, TypeOK, Early, InBody
    <3>6. FailedConnectClean'
      BY DEF FailedConnectClean, TypeOK
    <3> QED
      BY <3>1, <3>2, <3>3, <3>4, <3>5, <3>6
  <2>3. CASE /\ rpc[k] = "emit" /\ rpc' = [rpc EXCEPT ![k] = "ended"]
             /\ events' = Append(events, "session_end") /\ UNCHANGED client
             /\ UNCHANGED <<cpc, xpc, captured, kpc, sock, over, ticks, stuck, raced>>
    <3> USE <2>3
    <3>1. events' \in Seq(EventNames) /\ NoEndYet' /\ EndsOnce'
      <4>1. once # "spent" /\ ~Emitting /\ ~Parted
        BY DEF Runner, InBody, Emitting, Parted, TypeOK
      <4>2. Emitting' /\ ~Parted'
        BY <4>1 DEF Emitting, Parted, TypeOK
      <4> QED
        BY <4>1, <4>2, EndEmitted DEF TypeOK, EventNames
    <3>2. TypeOK'
      BY <3>1 DEF TypeOK, EventNames
    <3>3. OneConnect' /\ NotClosing' /\ Started'
      BY DEF OneConnect, NotClosing, Started, TypeOK, Early, Late
    <3>4. Runner'
      BY DEF Runner, TypeOK, InBody
    <3>5. Alone' /\ Ending'
      BY DEF Alone, Ending, Runner, TypeOK, Early, InBody
    <3>6. FailedConnectClean'
      BY DEF FailedConnectClean, TypeOK
    <3> QED
      BY <3>1, <3>2, <3>3, <3>4, <3>5, <3>6
  <2>4. CASE /\ rpc[k] = "ended" /\ rpc' = [rpc EXCEPT ![k] = "gone"]
             /\ events' = Append(events, "disconnected") /\ UNCHANGED client
             /\ UNCHANGED <<cpc, xpc, captured, kpc, sock, over, ticks, stuck, raced>>
    <3> USE <2>4
    <3>1. events' \in Seq(EventNames) /\ NoEndYet' /\ EndsOnce'
      <4>1. once # "spent" /\ Emitting /\ ~Parted
        BY DEF Runner, InBody, Emitting, Parted, TypeOK
      <4>2. Emitting' /\ Parted'
        BY DEF Emitting, Parted, TypeOK
      <4> QED
        BY <4>1, <4>2, PartEmitted DEF TypeOK, EventNames
    <3>2. TypeOK'
      BY <3>1 DEF TypeOK, EventNames
    <3>3. OneConnect' /\ NotClosing' /\ Started'
      BY DEF OneConnect, NotClosing, Started, TypeOK, Early, Late
    <3>4. Runner'
      BY DEF Runner, TypeOK, InBody
    <3>5. Alone' /\ Ending'
      BY DEF Alone, Ending, Runner, TypeOK, Early, InBody
    <3>6. FailedConnectClean'
      BY DEF FailedConnectClean, TypeOK
    <3> QED
      BY <3>1, <3>2, <3>3, <3>4, <3>5, <3>6
  <2>5. CASE /\ rpc[k] = "gone" /\ rpc' = [rpc EXCEPT ![k] = "returned"]
             /\ once' = "spent" /\ UNCHANGED <<conn, connected, closing, done, kaDone, events>>
             /\ UNCHANGED <<cpc, xpc, captured, kpc, sock, over, ticks, stuck, raced>>
    <3> USE <2>5
    <3>1. events' \in Seq(EventNames) /\ NoEndYet' /\ EndsOnce'
      <4>1. Emitting' => Emitting
        BY DEF Emitting, TypeOK
      <4> QED
        BY <4>1 DEF NoEndYet, EndsOnce, TypeOK, EventNames
    <3>2. TypeOK'
      BY <3>1 DEF TypeOK, EventNames
    <3>3. OneConnect' /\ NotClosing' /\ Started'
      BY DEF OneConnect, NotClosing, Started, TypeOK, Early, Late
    <3>4. Runner'
      BY DEF Runner, TypeOK, InBody
    <3>5. Alone' /\ Ending'
      BY DEF Alone, Ending, Runner, TypeOK, Early, InBody
    <3>6. FailedConnectClean'
      BY DEF FailedConnectClean, TypeOK
    <3> QED
      BY <3>1, <3>2, <3>3, <3>4, <3>5, <3>6
  <2>6. CASE /\ rpc[k] = "finish" /\ rpc' = [rpc EXCEPT ![k] = "returned"]
             /\ once = "spent" /\ UNCHANGED <<client, events>>
             /\ UNCHANGED <<cpc, xpc, captured, kpc, sock, over, ticks, stuck, raced>>
    <3> USE <2>6
    <3>1. events' \in Seq(EventNames) /\ NoEndYet' /\ EndsOnce'
      BY EventsKept DEF TypeOK, EventNames, Emitting, Parted
    <3>2. TypeOK'
      BY <3>1 DEF TypeOK, EventNames
    <3>3. OneConnect' /\ NotClosing' /\ Started'
      BY DEF OneConnect, NotClosing, Started, TypeOK, Early, Late
    <3>4. Runner'
      BY DEF Runner, TypeOK, InBody
    <3>5. Alone' /\ Ending'
      BY DEF Alone, Ending, Runner, TypeOK, Early, InBody
    <3>6. FailedConnectClean'
      BY DEF FailedConnectClean, TypeOK
    <3> QED
      BY <3>1, <3>2, <3>3, <3>4, <3>5, <3>6
  <2> QED
    BY <1>2, <2>1, <2>2, <2>3, <2>4, <2>5, <2>6 DEF ReadFinish, Finish
<1> QED
  BY <1>1, <1>2

(* Every step of Connect, Close, the goroutines and the peer keeps the      *)
(* invariant.                                                               *)
LEMMA NextLInv == LInv /\ [Next]_vars => LInv'
<1> SUFFICES ASSUME LInv, [Next]_vars PROVE LInv'
  OBVIOUS
<1>1. CASE UNCHANGED vars
  <2>1. TypeOK' /\ OneConnect' /\ NotClosing' /\ Started' /\ Runner'
    BY <1>1 DEF vars, client, LInv, TypeOK, OneConnect, NotClosing, Started, Runner
  <2>2. Alone' /\ Ending' /\ FailedConnectClean'
    BY <1>1 DEF vars, client, LInv, Alone, Ending, FailedConnectClean
  <2>3. NoEndYet' /\ EndsOnce'
    BY <1>1, EventsKept DEF vars, client, LInv, Emitting, Parted
  <2> QED
    BY <2>1, <2>2, <2>3 DEF LInv
<1> QED
  BY <1>1, ConnectSteps, SessionSteps, CloseSteps, FinishSteps DEF Next, ConnectStep, CloseStep

LEMMA LInvHolds == Spec => []LInv
<1>1. LInv /\ [Next]_vars => LInv'
  BY NextLInv
<1> QED
  BY <1>1, InitLInv, PTL DEF Spec

-----------------------------------------------------------------------------
(* The results. *)

(* The state of the client is well typed.                                   *)
THEOREM LifecycleTypeCorrect == Spec => []TypeOK
<1>1. LInv => TypeOK
  BY DEF LInv
<1> QED
  BY <1>1, LInvHolds, PTL

(* Unless Close raced Connect, Connected() is true only with a connection   *)
(* and before done is closed (client.go:180-211, 592-604).                  *)
THEOREM ConnectedMeansLive == Spec => []ConnectedIsLive
<1>1. LInv => ConnectedIsLive
  BY DEF LInv, TypeOK, Ending, ConnectedIsLive
<1> QED
  BY <1>1, LInvHolds, PTL

(* A Connect that fails before its session starts leaves the client without *)
(* connection and its transport closed, unless Close raced it               *)
(* (client.go:107, 205-211).                                                *)
THEOREM FailedConnectIsClean == Spec => []FailedConnectClean
<1>1. LInv => FailedConnectClean
  BY DEF LInv
<1> QED
  BY <1>1, LInvHolds, PTL

(* session_end and disconnected are emitted at most once, in that order,    *)
(* whichever of Close and the readers get to finish (client.go:593-602).    *)
THEOREM SessionEndsOnce == Spec => []EndsOnce
<1>1. LInv => EndsOnce
  BY DEF LInv
<1> QED
  BY <1>1, LInvHolds, PTL

=============================================================================
