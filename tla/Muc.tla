-------------------------------- MODULE Muc ---------------------------------
(***************************************************************************)
(* xep.MUC (XEP-0045): one room, the calls of Join and Leave, the handlers *)
(* of presence and subjects on the reader goroutine, and the room service. *)
(* Rooms share nothing but the reader.                                     *)
(*                                                                         *)
(* Join makes a fresh Room, registers a channel of capacity one under      *)
(* room/nick, sends presence and waits.  The handler looks the channel up  *)
(* under the mutex, by the nickname the Room has then, and sends to it     *)
(* after the unlock.  The service is a correct one: it answers in order.   *)
(***************************************************************************)
EXTENDS Naturals, Sequences, FiniteSets, SequencesExt

CONSTANTS
    Joins,      \* calls of Join
    Nicks,      \* nicknames this client asks for
    Others,     \* nicknames of the other people
    Subjects,   \* subjects of the room
    NoNick, NoJoin, NoSubject,
    MaxMucNews  \* bound: what the service announces of its own accord

ASSUME MucAssumption == NoNick \notin Nicks \cup Others /\ NoJoin \notin Joins
                        /\ NoSubject \notin Subjects /\ IsFiniteSet(Others) /\ MaxMucNews \in Nat

VARIABLES
    room,       \* MUC.rooms: the Room, or NoRoom
    joinPending,\* MUC.pending: the call whose channel is registered for each nickname
    joining,    \* each Join: "idle", "entered", "waiting", "leaving" or "over"
    joinNick,   \* the nickname each Join asks for
    joinResult, \* what each Join returns
    joinChan,   \* the contents of each Join's channel, of capacity JoinCapacity
    answering,  \* the reader's send to a channel that is under way, or Idle
    toRoom, fromRoom,  \* stanzas under way to and from the service
    us,         \* service: the nickname of this client in the room, or NoNick
    people,     \* service: the others in the room
    topic,      \* service: the subject
    mucUp,      \* the stream is up
    mucNews,    \* announcements so far
    clean,      \* history: nothing was under way when a Join began, and nothing interfered since
    mucOrderly  \* history: so it was with all Joins, and no Leave, kick or change of the
                \* client's own presence fell into one

callVars == <<joining, joinNick, joinResult>>
serviceVars == <<us, people, topic>>
mucVars == <<room, joinPending, callVars, joinChan, answering, toRoom, fromRoom, serviceVars,
             mucUp, mucNews, clean, mucOrderly>>

NoRoom == [nick |-> NoNick, known |-> FALSE]
Room(nick) == [known |-> TRUE, nick |-> nick, joined |-> FALSE, subject |-> NoSubject, occupants |-> {}]
Idle == [to |-> NoJoin]
NoResult == [kind |-> "none"]

\* A presence with the muc#user payload unless user is FALSE; at is the service's list then.
Presence(nick, type, self) ==
    [kind |-> "presence", nick |-> nick, type |-> type, self |-> self, user |-> TRUE, at |-> {}]
Subject(s) == [kind |-> "subject", subject |-> s]

InProgress == {j \in Joins : joining[j] \notin {"idle", "over"}}

MucTypeOK ==
    /\ room = NoRoom \/ room \in [known : {TRUE}, nick : Nicks \cup Others \cup {NoNick},
                                  joined : BOOLEAN, subject : Subjects \cup {NoSubject},
                                  occupants : SUBSET (Nicks \cup Others)]
    /\ joinPending \in [Nicks -> Joins \cup {NoJoin}]
    /\ joining \in [Joins -> {"idle", "entered", "waiting", "leaving", "over"}]
    /\ \A j \in Joins : Len(joinChan[j]) <= 1
    /\ us \in Nicks \cup {NoNick} /\ people \subseteq Others /\ us \notin people
    /\ mucUp \in BOOLEAN /\ mucNews \in 0..MaxMucNews /\ mucOrderly \in BOOLEAN
    /\ clean \subseteq Joins

\* The service may still have this client in the room from an earlier session.
MucInit ==
    /\ room = NoRoom
    /\ joinPending = [n \in Nicks |-> NoJoin]
    /\ joining = [j \in Joins |-> "idle"] /\ joinNick = [j \in Joins |-> NoNick]
    /\ joinResult = [j \in Joins |-> NoResult] /\ joinChan = [j \in Joins |-> <<>>]
    /\ answering = Idle /\ toRoom = <<>> /\ fromRoom = <<>>
    /\ us \in Nicks \cup {NoNick} /\ people \in {{}, Others} /\ us \notin people /\ topic = NoSubject
    /\ mucUp = TRUE /\ mucNews = 0 /\ clean = {} /\ mucOrderly = (us = NoNick)

-----------------------------------------------------------------------------
(* Join and Leave. *)

\* A room that is known already is kept.
FreshRoomKept(n) == IF room.known THEN [room EXCEPT !.nick = n, !.joined = FALSE] ELSE Room(n)

FreshRoom(n) == Room(n)

Undisturbed == toRoom = <<>> /\ fromRoom = <<>> /\ answering = Idle /\ us = NoNick /\ InProgress = {}

\* The critical section: refused while a Join for the same nickname is under way.
Join(j, n) ==
    /\ joining[j] = "idle"
    /\ joinNick' = [joinNick EXCEPT ![j] = n]
    /\ IF joinPending[n] # NoJoin
       THEN /\ joining' = [joining EXCEPT ![j] = "over"]
            /\ joinResult' = [joinResult EXCEPT ![j] = [kind |-> "pending"]]
            /\ UNCHANGED <<room, joinPending, clean, mucOrderly>>
       ELSE /\ joining' = [joining EXCEPT ![j] = "entered"]
            /\ joinPending' = [joinPending EXCEPT ![n] = j]
            /\ room' = FreshRoom(n)
            /\ clean' = IF Undisturbed THEN clean \cup {j} ELSE clean \ InProgress
            /\ mucOrderly' = (mucOrderly /\ Undisturbed)
            /\ UNCHANGED joinResult
    /\ UNCHANGED <<joinChan, answering, toRoom, fromRoom, serviceVars, mucUp, mucNews>>

JoinReturns(j, result) ==
    /\ joining' = [joining EXCEPT ![j] = "leaving"]
    /\ joinResult' = [joinResult EXCEPT ![j] = result]

JoinSend(j) ==
    /\ joining[j] = "entered"
    /\ IF mucUp THEN /\ joining' = [joining EXCEPT ![j] = "waiting"]
                     /\ toRoom' = Append(toRoom, [kind |-> "join", nick |-> joinNick[j]])
                     /\ UNCHANGED joinResult
                ELSE JoinReturns(j, [kind |-> "unsent"]) /\ UNCHANGED toRoom
    /\ UNCHANGED <<room, joinPending, joinNick, joinChan, answering, fromRoom, serviceVars, mucUp,
                   mucNews, clean, mucOrderly>>

\* The three cases of the select.
JoinTakes(j) ==
    /\ joining[j] = "waiting" /\ joinChan[j] # <<>>
    /\ JoinReturns(j, Head(joinChan[j]))
    /\ joinChan' = [joinChan EXCEPT ![j] = Tail(joinChan[j])]
    /\ UNCHANGED <<room, joinPending, joinNick, answering, toRoom, fromRoom, serviceVars, mucUp,
                   mucNews, clean, mucOrderly>>

JoinGivesUp(j) ==
    /\ joining[j] = "waiting"
    /\ \/ JoinReturns(j, [kind |-> "timeout"])
       \/ ~mucUp /\ JoinReturns(j, [kind |-> "closed"])
    /\ UNCHANGED <<room, joinPending, joinNick, joinChan, answering, toRoom, fromRoom, serviceVars,
                   mucUp, mucNews, clean, mucOrderly>>

\* The deferred function.
JoinEnd(j) ==
    /\ joining[j] = "leaving"
    /\ joining' = [joining EXCEPT ![j] = "over"]
    /\ joinPending' = [joinPending EXCEPT ![joinNick[j]] = NoJoin]
    /\ UNCHANGED <<room, joinNick, joinResult, joinChan, answering, toRoom, fromRoom, serviceVars,
                   mucUp, mucNews, clean, mucOrderly>>

\* Goes to the nickname of the Room, which stays in rooms.
Leave ==
    /\ room.known /\ room.nick # NoNick /\ mucUp /\ mucNews < MaxMucNews
    /\ mucNews' = mucNews + 1
    /\ toRoom' = Append(toRoom, [kind |-> "leave", nick |-> room.nick])
    /\ mucOrderly' = (mucOrderly /\ InProgress = {})
    /\ UNCHANGED <<room, joinPending, callVars, joinChan, answering, fromRoom, serviceVars, mucUp,
                   clean>>

-----------------------------------------------------------------------------
(* The reader. *)

\* make(chan joinResult)
JoinCapacityNone == 0

JoinCapacity == 1

Reads(kind) == /\ mucUp /\ answering = Idle
               /\ fromRoom # <<>> /\ Head(fromRoom).kind = kind
               /\ fromRoom' = Tail(fromRoom)

\* A Room is made if there is none.
Known == IF room.known THEN room ELSE Room(NoNick)

\* Someone who leaves stays in the list.
OccupantsKept(m) == Known.occupants \cup {m.nick}

\* Everything but unavailable enters the sender, errors too.
OccupantsNow(m) == IF m.type = "unavailable" THEN Known.occupants \ {m.nick}
                                             ELSE Known.occupants \cup {m.nick}

\* joined and nick change on the client's own presence (status 110) only.
RoomAfter(m) ==
    [Known EXCEPT !.occupants = OccupantsNow(m),
                  !.joined = IF m.self THEN m.type # "unavailable" ELSE @,
                  !.nick = IF m.self /\ m.type # "unavailable" /\ @ = NoNick THEN m.nick ELSE @]

\* The channel is looked up by the Room's nickname, not by that of the presence.
PendingFor(r) == IF r.nick \in Nicks THEN joinPending[r.nick] ELSE NoJoin

\* handlePresence up to the unlock.
HandlePresence ==
    /\ Reads("presence")
    /\ LET m == Head(fromRoom)
           j == PendingFor(RoomAfter(m))
       IN IF ~m.user THEN UNCHANGED <<room, answering>>
          ELSE /\ room' = RoomAfter(m)
               /\ answering' = IF j = NoJoin THEN Idle
                               ELSE CASE m.type = "error" -> [to |-> j, result |-> [kind |-> "error"]]
                                      [] m.self /\ m.type # "unavailable" ->
                                           [to |-> j, result |-> [kind |-> "room", room |-> RoomAfter(m),
                                                                  at |-> m.at]]
                                      [] OTHER -> Idle
    /\ UNCHANGED <<joinPending, callVars, joinChan, toRoom, serviceVars, mucUp, mucNews, clean,
                   mucOrderly>>

\* The send, which waits while the channel is full.
AnswerJoin ==
    /\ answering # Idle /\ Len(joinChan[answering.to]) < JoinCapacity
    /\ joinChan' = [joinChan EXCEPT ![answering.to] = Append(@, answering.result)]
    /\ answering' = Idle
    /\ UNCHANGED <<room, joinPending, callVars, toRoom, fromRoom, serviceVars, mucUp, mucNews, clean,
                   mucOrderly>>

\* handleMessage: a subject, unless it is empty or the room is not known.
HandleMessage ==
    /\ Reads("subject")
    /\ room' = IF room.known /\ Head(fromRoom).subject # NoSubject
               THEN [room EXCEPT !.subject = Head(fromRoom).subject] ELSE room
    /\ UNCHANGED <<joinPending, callVars, joinChan, answering, toRoom, serviceVars, mucUp, mucNews,
                   clean, mucOrderly>>

-----------------------------------------------------------------------------
(* The room service. *)

Takes(kind) == /\ mucUp /\ toRoom # <<>> /\ Head(toRoom).kind = kind
               /\ toRoom' = Tail(toRoom)
Unchanged == UNCHANGED <<room, joinPending, callVars, joinChan, answering, mucUp>>

Everyone(n) == [i \in 1..Cardinality(people) |-> Presence(SetToSeq(people)[i], "available", FALSE)]
               \o <<[Presence(n, "available", TRUE) EXCEPT !.at = people \cup {n}], Subject(topic)>>

\* All who are there, then the client itself, then the subject.
ServiceAdmits ==
    /\ Takes("join")
    /\ LET n == Head(toRoom).nick
       IN /\ us \in {NoNick, n} /\ n \notin people
          /\ us' = n
          /\ fromRoom' = fromRoom \o Everyone(n)
    /\ Unchanged /\ UNCHANGED <<people, topic, mucNews, clean, mucOrderly>>

\* The nickname is taken, or the client is not let in; services differ in the payload.
ServiceRefuses(user) ==
    /\ Takes("join")
    /\ us = NoNick \/ Head(toRoom).nick \in people
    /\ fromRoom' = Append(fromRoom, [Presence(Head(toRoom).nick, "error", FALSE) EXCEPT !.user = user])
    /\ Unchanged /\ UNCHANGED <<serviceVars, mucNews, clean, mucOrderly>>

\* For one who is in the room, another nickname is a change of nickname.
ServiceRenames ==
    /\ Takes("join")
    /\ LET n == Head(toRoom).nick
       IN /\ us \notin {NoNick, n} /\ n \notin people
          /\ us' = n
          /\ fromRoom' = fromRoom \o <<Presence(us, "unavailable", TRUE),
                                       [Presence(n, "available", TRUE) EXCEPT !.at = people \cup {n}]>>
    /\ Unchanged /\ UNCHANGED <<people, topic, mucNews, clean, mucOrderly>>

ServiceLetsGo ==
    /\ Takes("leave")
    /\ IF us = Head(toRoom).nick
       THEN us' = NoNick /\ fromRoom' = Append(fromRoom, Presence(us, "unavailable", TRUE))
       ELSE UNCHANGED <<us, fromRoom>>
    /\ Unchanged /\ UNCHANGED <<people, topic, mucNews, clean, mucOrderly>>

Announce(m) ==
    /\ mucUp /\ mucNews < MaxMucNews /\ mucNews' = mucNews + 1
    /\ fromRoom' = IF us = NoNick THEN fromRoom ELSE Append(fromRoom, m)
    /\ Unchanged /\ UNCHANGED toRoom

SomeoneComes(o) ==
    /\ o \notin people \cup {us}
    /\ people' = people \cup {o}
    /\ Announce(Presence(o, "available", FALSE)) /\ UNCHANGED <<us, topic, clean, mucOrderly>>

SomeoneGoes(o) ==
    /\ o \in people
    /\ people' = people \ {o}
    /\ Announce(Presence(o, "unavailable", FALSE)) /\ UNCHANGED <<us, topic, clean, mucOrderly>>

\* A change of the client's role or affiliation, or of its own presence.
Update ==
    /\ us # NoNick
    /\ Announce([Presence(us, "available", TRUE) EXCEPT !.at = people \cup {us}])
    /\ mucOrderly' = (mucOrderly /\ InProgress = {})
    /\ UNCHANGED <<serviceVars, clean>>

Kick ==
    /\ us # NoNick
    /\ us' = NoNick
    /\ Announce(Presence(us, "unavailable", TRUE))
    /\ mucOrderly' = (mucOrderly /\ InProgress = {})
    /\ clean' = clean \ InProgress
    /\ UNCHANGED <<people, topic>>

SubjectChanges(s) ==
    /\ topic # s
    /\ topic' = s
    /\ Announce(Subject(s))
    /\ UNCHANGED <<us, people, clean, mucOrderly>>

StreamEnds ==
    /\ mucUp /\ mucUp' = FALSE
    /\ UNCHANGED <<room, joinPending, callVars, joinChan, answering, toRoom, fromRoom, serviceVars,
                   mucNews, clean, mucOrderly>>

-----------------------------------------------------------------------------
MucNext ==
    \/ \E j \in Joins : \/ JoinSend(j) \/ JoinTakes(j) \/ JoinGivesUp(j) \/ JoinEnd(j)
                        \/ \E n \in Nicks : Join(j, n)
    \/ Leave \/ HandlePresence \/ AnswerJoin \/ HandleMessage
    \/ ServiceAdmits \/ ServiceRenames \/ ServiceLetsGo
    \/ \E user \in BOOLEAN : ServiceRefuses(user)
    \/ \E o \in Others : SomeoneComes(o) \/ SomeoneGoes(o)
    \/ \E s \in Subjects \cup {NoSubject} : SubjectChanges(s)
    \/ Update \/ Kick \/ StreamEnds

MucSpec == MucInit /\ [][MucNext]_mucVars

-----------------------------------------------------------------------------
(* Properties. *)

\* The Room that Join returns lists exactly the people who were in it when the service
\* let the client in, if nothing of an earlier or a concurrent Join was under way: no one
\* who left unseen since an earlier stay (muc.go:140, 276-310).
JoinExact ==
    \A j \in clean : joinResult[j].kind = "room" =>
        joinResult[j].room.joined /\ joinResult[j].room.occupants = joinResult[j].at

\* When nothing is under way, the Room says whether the client is in the room, and if so
\* who else is and, unless the room has none, what the subject is (muc.go:276-298,
\* 327-332).  So it is as long as each Join began outside the room with nothing under way,
\* and no Leave, kick or change of the client's own presence fell into one.  A subject
\* that was cleared stays in the Room: handleMessage takes an empty one for none.
RoomExact ==
    mucOrderly /\ mucUp /\ toRoom = <<>> /\ fromRoom = <<>> /\ answering = Idle /\ InProgress = {} =>
        /\ (room.known /\ room.joined) = (us # NoNick)
        /\ us # NoNick => room.occupants = people \cup {us}
        /\ us # NoNick /\ topic # NoSubject => room.subject = topic

\* The reader, which sends to a Join's channel without regard to whether the Join is still
\* there, is never left waiting by one that has gone, as long as each Join is answered
\* once (muc.go:133, 303, 309).
ReaderFreed ==
    mucOrderly /\ answering # Idle /\ joining[answering.to] \in {"leaving", "over"} =>
        Len(joinChan[answering.to]) < JoinCapacity
=============================================================================
