--------------------------- MODULE HandlersProofs ---------------------------
(***************************************************************************)
(* Proofs about what runs on the reader: the rooms of Muc, for any calls,  *)
(* nicknames, people and announcements; the pages of Archive; and Dispatch *)
(* itself, for any entries, priorities, goroutines and nesting.            *)
(***************************************************************************)
EXTENDS Dispatch, Muc, Archive, SelectionsProofs, FiniteSetTheorems, SequenceTheorems, TLAPS

-----------------------------------------------------------------------------
(* Rooms: what is under way. *)

Names == Nicks \cup Others
Rooms == [known : {TRUE}, nick : Names \cup {NoNick}, joined : BOOLEAN,
          subject : Subjects \cup {NoSubject}, occupants : SUBSET Names]
Asks == [kind : {"join"}, nick : Nicks] \cup [kind : {"leave"}, nick : Names]
Presences == [kind : {"presence"}, nick : Names, type : {"available", "unavailable", "error"},
              self : BOOLEAN, user : BOOLEAN, at : SUBSET Names]
Msg == Presences \cup [kind : {"subject"}, subject : Subjects \cup {NoSubject}]

Seen(m) == m.kind = "presence" /\ m.user
Own(m) == Seen(m) /\ m.self /\ m.type # "unavailable"
Answer(m) == Own(m) \/ (Seen(m) /\ m.type = "error")

(* What the client holds of the room, and what it holds after a message.    *)
Nobody == [occ |-> {}, status |-> "out", subj |-> NoSubject]
View(r) == IF r.known
           THEN [occ |-> r.occupants, status |-> IF r.joined THEN "in" ELSE "out", subj |-> r.subject]
           ELSE Nobody
After(v, m) ==
    [occ |-> IF ~Seen(m) THEN v.occ
             ELSE IF m.type = "unavailable" THEN v.occ \ {m.nick} ELSE v.occ \cup {m.nick},
     status |-> IF Seen(m) /\ m.self THEN IF m.type = "unavailable" THEN "out" ELSE "in" ELSE v.status,
     subj |-> IF m.kind = "subject" /\ m.subject # NoSubject THEN m.subject ELSE v.subj]

LEMMA PersonMsg ==
    ASSUME NEW o \in Names, NEW type \in {"available", "unavailable"}
    PROVE  LET m == Presence(o, type, FALSE)
           IN /\ m \in Msg /\ ~Answer(m) /\ ~Own(m)
              /\ \A v : /\ After(v, m).occ = IF type = "unavailable" THEN v.occ \ {o} ELSE v.occ \cup {o}
                        /\ After(v, m).status = v.status /\ After(v, m).subj = v.subj
  BY DEF Presence, Msg, Presences, Answer, Own, Seen, After

Comer(o) == Presence(o, "available", FALSE)

LEMMA ComerMsg ==
    ASSUME NEW o \in Names, NEW m, m = Comer(o)
    PROVE  /\ ~Answer(m) /\ ~Own(m)
           /\ \A v : /\ After(v, m).occ = v.occ \cup {o}
                     /\ After(v, m).status = v.status /\ After(v, m).subj = v.subj
  BY DEF Comer, Presence, Answer, Own, Seen, After

LEMMA OwnMsg ==
    ASSUME NEW u \in Names, NEW A \in SUBSET Names, NEW m,
           m = [Presence(u, "available", TRUE) EXCEPT !.at = A]
    PROVE  /\ m \in Msg /\ Own(m) /\ m.at = A
           /\ \A v : /\ After(v, m).occ = v.occ \cup {u} /\ After(v, m).status = "in"
                     /\ After(v, m).subj = v.subj
  BY DEF Presence, Msg, Presences, Own, Seen, After

OwnPresence(u, A) == [Presence(u, "available", TRUE) EXCEPT !.at = A]

LEMMA OwnView ==
    ASSUME NEW u \in Names, NEW A \in SUBSET Names, NEW m, m = OwnPresence(u, A)
    PROVE  /\ m \in Msg /\ Own(m) /\ m.at = A
           /\ \A v : /\ After(v, m).occ = v.occ \cup {u} /\ After(v, m).status = "in"
                     /\ After(v, m).subj = v.subj
  BY DEF OwnPresence, Presence, Msg, Presences, Own, Seen, After

LEMMA GoneMsg ==
    ASSUME NEW u \in Names
    PROVE  LET m == Presence(u, "unavailable", TRUE)
           IN /\ m \in Msg /\ ~Answer(m) /\ ~Own(m)
              /\ \A v : /\ After(v, m).occ = v.occ \ {u} /\ After(v, m).status = "out"
                        /\ After(v, m).subj = v.subj
  BY DEF Presence, Msg, Presences, Answer, Own, Seen, After

LEMMA ErrorMsg ==
    ASSUME NEW n \in Names, NEW user \in BOOLEAN
    PROVE  LET m == [Presence(n, "error", FALSE) EXCEPT !.user = user]
           IN m \in Msg /\ ~Own(m) /\ \A v : After(v, m).status = v.status
  BY DEF Presence, Msg, Presences, Own, Seen, After

LEMMA SubjectMsg ==
    ASSUME NEW s \in Subjects \cup {NoSubject}
    PROVE  LET m == Subject(s)
           IN /\ m \in Msg /\ ~Answer(m) /\ ~Own(m)
              /\ \A v : /\ After(v, m).occ = v.occ /\ After(v, m).status = v.status
                        /\ After(v, m).subj = IF s # NoSubject THEN s ELSE v.subj
  BY DEF Subject, Msg, Presences, Answer, Own, Seen, After

(* The people of the room, one after the other. *)
LEMMA PeopleSeq ==
    ASSUME NEW S, IsFiniteSet(S)
    PROVE  /\ Cardinality(S) \in Nat /\ SetToSeq(S) \in [1..Cardinality(S) -> S]
           /\ \A x \in S : \E i \in 1..Cardinality(S) : SetToSeq(S)[i] = x
<1>1. Cardinality(S) \in Nat /\ ExistsBijection(1..Cardinality(S), S)
  BY FS_CardinalityType
<1>2. PICK c \in Nat : c = Cardinality(S)
  BY <1>1
<1>3. PICK g \in [1..c -> S] : IsInjective(g)
  BY <1>1, <1>2 DEF ExistsBijection, Bijection, Injection, IsInjective
<1>4. SetToSeq(S) \in [1..c -> S] /\ IsInjective(SetToSeq(S))
  BY <1>2, <1>3 DEF SetToSeq
<1>5. PICK f \in [1..c -> S] : f = SetToSeq(S)
  BY <1>4
<1>6. f \in Injection(1..c, S)
  BY <1>4, <1>5 DEF Injection, IsInjective
<1>7. Cardinality(1..c) = c
  BY <1>2, FS_Interval
<1>8. f \in Surjection(1..c, S)
  BY <1>2, <1>6, <1>7, FS_Injection
<1> QED
  BY <1>1, <1>2, <1>4, <1>5, <1>8 DEF Surjection

Results == {NoResult} \cup [kind : {"pending", "unsent", "timeout", "closed", "error"}]
           \cup [kind : {"room"}, room : Rooms, at : SUBSET Names]
Answers == [to : Joins, result : Results]

MucTypes ==
    /\ room = NoRoom \/ room \in Rooms
    /\ joinPending \in [Nicks -> Joins \cup {NoJoin}]
    /\ joining \in [Joins -> {"idle", "entered", "waiting", "leaving", "over"}]
    /\ joinNick \in [Joins -> Nicks \cup {NoNick}]
    /\ joinResult \in [Joins -> Results] /\ joinChan \in [Joins -> Seq(Results)]
    /\ answering = Idle \/ answering \in Answers
    /\ toRoom \in Seq(Asks) /\ fromRoom \in Seq(Msg)
    /\ us \in Nicks \cup {NoNick} /\ people \subseteq Others /\ us \notin people
    /\ topic \in Subjects \cup {NoSubject}
    /\ mucUp \in BOOLEAN /\ mucNews \in 0..MaxMucNews /\ mucOrderly \in BOOLEAN /\ clean \subseteq Joins

(* A registered channel is that of a Join under way for that nickname; a    *)
(* Join that has not begun has left no trace.                               *)
Registered ==
    /\ \A n \in Nicks : joinPending[n] # NoJoin =>
           joinPending[n] \in InProgress /\ joinNick[joinPending[n]] = n
    /\ \A j \in Joins : joining[j] # "idle" => joinNick[j] \in Nicks
    /\ \A j \in Joins : joining[j] = "idle" =>
           joinChan[j] = <<>> /\ j \notin clean /\ answering.to # j /\ joinResult[j] = NoResult
    /\ \A j \in Joins : Len(joinChan[j]) <= 1

CallInv == MucTypes /\ Registered

LEMMA RoomTypes ==
    /\ NoRoom.known = FALSE /\ NoRoom.nick = NoNick
    /\ Idle.to = NoJoin
    /\ \A n \in Nicks \cup {NoNick} :
           /\ Room(n) \in Rooms /\ Room(n).known /\ Room(n).nick = n /\ ~Room(n).joined
           /\ Room(n).subject = NoSubject /\ Room(n).occupants = {}
  BY DEF NoRoom, Idle, Room, Rooms, Names

LEMMA KnownTypes ==
    ASSUME room = NoRoom \/ room \in Rooms
    PROVE  /\ Known \in Rooms /\ View(Known) = View(room) /\ (room.known => Known = room)
<1>1. CASE room = NoRoom
  <2>1. ~room.known
    BY <1>1, RoomTypes
  <2>2. Known = Room(NoNick)
    BY <2>1 DEF Known
  <2> QED
    BY <2>1, <2>2, RoomTypes DEF View, Nobody
<1>2. CASE room \in Rooms
  <2>1. room.known
    BY <1>2 DEF Rooms
  <2>2. Known = room
    BY <2>1 DEF Known
  <2> QED
    BY <1>2, <2>2
<1> QED
  BY <1>1, <1>2

(* The handler's new Room is what After says (muc.go:276-298).              *)
Updated(r, m, occ) ==
    [r EXCEPT !.occupants = occ,
              !.joined = IF m.self THEN m.type # "unavailable" ELSE @,
              !.nick = IF m.self /\ m.type # "unavailable" /\ @ = NoNick THEN m.nick ELSE @]

LEMMA RoomAfterView ==
    ASSUME NEW r \in Rooms, NEW m \in Presences, Seen(m), NEW occ, NEW s,
           occ = IF m.type = "unavailable" THEN r.occupants \ {m.nick} ELSE r.occupants \cup {m.nick},
           s = Updated(r, m, occ)
    PROVE  /\ s \in Rooms /\ View(s) = After(View(r), m) /\ (Own(m) => s.joined)
           /\ s.occupants = View(s).occ
<1>1. /\ m.kind = "presence" /\ m.nick \in Names /\ m.type \in {"available", "unavailable", "error"}
      /\ m.self \in BOOLEAN
  BY DEF Presences
<1>2. r.occupants \in SUBSET Names /\ r.joined \in BOOLEAN /\ r.nick \in Names \cup {NoNick} /\ r.known
  BY DEF Rooms
<1>3. PICK j \in BOOLEAN : j = IF m.self THEN m.type # "unavailable" ELSE r.joined
  BY <1>1, <1>2
<1>4. PICK n \in Names \cup {NoNick} :
          n = IF m.self /\ m.type # "unavailable" /\ r.nick = NoNick THEN m.nick ELSE r.nick
  BY <1>1, <1>2
<1>5. s = [r EXCEPT !.occupants = occ, !.joined = j, !.nick = n]
  BY <1>3, <1>4 DEF Updated
<1>6. occ \in SUBSET Names
  BY <1>1, <1>2
<1>7. /\ s \in Rooms /\ s.occupants = occ /\ s.joined = j /\ s.nick = n /\ s.known /\ s.subject = r.subject
  BY <1>5, <1>6 DEF Rooms
<1>8. View(s) = After(View(r), m)
  BY <1>1, <1>2, <1>3, <1>7 DEF View, After, Seen
<1>9. Own(m) => s.joined
  BY <1>3, <1>7 DEF Own
<1>10. s.occupants = View(s).occ
  BY <1>7 DEF View
<1> QED
  BY <1>7, <1>8, <1>9, <1>10

LEMMA InitCallInv == MucInit => CallInv
<1> SUFFICES ASSUME MucInit PROVE CallInv
  OBVIOUS
<1>1. mucOrderly \in BOOLEAN /\ mucUp \in BOOLEAN
  BY Zenon DEF MucInit
<1>2. MucTypes
  BY <1>1, MucAssumption DEF MucInit, MucTypes, Results
<1>3. \A j \in Joins : answering.to # j
  BY RoomTypes, MucAssumption DEF MucInit
<1>4. Registered
  BY <1>3 DEF MucInit, Registered
<1> QED
  BY <1>2, <1>4 DEF CallInv

(* The names of the types, for use under a step.                            *)
LEMMA CallTypes ==
    ASSUME CallInv
    PROVE  /\ joining \in [Joins -> {"idle", "entered", "waiting", "leaving", "over"}]
           /\ joinPending \in [Nicks -> Joins \cup {NoJoin}] /\ joinNick \in [Joins -> Nicks \cup {NoNick}]
           /\ joinResult \in [Joins -> Results] /\ joinChan \in [Joins -> Seq(Results)]
           /\ toRoom \in Seq(Asks) /\ fromRoom \in Seq(Msg) /\ clean \subseteq Joins
           /\ us \in Nicks \cup {NoNick} /\ people \subseteq Others /\ us \notin people
           /\ topic \in Subjects \cup {NoSubject} /\ mucOrderly \in BOOLEAN
           /\ room = NoRoom \/ room \in Rooms
           /\ answering = Idle \/ answering \in Answers
  BY DEF CallInv, MucTypes

LEMMA JoinCall == ASSUME CallInv, NEW j \in Joins, NEW n \in Nicks, Join(j, n) PROVE CallInv'
<1>1. /\ UNCHANGED <<joinChan, answering, toRoom, fromRoom, us, people, topic, mucUp, mucNews>>
      /\ joining[j] = "idle" /\ joinNick' = [joinNick EXCEPT ![j] = n]
  BY DEF Join, serviceVars
<1>2. joinNick' \in [Joins -> Nicks \cup {NoNick}] /\ joinNick'[j] = n
      /\ \A i \in Joins : i # j => joinNick'[i] = joinNick[i]
  BY <1>1, CallTypes
<1>3. CASE joinPending[n] # NoJoin
  <2>1. /\ UNCHANGED <<room, joinPending, clean, mucOrderly>>
        /\ joining' = [joining EXCEPT ![j] = "over"]
        /\ joinResult' = [joinResult EXCEPT ![j] = [kind |-> "pending"]]
    BY <1>3 DEF Join
  <2>2. [kind |-> "pending"] \in Results
    BY DEF Results
  <2>3. MucTypes'
    BY <1>1, <1>2, <2>1, <2>2 DEF CallInv, MucTypes
  <2>4. /\ joining'[j] = "over" /\ \A i \in Joins : i # j => joining'[i] = joining[i]
        /\ \A i \in Joins : i # j => joinResult'[i] = joinResult[i]
    BY <2>1, CallTypes
  <2>5. j \notin InProgress /\ InProgress' = InProgress
    BY <1>1, <2>4 DEF InProgress
  <2>6. Registered'
    BY <1>1, <1>2, <2>1, <2>4, <2>5 DEF CallInv, Registered
  <2> QED
    BY <2>3, <2>6 DEF CallInv
<1>4. CASE joinPending[n] = NoJoin
  <2>1. /\ UNCHANGED joinResult /\ room' = Room(n)
        /\ joining' = [joining EXCEPT ![j] = "entered"]
        /\ joinPending' = [joinPending EXCEPT ![n] = j]
        /\ clean' = (IF Undisturbed THEN clean \cup {j} ELSE clean \ InProgress)
        /\ mucOrderly' = (mucOrderly /\ Undisturbed)
    BY <1>4 DEF Join, FreshRoom
  <2>2. clean' \subseteq Joins /\ room' \in Rooms
    BY <2>1, RoomTypes, CallTypes
  <2>3. mucOrderly' \in BOOLEAN
    BY <2>1, Zenon
  <2>4. joinPending' \in [Nicks -> Joins \cup {NoJoin}] /\ joinPending'[n] = j
        /\ \A k \in Nicks : k # n => joinPending'[k] = joinPending[k]
    BY <2>1, CallTypes
  <2>5. /\ joining' \in [Joins -> {"idle", "entered", "waiting", "leaving", "over"}]
        /\ joining'[j] = "entered" /\ \A i \in Joins : i # j => joining'[i] = joining[i]
    BY <2>1, CallTypes
  <2>6. MucTypes'
    BY <1>1, <1>2, <2>1, <2>2, <2>3, <2>4, <2>5 DEF CallInv, MucTypes
  <2>7. j \notin InProgress /\ InProgress' = InProgress \cup {j}
    BY <1>1, <2>5 DEF InProgress
  <2>8. \A i \in Joins : i # j => (i \in clean' => i \in clean)
    BY <2>1
  <2>9. Registered'
    BY <1>1, <1>2, <2>1, <2>4, <2>5, <2>7, <2>8 DEF CallInv, Registered
  <2> QED
    BY <2>6, <2>9 DEF CallInv
<1> QED
  BY <1>3, <1>4

LEMMA CallStep ==
    ASSUME CallInv, NEW j \in Joins, JoinSend(j) \/ JoinTakes(j) \/ JoinGivesUp(j)
    PROVE  CallInv'
<1>1. /\ UNCHANGED <<room, joinPending, joinNick, answering, fromRoom, us, people, topic, mucUp, mucNews,
                     clean, mucOrderly>>
      /\ joining[j] \in {"entered", "waiting"}
  BY DEF JoinSend, JoinTakes, JoinGivesUp, serviceVars
<1>2. PICK p \in {"waiting", "leaving"}, r \in Results :
          /\ joining' = [joining EXCEPT ![j] = p]
          /\ joinResult' = [joinResult EXCEPT ![j] = r]
  <2>1. joinResult[j] \in Results /\ joinResult = [joinResult EXCEPT ![j] = joinResult[j]]
    BY CallTypes
  <2>2. [kind |-> "unsent"] \in Results /\ [kind |-> "timeout"] \in Results /\ [kind |-> "closed"] \in Results
    BY DEF Results
  <2>3. joinChan[j] # <<>> => Head(joinChan[j]) \in Results
    BY CallTypes
  <2>4. CASE JoinSend(j)
    BY <2>1, <2>2, <2>4 DEF JoinSend, JoinReturns
  <2>5. CASE JoinTakes(j)
    BY <2>3, <2>5 DEF JoinTakes, JoinReturns
  <2>6. CASE JoinGivesUp(j)
    BY <2>2, <2>6 DEF JoinGivesUp, JoinReturns
  <2> QED
    BY <2>4, <2>5, <2>6
<1>3. /\ joining' \in [Joins -> {"idle", "entered", "waiting", "leaving", "over"}]
      /\ joinResult' \in [Joins -> Results] /\ joining'[j] = p
      /\ \A i \in Joins : i # j => joining'[i] = joining[i] /\ joinResult'[i] = joinResult[i]
  BY <1>2, CallTypes
<1>4. /\ joinChan' \in [Joins -> Seq(Results)]
      /\ \A i \in Joins : i # j => joinChan'[i] = joinChan[i]
      /\ Len(joinChan'[j]) <= 1
  <2>1. CASE joinChan' = joinChan
    BY <2>1, CallTypes DEF CallInv, Registered
  <2>2. CASE joinChan[j] # <<>> /\ joinChan' = [joinChan EXCEPT ![j] = Tail(joinChan[j])]
    <3>1. joinChan \in [Joins -> Seq(Results)] /\ Len(joinChan[j]) <= 1
      BY CallTypes DEF CallInv, Registered
    <3>2. Tail(joinChan[j]) \in Seq(Results) /\ Len(Tail(joinChan[j])) <= 1
      BY <2>2, <3>1
    <3> QED
      BY <2>2, <3>1, <3>2
  <2> QED
    BY <2>1, <2>2 DEF JoinSend, JoinTakes, JoinGivesUp
<1>5. toRoom' \in Seq(Asks)
  <2>1. CASE toRoom' = toRoom
    BY <2>1, CallTypes
  <2>2. CASE toRoom' = Append(toRoom, [kind |-> "join", nick |-> joinNick[j]])
    <3>1. joinNick[j] \in Nicks
      BY <1>1 DEF CallInv, Registered
    <3>2. [kind |-> "join", nick |-> joinNick[j]] \in Asks
      BY <3>1 DEF Asks
    <3> QED
      BY <2>2, <3>2, CallTypes
  <2> QED
    BY <2>1, <2>2 DEF JoinSend, JoinTakes, JoinGivesUp
<1>6. MucTypes'
  BY <1>1, <1>3, <1>4, <1>5 DEF CallInv, MucTypes
<1>7. InProgress' = InProgress /\ j \in InProgress
  BY <1>1, <1>3 DEF InProgress
<1>8. Registered'
  BY <1>1, <1>3, <1>4, <1>7 DEF CallInv, Registered
<1> QED
  BY <1>6, <1>8 DEF CallInv

LEMMA EndCall == ASSUME CallInv, NEW j \in Joins, JoinEnd(j) PROVE CallInv'
<1>1. /\ UNCHANGED <<room, joinNick, joinResult, joinChan, answering, toRoom, fromRoom, us, people, topic,
                     mucUp, mucNews, clean, mucOrderly>>
      /\ joining[j] = "leaving" /\ joining' = [joining EXCEPT ![j] = "over"]
      /\ joinPending' = [joinPending EXCEPT ![joinNick[j]] = NoJoin]
  BY DEF JoinEnd, serviceVars
<1>2. joinNick[j] \in Nicks
  BY <1>1 DEF CallInv, Registered
<1>3. /\ joining' \in [Joins -> {"idle", "entered", "waiting", "leaving", "over"}]
      /\ joining'[j] = "over" /\ \A i \in Joins : i # j => joining'[i] = joining[i]
  BY <1>1, CallTypes
<1>4. /\ joinPending' \in [Nicks -> Joins \cup {NoJoin}] /\ joinPending'[joinNick[j]] = NoJoin
      /\ \A n \in Nicks : n # joinNick[j] => joinPending'[n] = joinPending[n]
  BY <1>1, <1>2, CallTypes
<1>5. MucTypes'
  BY <1>1, <1>3, <1>4 DEF CallInv, MucTypes
<1>6. InProgress' = InProgress \ {j}
  BY <1>1, <1>3 DEF InProgress
<1>7. Registered'
  BY <1>1, <1>3, <1>4, <1>6 DEF CallInv, Registered
<1> QED
  BY <1>5, <1>7 DEF CallInv

(* What handlePresence does with the message it reads (muc.go:262-310).     *)
LEMMA PresenceStep ==
    ASSUME CallInv, HandlePresence
    PROVE  /\ fromRoom # <<>> /\ fromRoom' = Tail(fromRoom) /\ answering = Idle
           /\ room' = NoRoom \/ room' \in Rooms
           /\ View(room') = After(View(room), Head(fromRoom))
           /\ room.known => room'.known
           /\ answering' # Idle =>
                  /\ answering' \in Answers /\ answering'.to \in InProgress /\ Answer(Head(fromRoom))
                  /\ answering'.result.kind = "room" =>
                         /\ Own(Head(fromRoom)) /\ answering'.result.at = Head(fromRoom).at
                         /\ answering'.result.room.joined
                         /\ answering'.result.room.occupants = View(room').occ
<1>1. /\ fromRoom # <<>> /\ fromRoom' = Tail(fromRoom) /\ answering = Idle /\ Head(fromRoom).kind = "presence"
  BY DEF HandlePresence, Reads
<1>2. PICK m : m = Head(fromRoom)
  OBVIOUS
<1>3. m \in Presences
  <2>1. m \in Msg
    BY <1>1, <1>2, CallTypes
  <2> QED
    BY <1>1, <1>2, <2>1 DEF Msg
<1>4. CASE ~m.user
  <2>1. UNCHANGED <<room, answering>>
    BY <1>2, <1>4 DEF HandlePresence
  <2>2. ~Seen(m) /\ m.kind # "subject"
    BY <1>3, <1>4 DEF Seen, Presences
  <2>3. After(View(room), m) = View(room)
    BY <2>2 DEF After, View, Nobody
  <2> QED
    BY <1>1, <1>2, <2>1, <2>3, CallTypes
<1>5. CASE m.user
  <2>1. Seen(m)
    BY <1>1, <1>2, <1>5 DEF Seen
  <2>2. PICK r \in Rooms : r = Known
    BY CallTypes, KnownTypes
  <2>3. PICK occ : occ = IF m.type = "unavailable" THEN r.occupants \ {m.nick} ELSE r.occupants \cup {m.nick}
    OBVIOUS
  <2>4. PICK s : s = Updated(r, m, occ)
    OBVIOUS
  <2>5. /\ s \in Rooms /\ View(s) = After(View(r), m) /\ (Own(m) => s.joined) /\ s.occupants = View(s).occ
    BY <1>3, <2>1, <2>3, <2>4, RoomAfterView
  <2>6. RoomAfter(m) = s
    BY <2>2, <2>3, <2>4 DEF RoomAfter, OccupantsNow, Updated
  <2>7. room' = s /\ s.known
    <3>1. room' = RoomAfter(m)
      BY <1>2, <1>5 DEF HandlePresence
    <3> QED
      BY <2>5, <2>6, <3>1 DEF Rooms
  <2>8. View(room') = After(View(room), m)
    BY <2>2, <2>5, <2>7, CallTypes, KnownTypes
  <2>9. PICK j : j = PendingFor(s)
    OBVIOUS
  <2>10. j # NoJoin => j \in Joins /\ j \in InProgress
    BY <2>9, CallTypes DEF PendingFor, CallInv, Registered, InProgress
  <2>11. \/ answering' = Idle
         \/ /\ j # NoJoin /\ m.type = "error" /\ answering' = [to |-> j, result |-> [kind |-> "error"]]
         \/ /\ j # NoJoin /\ m.self /\ m.type # "unavailable"
            /\ answering' = [to |-> j, result |-> [kind |-> "room", room |-> s, at |-> m.at]]
    BY <1>2, <1>5, <2>6, <2>9 DEF HandlePresence
  <2>12. CASE answering' = Idle
    BY <1>1, <1>2, <2>5, <2>7, <2>8, <2>12
  <2>13. CASE j # NoJoin /\ m.type = "error" /\ answering' = [to |-> j, result |-> [kind |-> "error"]]
    <3>1. answering'.to = j /\ answering'.result.kind = "error" /\ answering' \in Answers
      BY <2>10, <2>13 DEF Answers, Results
    <3>2. Answer(m)
      BY <2>1, <2>13 DEF Answer
    <3> QED
      BY <1>1, <1>2, <2>5, <2>7, <2>8, <2>10, <2>13, <3>1, <3>2
  <2>14. CASE /\ j # NoJoin /\ m.self /\ m.type # "unavailable"
              /\ answering' = [to |-> j, result |-> [kind |-> "room", room |-> s, at |-> m.at]]
    <3>1. m.at \in SUBSET Names
      BY <1>3 DEF Presences
    <3>2. PICK res : res = [kind |-> "room", room |-> s, at |-> m.at]
      OBVIOUS
    <3>3. res \in Results /\ res.room = s /\ res.at = m.at
      BY <2>5, <3>1, <3>2 DEF Results
    <3>4. answering'.to = j /\ answering'.result = res /\ answering' \in Answers
      BY <2>10, <2>14, <3>2, <3>3 DEF Answers
    <3>5. Own(m) /\ Answer(m)
      BY <2>1, <2>14 DEF Answer, Own
    <3> QED
      BY <1>1, <1>2, <2>5, <2>7, <2>8, <2>10, <2>14, <3>3, <3>4, <3>5
  <2> QED
    BY <2>11, <2>12, <2>13, <2>14
<1> QED
  BY <1>4, <1>5

(* What handleMessage does (muc.go:318-332).                                *)
LEMMA MessageStep ==
    ASSUME CallInv, HandleMessage
    PROVE  /\ fromRoom # <<>> /\ fromRoom' = Tail(fromRoom) /\ answering = Idle
           /\ room' = NoRoom \/ room' \in Rooms
           /\ room.known => View(room') = After(View(room), Head(fromRoom)) /\ room'.known
           /\ ~room.known => room' = room
           /\ ~Answer(Head(fromRoom)) /\ ~Own(Head(fromRoom))
<1>1. /\ fromRoom # <<>> /\ fromRoom' = Tail(fromRoom) /\ answering = Idle /\ Head(fromRoom).kind = "subject"
  BY DEF HandleMessage, Reads
<1>2. PICK m : m = Head(fromRoom)
  OBVIOUS
<1>3. m.subject \in Subjects \cup {NoSubject} /\ m.kind = "subject"
  <2>1. m \in Msg
    BY <1>1, <1>2, CallTypes
  <2> QED
    BY <1>1, <1>2, <2>1 DEF Msg, Presences
<1>4. ~Seen(m) /\ ~Answer(m) /\ ~Own(m)
  BY <1>3 DEF Seen, Answer, Own
<1>5. CASE room.known
  <2>1. room \in Rooms
    BY <1>5, CallTypes, RoomTypes
  <2>2. PICK s : s = IF m.subject # NoSubject THEN [room EXCEPT !.subject = m.subject] ELSE room
    OBVIOUS
  <2>3. room' = s
    BY <1>2, <1>5, <2>2 DEF HandleMessage
  <2>4. /\ s \in Rooms /\ s.known /\ s.joined = room.joined /\ s.occupants = room.occupants
        /\ s.subject = IF m.subject # NoSubject THEN m.subject ELSE room.subject
    BY <1>3, <2>1, <2>2 DEF Rooms
  <2>5. View(s) = After(View(room), m)
    BY <1>3, <1>4, <1>5, <2>4 DEF View, After
  <2> QED
    BY <1>1, <1>2, <1>4, <1>5, <2>3, <2>4, <2>5
<1>6. CASE ~room.known
  <2>1. room' = room
    BY <1>6 DEF HandleMessage
  <2> QED
    BY <1>1, <1>2, <1>4, <1>6, <2>1, CallTypes
<1> QED
  BY <1>5, <1>6

LEMMA ReaderCall ==
    ASSUME CallInv, HandlePresence \/ AnswerJoin \/ HandleMessage PROVE CallInv'
<1>1. /\ UNCHANGED <<joinPending, joining, joinNick, joinResult, toRoom, us, people, topic, mucUp, mucNews,
                     clean, mucOrderly>>
  BY DEF HandlePresence, AnswerJoin, HandleMessage, callVars, serviceVars
<1>2. InProgress' = InProgress
  BY <1>1 DEF InProgress
<1>3. \A j \in InProgress : joining[j] # "idle"
  BY DEF InProgress
<1>4. CASE HandlePresence
  <2>1. joinChan' = joinChan
    BY <1>4 DEF HandlePresence
  <2>2. fromRoom' \in Seq(Msg)
    <3>1. fromRoom # <<>> /\ fromRoom' = Tail(fromRoom)
      BY <1>4, PresenceStep
    <3>2. fromRoom \in Seq(Msg)
      BY CallTypes
    <3> QED
      BY <3>1, <3>2
  <2>3. /\ room' = NoRoom \/ room' \in Rooms
        /\ answering' = Idle \/ (answering' \in Answers /\ answering'.to \in InProgress)
    BY <1>4, PresenceStep
  <2>4. MucTypes'
    BY <1>1, <2>1, <2>2, <2>3 DEF CallInv, MucTypes
  <2>5. \A j \in Joins : joining[j] = "idle" => answering'.to # j
    BY <1>3, <2>3, RoomTypes, MucAssumption
  <2>6. Registered'
    BY <1>1, <1>2, <2>1, <2>5 DEF CallInv, Registered
  <2> QED
    BY <2>4, <2>6 DEF CallInv
<1>5. CASE HandleMessage
  <2>1. joinChan' = joinChan /\ answering' = answering
    BY <1>5 DEF HandleMessage
  <2>2. fromRoom' \in Seq(Msg)
    <3>1. fromRoom # <<>> /\ fromRoom' = Tail(fromRoom)
      BY <1>5, MessageStep
    <3>2. fromRoom \in Seq(Msg)
      BY CallTypes
    <3> QED
      BY <3>1, <3>2
  <2>3. room' = NoRoom \/ room' \in Rooms
    BY <1>5, MessageStep
  <2>4. MucTypes'
    BY <1>1, <2>1, <2>2, <2>3 DEF CallInv, MucTypes
  <2>5. Registered'
    BY <1>1, <1>2, <2>1 DEF CallInv, Registered
  <2> QED
    BY <2>4, <2>5 DEF CallInv
<1>6. CASE AnswerJoin
  <2>1. /\ answering # Idle /\ Len(joinChan[answering.to]) < 1 /\ answering' = Idle
        /\ joinChan' = [joinChan EXCEPT ![answering.to] = Append(@, answering.result)]
        /\ UNCHANGED <<room, fromRoom>>
    BY <1>6 DEF AnswerJoin, JoinCapacity
  <2>2. PICK j \in Joins : j = answering.to
    BY <2>1, CallTypes DEF Answers
  <2>3. answering.result \in Results
    BY <2>1, CallTypes DEF Answers
  <2>4. joinChan \in [Joins -> Seq(Results)]
    BY CallTypes
  <2>5. Append(joinChan[j], answering.result) \in Seq(Results)
        /\ Len(Append(joinChan[j], answering.result)) <= 1
    BY <2>1, <2>2, <2>3, <2>4
  <2>6. joinChan' = [joinChan EXCEPT ![j] = Append(joinChan[j], answering.result)]
    BY <2>1, <2>2
  <2>7. /\ joinChan' \in [Joins -> Seq(Results)] /\ Len(joinChan'[j]) <= 1
        /\ \A i \in Joins : i # j => joinChan'[i] = joinChan[i]
    BY <2>4, <2>5, <2>6
  <2>8. MucTypes'
    BY <1>1, <2>1, <2>7 DEF CallInv, MucTypes
  <2>9. \A i \in Joins : answering'.to # i
    BY <2>1, RoomTypes, MucAssumption
  <2>10. joining[j] # "idle"
    BY <2>2 DEF CallInv, Registered
  <2>11. Registered'
    BY <1>1, <1>2, <2>7, <2>9, <2>10 DEF CallInv, Registered
  <2> QED
    BY <2>8, <2>11 DEF CallInv
<1> QED
  BY <1>4, <1>5, <1>6

(* What the service sends to one it lets in.                                *)
LEMMA EveryoneFacts ==
    ASSUME CallInv, NEW n \in Nicks
    PROVE  LET c == Cardinality(people)
           IN /\ c \in Nat /\ Everyone(n) \in Seq(Msg) /\ Len(Everyone(n)) = c + 2
              /\ \A i \in 1..c : SetToSeq(people)[i] \in people
                                 /\ Everyone(n)[i] = Presence(SetToSeq(people)[i], "available", FALSE)
              /\ Everyone(n)[c + 1] = [Presence(n, "available", TRUE) EXCEPT !.at = people \cup {n}]
              /\ Everyone(n)[c + 2] = Subject(topic)
<1>1. people \subseteq Others /\ topic \in Subjects \cup {NoSubject}
  BY CallTypes
<1>2. IsFiniteSet(people)
  BY <1>1, FS_Subset, MucAssumption
<1>3. PICK c \in Nat : c = Cardinality(people)
  BY <1>2, PeopleSeq
<1>4. PICK f : f = SetToSeq(people)
  OBVIOUS
<1>5. \A i \in 1..c : f[i] \in people /\ f[i] \in Names
  BY <1>1, <1>2, <1>3, <1>4, PeopleSeq DEF Names
<1>6. PICK g : g = [i \in 1..c |-> Presence(f[i], "available", FALSE)]
  OBVIOUS
<1>7. g \in [1..c -> Msg]
  BY <1>5, <1>6, PersonMsg
<1>8. g \in Seq(Msg) /\ Len(g) = c
  BY <1>7
<1>9. PICK a : a = [Presence(n, "available", TRUE) EXCEPT !.at = people \cup {n}]
  OBVIOUS
<1>10. a \in Msg
  <2>1. n \in Names /\ people \cup {n} \in SUBSET Names
    BY <1>1 DEF Names
  <2> QED
    BY <1>9, <2>1, OwnMsg
<1>11. PICK b : b = Subject(topic)
  OBVIOUS
<1>12. b \in Msg
  BY <1>1, <1>11, SubjectMsg
<1>13. Everyone(n) = g \o <<a, b>>
  BY <1>3, <1>4, <1>6, <1>9, <1>11 DEF Everyone
<1>14. /\ g \o <<a, b>> \in Seq(Msg) /\ Len(g \o <<a, b>>) = c + 2
       /\ \A i \in 1..c : (g \o <<a, b>>)[i] = g[i]
       /\ (g \o <<a, b>>)[c + 1] = a /\ (g \o <<a, b>>)[c + 2] = b
  BY <1>8, <1>10, <1>12
<1>15. \A i \in 1..c : g[i] = Presence(f[i], "available", FALSE)
  BY <1>6
<1> QED
  BY <1>3, <1>4, <1>5, <1>9, <1>11, <1>13, <1>14, <1>15

(* The steps of the service and of the stream leave the calls alone.        *)
LEMMA ServiceCalls ==
    ASSUME CallInv, UNCHANGED <<room, joinPending, joining, joinNick, joinResult, joinChan, answering>>,
           toRoom' \in Seq(Asks), fromRoom' \in Seq(Msg),
           us' \in Nicks \cup {NoNick}, people' \subseteq Others, us' \notin people',
           topic' \in Subjects \cup {NoSubject}, mucUp' \in BOOLEAN, mucNews' \in 0..MaxMucNews,
           mucOrderly' \in BOOLEAN, clean' \subseteq clean
    PROVE  CallInv'
<1>1. MucTypes'
  BY DEF CallInv, MucTypes
<1>2. InProgress' = InProgress
  BY DEF InProgress
<1>3. Registered'
  BY <1>2 DEF CallInv, Registered
<1> QED
  BY <1>1, <1>3 DEF CallInv

LEMMA TakesCall ==
    ASSUME CallInv, ServiceAdmits \/ ServiceRenames \/ ServiceLetsGo
                    \/ \E user \in BOOLEAN : ServiceRefuses(user)
    PROVE  CallInv'
<1>1. /\ UNCHANGED <<room, joinPending, joining, joinNick, joinResult, joinChan, answering, mucUp, mucNews,
                     mucOrderly, clean, people, topic>>
      /\ toRoom # <<>> /\ toRoom' = Tail(toRoom)
  BY DEF ServiceAdmits, ServiceRenames, ServiceLetsGo, ServiceRefuses, Takes, Unchanged, callVars, serviceVars
<1>2. toRoom \in Seq(Asks) /\ fromRoom \in Seq(Msg) /\ Head(toRoom) \in Asks /\ Tail(toRoom) \in Seq(Asks)
  BY <1>1, CallTypes
<1>3. PICK n : n = Head(toRoom).nick
  OBVIOUS
<1>4. n \in Names /\ (Head(toRoom).kind = "join" => n \in Nicks)
  BY <1>2, <1>3 DEF Asks, Names
<1>5. us \in Nicks \cup {NoNick} /\ people \subseteq Others /\ us \notin people /\ (us # NoNick => us \in Names)
  BY CallTypes DEF Names
<1>6. fromRoom' \in Seq(Msg) /\ us' \in Nicks \cup {NoNick} /\ us' \notin people
  <2>1. CASE ServiceAdmits
    <3>1. Head(toRoom).kind = "join" /\ n \notin people /\ us' = n /\ fromRoom' = fromRoom \o Everyone(n)
      BY <1>3, <2>1 DEF ServiceAdmits, Takes
    <3>2. Everyone(n) \in Seq(Msg)
      BY <1>4, <3>1, EveryoneFacts
    <3> QED
      BY <1>2, <1>4, <3>1, <3>2
  <2>2. CASE ServiceRenames
    <3>1. PICK a, b : a = Presence(us, "unavailable", TRUE)
                      /\ b = [Presence(n, "available", TRUE) EXCEPT !.at = people \cup {n}]
      OBVIOUS
    <3>2. Head(toRoom).kind = "join" /\ n \notin people /\ us' = n /\ fromRoom' = fromRoom \o <<a, b>>
          /\ us # NoNick
      BY <1>3, <2>2, <3>1 DEF ServiceRenames, Takes
    <3>3. people \cup {n} \in SUBSET Names
      BY <1>4, <1>5 DEF Names
    <3>4. a \in Msg
      BY <1>5, <3>1, <3>2, GoneMsg
    <3>5. b \in Msg
      BY <1>4, <3>1, <3>3, OwnMsg
    <3> QED
      BY <1>2, <1>4, <3>2, <3>4, <3>5
  <2>3. CASE ServiceLetsGo
    <3>1. PICK a : a = Presence(us, "unavailable", TRUE)
      OBVIOUS
    <3>2. us \in Names => a \in Msg
      BY <3>1, GoneMsg
    <3>3. us = n => us \in Names
      BY <1>4
    <3>4. NoNick \notin people
      BY <1>5, MucAssumption
    <3>5. \/ us = n /\ us' = NoNick /\ fromRoom' = Append(fromRoom, a)
          \/ us' = us /\ fromRoom' = fromRoom
      BY <1>3, <2>3, <3>1 DEF ServiceLetsGo
    <3>6. CASE us = n /\ us' = NoNick /\ fromRoom' = Append(fromRoom, a)
      <4>1. Append(fromRoom, a) \in Seq(Msg)
        BY <1>2, <3>2, <3>3, <3>6
      <4> QED
        BY <3>4, <3>6, <4>1
    <3>7. CASE us' = us /\ fromRoom' = fromRoom
      BY <1>2, <1>5, <3>7
    <3> QED
      BY <3>5, <3>6, <3>7
  <2>4. ASSUME NEW user \in BOOLEAN, ServiceRefuses(user)
        PROVE  fromRoom' \in Seq(Msg) /\ us' \in Nicks \cup {NoNick} /\ us' \notin people
    <3>1. PICK a : a = [Presence(n, "error", FALSE) EXCEPT !.user = user]
      OBVIOUS
    <3>2. fromRoom' = Append(fromRoom, a) /\ us' = us
      BY <1>3, <2>4, <3>1 DEF ServiceRefuses, serviceVars
    <3>3. a \in Msg
      BY <1>4, <3>1, ErrorMsg
    <3> QED
      BY <1>2, <1>5, <3>2, <3>3
  <2> QED
    BY <2>1, <2>2, <2>3, <2>4
<1>7. /\ people' \subseteq Others /\ us' \notin people' /\ topic' \in Subjects \cup {NoSubject}
      /\ mucUp' \in BOOLEAN /\ mucNews' \in 0..MaxMucNews /\ mucOrderly' \in BOOLEAN /\ clean' \subseteq clean
  BY <1>1, <1>6 DEF CallInv, MucTypes
<1> QED
  BY <1>1, <1>2, <1>6, <1>7, ServiceCalls

(* The announcements of the service: what is sent, if the client is there.  *)
News(m) ==
    \/ \E o \in Others : SomeoneComes(o) /\ m = Presence(o, "available", FALSE)
    \/ \E o \in Others : SomeoneGoes(o) /\ m = Presence(o, "unavailable", FALSE)
    \/ \E s \in Subjects \cup {NoSubject} : SubjectChanges(s) /\ m = Subject(s)
    \/ Update /\ m = [Presence(us, "available", TRUE) EXCEPT !.at = people \cup {us}]
    \/ Kick /\ m = Presence(us, "unavailable", TRUE)

LEMMA SomeNews ==
    ASSUME \/ \E o \in Others : SomeoneComes(o) \/ SomeoneGoes(o)
           \/ \E s \in Subjects \cup {NoSubject} : SubjectChanges(s)
           \/ Update \/ Kick
    PROVE  \E m : News(m)
  BY DEF News

LEMMA NewsStep ==
    ASSUME CallInv, NEW m, News(m)
    PROVE  /\ m \in Msg
           /\ UNCHANGED <<room, joinPending, joining, joinNick, joinResult, joinChan, answering, mucUp, toRoom>>
           /\ mucUp /\ mucNews' \in 0..MaxMucNews
           /\ fromRoom' = IF us = NoNick THEN fromRoom ELSE Append(fromRoom, m)
           /\ clean' \subseteq clean
<1>1. us \in Nicks \cup {NoNick} /\ people \subseteq Others /\ clean \subseteq Joins
  BY CallTypes
<1>2. m \in Msg
  <2>1. CASE \E o \in Others : m = Presence(o, "available", FALSE) \/ m = Presence(o, "unavailable", FALSE)
    <3>1. \A o \in Others : o \in Names
      BY DEF Names
    <3> QED
      BY <2>1, <3>1, PersonMsg
  <2>2. CASE \E s \in Subjects \cup {NoSubject} : m = Subject(s)
    BY <2>2, SubjectMsg
  <2>3. CASE us # NoNick /\ m = [Presence(us, "available", TRUE) EXCEPT !.at = people \cup {us}]
    <3>1. us \in Names /\ people \cup {us} \in SUBSET Names
      BY <1>1, <2>3 DEF Names
    <3> QED
      BY <2>3, <3>1, OwnMsg
  <2>4. CASE us # NoNick /\ m = Presence(us, "unavailable", TRUE)
    <3>1. us \in Names
      BY <1>1, <2>4 DEF Names
    <3> QED
      BY <2>4, <3>1, GoneMsg
  <2> QED
    BY <2>1, <2>2, <2>3, <2>4 DEF News, Update, Kick
<1>3. Announce(m)
  BY DEF News, SomeoneComes, SomeoneGoes, SubjectChanges, Update, Kick
<1>4. mucNews \in 0..MaxMucNews /\ MaxMucNews \in Nat
  BY MucAssumption DEF CallInv, MucTypes
<1>5. clean' \subseteq clean
  BY DEF News, SomeoneComes, SomeoneGoes, SubjectChanges, Update, Kick
<1> QED
  BY <1>2, <1>3, <1>4, <1>5 DEF Announce, Unchanged, callVars

LEMMA NewsCall == ASSUME CallInv, NEW m, News(m) PROVE CallInv'
<1>1. /\ m \in Msg
      /\ UNCHANGED <<room, joinPending, joining, joinNick, joinResult, joinChan, answering, mucUp, toRoom>>
      /\ mucNews' \in 0..MaxMucNews
      /\ fromRoom' = IF us = NoNick THEN fromRoom ELSE Append(fromRoom, m)
      /\ clean' \subseteq clean
  BY NewsStep
<1>2. toRoom' \in Seq(Asks) /\ mucUp' \in BOOLEAN
  BY <1>1 DEF CallInv, MucTypes
<1>3. fromRoom' \in Seq(Msg)
  <2>1. fromRoom \in Seq(Msg)
    BY CallTypes
  <2>2. Append(fromRoom, m) \in Seq(Msg)
    BY <1>1, <2>1
  <2> QED
    BY <1>1, <2>1, <2>2
<1>4. us \in Nicks \cup {NoNick} /\ people \subseteq Others /\ us \notin people /\ NoNick \notin Others
  BY CallTypes, MucAssumption
<1>5. us' \in Nicks \cup {NoNick} /\ people' \subseteq Others /\ us' \notin people'
  BY <1>4 DEF News, SomeoneComes, SomeoneGoes, SubjectChanges, Update, Kick, serviceVars
<1>6. topic' \in Subjects \cup {NoSubject}
  BY CallTypes DEF News, SomeoneComes, SomeoneGoes, SubjectChanges, Update, Kick, serviceVars
<1>7. mucOrderly' \in BOOLEAN
  <2>1. mucOrderly \in BOOLEAN
    BY CallTypes
  <2>2. \/ mucOrderly' = mucOrderly
        \/ mucOrderly' = (mucOrderly /\ InProgress = {})
    BY DEF News, SomeoneComes, SomeoneGoes, SubjectChanges, Update, Kick
  <2> QED
    BY <2>1, <2>2, Zenon
<1> QED
  BY <1>1, <1>2, <1>3, <1>5, <1>6, <1>7, ServiceCalls

LEMMA RestCall == ASSUME CallInv, Leave \/ StreamEnds PROVE CallInv'
<1>1. /\ UNCHANGED <<room, joinPending, joining, joinNick, joinResult, joinChan, answering, fromRoom, us,
                     people, topic, clean>>
      /\ mucUp' \in BOOLEAN
  BY DEF Leave, StreamEnds, callVars, serviceVars, CallInv, MucTypes
<1>2. mucNews' \in 0..MaxMucNews
  <2>1. mucNews \in 0..MaxMucNews /\ MaxMucNews \in Nat
    BY MucAssumption DEF CallInv, MucTypes
  <2> QED
    BY <2>1 DEF Leave, StreamEnds
<1>3. mucOrderly' \in BOOLEAN
  <2>1. mucOrderly \in BOOLEAN
    BY CallTypes
  <2>2. mucOrderly' = mucOrderly \/ mucOrderly' = (mucOrderly /\ InProgress = {})
    BY DEF Leave, StreamEnds
  <2> QED
    BY <2>1, <2>2, Zenon
<1>4. toRoom' \in Seq(Asks)
  <2>1. CASE StreamEnds
    BY <2>1, CallTypes DEF StreamEnds
  <2>2. CASE Leave
    <3>1. room.nick \in Names /\ toRoom' = Append(toRoom, [kind |-> "leave", nick |-> room.nick])
      <4>1. room.known /\ room.nick # NoNick /\ toRoom' = Append(toRoom, [kind |-> "leave", nick |-> room.nick])
        BY <2>2 DEF Leave
      <4>2. room \in Rooms
        BY <4>1, CallTypes, RoomTypes
      <4> QED
        BY <4>1, <4>2 DEF Rooms
    <3>2. [kind |-> "leave", nick |-> room.nick] \in Asks
      BY <3>1 DEF Asks
    <3> QED
      BY <3>1, <3>2, CallTypes
  <2> QED
    BY <2>1, <2>2
<1>5. /\ fromRoom' \in Seq(Msg) /\ us' \in Nicks \cup {NoNick} /\ people' \subseteq Others
      /\ us' \notin people' /\ topic' \in Subjects \cup {NoSubject} /\ clean' \subseteq clean
  BY <1>1, CallTypes
<1> QED
  BY <1>1, <1>2, <1>3, <1>4, <1>5, ServiceCalls

LEMMA NextCallInv == CallInv /\ [MucNext]_mucVars => CallInv'
<1> SUFFICES ASSUME CallInv, [MucNext]_mucVars PROVE CallInv'
  OBVIOUS
<1>1. CASE \E j \in Joins : JoinSend(j) \/ JoinTakes(j) \/ JoinGivesUp(j)
  BY <1>1, CallStep
<1>2. CASE \E j \in Joins : JoinEnd(j)
  BY <1>2, EndCall
<1>3. CASE \E j \in Joins : \E n \in Nicks : Join(j, n)
  BY <1>3, JoinCall
<1>4. CASE HandlePresence \/ AnswerJoin \/ HandleMessage
  BY <1>4, ReaderCall
<1>5. CASE ServiceAdmits \/ ServiceRenames \/ ServiceLetsGo \/ \E user \in BOOLEAN : ServiceRefuses(user)
  BY <1>5, TakesCall
<1>6. CASE \/ \E o \in Others : SomeoneComes(o) \/ SomeoneGoes(o)
           \/ \E s \in Subjects \cup {NoSubject} : SubjectChanges(s)
           \/ Update \/ Kick
  BY <1>6, SomeNews, NewsCall
<1>7. CASE Leave \/ StreamEnds
  BY <1>7, RestCall
<1>8. CASE UNCHANGED mucVars
  BY <1>8 DEF mucVars, callVars, serviceVars, CallInv, MucTypes, Registered, InProgress
<1> QED
  BY <1>1, <1>2, <1>3, <1>4, <1>5, <1>6, <1>7, <1>8 DEF MucNext
(***************************************************************************)
(* Reading q, a client that holds v comes to hold w, and on its own        *)
(* presences it holds just the people the service had then.                *)
(***************************************************************************)
Track(L, q, v) ==
    /\ L[0] = v
    /\ \A i \in 1..Len(q) : L[i] = After(L[i - 1], q[i]) /\ (Own(q[i]) => L[i].occ = q[i].at)
Tracks(q, v, w) == \E L : Track(L, q, v) /\ L[Len(q)] = w

LEMMA TracksNone == ASSUME NEW v PROVE Tracks(<<>>, v, v) /\ \A w : Tracks(<<>>, v, w) => w = v
<1>1. PICK L : L = [i \in {0} |-> v]
  OBVIOUS
<1>2. L[0] = v
  BY <1>1
<1>3. Track(L, <<>>, v)
  BY <1>2 DEF Track
<1>4. L[Len(<<>>)] = v
  BY <1>2
<1> QED
  BY <1>3, <1>4 DEF Tracks, Track

LEMMA TracksTail ==
    ASSUME NEW q \in Seq(Msg), q # <<>>, NEW v, NEW w, Tracks(q, v, w)
    PROVE  /\ Tracks(Tail(q), After(v, Head(q)), w)
           /\ Own(Head(q)) => After(v, Head(q)).occ = Head(q).at
<1>1. PICK L : Track(L, q, v) /\ L[Len(q)] = w
  BY DEF Tracks
<1>2. PICK n \in Nat : n = Len(q)
  OBVIOUS
<1>3. n >= 1 /\ Len(Tail(q)) = n - 1 /\ Head(q) = q[1] /\ \A i \in 1..(n - 1) : Tail(q)[i] = q[i + 1]
  BY <1>2
<1>4. PICK K : K = [i \in 0..(n - 1) |-> L[i + 1]]
  OBVIOUS
<1>5. \A i \in 0..(n - 1) : K[i] = L[i + 1]
  BY <1>4
<1>6. L[0] = v /\ \A i \in 1..n : L[i] = After(L[i - 1], q[i]) /\ (Own(q[i]) => L[i].occ = q[i].at)
  BY <1>1, <1>2 DEF Track
<1>7. L[1] = After(v, q[1]) /\ (Own(q[1]) => L[1].occ = q[1].at)
  <2>1. 1 \in 1..n /\ 1 - 1 = 0
    BY <1>3
  <2> QED
    BY <1>6, <2>1
<1>8. K[0] = L[1] /\ K[n - 1] = w
  <2>1. 0 \in 0..(n - 1) /\ n - 1 \in 0..(n - 1) /\ 0 + 1 = 1 /\ (n - 1) + 1 = n
    BY <1>3
  <2> QED
    BY <1>1, <1>2, <1>5, <2>1
<1>9. ASSUME NEW i \in 1..(n - 1)
      PROVE  K[i] = After(K[i - 1], Tail(q)[i]) /\ (Own(Tail(q)[i]) => K[i].occ = Tail(q)[i].at)
  <2>1. i + 1 \in 1..n /\ (i + 1) - 1 = i /\ i \in 0..(n - 1) /\ i - 1 \in 0..(n - 1) /\ (i - 1) + 1 = i
    OBVIOUS
  <2>2. K[i] = L[i + 1] /\ K[i - 1] = L[i]
    BY <1>5, <2>1
  <2>3. L[i + 1] = After(L[i], q[i + 1]) /\ (Own(q[i + 1]) => L[i + 1].occ = q[i + 1].at)
    BY <1>6, <2>1
  <2>4. Tail(q)[i] = q[i + 1]
    BY <1>3
  <2> QED
    BY <2>2, <2>3, <2>4
<1>10. Track(K, Tail(q), After(v, Head(q)))
  BY <1>3, <1>7, <1>8, <1>9 DEF Track
<1>11. K[Len(Tail(q))] = w
  BY <1>3, <1>8
<1> QED
  BY <1>3, <1>7, <1>10, <1>11 DEF Tracks

LEMMA TracksAppend ==
    ASSUME NEW q \in Seq(Msg), NEW m \in Msg, NEW v, NEW w, Tracks(q, v, w),
           Own(m) => After(w, m).occ = m.at
    PROVE  Tracks(Append(q, m), v, After(w, m))
<1>1. PICK L : Track(L, q, v) /\ L[Len(q)] = w
  BY DEF Tracks
<1>2. PICK n \in Nat : n = Len(q)
  OBVIOUS
<1>3. /\ Len(Append(q, m)) = n + 1 /\ Append(q, m)[n + 1] = m
      /\ \A i \in 1..n : Append(q, m)[i] = q[i]
  BY <1>2
<1>4. PICK K : K = [i \in 0..(n + 1) |-> IF i = n + 1 THEN After(w, m) ELSE L[i]]
  OBVIOUS
<1>5. K[n + 1] = After(w, m) /\ \A i \in 0..n : K[i] = L[i]
  BY <1>4
<1>6. L[0] = v /\ \A i \in 1..n : L[i] = After(L[i - 1], q[i]) /\ (Own(q[i]) => L[i].occ = q[i].at)
  BY <1>1, <1>2 DEF Track
<1>7. K[0] = v /\ K[n] = w
  BY <1>1, <1>2, <1>5, <1>6
<1>8. ASSUME NEW i \in 1..(n + 1)
      PROVE  K[i] = After(K[i - 1], Append(q, m)[i])
             /\ (Own(Append(q, m)[i]) => K[i].occ = Append(q, m)[i].at)
  <2>1. CASE i = n + 1
    <3>1. i - 1 = n
      BY <2>1
    <3> QED
      BY <1>3, <1>5, <1>7, <2>1, <3>1
  <2>2. CASE i # n + 1
    <3>1. i \in 1..n /\ i \in 0..n /\ i - 1 \in 0..n
      BY <2>2
    <3>2. K[i] = L[i] /\ K[i - 1] = L[i - 1] /\ Append(q, m)[i] = q[i]
      BY <1>3, <1>5, <3>1
    <3> QED
      BY <1>6, <3>1, <3>2
  <2> QED
    BY <2>1, <2>2
<1>9. Track(K, Append(q, m), v)
  BY <1>3, <1>7, <1>8 DEF Track
<1>10. K[Len(Append(q, m))] = After(w, m)
  BY <1>3, <1>5
<1> QED
  BY <1>9, <1>10 DEF Tracks

(* One who is let in comes to hold everyone there, and the subject.         *)
LEMMA TracksEveryone ==
    ASSUME CallInv, NEW n \in Nicks
    PROVE  \E w : /\ Tracks(Everyone(n), Nobody, w)
                  /\ w.occ = people \cup {n} /\ w.status = "in" /\ w.subj = topic
<1>1. people \subseteq Others /\ topic \in Subjects \cup {NoSubject}
  BY CallTypes
<1>2. IsFiniteSet(people)
  BY <1>1, FS_Subset, MucAssumption
<1>3. PICK c \in Nat : c = Cardinality(people)
  BY <1>2, PeopleSeq
<1>4. PICK f : f = SetToSeq(people)
  OBVIOUS
<1>5. PICK q : q = Everyone(n)
  OBVIOUS
<1>6. PICK a : a = [Presence(n, "available", TRUE) EXCEPT !.at = people \cup {n}]
  OBVIOUS
<1>7. /\ Len(q) = c + 2
      /\ \A i \in 1..c : f[i] \in people /\ q[i] = Presence(f[i], "available", FALSE)
      /\ q[c + 1] = a /\ q[c + 2] = Subject(topic)
  BY <1>3, <1>4, <1>5, <1>6, EveryoneFacts
<1>8. \A x \in people : \E i \in 1..c : f[i] = x
  BY <1>2, <1>3, <1>4, PeopleSeq
<1>9. PICK G : G = [i \in 0..c |-> [occ |-> {f[x] : x \in 1..i}, status |-> "out", subj |-> NoSubject]]
  OBVIOUS
<1>10. \A i \in 0..c : G[i].occ = {f[x] : x \in 1..i} /\ G[i].status = "out" /\ G[i].subj = NoSubject
                       /\ G[i] = [occ |-> {f[x] : x \in 1..i}, status |-> "out", subj |-> NoSubject]
  BY <1>9
<1>11. G[0] = Nobody
  <2>1. {f[x] : x \in 1..0} = {} /\ 0 \in 0..c
    OBVIOUS
  <2> QED
    BY <1>10, <2>1 DEF Nobody
<1>12. G[c].occ = people
  <2>1. c \in 0..c
    OBVIOUS
  <2>2. {f[x] : x \in 1..c} = people
    BY <1>7, <1>8
  <2> QED
    BY <1>10, <2>1, <2>2
<1>13. ASSUME NEW i \in 1..c PROVE G[i] = After(G[i - 1], q[i]) /\ ~Own(q[i])
  <2>1. i \in 0..c /\ i - 1 \in 0..c /\ f[i] \in Names /\ q[i] = Presence(f[i], "available", FALSE)
    <3>1. f[i] \in people /\ q[i] = Presence(f[i], "available", FALSE)
      BY <1>7
    <3>2. f[i] \in Names
      BY <1>1, <3>1 DEF Names
    <3> QED
      BY <3>1, <3>2
  <2>2. PICK v : v = G[i - 1]
    OBVIOUS
  <2>3. /\ ~Own(q[i]) /\ After(v, q[i]).occ = v.occ \cup {f[i]}
        /\ After(v, q[i]).status = v.status /\ After(v, q[i]).subj = v.subj
    <3>1. PICK o \in Names : o = f[i]
      BY <2>1
    <3>2. PICK m : m = Comer(o)
      OBVIOUS
    <3>3. ~Own(m) /\ After(v, m).occ = v.occ \cup {o} /\ After(v, m).status = v.status
          /\ After(v, m).subj = v.subj
      BY <3>2, ComerMsg
    <3>4. q[i] = m
      BY <2>1, <3>1, <3>2 DEF Comer
    <3> QED
      BY <3>1, <3>3, <3>4
  <2>4. {f[x] : x \in 1..i} = {f[x] : x \in 1..(i - 1)} \cup {f[i]}
    <3>1. 1..i = (1..(i - 1)) \cup {i}
      OBVIOUS
    <3> QED
      BY <3>1
  <2>5. After(v, q[i]) = [occ |-> After(v, q[i]).occ, status |-> After(v, q[i]).status,
                          subj |-> After(v, q[i]).subj]
    BY DEF After
  <2> QED
    BY <1>10, <2>1, <2>2, <2>3, <2>4, <2>5
<1>14. PICK x : x = After(G[c], a)
  OBVIOUS
<1>15. /\ Own(a) /\ a.at = people \cup {n} /\ x.occ = people \cup {n} /\ x.status = "in" /\ x.subj = NoSubject
  <2>1. n \in Names /\ people \cup {n} \in SUBSET Names /\ c \in 0..c
    BY <1>1 DEF Names
  <2>2. PICK v : v = G[c] /\ v.occ = people /\ v.subj = NoSubject
    BY <1>10, <1>12, <2>1
  <2>3. /\ Own(a) /\ a.at = people \cup {n} /\ After(v, a).occ = v.occ \cup {n} /\ After(v, a).status = "in"
        /\ After(v, a).subj = v.subj
    <3>1. PICK A \in SUBSET Names : A = people \cup {n}
      BY <2>1
    <3>2. a = OwnPresence(n, A)
      BY <1>6, <3>1 DEF OwnPresence
    <3>3. /\ Own(a) /\ a.at = A /\ After(v, a).occ = v.occ \cup {n} /\ After(v, a).status = "in"
          /\ After(v, a).subj = v.subj
      BY <2>1, <3>2, OwnView
    <3> QED
      BY <3>1, <3>3
  <2> QED
    BY <1>14, <2>2, <2>3
<1>16. PICK w : w = After(x, Subject(topic))
  OBVIOUS
<1>17. /\ ~Own(Subject(topic)) /\ w.occ = people \cup {n} /\ w.status = "in" /\ w.subj = topic
  BY <1>1, <1>15, <1>16, SubjectMsg
<1>18. PICK L : L = [i \in 0..(c + 2) |-> IF i = c + 2 THEN w ELSE IF i = c + 1 THEN x ELSE G[i]]
  OBVIOUS
<1>19. L[c + 2] = w /\ L[c + 1] = x /\ \A i \in 0..c : L[i] = G[i]
  BY <1>18
<1>20. ASSUME NEW i \in 1..(c + 2)
       PROVE  L[i] = After(L[i - 1], q[i]) /\ (Own(q[i]) => L[i].occ = q[i].at)
  <2>1. CASE i = c + 2
    <3>1. i - 1 = c + 1
      BY <2>1
    <3> QED
      BY <1>7, <1>16, <1>17, <1>19, <2>1, <3>1
  <2>2. CASE i = c + 1
    <3>1. i - 1 = c /\ c \in 0..c
      BY <2>2
    <3> QED
      BY <1>7, <1>14, <1>15, <1>19, <2>2, <3>1
  <2>3. CASE i \in 1..c
    <3>1. i \in 0..c /\ i - 1 \in 0..c
      BY <2>3
    <3> QED
      BY <1>13, <1>19, <2>3, <3>1
  <2> QED
    BY <2>1, <2>2, <2>3
<1>21. Track(L, q, Nobody)
  <2>1. L[0] = Nobody
    BY <1>11, <1>19
  <2> QED
    BY <1>7, <1>20, <2>1 DEF Track
<1>22. L[Len(q)] = w
  BY <1>7, <1>19
<1> QED
  BY <1>5, <1>17, <1>21, <1>22 DEF Tracks
(***************************************************************************)
(* The invariant.  What is under way ends in what the service has; a Join  *)
(* that is still to be answered has found nothing under way and a fresh    *)
(* Room; each Join is answered once; and the answers are exact.            *)
(***************************************************************************)
Ends(v) ==
    /\ us # NoNick => v.occ = people \cup {us}
    /\ mucOrderly => (v.status = "in" <=> us # NoNick) /\ (us # NoNick /\ topic # NoSubject => v.subj = topic)

Flow ==
    /\ ~room.known => us = NoNick /\ fromRoom = <<>>
    /\ \E w : Tracks(fromRoom, View(room), w) /\ Ends(w)

Blank(n) ==
    /\ us = NoNick /\ fromRoom = <<>> /\ answering = Idle /\ room = Room(n)
    /\ \A j \in InProgress : joinChan[j] = <<>>

Asked(i) == toRoom[i].kind = "join"

Begun ==
    /\ \A j \in Joins : joining[j] = "entered" =>
           Blank(joinNick[j]) /\ \A i \in 1..Len(toRoom) : ~Asked(i)
    /\ \A i \in 1..Len(toRoom) : Asked(i) => Blank(toRoom[i].nick)
    /\ \A i, k \in 1..Len(toRoom) : Asked(i) /\ Asked(k) => i = k

Single == \A i, j \in InProgress : i = j

Base == Single /\ Begun /\ Flow

(* The histories that the properties speak of.                              *)
Tracked == mucOrderly \/ clean \cap InProgress # {}

Free == \A j \in InProgress : joinChan[j] = <<>>

OneAnswer ==
    mucOrderly =>
        /\ answering # Idle => joinChan[answering.to] = <<>>
        /\ InProgress # {} =>
               /\ \A i, k \in 1..Len(fromRoom) : Answer(fromRoom[i]) /\ Answer(fromRoom[k]) => i = k
               /\ \A i \in 1..Len(fromRoom) : Answer(fromRoom[i]) => answering = Idle /\ Free

Exact(r) == r.kind = "room" => r.room.joined /\ r.room.occupants = r.at

ExactInv ==
    \A j \in clean :
        /\ Exact(joinResult[j]) /\ \A i \in 1..Len(joinChan[j]) : Exact(joinChan[j][i])
        /\ answering.to = j => Exact(answering.result)

MucInv == CallInv /\ (Tracked => Base) /\ OneAnswer /\ ExactInv

(* While anything comes from the service, no Join is still to be answered.  *)
Quiet == (\A j \in Joins : joining[j] # "entered") /\ (\A i \in 1..Len(toRoom) : ~Asked(i))

LEMMA BusyQuiet ==
    ASSUME Begun, fromRoom # <<>> \/ answering # Idle \/ us # NoNick \/ ~Free
    PROVE  Quiet
  BY DEF Begun, Blank, Quiet, Free

LEMMA QuietBegun == Quiet => Begun
  BY DEF Quiet, Begun

LEMMA TailAt ==
    ASSUME NEW S, NEW q \in Seq(S), q # <<>>
    PROVE  /\ Tail(q) \in Seq(S) /\ Head(q) = q[1] /\ 1 \in 1..Len(q)
           /\ \A i \in 1..Len(Tail(q)) : Tail(q)[i] = q[i + 1] /\ i + 1 \in 1..Len(q) /\ i + 1 # 1
  OBVIOUS

LEMMA FewerTracked ==
    ASSUME clean' \subseteq clean, InProgress' \subseteq InProgress, mucOrderly' => mucOrderly, Tracked'
    PROVE  Tracked
  BY DEF Tracked

LEMMA FewerSingle == ASSUME Single, InProgress' \subseteq InProgress PROVE Single'
  BY DEF Single

LEMMA ExactSame ==
    ASSUME ExactInv, UNCHANGED <<joinResult, joinChan, answering>>, clean' \subseteq clean
    PROVE  ExactInv'
  BY DEF ExactInv

LEMMA OneSame ==
    ASSUME OneAnswer, UNCHANGED <<answering, joinChan, fromRoom>>, InProgress' \subseteq InProgress,
           mucOrderly' => mucOrderly
    PROVE  OneAnswer'
  BY DEF OneAnswer, Free

LEMMA FlowSame ==
    ASSUME Flow, UNCHANGED <<room, fromRoom, us, people, topic>>, mucOrderly' => mucOrderly
    PROVE  Flow'
  BY DEF Flow, Ends

LEMMA InitMucInv == MucInit => MucInv
<1> SUFFICES ASSUME MucInit PROVE MucInv
  OBVIOUS
<1>1. CallInv
  BY InitCallInv
<1>2. /\ room = NoRoom /\ fromRoom = <<>> /\ toRoom = <<>> /\ answering = Idle /\ clean = {}
      /\ joinChan = [j \in Joins |-> <<>>] /\ joining = [j \in Joins |-> "idle"]
  BY DEF MucInit
<1>3. mucOrderly <=> us = NoNick
  BY DEF MucInit
<1>4. InProgress = {}
  BY <1>2 DEF InProgress
<1>5. Single
  BY <1>4 DEF Single
<1>6. Begun
  BY <1>2 DEF Begun
<1>7. ASSUME Tracked PROVE Flow
  <2>1. us = NoNick
    BY <1>2, <1>3, <1>7 DEF Tracked
  <2>2. Tracks(fromRoom, View(room), Nobody)
    <3>1. View(room) = Nobody
      BY <1>2, RoomTypes DEF View
    <3> QED
      BY <1>2, <3>1, TracksNone
  <2>3. Ends(Nobody)
    BY <2>1 DEF Ends, Nobody
  <2> QED
    BY <1>2, <2>1, <2>2, <2>3 DEF Flow
<1>8. OneAnswer
  BY <1>2, <1>4 DEF OneAnswer
<1>9. ExactInv
  BY <1>2 DEF ExactInv
<1> QED
  BY <1>1, <1>5, <1>6, <1>7, <1>8, <1>9 DEF MucInv, Base

LEMMA JoinMuc == ASSUME MucInv, NEW j \in Joins, NEW n \in Nicks, Join(j, n) PROVE MucInv'
<1>1. CallInv /\ CallInv'
  BY JoinCall DEF MucInv
<1>2. /\ UNCHANGED <<joinChan, answering, toRoom, fromRoom, us, people, topic>>
      /\ joining[j] = "idle" /\ joinNick' = [joinNick EXCEPT ![j] = n]
  BY DEF Join, serviceVars
<1>3. /\ joining \in [Joins -> {"idle", "entered", "waiting", "leaving", "over"}]
      /\ joinNick'[j] = n /\ \A i \in Joins : i # j => joinNick'[i] = joinNick[i]
  BY <1>1, <1>2, CallTypes
<1>4. joinChan[j] = <<>> /\ j \notin clean /\ answering.to # j /\ joinResult[j] = NoResult
  BY <1>1, <1>2 DEF CallInv, Registered
<1>5. j \notin InProgress
  BY <1>2 DEF InProgress
<1>6. CASE joinPending[n] # NoJoin
  <2>1. /\ UNCHANGED <<room, joinPending, clean, mucOrderly>>
        /\ joining' = [joining EXCEPT ![j] = "over"]
        /\ joinResult' = [joinResult EXCEPT ![j] = [kind |-> "pending"]]
    BY <1>6 DEF Join
  <2>2. joining'[j] = "over" /\ \A i \in Joins : i # j => joining'[i] = joining[i]
    BY <1>3, <2>1
  <2>3. \A i \in Joins : i # j => joinResult'[i] = joinResult[i]
    BY <1>1, <2>1, CallTypes
  <2>4. InProgress' = InProgress
    BY <1>5, <2>2 DEF InProgress
  <2>5. ASSUME Tracked' PROVE Base'
    <3>1. Base
      BY <2>1, <2>4, <2>5, FewerTracked DEF MucInv
    <3>2. Single'
      BY <2>4, <3>1, FewerSingle DEF Base
    <3>3. \A k : Blank(k) => Blank(k)'
      BY <1>2, <2>1, <2>4 DEF Blank
    <3>4. Begun'
      BY <1>2, <1>3, <2>2, <3>1, <3>3 DEF Base, Begun, Asked
    <3>5. Flow'
      BY <1>2, <2>1, <3>1, FlowSame DEF Base
    <3> QED
      BY <3>2, <3>4, <3>5 DEF Base
  <2>6. OneAnswer'
    BY <1>2, <2>1, <2>4, OneSame DEF MucInv
  <2>7. ExactInv'
    BY <1>2, <1>4, <2>1, <2>3, CallTypes, <1>1 DEF MucInv, ExactInv
  <2> QED
    BY <1>1, <2>5, <2>6, <2>7 DEF MucInv
<1>7. CASE joinPending[n] = NoJoin
  <2>1. /\ UNCHANGED joinResult /\ room' = Room(n)
        /\ joining' = [joining EXCEPT ![j] = "entered"]
        /\ clean' = (IF Undisturbed THEN clean \cup {j} ELSE clean \ InProgress)
        /\ mucOrderly' = (mucOrderly /\ Undisturbed)
    BY <1>7 DEF Join, FreshRoom
  <2>2. joining'[j] = "entered" /\ \A i \in Joins : i # j => joining'[i] = joining[i]
    BY <1>3, <2>1
  <2>3. InProgress' = InProgress \cup {j}
    BY <1>5, <2>2 DEF InProgress
  <2>4. ExactInv'
    <3>1. \A i \in clean' : i = j \/ i \in clean
      BY <2>1
    <3>2. Exact(NoResult)
      BY DEF Exact, NoResult
    <3> QED
      BY <1>2, <1>4, <2>1, <3>1, <3>2 DEF MucInv, ExactInv
  <2>5. CASE Undisturbed
    <3>1. toRoom = <<>> /\ fromRoom = <<>> /\ answering = Idle /\ us = NoNick /\ InProgress' = {j}
      BY <2>3, <2>5 DEF Undisturbed
    <3>2. Single'
      BY <3>1 DEF Single
    <3>3. Blank(n)'
      BY <1>2, <1>4, <2>1, <3>1 DEF Blank
    <3>4. \A i \in Joins : joining'[i] = "entered" => i = j
      <4>1. \A i \in Joins : joining'[i] = "entered" => i \in InProgress'
        BY DEF InProgress
      <4> QED
        BY <3>1, <4>1
    <3>5. Begun'
      BY <1>2, <1>3, <3>1, <3>3, <3>4 DEF Begun
    <3>6. Flow'
      <4>1. View(Room(n)) = Nobody /\ Room(n).known
        BY RoomTypes DEF View, Nobody
      <4>2. Tracks(fromRoom, Nobody, Nobody)
        BY <3>1, TracksNone
      <4>3. Ends(Nobody)'
        BY <1>2, <3>1 DEF Ends, Nobody
      <4> QED
        BY <1>2, <2>1, <4>1, <4>2, <4>3 DEF Flow
    <3>7. OneAnswer'
      BY <1>2, <3>1 DEF OneAnswer
    <3> QED
      BY <1>1, <2>4, <3>2, <3>5, <3>6, <3>7 DEF MucInv, Base
  <2>6. CASE ~Undisturbed
    <3>1. ~mucOrderly'
      BY <2>1, <2>6, Zenon
    <3>2. clean' \cap InProgress' = {}
      BY <1>4, <2>1, <2>3, <2>6
    <3>3. ~Tracked'
      BY <3>1, <3>2 DEF Tracked
    <3>4. OneAnswer'
      BY <3>1 DEF OneAnswer
    <3> QED
      BY <1>1, <2>4, <3>3, <3>4 DEF MucInv
  <2> QED
    BY <2>5, <2>6
<1> QED
  BY <1>6, <1>7
LEMMA SendMuc == ASSUME MucInv, NEW j \in Joins, JoinSend(j) PROVE MucInv'
<1>1. CallInv /\ CallInv'
  BY CallStep DEF MucInv
<1>2. /\ UNCHANGED <<room, joinNick, joinChan, answering, fromRoom, us, people, topic, clean, mucOrderly>>
      /\ joining[j] = "entered"
  BY DEF JoinSend, serviceVars
<1>3. PICK p \in {"waiting", "leaving"} : joining' = [joining EXCEPT ![j] = p]
  BY DEF JoinSend, JoinReturns
<1>4. joining'[j] = p /\ \A i \in Joins : i # j => joining'[i] = joining[i]
  BY <1>1, <1>3, CallTypes
<1>5. InProgress' = InProgress /\ \A i \in Joins : joining[i] = "entered" => i \in InProgress
  BY <1>2, <1>4 DEF InProgress
<1>6. ASSUME Tracked' PROVE Base'
  <2>1. Base
    BY <1>2, <1>5, <1>6, FewerTracked DEF MucInv
  <2>2. Single'
    BY <1>5, <2>1, FewerSingle DEF Base
  <2>3. Flow'
    BY <1>2, <2>1, FlowSame DEF Base
  <2>4. Blank(joinNick[j]) /\ \A i \in 1..Len(toRoom) : ~Asked(i)
    BY <1>2, <2>1 DEF Base, Begun
  <2>5. \A i \in Joins : joining'[i] # "entered"
    BY <1>2, <1>4, <1>5, <2>1 DEF Base, Single
  <2>6. Blank(joinNick[j])'
    BY <1>2, <1>5, <2>4 DEF Blank
  <2>7. CASE toRoom' = toRoom
    BY <2>2, <2>3, <2>4, <2>5, <2>7 DEF Base, Begun, Asked
  <2>8. CASE toRoom' = Append(toRoom, [kind |-> "join", nick |-> joinNick[j]])
    <3>1. toRoom \in Seq(Asks)
      BY <1>1, CallTypes
    <3>2. PICK k \in Nat : k = Len(toRoom)
      BY <3>1
    <3>3. /\ Len(toRoom') = k + 1 /\ toRoom'[k + 1].nick = joinNick[j]
          /\ \A i \in 1..k : toRoom'[i] = toRoom[i]
      BY <2>8, <3>1, <3>2
    <3>4. \A i \in 1..(k + 1) : toRoom'[i].kind = "join" => i = k + 1
      <4>1. \A i \in 1..k : toRoom[i].kind # "join"
        BY <2>4, <3>2 DEF Asked
      <4>2. \A i \in 1..(k + 1) : i \in 1..k \/ i = k + 1
        OBVIOUS
      <4> QED
        BY <3>3, <4>1, <4>2
    <3>5. Begun'
      BY <1>2, <2>5, <2>6, <3>3, <3>4 DEF Begun, Asked
    <3> QED
      BY <2>2, <2>3, <3>5 DEF Base
  <2> QED
    BY <2>7, <2>8 DEF JoinSend
<1>7. OneAnswer'
  BY <1>2, <1>5, OneSame DEF MucInv
<1>8. ExactInv'
  <2>1. joinResult' = joinResult \/ joinResult' = [joinResult EXCEPT ![j] = [kind |-> "unsent"]]
    BY DEF JoinSend, JoinReturns
  <2>2. CASE joinResult' = joinResult
    BY <1>2, <2>2, ExactSame DEF MucInv
  <2>3. CASE joinResult' = [joinResult EXCEPT ![j] = [kind |-> "unsent"]]
    <3>1. \A i \in Joins : joinResult'[i] = IF i = j THEN [kind |-> "unsent"] ELSE joinResult[i]
      BY <1>1, <2>3, CallTypes
    <3>2. Exact([kind |-> "unsent"])
      BY DEF Exact
    <3> QED
      BY <1>1, <1>2, <3>1, <3>2, CallTypes DEF MucInv, ExactInv
  <2> QED
    BY <2>1, <2>2, <2>3
<1> QED
  BY <1>1, <1>6, <1>7, <1>8 DEF MucInv

LEMMA TakeMuc == ASSUME MucInv, NEW j \in Joins, JoinTakes(j) PROVE MucInv'
<1>1. CallInv /\ CallInv'
  BY CallStep DEF MucInv
<1>2. /\ UNCHANGED <<room, joinNick, answering, toRoom, fromRoom, us, people, topic, clean, mucOrderly>>
      /\ joining[j] = "waiting" /\ joinChan[j] # <<>> /\ joining' = [joining EXCEPT ![j] = "leaving"]
      /\ joinResult' = [joinResult EXCEPT ![j] = Head(joinChan[j])]
      /\ joinChan' = [joinChan EXCEPT ![j] = Tail(joinChan[j])]
  BY DEF JoinTakes, JoinReturns, serviceVars
<1>3. /\ joining'[j] = "leaving" /\ joinResult'[j] = Head(joinChan[j]) /\ joinChan'[j] = Tail(joinChan[j])
      /\ \A i \in Joins : i # j => /\ joining'[i] = joining[i] /\ joinResult'[i] = joinResult[i]
                                   /\ joinChan'[i] = joinChan[i]
  BY <1>1, <1>2, CallTypes
<1>4. InProgress' = InProgress /\ j \in InProgress
  BY <1>2, <1>3 DEF InProgress
<1>5. ~Free
  BY <1>2, <1>4 DEF Free
<1>6. ASSUME Tracked' PROVE Base'
  <2>1. Base
    BY <1>2, <1>4, <1>6, FewerTracked DEF MucInv
  <2>2. Single'
    BY <1>4, <2>1, FewerSingle DEF Base
  <2>3. Flow'
    BY <1>2, <2>1, FlowSame DEF Base
  <2>4. Quiet
    BY <1>5, <2>1, BusyQuiet DEF Base
  <2>5. Quiet'
    BY <1>2, <1>3, <2>4 DEF Quiet, Asked
  <2>6. Begun'
    BY <2>5, QuietBegun, PTL
  <2> QED
    BY <2>2, <2>3, <2>6 DEF Base
<1>7. OneAnswer'
  <2> SUFFICES ASSUME mucOrderly'
               PROVE  /\ answering # Idle => joinChan'[answering.to] = <<>>
                      /\ InProgress # {} =>
                            \A i \in 1..Len(fromRoom) : ~Answer(fromRoom[i])
    BY <1>2, <1>4 DEF OneAnswer
  <2>1. /\ answering # Idle => joinChan[answering.to] = <<>>
        /\ \A i \in 1..Len(fromRoom) : ~Answer(fromRoom[i])
    BY <1>2, <1>4, <1>5 DEF MucInv, OneAnswer
  <2>2. ASSUME answering # Idle PROVE joinChan'[answering.to] = <<>>
    <3>1. answering.to \in Joins
      BY <1>1, <2>2, CallTypes DEF Answers
    <3> QED
      BY <1>2, <1>3, <2>1, <2>2, <3>1
  <2> QED
    BY <2>1, <2>2
<1>8. ExactInv'
  <2>1. joinChan[j] \in Seq(Results)
    BY <1>1, CallTypes
  <2>2. /\ Head(joinChan[j]) = joinChan[j][1] /\ 1 \in 1..Len(joinChan[j])
        /\ \A i \in 1..Len(Tail(joinChan[j])) : /\ Tail(joinChan[j])[i] = joinChan[j][i + 1]
                                               /\ i + 1 \in 1..Len(joinChan[j])
    BY <1>2, <2>1, TailAt
  <2>3. clean \subseteq Joins
    BY <1>1, CallTypes
  <2>4. ASSUME NEW i \in clean'
        PROVE  /\ Exact(joinResult'[i]) /\ \A k \in 1..Len(joinChan'[i]) : Exact(joinChan'[i][k])
               /\ answering'.to = i => Exact(answering'.result)
    <3>1. i \in clean /\ i \in Joins
      BY <1>2, <2>3, <2>4
    <3>2. /\ Exact(joinResult[i]) /\ \A k \in 1..Len(joinChan[i]) : Exact(joinChan[i][k])
          /\ answering.to = i => Exact(answering.result)
      BY <3>1 DEF MucInv, ExactInv
    <3>3. CASE i = j
      <4>1. \A k \in 1..Len(Tail(joinChan[j])) : Exact(Tail(joinChan[j])[k])
        BY <2>2, <3>2, <3>3
      <4>2. Exact(Head(joinChan[j]))
        BY <2>2, <3>2, <3>3
      <4> QED
        BY <1>2, <1>3, <3>2, <3>3, <4>1, <4>2
    <3>4. CASE i # j
      BY <1>2, <1>3, <3>1, <3>2, <3>4
    <3> QED
      BY <3>3, <3>4
  <2> QED
    BY <2>4 DEF ExactInv
<1> QED
  BY <1>1, <1>6, <1>7, <1>8 DEF MucInv

LEMMA GiveUpMuc == ASSUME MucInv, NEW j \in Joins, JoinGivesUp(j) \/ JoinEnd(j) PROVE MucInv'
<1>1. CallInv /\ CallInv'
  BY CallStep, EndCall DEF MucInv
<1>2. /\ UNCHANGED <<room, joinNick, joinChan, answering, toRoom, fromRoom, us, people, topic, clean, mucOrderly>>
      /\ joining[j] \in {"waiting", "leaving"}
  BY DEF JoinGivesUp, JoinEnd, serviceVars
<1>3. PICK p \in {"leaving", "over"} : joining' = [joining EXCEPT ![j] = p]
  BY DEF JoinGivesUp, JoinEnd, JoinReturns
<1>4. joining'[j] = p /\ \A i \in Joins : i # j => joining'[i] = joining[i]
  BY <1>1, <1>3, CallTypes
<1>5. InProgress' \subseteq InProgress
  BY <1>2, <1>4 DEF InProgress
<1>6. ASSUME Tracked' PROVE Base'
  <2>1. Base
    BY <1>2, <1>5, <1>6, FewerTracked DEF MucInv
  <2>2. Single'
    BY <1>5, <2>1, FewerSingle DEF Base
  <2>3. Flow'
    BY <1>2, <2>1, FlowSame DEF Base
  <2>4. \A k : Blank(k) => Blank(k)'
    BY <1>2, <1>5 DEF Blank
  <2>5. Begun'
    BY <1>2, <1>4, <2>1, <2>4 DEF Base, Begun, Asked
  <2> QED
    BY <2>2, <2>3, <2>5 DEF Base
<1>7. OneAnswer'
  BY <1>2, <1>5, OneSame DEF MucInv
<1>8. ExactInv'
  <2>1. \/ joinResult' = joinResult
        \/ \E k \in {"timeout", "closed"} : joinResult' = [joinResult EXCEPT ![j] = [kind |-> k]]
    BY DEF JoinGivesUp, JoinEnd, JoinReturns
  <2>2. CASE joinResult' = joinResult
    BY <1>2, <2>2, ExactSame DEF MucInv
  <2>3. ASSUME NEW k \in {"timeout", "closed"}, joinResult' = [joinResult EXCEPT ![j] = [kind |-> k]]
        PROVE  ExactInv'
    <3>1. \A i \in Joins : joinResult'[i] = IF i = j THEN [kind |-> k] ELSE joinResult[i]
      BY <1>1, <2>3, CallTypes
    <3>2. Exact([kind |-> k])
      BY DEF Exact
    <3> QED
      BY <1>1, <1>2, <3>1, <3>2, CallTypes DEF MucInv, ExactInv
  <2> QED
    BY <2>1, <2>2, <2>3
<1> QED
  BY <1>1, <1>6, <1>7, <1>8 DEF MucInv
(* A message that is read is one message less.                              *)
LEMMA ReadOne ==
    ASSUME OneAnswer, NEW q \in Seq(Msg), q = fromRoom, q # <<>>, fromRoom' = Tail(q),
           UNCHANGED <<joinChan, mucOrderly>>, InProgress' = InProgress, answering = Idle,
           answering' # Idle => Answer(Head(q)) /\ answering'.to \in InProgress
    PROVE  OneAnswer'
<1> SUFFICES ASSUME mucOrderly'
             PROVE  /\ answering' # Idle => joinChan[answering'.to] = <<>>
                    /\ InProgress # {} =>
                         /\ \A i, k \in 1..Len(Tail(q)) :
                                Answer(Tail(q)[i]) /\ Answer(Tail(q)[k]) => i = k
                         /\ \A i \in 1..Len(Tail(q)) : Answer(Tail(q)[i]) => answering' = Idle /\ Free
  BY DEF OneAnswer, Free
<1>1. /\ Head(q) = q[1] /\ 1 \in 1..Len(q)
      /\ \A i \in 1..Len(Tail(q)) : Tail(q)[i] = q[i + 1] /\ i + 1 \in 1..Len(q) /\ i + 1 # 1
  BY TailAt
<1>2. InProgress # {} =>
          /\ \A i, k \in 1..Len(q) : Answer(q[i]) /\ Answer(q[k]) => i = k
          /\ \A i \in 1..Len(q) : Answer(q[i]) => Free
  BY DEF OneAnswer
<1>3. answering' # Idle => joinChan[answering'.to] = <<>>
  BY <1>1, <1>2 DEF Free
<1>4. ASSUME InProgress # {}, NEW i \in 1..Len(Tail(q)), NEW k \in 1..Len(Tail(q)),
             Answer(Tail(q)[i]), Answer(Tail(q)[k])
      PROVE  i = k
  <2>1. i + 1 = k + 1
    BY <1>1, <1>2, <1>4
  <2> QED
    BY <2>1
<1>5. ASSUME InProgress # {}, NEW i \in 1..Len(Tail(q)), Answer(Tail(q)[i])
      PROVE  answering' = Idle /\ Free
  BY <1>1, <1>2, <1>5
<1> QED
  BY <1>3, <1>4, <1>5

LEMMA PresenceMuc == ASSUME MucInv, HandlePresence PROVE MucInv'
<1>1. CallInv /\ CallInv'
  BY ReaderCall DEF MucInv
<1>2. UNCHANGED <<joinPending, joining, joinNick, joinResult, joinChan, toRoom, us, people, topic, clean,
                  mucOrderly>>
  BY DEF HandlePresence, callVars, serviceVars
<1>3. InProgress' = InProgress
  BY <1>2 DEF InProgress
<1>4. PICK q \in Seq(Msg) : q = fromRoom
  BY <1>1, CallTypes
<1>5. PICK m : m = Head(q)
  OBVIOUS
<1>6. /\ q # <<>> /\ fromRoom' = Tail(q) /\ answering = Idle
      /\ View(room') = After(View(room), m)
      /\ room.known => room'.known
      /\ answering' # Idle =>
             /\ answering' \in Answers /\ answering'.to \in InProgress /\ Answer(m)
             /\ answering'.result.kind = "room" =>
                    /\ Own(m) /\ answering'.result.at = m.at
                    /\ answering'.result.room.joined
                    /\ answering'.result.room.occupants = View(room').occ
  BY <1>1, <1>4, <1>5, PresenceStep
<1>7. ASSUME Tracked
      PROVE  Base' /\ (Own(m) => View(room').occ = m.at)
  <2>1. Base
    BY <1>7 DEF MucInv
  <2>2. Single'
    BY <1>3, <2>1, FewerSingle DEF Base
  <2>3. Quiet
    BY <1>4, <1>6, <2>1, BusyQuiet DEF Base
  <2>4. Quiet'
    BY <1>2, <2>3 DEF Quiet, Asked
  <2>5. Begun'
    BY <2>4, QuietBegun, PTL
  <2>6. PICK w : Tracks(q, View(room), w) /\ Ends(w)
    BY <1>4, <2>1 DEF Base, Flow
  <2>7. Tracks(Tail(q), After(View(room), m), w) /\ (Own(m) => After(View(room), m).occ = m.at)
    BY <1>5, <1>6, <2>6, TracksTail
  <2>8. room.known
    BY <1>4, <1>6, <2>1 DEF Base, Flow
  <2>9. Ends(w)'
    BY <1>2, <2>6 DEF Ends
  <2>10. Flow'
    BY <1>6, <2>7, <2>8, <2>9 DEF Flow
  <2> QED
    BY <1>6, <2>2, <2>5, <2>7, <2>10 DEF Base
<1>8. Tracked' => Base'
  BY <1>2, <1>3, <1>7, FewerTracked
<1>9. OneAnswer'
  BY <1>2, <1>3, <1>4, <1>5, <1>6, ReadOne DEF MucInv
<1>10. ExactInv'
  <2>1. ASSUME NEW j \in clean, answering'.to = j PROVE Exact(answering'.result)
    <3>1. answering' # Idle
      BY <1>1, <2>1, CallTypes, RoomTypes, MucAssumption
    <3>2. Tracked
      BY <1>6, <2>1, <3>1 DEF Tracked
    <3> QED
      BY <1>6, <1>7, <3>1, <3>2 DEF Exact
  <2> QED
    BY <1>2, <2>1 DEF MucInv, ExactInv
<1> QED
  BY <1>1, <1>8, <1>9, <1>10 DEF MucInv

LEMMA MessageMuc == ASSUME MucInv, HandleMessage PROVE MucInv'
<1>1. CallInv /\ CallInv'
  BY ReaderCall DEF MucInv
<1>2. UNCHANGED <<joinPending, joining, joinNick, joinResult, joinChan, answering, toRoom, us, people, topic,
                  clean, mucOrderly>>
  BY DEF HandleMessage, callVars, serviceVars
<1>3. InProgress' = InProgress
  BY <1>2 DEF InProgress
<1>4. PICK q \in Seq(Msg) : q = fromRoom
  BY <1>1, CallTypes
<1>5. PICK m : m = Head(q)
  OBVIOUS
<1>6. /\ q # <<>> /\ fromRoom' = Tail(q) /\ answering = Idle
      /\ room.known => View(room') = After(View(room), m) /\ room'.known
  BY <1>1, <1>4, <1>5, MessageStep
<1>7. ASSUME Tracked PROVE Base'
  <2>1. Base
    BY <1>7 DEF MucInv
  <2>2. Single'
    BY <1>3, <2>1, FewerSingle DEF Base
  <2>3. Quiet
    BY <1>4, <1>6, <2>1, BusyQuiet DEF Base
  <2>4. Quiet'
    BY <1>2, <2>3 DEF Quiet, Asked
  <2>5. Begun'
    BY <2>4, QuietBegun, PTL
  <2>6. PICK w : Tracks(q, View(room), w) /\ Ends(w)
    BY <1>4, <2>1 DEF Base, Flow
  <2>7. Tracks(Tail(q), After(View(room), m), w)
    BY <1>5, <1>6, <2>6, TracksTail
  <2>8. room.known
    BY <1>4, <1>6, <2>1 DEF Base, Flow
  <2>9. Ends(w)'
    BY <1>2, <2>6 DEF Ends
  <2>10. Flow'
    BY <1>6, <2>7, <2>8, <2>9 DEF Flow
  <2> QED
    BY <2>2, <2>5, <2>10 DEF Base
<1>8. Tracked' => Base'
  BY <1>2, <1>3, <1>7, FewerTracked
<1>9. OneAnswer'
  BY <1>2, <1>3, <1>4, <1>6, ReadOne DEF MucInv
<1>10. ExactInv'
  BY <1>2, ExactSame DEF MucInv
<1> QED
  BY <1>1, <1>8, <1>9, <1>10 DEF MucInv

LEMMA AnswerMuc == ASSUME MucInv, AnswerJoin PROVE MucInv'
<1>1. CallInv /\ CallInv'
  BY ReaderCall DEF MucInv
<1>2. /\ UNCHANGED <<room, joinPending, joining, joinNick, joinResult, toRoom, fromRoom, us, people, topic,
                     clean, mucOrderly>>
      /\ answering # Idle /\ answering' = Idle /\ Len(joinChan[answering.to]) < 1
      /\ joinChan' = [joinChan EXCEPT ![answering.to] = Append(@, answering.result)]
  BY DEF AnswerJoin, JoinCapacity, callVars, serviceVars
<1>3. InProgress' = InProgress
  BY <1>2 DEF InProgress
<1>4. PICK j \in Joins : j = answering.to
  BY <1>1, <1>2, CallTypes DEF Answers
<1>5. /\ joinChan'[j] = Append(joinChan[j], answering.result)
      /\ \A i \in Joins : i # j => joinChan'[i] = joinChan[i]
  BY <1>1, <1>2, <1>4, CallTypes
<1>6. ASSUME Tracked PROVE Base'
  <2>1. Base
    BY <1>6 DEF MucInv
  <2>2. Single'
    BY <1>3, <2>1, FewerSingle DEF Base
  <2>3. Quiet
    BY <1>2, <2>1, BusyQuiet DEF Base
  <2>4. Quiet'
    BY <1>2, <2>3 DEF Quiet, Asked
  <2>5. Begun'
    BY <2>4, QuietBegun, PTL
  <2>6. Flow'
    BY <1>2, <2>1, FlowSame DEF Base
  <2> QED
    BY <2>2, <2>5, <2>6 DEF Base
<1>7. Tracked' => Base'
  BY <1>2, <1>3, <1>6, FewerTracked
<1>8. OneAnswer'
  <2>1. mucOrderly /\ InProgress # {} => \A i \in 1..Len(fromRoom) : ~Answer(fromRoom[i])
    BY <1>2 DEF MucInv, OneAnswer
  <2> QED
    BY <1>2, <1>3, <2>1 DEF OneAnswer
<1>9. ExactInv'
  <2>1. joinChan[j] \in Seq(Results) /\ Len(joinChan[j]) < 1
    BY <1>1, <1>2, <1>4, CallTypes
  <2>2. PICK r : r = answering.result
    OBVIOUS
  <2>3. \A k \in 1..Len(Append(joinChan[j], r)) : Append(joinChan[j], r)[k] = r
    BY <2>1
  <2>4. \A i \in Joins : answering'.to # i
    BY <1>2, RoomTypes, MucAssumption
  <2>5. clean \subseteq Joins
    BY <1>1, CallTypes
  <2>6. ASSUME NEW i \in clean, NEW k \in 1..Len(joinChan'[i]) PROVE Exact(joinChan'[i][k])
    <3>1. /\ \A x \in 1..Len(joinChan[i]) : Exact(joinChan[i][x])
          /\ answering.to = i => Exact(answering.result)
      BY DEF MucInv, ExactInv
    <3>2. CASE i = j
      BY <1>4, <1>5, <2>2, <2>3, <2>6, <3>1, <3>2
    <3>3. CASE i # j
      BY <1>5, <2>5, <2>6, <3>1, <3>3
    <3> QED
      BY <3>2, <3>3
  <2>7. \A i \in clean : Exact(joinResult[i])
    BY DEF MucInv, ExactInv
  <2> QED
    BY <1>2, <2>4, <2>5, <2>6, <2>7 DEF ExactInv
<1> QED
  BY <1>1, <1>7, <1>8, <1>9 DEF MucInv
(* The service takes what the client sent.                                  *)
LEMMA TookJoin ==
    ASSUME CallInv, Begun, toRoom # <<>>, toRoom' = Tail(toRoom), UNCHANGED joining,
           Head(toRoom).kind = "join"
    PROVE  Blank(Head(toRoom).nick) /\ Quiet'
<1>1. toRoom \in Seq(Asks)
  BY CallTypes
<1>2. /\ Head(toRoom) = toRoom[1] /\ 1 \in 1..Len(toRoom)
      /\ \A i \in 1..Len(Tail(toRoom)) : /\ Tail(toRoom)[i] = toRoom[i + 1] /\ i + 1 \in 1..Len(toRoom)
                                         /\ i + 1 # 1
  BY <1>1, TailAt
<1>3. Asked(1)
  BY <1>2 DEF Asked
<1>4. \A i \in 1..Len(Tail(toRoom)) : ~Asked(i + 1)
  BY <1>2, <1>3 DEF Begun
<1>5. \A i \in 1..Len(toRoom') : ~(toRoom'[i].kind = "join")
  BY <1>2, <1>4 DEF Asked
<1> QED
  BY <1>2, <1>3, <1>5 DEF Begun, Quiet, Asked

LEMMA TookQuiet ==
    ASSUME CallInv, Quiet, toRoom # <<>>, toRoom' = Tail(toRoom), UNCHANGED joining PROVE Quiet'
<1>1. toRoom \in Seq(Asks)
  BY CallTypes
<1>2. \A i \in 1..Len(Tail(toRoom)) : Tail(toRoom)[i] = toRoom[i + 1] /\ i + 1 \in 1..Len(toRoom)
  BY <1>1, TailAt
<1> QED
  BY <1>2 DEF Quiet, Asked

LEMMA TookLeave ==
    ASSUME CallInv, Begun, toRoom # <<>>, toRoom' = Tail(toRoom),
           UNCHANGED <<room, joining, joinNick, joinChan, answering, fromRoom, us>>
    PROVE  Begun'
<1>1. toRoom \in Seq(Asks)
  BY CallTypes
<1>2. \A i \in 1..Len(Tail(toRoom)) : Tail(toRoom)[i] = toRoom[i + 1] /\ i + 1 \in 1..Len(toRoom)
  BY <1>1, TailAt
<1>3. \A k : Blank(k) => Blank(k)'
  BY DEF Blank, InProgress
<1>4. \A i \in 1..Len(toRoom') : Asked(i)' => Asked(i + 1) /\ toRoom'[i].nick = toRoom[i + 1].nick
  BY <1>2 DEF Asked
<1>5. \A i \in 1..Len(toRoom') : i + 1 \in 1..Len(toRoom)
  BY <1>2
<1>6. \A i \in 1..Len(toRoom') : Asked(i)' =>
          Blank(toRoom[i + 1].nick)  /\ \A j \in Joins : joining[j] # "entered"
  BY <1>4, <1>5 DEF Begun
<1>7. \A j \in Joins : joining[j] = "entered" => Blank(joinNick[j])
  BY DEF Begun
<1>8. ASSUME NEW i \in 1..Len(toRoom'), NEW k \in 1..Len(toRoom'), Asked(i)', Asked(k)'
      PROVE  i = k
  <2>1. i + 1 = k + 1
    BY <1>4, <1>5, <1>8 DEF Begun
  <2> QED
    BY <2>1
<1> QED
  BY <1>3, <1>4, <1>6, <1>7, <1>8 DEF Begun

(* What comes next from the service is an answer only to a Join.            *)
LEMMA SentMore ==
    ASSUME CallInv, OneAnswer, NEW m, fromRoom' = Append(fromRoom, m), ~Answer(m) \/ InProgress = {},
           UNCHANGED <<answering, joinChan>>, InProgress' = InProgress, mucOrderly' => mucOrderly
    PROVE  OneAnswer'
<1>1. PICK q \in Seq(Msg) : q = fromRoom
  BY CallTypes
<1>2. PICK n \in Nat : n = Len(q)
  BY <1>1
<1>3. /\ Len(Append(q, m)) = n + 1 /\ Append(q, m)[n + 1] = m /\ \A i \in 1..n : Append(q, m)[i] = q[i]
  BY <1>1, <1>2
<1>4. \A i \in 1..(n + 1) : i \in 1..n \/ i = n + 1
  OBVIOUS
<1>5. ASSUME mucOrderly', InProgress # {}
      PROVE  \A i \in 1..Len(fromRoom') : Answer(fromRoom'[i]) => i \in 1..n /\ Answer(fromRoom[i])
  BY <1>1, <1>3, <1>4, <1>5
<1> QED
  BY <1>1, <1>2, <1>5 DEF OneAnswer, Free

LEMMA SentAnswer ==
    ASSUME UNCHANGED <<answering, joinChan>>, InProgress' = InProgress, answering = Idle, Free,
           NEW k, \A i \in 1..Len(fromRoom') : Answer(fromRoom'[i]) => i = k
    PROVE  OneAnswer'
  BY DEF OneAnswer, Free

LEMMA AdmitMuc == ASSUME MucInv, ServiceAdmits PROVE MucInv'
<1>1. CallInv /\ CallInv'
  BY TakesCall DEF MucInv
<1>2. PICK n : n = Head(toRoom).nick
  OBVIOUS
<1>3. /\ UNCHANGED <<room, joinPending, joining, joinNick, joinResult, joinChan, answering, mucOrderly,
                     clean, people, topic>>
      /\ toRoom # <<>> /\ toRoom' = Tail(toRoom) /\ Head(toRoom).kind = "join"
      /\ us' = n /\ fromRoom' = fromRoom \o Everyone(n)
  BY <1>2 DEF ServiceAdmits, Takes, Unchanged, callVars
<1>4. n \in Nicks
  <2>1. Head(toRoom) \in Asks
    BY <1>1, <1>3, CallTypes
  <2> QED
    BY <1>2, <1>3, <2>1 DEF Asks
<1>5. InProgress' = InProgress
  BY <1>3 DEF InProgress
<1>6. Tracked' => Tracked
  BY <1>3, <1>5, FewerTracked
<1>7. ASSUME Tracked
      PROVE  /\ Base' /\ answering = Idle /\ Free /\ fromRoom' = Everyone(n)
  <2>1. Base
    BY <1>7 DEF MucInv
  <2>2. Blank(n) /\ Quiet'
    BY <1>1, <1>2, <1>3, <2>1, TookJoin DEF Base
  <2>3. Single'
    BY <1>5, <2>1, FewerSingle DEF Base
  <2>4. Begun'
    BY <2>2, QuietBegun, PTL
  <2>5. fromRoom' = Everyone(n)
    <3>1. Everyone(n) \in Seq(Msg)
      BY <1>1, <1>4, EveryoneFacts
    <3> QED
      BY <1>3, <2>2, <3>1 DEF Blank
  <2>6. View(room) = Nobody /\ room.known
    BY <1>4, <2>2, RoomTypes DEF Blank, View, Nobody
  <2>7. PICK w : /\ Tracks(Everyone(n), Nobody, w)
                 /\ w.occ = people \cup {n} /\ w.status = "in" /\ w.subj = topic
    BY <1>1, <1>4, TracksEveryone
  <2>8. Ends(w)'
    <3>1. n # NoNick
      BY <1>4, MucAssumption
    <3> QED
      BY <1>3, <2>7, <3>1 DEF Ends
  <2>9. Flow'
    BY <1>3, <2>5, <2>6, <2>7, <2>8 DEF Flow
  <2> QED
    BY <2>2, <2>3, <2>4, <2>5, <2>9 DEF Base, Blank, Free
<1>8. OneAnswer'
  <2>1. CASE ~mucOrderly
    BY <1>3, <2>1 DEF OneAnswer
  <2>2. CASE mucOrderly
    <3>1. answering = Idle /\ Free /\ fromRoom' = Everyone(n)
      BY <1>7, <2>2 DEF Tracked
    <3>2. PICK c : c = Cardinality(people)
      OBVIOUS
    <3>3. /\ c \in Nat /\ Len(Everyone(n)) = c + 2
          /\ \A i \in 1..c : SetToSeq(people)[i] \in people
                             /\ Everyone(n)[i] = Presence(SetToSeq(people)[i], "available", FALSE)
          /\ Everyone(n)[c + 2] = Subject(topic)
      BY <1>1, <1>4, <3>2, EveryoneFacts
    <3>4. ~Answer(Everyone(n)[c + 2])
      <4>1. topic \in Subjects \cup {NoSubject}
        BY <1>1, CallTypes
      <4> QED
        BY <3>3, <4>1, SubjectMsg
    <3>5. ASSUME NEW i \in 1..c PROVE ~Answer(Everyone(n)[i])
      <4>1. PICK o : o = SetToSeq(people)[i]
        OBVIOUS
      <4>2. o \in people /\ Everyone(n)[i] = Presence(o, "available", FALSE)
        BY <3>3, <4>1
      <4>3. o \in Names
        BY <1>1, <4>2, CallTypes DEF Names
      <4> QED
        BY <4>2, <4>3, PersonMsg
    <3>6. \A i \in 1..(c + 2) : i \in 1..c \/ i = c + 1 \/ i = c + 2
      BY <3>3
    <3>7. \A i \in 1..Len(fromRoom') : Answer(fromRoom'[i]) => i = c + 1
      BY <3>1, <3>3, <3>4, <3>5, <3>6
    <3> QED
      BY <1>3, <1>5, <3>1, <3>7, SentAnswer
  <2> QED
    BY <2>1, <2>2
<1>9. ExactInv'
  BY <1>3, ExactSame DEF MucInv
<1> QED
  BY <1>1, <1>6, <1>7, <1>8, <1>9 DEF MucInv

LEMMA RefuseMuc == ASSUME MucInv, NEW user \in BOOLEAN, ServiceRefuses(user) PROVE MucInv'
<1>1. CallInv /\ CallInv'
  BY TakesCall DEF MucInv
<1>2. PICK n : n = Head(toRoom).nick
  OBVIOUS
<1>3. PICK m : m = [Presence(n, "error", FALSE) EXCEPT !.user = user]
  OBVIOUS
<1>4. /\ UNCHANGED <<room, joinPending, joining, joinNick, joinResult, joinChan, answering, mucOrderly,
                     clean, us, people, topic>>
      /\ toRoom # <<>> /\ toRoom' = Tail(toRoom) /\ Head(toRoom).kind = "join"
      /\ fromRoom' = Append(fromRoom, m)
  BY <1>2, <1>3 DEF ServiceRefuses, Takes, Unchanged, callVars, serviceVars
<1>5. n \in Nicks /\ n \in Names
  <2>1. Head(toRoom) \in Asks
    BY <1>1, <1>4, CallTypes
  <2> QED
    BY <1>2, <1>4, <2>1 DEF Asks, Names
<1>6. InProgress' = InProgress
  BY <1>4 DEF InProgress
<1>7. Tracked' => Tracked
  BY <1>4, <1>6, FewerTracked
<1>8. ASSUME Tracked
      PROVE  /\ Base' /\ answering = Idle /\ Free /\ fromRoom = <<>>
  <2>1. Base
    BY <1>8 DEF MucInv
  <2>2. Blank(n) /\ Quiet'
    BY <1>1, <1>2, <1>4, <2>1, TookJoin DEF Base
  <2>3. Single'
    BY <1>6, <2>1, FewerSingle DEF Base
  <2>4. Begun'
    BY <2>2, QuietBegun, PTL
  <2>5. View(room) = Nobody /\ room.known
    BY <1>5, <2>2, RoomTypes DEF Blank, View, Nobody
  <2>6. m \in Msg /\ ~Own(m) /\ After(Nobody, m).status = Nobody.status
    BY <1>3, <1>5, ErrorMsg
  <2>7. Tracks(fromRoom, Nobody, Nobody) /\ fromRoom \in Seq(Msg)
    BY <1>1, <2>2, TracksNone, CallTypes DEF Blank
  <2>8. Tracks(Append(fromRoom, m), Nobody, After(Nobody, m))
    BY <2>6, <2>7, TracksAppend
  <2>9. Ends(After(Nobody, m))'
    BY <1>4, <2>2, <2>6 DEF Ends, Blank, Nobody
  <2>10. Flow'
    BY <1>4, <2>5, <2>8, <2>9 DEF Flow
  <2> QED
    BY <2>2, <2>3, <2>4, <2>10 DEF Base, Blank, Free
<1>9. OneAnswer'
  <2>1. CASE ~mucOrderly
    BY <1>4, <2>1 DEF OneAnswer
  <2>2. CASE mucOrderly
    <3>1. answering = Idle /\ Free /\ fromRoom = <<>>
      BY <1>8, <2>2 DEF Tracked
    <3>2. Len(fromRoom') = 1
      BY <1>4, <3>1
    <3>3. \A i \in 1..Len(fromRoom') : i = 1
      BY <3>2
    <3> QED
      BY <1>4, <1>6, <3>1, <3>3, SentAnswer
  <2> QED
    BY <2>1, <2>2
<1>10. ExactInv'
  BY <1>4, ExactSame DEF MucInv
<1> QED
  BY <1>1, <1>7, <1>8, <1>9, <1>10 DEF MucInv

LEMMA RenameMuc == ASSUME MucInv, ServiceRenames PROVE MucInv'
<1>1. CallInv /\ CallInv'
  BY TakesCall DEF MucInv
<1>2. /\ UNCHANGED <<room, joinPending, joining, joinNick, joinResult, joinChan, answering, mucOrderly, clean>>
      /\ toRoom # <<>> /\ toRoom' = Tail(toRoom) /\ Head(toRoom).kind = "join" /\ us # NoNick
  BY DEF ServiceRenames, Takes, Unchanged, callVars
<1>3. InProgress' = InProgress
  BY <1>2 DEF InProgress
<1>4. ~Tracked
  <2>1. ASSUME Base PROVE FALSE
    BY <1>1, <1>2, <2>1, TookJoin DEF Base, Blank
  <2> QED
    BY <2>1 DEF MucInv
<1>5. ~Tracked' /\ ~mucOrderly'
  BY <1>2, <1>3, <1>4 DEF Tracked
<1>6. ExactInv'
  BY <1>2, ExactSame DEF MucInv
<1> QED
  BY <1>1, <1>5, <1>6 DEF MucInv, OneAnswer
(* Something is sent to one who is in the room.                             *)
LEMMA SentTo ==
    ASSUME CallInv, Base, us # NoNick, NEW m \in Msg, fromRoom' = Append(fromRoom, m),
           UNCHANGED <<room, joining>>, Quiet', InProgress' = InProgress,
           \A w : Ends(w) => Ends(After(w, m))' /\ (Own(m) => After(w, m).occ = m.at)
    PROVE  Base'
<1>1. Single' /\ Begun'
  <2>1. Single'
    BY FewerSingle DEF Base
  <2>2. Begun'
    BY QuietBegun, PTL
  <2> QED
    BY <2>1, <2>2
<1>2. PICK w : Tracks(fromRoom, View(room), w) /\ Ends(w)
  BY DEF Base, Flow
<1>3. fromRoom \in Seq(Msg)
  BY CallTypes
<1>4. Tracks(Append(fromRoom, m), View(room), After(w, m))
  BY <1>2, <1>3, TracksAppend
<1>5. room.known
  BY DEF Base, Flow
<1>6. Flow'
  BY <1>2, <1>4, <1>5 DEF Flow
<1> QED
  BY <1>1, <1>6 DEF Base

LEMMA LetGoMuc == ASSUME MucInv, ServiceLetsGo PROVE MucInv'
<1>1. CallInv /\ CallInv'
  BY TakesCall DEF MucInv
<1>2. PICK m : m = Presence(us, "unavailable", TRUE)
  OBVIOUS
<1>3. /\ UNCHANGED <<room, joinPending, joining, joinNick, joinResult, joinChan, answering, mucOrderly,
                     clean, people, topic>>
      /\ toRoom # <<>> /\ toRoom' = Tail(toRoom) /\ Head(toRoom).kind = "leave"
      /\ \/ us = Head(toRoom).nick /\ us' = NoNick /\ fromRoom' = Append(fromRoom, m)
         \/ us' = us /\ fromRoom' = fromRoom
  BY <1>2 DEF ServiceLetsGo, Takes, Unchanged, callVars
<1>4. InProgress' = InProgress
  BY <1>3 DEF InProgress
<1>5. Tracked' => Tracked
  BY <1>3, <1>4, FewerTracked
<1>6. ExactInv'
  BY <1>3, ExactSame DEF MucInv
<1>7. CASE us = Head(toRoom).nick /\ us' = NoNick /\ fromRoom' = Append(fromRoom, m)
  <2>1. us \in Names /\ us # NoNick
    <3>1. Head(toRoom) \in Asks
      BY <1>1, <1>3, CallTypes
    <3> QED
      BY <1>3, <1>7, <3>1, MucAssumption DEF Asks, Names
  <2>2. /\ m \in Msg /\ ~Answer(m) /\ ~Own(m)
        /\ \A v : /\ After(v, m).occ = v.occ \ {us} /\ After(v, m).status = "out"
                  /\ After(v, m).subj = v.subj
    BY <1>2, <2>1, GoneMsg
  <2>3. ASSUME Tracked PROVE Base'
    <3>1. Base
      BY <2>3 DEF MucInv
    <3>2. Quiet'
      <4>1. Quiet
        BY <2>1, <3>1, BusyQuiet DEF Base
      <4> QED
        BY <1>1, <1>3, <4>1, TookQuiet
    <3>3. \A w : Ends(w) => Ends(After(w, m))' /\ (Own(m) => After(w, m).occ = m.at)
      BY <1>3, <1>7, <2>2 DEF Ends
    <3> QED
      BY <1>1, <1>3, <1>4, <1>7, <2>1, <2>2, <3>1, <3>2, <3>3, SentTo
  <2>4. OneAnswer'
    BY <1>1, <1>3, <1>4, <1>7, <2>2, SentMore DEF MucInv
  <2> QED
    BY <1>1, <1>5, <1>6, <2>3, <2>4 DEF MucInv
<1>8. CASE us' = us /\ fromRoom' = fromRoom
  <2>1. ASSUME Tracked PROVE Base'
    <3>1. Base
      BY <2>1 DEF MucInv
    <3>2. Begun'
      BY <1>1, <1>3, <1>8, <3>1, TookLeave DEF Base
    <3> QED
      BY <1>3, <1>4, <1>8, <3>1, <3>2, FewerSingle, FlowSame DEF Base
  <2>2. OneAnswer'
    BY <1>3, <1>4, <1>8, OneSame DEF MucInv
  <2> QED
    BY <1>1, <1>5, <1>6, <2>1, <2>2 DEF MucInv
<1> QED
  BY <1>3, <1>7, <1>8

(* The news of the room keeps what the client comes to hold true of it.     *)
LEMMA NewsKeeps ==
    ASSUME CallInv, NEW m, News(m)
    PROVE  /\ mucOrderly' => mucOrderly
           /\ us = NoNick => us' = NoNick
           /\ us # NoNick => \A w : Ends(w) => Ends(After(w, m))' /\ (Own(m) => After(w, m).occ = m.at)
           /\ mucOrderly' => ~Answer(m) \/ InProgress = {}
<1>1. us \in Nicks \cup {NoNick} /\ people \subseteq Others /\ us \notin people
      /\ topic \in Subjects \cup {NoSubject}
  BY CallTypes
<1>2. us # NoNick => us \in Names
  BY <1>1 DEF Names
<1>3. ASSUME NEW o \in Others, SomeoneComes(o), m = Presence(o, "available", FALSE)
      PROVE  /\ UNCHANGED <<us, topic, mucOrderly>> /\ ~Answer(m)
             /\ us # NoNick => \A w : Ends(w) => Ends(After(w, m))' /\ (Own(m) => After(w, m).occ = m.at)
  <2>1. UNCHANGED <<us, topic, mucOrderly>> /\ people' = people \cup {o}
    BY <1>3 DEF SomeoneComes
  <2>2. o \in Names
    BY DEF Names
  <2>3. /\ ~Answer(m) /\ ~Own(m)
        /\ \A v : /\ After(v, m).occ = v.occ \cup {o}
                  /\ After(v, m).status = v.status /\ After(v, m).subj = v.subj
    <3>1. m = Comer(o)
      BY <1>3 DEF Comer
    <3> QED
      BY <2>2, <3>1, ComerMsg
  <2> QED
    BY <2>1, <2>3 DEF Ends
<1>4. ASSUME NEW o \in Others, SomeoneGoes(o), m = Presence(o, "unavailable", FALSE)
      PROVE  /\ UNCHANGED <<us, topic, mucOrderly>> /\ ~Answer(m)
             /\ us # NoNick => \A w : Ends(w) => Ends(After(w, m))' /\ (Own(m) => After(w, m).occ = m.at)
  <2>1. UNCHANGED <<us, topic, mucOrderly>> /\ people' = people \ {o} /\ o \in people /\ o # us
    BY <1>1, <1>4 DEF SomeoneGoes
  <2>2. o \in Names
    BY DEF Names
  <2>3. /\ ~Answer(m) /\ ~Own(m)
        /\ \A v : /\ After(v, m).occ = v.occ \ {o}
                  /\ After(v, m).status = v.status /\ After(v, m).subj = v.subj
    BY <1>4, <2>2, PersonMsg
  <2> QED
    BY <2>1, <2>3 DEF Ends
<1>5. ASSUME NEW s \in Subjects \cup {NoSubject}, SubjectChanges(s), m = Subject(s)
      PROVE  /\ UNCHANGED us /\ (mucOrderly' => mucOrderly) /\ ~Answer(m)
             /\ us # NoNick => \A w : Ends(w) => Ends(After(w, m))' /\ (Own(m) => After(w, m).occ = m.at)
  <2>1. UNCHANGED <<us, people>> /\ topic' = s
    BY <1>5 DEF SubjectChanges
  <2>2. mucOrderly' => mucOrderly
    BY <1>5 DEF SubjectChanges
  <2>3. /\ ~Answer(m) /\ ~Own(m)
        /\ \A v : /\ After(v, m).occ = v.occ /\ After(v, m).status = v.status
                  /\ After(v, m).subj = IF s # NoSubject THEN s ELSE v.subj
    BY <1>5, SubjectMsg
  <2> QED
    BY <2>1, <2>2, <2>3 DEF Ends
<1>6. ASSUME Update, m = [Presence(us, "available", TRUE) EXCEPT !.at = people \cup {us}]
      PROVE  /\ us # NoNick /\ (mucOrderly' => mucOrderly /\ InProgress = {})
             /\ \A w : Ends(w) => Ends(After(w, m))' /\ (Own(m) => After(w, m).occ = m.at)
  <2>1. UNCHANGED <<us, people, topic>> /\ us # NoNick
    BY <1>6 DEF Update, serviceVars
  <2>2. mucOrderly' => mucOrderly /\ InProgress = {}
    BY <1>6 DEF Update
  <2>3. PICK A \in SUBSET Names : A = people \cup {us}
    BY <1>1, <1>2, <2>1 DEF Names
  <2>4. m = OwnPresence(us, A)
    BY <1>6, <2>3 DEF OwnPresence
  <2>5. /\ m.at = A
        /\ \A v : /\ After(v, m).occ = v.occ \cup {us} /\ After(v, m).status = "in"
                  /\ After(v, m).subj = v.subj
    BY <1>2, <2>1, <2>4, OwnView
  <2> QED
    BY <2>1, <2>2, <2>3, <2>5 DEF Ends
<1>7. ASSUME Kick, m = Presence(us, "unavailable", TRUE)
      PROVE  /\ us # NoNick /\ (mucOrderly' => mucOrderly) /\ ~Answer(m)
             /\ \A w : Ends(w) => Ends(After(w, m))' /\ (Own(m) => After(w, m).occ = m.at)
  <2>1. us # NoNick /\ us' = NoNick
    BY <1>7 DEF Kick
  <2>2. mucOrderly' => mucOrderly
    BY <1>7 DEF Kick
  <2>3. /\ ~Answer(m) /\ ~Own(m)
        /\ \A v : After(v, m).status = "out"
    BY <1>2, <1>7, <2>1, GoneMsg
  <2> QED
    BY <2>1, <2>2, <2>3 DEF Ends
<1> QED
  BY <1>3, <1>4, <1>5, <1>6, <1>7 DEF News

LEMMA NewsMuc == ASSUME MucInv, NEW m, News(m) PROVE MucInv'
<1>1. CallInv /\ CallInv'
  BY NewsCall DEF MucInv
<1>2. /\ m \in Msg
      /\ UNCHANGED <<room, joinPending, joining, joinNick, joinResult, joinChan, answering, toRoom>>
      /\ fromRoom' = IF us = NoNick THEN fromRoom ELSE Append(fromRoom, m)
      /\ clean' \subseteq clean
  BY <1>1, NewsStep
<1>3. InProgress' = InProgress
  BY <1>2 DEF InProgress
<1>4. /\ mucOrderly' => mucOrderly
      /\ us = NoNick => us' = NoNick
      /\ us # NoNick => \A w : Ends(w) => Ends(After(w, m))' /\ (Own(m) => After(w, m).occ = m.at)
      /\ mucOrderly' => ~Answer(m) \/ InProgress = {}
  BY <1>1, NewsKeeps
<1>5. Tracked' => Tracked
  BY <1>2, <1>3, <1>4, FewerTracked
<1>6. ExactInv'
  BY <1>2, ExactSame DEF MucInv
<1>7. CASE us = NoNick
  <2>1. ASSUME Tracked PROVE Base'
    <3>1. Base
      BY <2>1 DEF MucInv
    <3>2. \A k : Blank(k) => Blank(k)'
      BY <1>2, <1>3, <1>4, <1>7 DEF Blank
    <3>3. Begun'
      BY <1>2, <3>1, <3>2 DEF Base, Begun, Asked
    <3>4. Flow'
      <4>1. \A w : Ends(w) => Ends(w)'
        BY <1>4, <1>7 DEF Ends
      <4> QED
        BY <1>2, <1>4, <1>7, <3>1, <4>1 DEF Base, Flow
    <3> QED
      BY <1>3, <3>1, <3>3, <3>4, FewerSingle DEF Base
  <2>2. OneAnswer'
    BY <1>2, <1>3, <1>4, <1>7, OneSame DEF MucInv
  <2> QED
    BY <1>1, <1>5, <1>6, <2>1, <2>2 DEF MucInv
<1>8. CASE us # NoNick
  <2>1. ASSUME Tracked PROVE Base'
    <3>1. Base
      BY <2>1 DEF MucInv
    <3>2. Quiet
      BY <1>8, <3>1, BusyQuiet DEF Base
    <3>3. Quiet'
      BY <1>2, <3>2 DEF Quiet, Asked
    <3> QED
      BY <1>1, <1>2, <1>3, <1>4, <1>8, <3>1, <3>3, SentTo
  <2>2. OneAnswer'
    <3>1. CASE mucOrderly'
      BY <1>1, <1>2, <1>3, <1>4, <1>8, <3>1, SentMore DEF MucInv
    <3>2. CASE ~mucOrderly'
      BY <3>2 DEF OneAnswer
    <3> QED
      BY <3>1, <3>2
  <2> QED
    BY <1>1, <1>5, <1>6, <2>1, <2>2 DEF MucInv
<1> QED
  BY <1>7, <1>8

LEMMA RestMuc == ASSUME MucInv, Leave \/ StreamEnds PROVE MucInv'
<1>1. CallInv /\ CallInv'
  BY RestCall DEF MucInv
<1>2. UNCHANGED <<room, joinPending, joining, joinNick, joinResult, joinChan, answering, fromRoom, us,
                  people, topic, clean>>
  BY DEF Leave, StreamEnds, callVars, serviceVars
<1>3. mucOrderly' => mucOrderly
  BY DEF Leave, StreamEnds
<1>4. InProgress' = InProgress
  BY <1>2 DEF InProgress
<1>5. ASSUME Tracked' PROVE Base'
  <2>1. Base
    BY <1>2, <1>3, <1>4, <1>5, FewerTracked DEF MucInv
  <2>2. \A k : Blank(k) => Blank(k)'
    BY <1>2, <1>4 DEF Blank
  <2>3. Begun'
    <3>1. CASE toRoom' = toRoom
      BY <1>2, <2>1, <2>2, <3>1 DEF Base, Begun, Asked
    <3>2. CASE toRoom' = Append(toRoom, [kind |-> "leave", nick |-> room.nick])
      <4>1. toRoom \in Seq(Asks)
        BY <1>1, CallTypes
      <4>2. PICK k \in Nat : k = Len(toRoom)
        BY <4>1
      <4>3. /\ Len(toRoom') = k + 1 /\ toRoom'[k + 1].kind = "leave"
            /\ \A i \in 1..k : toRoom'[i] = toRoom[i]
        BY <3>2, <4>1, <4>2
      <4>4. \A i \in 1..(k + 1) : i \in 1..k \/ i = k + 1
        OBVIOUS
      <4>5. \A i \in 1..Len(toRoom') : Asked(i)' => i \in 1..Len(toRoom) /\ Asked(i) /\ toRoom'[i] = toRoom[i]
        BY <4>2, <4>3, <4>4 DEF Asked
      <4> QED
        BY <1>2, <2>1, <2>2, <4>5 DEF Base, Begun
    <3> QED
      BY <3>1, <3>2 DEF Leave, StreamEnds
  <2> QED
    BY <1>2, <1>3, <1>4, <2>1, <2>3, FewerSingle, FlowSame DEF Base
<1>6. OneAnswer'
  BY <1>2, <1>3, <1>4, OneSame DEF MucInv
<1>7. ExactInv'
  BY <1>2, ExactSame DEF MucInv
<1> QED
  BY <1>1, <1>5, <1>6, <1>7 DEF MucInv

LEMMA NextMucInv == MucInv /\ [MucNext]_mucVars => MucInv'
<1> SUFFICES ASSUME MucInv, [MucNext]_mucVars PROVE MucInv'
  OBVIOUS
<1>1. CASE \E j \in Joins : JoinSend(j)
  BY <1>1, SendMuc
<1>2. CASE \E j \in Joins : JoinTakes(j)
  BY <1>2, TakeMuc
<1>3. CASE \E j \in Joins : JoinGivesUp(j) \/ JoinEnd(j)
  BY <1>3, GiveUpMuc
<1>4. CASE \E j \in Joins : \E n \in Nicks : Join(j, n)
  BY <1>4, JoinMuc
<1>5. CASE HandlePresence
  BY <1>5, PresenceMuc
<1>6. CASE HandleMessage
  BY <1>6, MessageMuc
<1>7. CASE AnswerJoin
  BY <1>7, AnswerMuc
<1>8. CASE ServiceAdmits
  BY <1>8, AdmitMuc
<1>9. CASE ServiceRenames
  BY <1>9, RenameMuc
<1>10. CASE ServiceLetsGo
  BY <1>10, LetGoMuc
<1>11. CASE \E user \in BOOLEAN : ServiceRefuses(user)
  BY <1>11, RefuseMuc
<1>12. CASE \/ \E o \in Others : SomeoneComes(o) \/ SomeoneGoes(o)
            \/ \E s \in Subjects \cup {NoSubject} : SubjectChanges(s)
            \/ Update \/ Kick
  BY <1>12, SomeNews, NewsMuc
<1>13. CASE Leave \/ StreamEnds
  BY <1>13, RestMuc
<1>14. CASE UNCHANGED mucVars
  <2>1. CallInv'
    BY NextCallInv DEF MucInv
  <2>2. UNCHANGED <<room, joining, joinNick, joinResult, joinChan, answering, toRoom, fromRoom, us,
                    people, topic, clean, mucOrderly>>
    BY <1>14 DEF mucVars, callVars, serviceVars
  <2>3. InProgress' = InProgress
    BY <2>2 DEF InProgress
  <2>4. ASSUME Tracked' PROVE Base'
    <3>1. Base
      BY <2>2, <2>3, <2>4, FewerTracked DEF MucInv
    <3>2. \A k : Blank(k) => Blank(k)'
      BY <2>2, <2>3 DEF Blank
    <3>3. Begun'
      BY <2>2, <3>1, <3>2 DEF Base, Begun, Asked
    <3> QED
      BY <2>2, <2>3, <3>1, <3>3, FewerSingle, FlowSame DEF Base
  <2>5. OneAnswer' /\ ExactInv'
    BY <2>2, <2>3, OneSame, ExactSame DEF MucInv
  <2> QED
    BY <2>1, <2>4, <2>5 DEF MucInv
<1> QED
  BY <1>1, <1>2, <1>3, <1>4, <1>5, <1>6, <1>7, <1>8, <1>9, <1>10, <1>11, <1>12, <1>13, <1>14 DEF MucNext

LEMMA MucInvHolds == MucSpec => []MucInv
  BY InitMucInv, NextMucInv, PTL DEF MucSpec

-----------------------------------------------------------------------------
(* The theorems about rooms. *)

(* Whatever the client, the service and the people do, the state of the MUC *)
(* plugin stays well formed: a Room, at most one answer in a Join's channel *)
(* (muc.go:104-160, 262-332).                                               *)
THEOREM MucTypeCorrect == MucSpec => []MucTypeOK
<1>1. MucInv => MucTypeOK
  BY DEF MucInv, CallInv, MucTypes, Registered, MucTypeOK, Rooms, Names
<1> QED
  BY <1>1, MucInvHolds, PTL

(* The Room that an undisturbed Join returns lists exactly the people the   *)
(* service had when it let the client in (muc.go:140, 276-310).             *)
THEOREM JoinedRoomIsExact == MucSpec => []JoinExact
<1>1. MucInv => JoinExact
  BY DEF MucInv, ExactInv, Exact, JoinExact
<1> QED
  BY <1>1, MucInvHolds, PTL

(* At rest the Room agrees with the service on whether the client is in the *)
(* room, on who is, and on the subject if there is one, as long as Joins    *)
(* began outside with nothing under way and no Leave, kick or change of the *)
(* client's own presence fell into one (muc.go:276-298, 327-332).           *)
THEOREM RoomAgreesAtRest == MucSpec => []RoomExact
<1>1. ASSUME MucInv, mucOrderly, fromRoom = <<>>
      PROVE  /\ (room.known /\ room.joined) = (us # NoNick)
             /\ us # NoNick => room.occupants = people \cup {us}
             /\ us # NoNick /\ topic # NoSubject => room.subject = topic
  <2>1. Flow
    BY <1>1 DEF MucInv, Tracked, Base
  <2>2. PICK w : Tracks(fromRoom, View(room), w) /\ Ends(w)
    BY <2>1 DEF Flow
  <2>3. w = View(room)
    BY <1>1, <2>2, TracksNone
  <2>4. room = NoRoom \/ room \in Rooms
    BY <1>1, CallTypes DEF MucInv
  <2>5. room = NoRoom \/ room \in Rooms => room.known \in BOOLEAN /\ (room.known => room.joined \in BOOLEAN)
    BY RoomTypes DEF Rooms
  <2>6. room.known => /\ View(room).occ = room.occupants /\ View(room).subj = room.subject
                      /\ View(room).status = IF room.joined THEN "in" ELSE "out"
    BY DEF View
  <2>7. (room.known /\ room.joined) <=> us # NoNick
    BY <1>1, <2>1, <2>2, <2>3, <2>6 DEF Ends, Flow
  <2>8. /\ us # NoNick => room.occupants = people \cup {us}
        /\ us # NoNick /\ topic # NoSubject => room.subject = topic
    BY <1>1, <2>1, <2>2, <2>3, <2>6 DEF Ends, Flow
  <2>9. (room.known /\ room.joined) = (us # NoNick)
    BY <2>7, Zenon
  <2> QED
    BY <2>8, <2>9
<1>2. MucInv => RoomExact
  BY <1>1 DEF RoomExact
<1> QED
  BY <1>2, MucInvHolds, PTL

(* The reader is never left waiting on the channel of a Join that has gone, *)
(* as long as each Join is answered once (muc.go:133, 303, 309).            *)
THEOREM ReaderIsFreed == MucSpec => []ReaderFreed
<1>1. MucInv => ReaderFreed
  BY DEF MucInv, OneAnswer, ReaderFreed, JoinCapacity
<1> QED
  BY <1>1, MucInvHolds, PTL

-----------------------------------------------------------------------------
(* Archive pages: sequences of archive IDs and of stanzas. *)

ArchiveIDs == 1..MaxArchive
Stanzas == [kind : {"result"}, query : Queries, id : ArchiveIDs] \cup [kind : {"fin"}, query : Queries]
Servings == [at : {"none", "sending", "done"}, left : Seq(ArchiveIDs)]
Pages == {NoPage} \cup [ok : {TRUE}, results : Seq(ArchiveIDs)]

Result(m, q) == m.kind = "result" /\ m.query = q
Fin(m, q) == m.kind = "fin" /\ m.query = q

Ids(s) == {s[i] : i \in 1..Len(s)}
InWire(s, q) == {s[i].id : i \in {k \in 1..Len(s) : Result(s[k], q)}}
Inc(s) == \A i, k \in 1..Len(s) : i < k => s[i] < s[k]
IncIn(s, q) == \A i, k \in 1..Len(s) : i < k /\ Result(s[i], q) /\ Result(s[k], q) => s[i].id < s[k].id
Below(A, B) == \A a \in A, b \in B : a < b
FinLast(s, q) == \A i, k \in 1..Len(s) : Fin(s[i], q) /\ Result(s[k], q) => k < i
HasFin(s, q) == \E i \in 1..Len(s) : Fin(s[i], q)

LEMMA IDTypes == ArchiveIDs \subseteq Int /\ \A s \in Seq(ArchiveIDs) : Ids(s) \subseteq ArchiveIDs
  BY ArchiveAssumption DEF ArchiveIDs, Ids

LEMMA NoIds == Ids(<<>>) = {} /\ Inc(<<>>) /\ \A q : InWire(<<>>, q) = {} /\ IncIn(<<>>, q) /\ FinLast(<<>>, q)
                                                   /\ ~HasFin(<<>>, q)
  BY DEF Ids, Inc, InWire, IncIn, FinLast, HasFin

LEMMA IdsAppend ==
    ASSUME NEW s \in Seq(ArchiveIDs), NEW e \in ArchiveIDs, NEW t, t = Append(s, e)
    PROVE  /\ t \in Seq(ArchiveIDs) /\ Ids(t) = Ids(s) \cup {e}
           /\ Inc(s) /\ Below(Ids(s), {e}) => Inc(t)
<1>1. PICK n \in Nat : n = Len(s)
  OBVIOUS
<1>2. t \in Seq(ArchiveIDs) /\ Len(t) = n + 1 /\ t[n + 1] = e /\ \A i \in 1..n : t[i] = s[i]
  BY <1>1
<1>3. \A i \in 1..(n + 1) : i \in 1..n \/ i = n + 1
  OBVIOUS
<1>4. n + 1 \in 1..(n + 1) /\ \A i \in 1..n : i \in 1..(n + 1)
  OBVIOUS
<1>5. Ids(t) = Ids(s) \cup {e}
  BY <1>1, <1>2, <1>3, <1>4 DEF Ids
<1>6. ASSUME Inc(s), Below(Ids(s), {e}), NEW i \in 1..(n + 1), NEW k \in 1..(n + 1), i < k
      PROVE  t[i] < t[k]
  <2>1. i \in 1..n
    BY <1>6
  <2>2. CASE k = n + 1
    BY <1>1, <1>2, <1>6, <2>1, <2>2 DEF Below, Ids
  <2>3. CASE k \in 1..n
    BY <1>1, <1>2, <1>6, <2>1, <2>3 DEF Inc
  <2> QED
    BY <1>3, <2>2, <2>3
<1> QED
  BY <1>2, <1>5, <1>6 DEF Inc

LEMMA IdsTail ==
    ASSUME NEW s \in Seq(ArchiveIDs), s # <<>>, NEW t, t = Tail(s)
    PROVE  /\ t \in Seq(ArchiveIDs) /\ Head(s) \in ArchiveIDs /\ Ids(s) = Ids(t) \cup {Head(s)}
           /\ Inc(s) => Inc(t) /\ Below({Head(s)}, Ids(t))
<1>1. PICK n \in Nat : n = Len(s) /\ n >= 1
  OBVIOUS
<1>2. /\ t \in Seq(ArchiveIDs) /\ Len(t) = n - 1 /\ Head(s) = s[1] /\ Head(s) \in ArchiveIDs
      /\ \A i \in 1..(n - 1) : t[i] = s[i + 1]
  BY <1>1
<1>3. \A i \in 1..n : i = 1 \/ (i - 1 \in 1..(n - 1) /\ (i - 1) + 1 = i)
  OBVIOUS
<1>4. 1 \in 1..n /\ \A i \in 1..(n - 1) : i + 1 \in 1..n /\ 1 < i + 1
  BY <1>1
<1>5. Ids(s) = Ids(t) \cup {Head(s)}
  <2>1. Ids(t) \subseteq Ids(s)
    BY <1>1, <1>2, <1>4 DEF Ids
  <2>2. Head(s) \in Ids(s)
    BY <1>1, <1>2, <1>4 DEF Ids
  <2>3. ASSUME NEW i \in 1..n, i # 1 PROVE s[i] \in Ids(t)
    <3>1. i - 1 \in 1..(n - 1) /\ t[i - 1] = s[i]
      BY <1>2, <1>3, <2>3
    <3> QED
      BY <1>2, <3>1 DEF Ids
  <2>4. Ids(s) \subseteq Ids(t) \cup {Head(s)}
    BY <1>1, <1>2, <2>3 DEF Ids
  <2> QED
    BY <2>1, <2>2, <2>4
<1>6. ASSUME Inc(s), NEW i \in 1..(n - 1), NEW k \in 1..(n - 1), i < k PROVE t[i] < t[k]
  <2>1. i + 1 < k + 1
    BY <1>6
  <2> QED
    BY <1>1, <1>2, <1>4, <1>6, <2>1 DEF Inc
<1>7. Inc(s) => Below({Head(s)}, Ids(t))
  BY <1>1, <1>2, <1>4 DEF Inc, Below, Ids
<1> QED
  BY <1>2, <1>5, <1>6, <1>7 DEF Inc

LEMMA InAppend ==
    ASSUME NEW s \in Seq(Stanzas), NEW m \in Stanzas, NEW q, NEW t, t = Append(s, m)
    PROVE  /\ t \in Seq(Stanzas)
           /\ Result(m, q) => InWire(t, q) = InWire(s, q) \cup {m.id}
           /\ ~Result(m, q) => InWire(t, q) = InWire(s, q)
           /\ IncIn(s, q) /\ (Result(m, q) => Below(InWire(s, q), {m.id})) => IncIn(t, q)
           /\ FinLast(s, q) /\ (Result(m, q) => ~HasFin(s, q)) => FinLast(t, q)
           /\ HasFin(t, q) => HasFin(s, q) \/ Fin(m, q)
<1>1. PICK n \in Nat : n = Len(s)
  OBVIOUS
<1>2. t \in Seq(Stanzas) /\ Len(t) = n + 1 /\ t[n + 1] = m /\ \A i \in 1..n : t[i] = s[i]
  BY <1>1
<1>3. \A i \in 1..(n + 1) : i \in 1..n \/ i = n + 1
  OBVIOUS
<1>4. n + 1 \in 1..(n + 1) /\ \A i \in 1..n : i \in 1..(n + 1) /\ i < n + 1 /\ ~(n + 1 < i)
  OBVIOUS
<1>5. InWire(t, q) = InWire(s, q) \cup (IF Result(m, q) THEN {m.id} ELSE {})
  BY <1>1, <1>2, <1>3, <1>4 DEF InWire
<1>6. ASSUME IncIn(s, q), Result(m, q) => Below(InWire(s, q), {m.id}),
             NEW i \in 1..(n + 1), NEW k \in 1..(n + 1), i < k, Result(t[i], q), Result(t[k], q)
      PROVE  t[i].id < t[k].id
  <2>1. i \in 1..n
    BY <1>6
  <2>2. CASE k = n + 1
    BY <1>1, <1>2, <1>6, <2>1, <2>2 DEF Below, InWire
  <2>3. CASE k \in 1..n
    BY <1>1, <1>2, <1>6, <2>1, <2>3 DEF IncIn
  <2> QED
    BY <1>3, <2>2, <2>3
<1>7. ASSUME FinLast(s, q), Result(m, q) => ~HasFin(s, q),
             NEW i \in 1..(n + 1), NEW k \in 1..(n + 1), Fin(t[i], q), Result(t[k], q)
      PROVE  k < i
  <2>1. CASE i \in 1..n /\ k \in 1..n
    BY <1>1, <1>2, <1>7, <2>1 DEF FinLast
  <2>2. CASE i = n + 1 /\ k \in 1..n
    BY <2>2
  <2>3. CASE k = n + 1 /\ i \in 1..n
    BY <1>1, <1>2, <1>7, <2>3 DEF HasFin
  <2>4. CASE k = n + 1 /\ i = n + 1
    BY <1>2, <1>7, <2>4 DEF Fin, Result
  <2> QED
    BY <1>3, <2>1, <2>2, <2>3, <2>4
<1>8. HasFin(t, q) => HasFin(s, q) \/ Fin(m, q)
  BY <1>1, <1>2, <1>3 DEF HasFin
<1>9. IncIn(s, q) /\ (Result(m, q) => Below(InWire(s, q), {m.id})) => IncIn(t, q)
  BY <1>2, <1>6 DEF IncIn
<1>10. FinLast(s, q) /\ (Result(m, q) => ~HasFin(s, q)) => FinLast(t, q)
  BY <1>2, <1>7 DEF FinLast
<1> QED
  BY <1>2, <1>5, <1>8, <1>9, <1>10

LEMMA OtherTail ==
    ASSUME NEW s \in Seq(Stanzas), s # <<>>, NEW q, NEW m, m = Head(s), ~Result(m, q), NEW t, t = Tail(s)
    PROVE  InWire(t, q) = InWire(s, q)
<1>1. PICK n \in Nat : n = Len(s) /\ n >= 1
  OBVIOUS
<1>2. Len(t) = n - 1 /\ m = s[1] /\ \A i \in 1..(n - 1) : t[i] = s[i + 1]
  BY <1>1
<1>3. \A i \in 1..(n - 1) : i + 1 \in 1..n
  BY <1>1
<1>4. InWire(t, q) \subseteq InWire(s, q)
  BY <1>1, <1>2, <1>3 DEF InWire
<1>5. ASSUME NEW i \in 1..n, Result(s[i], q) PROVE s[i].id \in InWire(t, q)
  <2>1. i # 1
    BY <1>2, <1>5
  <2>2. i - 1 \in 1..(n - 1) /\ (i - 1) + 1 = i
    BY <2>1
  <2>3. t[i - 1] = s[i]
    BY <1>2, <2>2
  <2> QED
    BY <1>2, <1>5, <2>2, <2>3 DEF InWire
<1>6. InWire(s, q) \subseteq InWire(t, q)
  BY <1>1, <1>5 DEF InWire
<1> QED
  BY <1>4, <1>6

LEMMA InTail ==
    ASSUME NEW s \in Seq(Stanzas), s # <<>>, NEW q, NEW m, m = Head(s), NEW t, t = Tail(s)
    PROVE  /\ t \in Seq(Stanzas) /\ m \in Stanzas
           /\ Result(m, q) => InWire(s, q) = InWire(t, q) \cup {m.id}
           /\ IncIn(s, q) => IncIn(t, q) /\ (Result(m, q) => Below({m.id}, InWire(t, q)))
           /\ FinLast(s, q) => FinLast(t, q) /\ (Fin(m, q) => InWire(s, q) = {})
           /\ HasFin(t, q) => HasFin(s, q)
           /\ Fin(m, q) => HasFin(s, q)
<1>1. PICK n \in Nat : n = Len(s) /\ n >= 1
  OBVIOUS
<1>2. /\ t \in Seq(Stanzas) /\ Len(t) = n - 1 /\ m = s[1] /\ m \in Stanzas
      /\ \A i \in 1..(n - 1) : t[i] = s[i + 1]
  BY <1>1
<1>3. \A i \in 1..n : i = 1 \/ (i - 1 \in 1..(n - 1) /\ (i - 1) + 1 = i)
  OBVIOUS
<1>4. 1 \in 1..n /\ \A i \in 1..(n - 1) : i + 1 \in 1..n /\ 1 < i + 1
  BY <1>1
<1>5. InWire(s, q) = InWire(t, q) \cup (IF Result(m, q) THEN {m.id} ELSE {})
  <2>1. InWire(t, q) \subseteq InWire(s, q)
    BY <1>1, <1>2, <1>4 DEF InWire
  <2>2. Result(m, q) => m.id \in InWire(s, q)
    BY <1>1, <1>2, <1>4 DEF InWire
  <2>3. ASSUME NEW i \in 1..n, Result(s[i], q), i # 1 PROVE s[i].id \in InWire(t, q)
    <3>1. i - 1 \in 1..(n - 1) /\ t[i - 1] = s[i]
      BY <1>2, <1>3, <2>3
    <3> QED
      BY <1>2, <2>3, <3>1 DEF InWire
  <2>4. \A i \in 1..n : Result(s[i], q) => s[i].id \in InWire(t, q) \/ (i = 1 /\ Result(m, q) /\ s[i].id = m.id)
    BY <1>2, <2>3
  <2>5. \A x \in InWire(s, q) : x \in InWire(t, q) \/ (Result(m, q) /\ x = m.id)
    BY <1>1, <2>4 DEF InWire
  <2> QED
    BY <2>1, <2>2, <2>5
<1>6. ASSUME IncIn(s, q), NEW i \in 1..(n - 1), NEW k \in 1..(n - 1), i < k, Result(t[i], q), Result(t[k], q)
      PROVE  t[i].id < t[k].id
  <2>1. i + 1 < k + 1
    BY <1>6
  <2> QED
    BY <1>1, <1>2, <1>4, <1>6, <2>1 DEF IncIn
<1>7. IncIn(s, q) => (Result(m, q) => Below({m.id}, InWire(t, q)))
  BY <1>1, <1>2, <1>4 DEF IncIn, Below, InWire
<1>8. ASSUME FinLast(s, q), NEW i \in 1..(n - 1), NEW k \in 1..(n - 1), Fin(t[i], q), Result(t[k], q)
      PROVE  k < i
  <2>1. k + 1 < i + 1
    BY <1>1, <1>2, <1>4, <1>8 DEF FinLast
  <2> QED
    BY <2>1
<1>9. ASSUME FinLast(s, q), Fin(m, q) PROVE InWire(s, q) = {}
  <2>1. \A k \in 1..n : ~(k < 1)
    OBVIOUS
  <2> QED
    BY <1>1, <1>2, <1>4, <1>9, <2>1 DEF FinLast, InWire
<1>10. HasFin(t, q) => HasFin(s, q)
  BY <1>1, <1>2, <1>4 DEF HasFin
<1>11. Fin(m, q) => HasFin(s, q)
  BY <1>1, <1>2, <1>4 DEF HasFin
<1>12. IncIn(s, q) => IncIn(t, q)
  BY <1>2, <1>6 DEF IncIn
<1>13. FinLast(s, q) => FinLast(t, q)
  BY <1>2, <1>8 DEF FinLast
<1> QED
  BY <1>2, <1>5, <1>7, <1>9, <1>10, <1>11, <1>12, <1>13
(***************************************************************************)
(* The invariant.  For each query, what is filed, what is on its way and   *)
(* what is to be sent are in the order of the archive; while the query is  *)
(* registered, whatever was sent and can be parsed is filed or on its way; *)
(* and the fin comes after all of it.                                      *)
(***************************************************************************)
Good == {id \in ArchiveIDs : Parses(id)}

Ordered(q) ==
    /\ Inc(mamResults[q]) /\ IncIn(mamIn, q) /\ Inc(serving[q].left)
    /\ Below(Ids(mamResults[q]), InWire(mamIn, q)) /\ Below(Ids(mamResults[q]), Ids(serving[q].left))
    /\ Below(InWire(mamIn, q), Ids(serving[q].left))

Kept(q) ==
    /\ Ids(mamResults[q]) \subseteq Good /\ Ids(mamResults[q]) \cup InWire(mamIn, q) \subseteq Ids(served[q])
    /\ querying[q] \in {"registered", "asked", "answered"} =>
           q \in mamPending /\ Ids(served[q]) \cap Good \subseteq Ids(mamResults[q]) \cup InWire(mamIn, q)

Ended(q) ==
    /\ FinLast(mamIn, q)
    /\ HasFin(mamIn, q) => serving[q].at = "done"
    /\ querying[q] = "answered" => serving[q].at = "done" /\ InWire(mamIn, q) = {}
    /\ querying[q] \in {"idle", "registered"} => serving[q].at = "none"
    /\ serving[q].at = "none" => served[q] = <<>> /\ serving[q].left = <<>>
    /\ serving[q].at = "done" => serving[q].left = <<>>

Paged(q) ==
    queryPage[q].ok =>
        /\ querying[q] \in {"leaving", "over"} /\ serving[q].at = "done"
        /\ Inc(queryPage[q].results) /\ Ids(queryPage[q].results) = Ids(served[q]) \cap Good

MamTypes ==
    /\ MamTypeOK /\ mamIn \in Seq(Stanzas) /\ serving \in [Queries -> Servings]
    /\ queryPage \in [Queries -> Pages]

QueryInv(q) == Ordered(q) /\ Kept(q) /\ Ended(q) /\ Paged(q)
MamInv == MamTypes /\ \A q \in Queries : QueryInv(q)

LEMMA MamTypesOf ==
    ASSUME MamTypes
    PROVE  /\ mamPending \subseteq Queries /\ mamResults \in [Queries -> Seq(ArchiveIDs)]
           /\ querying \in [Queries -> {"idle", "registered", "asked", "answered", "leaving", "over"}]
           /\ queryAfter \in [Queries -> 0..MaxArchive] /\ archived \in 0..MaxArchive
           /\ served \in [Queries -> Seq(ArchiveIDs)]
           /\ mamIn \in Seq(Stanzas) /\ serving \in [Queries -> Servings]
           /\ queryPage \in [Queries -> Pages]
           /\ \A q \in Queries : serving[q].left \in Seq(ArchiveIDs)
                                 /\ serving[q].at \in {"none", "sending", "done"}
  BY DEF MamTypes, MamTypeOK, ArchiveIDs, Servings

LEMMA InitMamInv == MamInit => MamInv
<1> SUFFICES ASSUME MamInit PROVE MamInv
  OBVIOUS
<1>1. /\ mamPending = {} /\ mamResults = [q \in Queries |-> <<>>]
      /\ querying = [q \in Queries |-> "idle"] /\ queryAfter = [q \in Queries |-> 0]
      /\ queryPage = [q \in Queries |-> NoPage] /\ mamIn = <<>> /\ archived \in 0..MaxArchive
      /\ served = [q \in Queries |-> <<>>]
  BY ArchiveAssumption DEF MamInit
<1>2. serving = [q \in Queries |-> [at |-> "none", left |-> <<>>]]
  BY DEF MamInit, Serving
<1>3. [at |-> "none", left |-> <<>>] \in Servings /\ NoPage \in Pages /\ NoPage.ok = FALSE
  BY DEF Servings, Pages, NoPage
<1>4. MamTypes
  BY <1>1, <1>2, <1>3, ArchiveAssumption DEF MamTypes, MamTypeOK
<1>5. ASSUME NEW q \in Queries PROVE QueryInv(q)
  <2>1. /\ mamResults[q] = <<>> /\ served[q] = <<>> /\ querying[q] = "idle" /\ queryPage[q].ok = FALSE
        /\ serving[q].at = "none" /\ serving[q].left = <<>>
    BY <1>1, <1>2, <1>3
  <2>2. Ordered(q)
    BY <1>1, <2>1, NoIds DEF Ordered, Below
  <2>3. Kept(q)
    BY <1>1, <2>1, NoIds DEF Kept
  <2>4. Ended(q)
    BY <1>1, <2>1, NoIds DEF Ended
  <2>5. Paged(q)
    BY <2>1 DEF Paged
  <2> QED
    BY <2>2, <2>3, <2>4, <2>5 DEF QueryInv
<1> QED
  BY <1>4, <1>5 DEF MamInv

(* The steps of a call of Query.                                            *)
LEMMA CallMam ==
    ASSUME MamInv, NEW q \in Queries,
           \/ QueryAsk(q) \/ QueryFails(q) \/ QueryTakes(q) \/ QueryEnd(q)
           \/ \E after \in 0..archived : QueryRegister(q, after)
    PROVE  MamInv'
<1>1. /\ UNCHANGED <<mamResults, mamIn, archived, serving, served>>
      /\ mamPending' \subseteq mamPending \cup {q} /\ mamPending \ {q} \subseteq mamPending'
  BY DEF QueryAsk, QueryFails, QueryTakes, QueryEnd, QueryRegister
<1>2. MamTypes
  BY DEF MamInv
<1>3. PICK p \in {"registered", "asked", "leaving", "over"} : querying' = [querying EXCEPT ![q] = p]
  BY DEF QueryAsk, QueryFails, QueryTakes, QueryEnd, QueryRegister
<1>4. /\ querying' \in [Queries -> {"idle", "registered", "asked", "answered", "leaving", "over"}]
      /\ querying'[q] = p /\ \A x \in Queries : x # q => querying'[x] = querying[x]
  BY <1>2, <1>3, MamTypesOf
<1>5. queryAfter' \in [Queries -> 0..MaxArchive]
  <2>1. archived \in 0..MaxArchive /\ queryAfter \in [Queries -> 0..MaxArchive] /\ MaxArchive \in Nat
    BY <1>2, MamTypesOf, ArchiveAssumption
  <2>2. CASE queryAfter' = queryAfter
    BY <2>1, <2>2
  <2>3. ASSUME NEW after \in 0..archived, queryAfter' = [queryAfter EXCEPT ![q] = after]
        PROVE  queryAfter' \in [Queries -> 0..MaxArchive]
    <3>1. after \in 0..MaxArchive
      BY <2>1
    <3> QED
      BY <2>1, <2>3, <3>1
  <2> QED
    BY <2>2, <2>3 DEF QueryAsk, QueryFails, QueryTakes, QueryEnd, QueryRegister
<1>6. PICK page : page = [ok |-> TRUE, results |-> mamResults[q]]
  OBVIOUS
<1>7. page \in Pages /\ page.ok /\ page.results = mamResults[q]
  BY <1>2, <1>6, MamTypesOf DEF Pages
<1>8. queryPage' = queryPage \/ (querying[q] = "answered" /\ p = "leaving"
                                 /\ queryPage' = [queryPage EXCEPT ![q] = page])
  <2>1. CASE QueryTakes(q)
    <3>1. querying' = [querying EXCEPT ![q] = "leaving"] /\ querying'[q] = "leaving"
      BY <1>2, <2>1, MamTypesOf DEF QueryTakes
    <3> QED
      BY <1>4, <1>6, <2>1, <3>1 DEF QueryTakes
  <2> QED
    BY <2>1 DEF QueryAsk, QueryFails, QueryTakes, QueryEnd, QueryRegister
<1>9. /\ queryPage' \in [Queries -> Pages]
      /\ \A x \in Queries : x # q => queryPage'[x] = queryPage[x]
      /\ queryPage'[q] = queryPage[q] \/ (querying[q] = "answered" /\ p = "leaving" /\ queryPage'[q] = page)
  BY <1>2, <1>7, <1>8, MamTypesOf
<1>10. MamTypes'
  BY <1>1, <1>2, <1>4, <1>5, <1>9 DEF MamTypes, MamTypeOK
<1>11. ASSUME NEW x \in Queries, x # q PROVE QueryInv(x)'
  <2>1. QueryInv(x)
    BY DEF MamInv
  <2>2. /\ UNCHANGED <<mamResults, mamIn, serving, served>> /\ querying'[x] = querying[x]
        /\ queryPage'[x] = queryPage[x] /\ (x \in mamPending => x \in mamPending')
    BY <1>1, <1>4, <1>9, <1>11
  <2> QED
    BY <2>1, <2>2 DEF QueryInv, Ordered, Kept, Ended, Paged
<1>12. QueryInv(q)'
  <2>1. QueryInv(q)
    BY DEF MamInv
  <2>2. Ordered(q)'
    BY <1>1, <2>1 DEF QueryInv, Ordered
  <2>3. /\ p = "registered" => querying[q] = "idle" /\ q \in mamPending'
        /\ p = "asked" => querying[q] = "registered" /\ mamPending' = mamPending
        /\ p = "leaving" => querying[q] \in {"registered", "asked", "answered"}
        /\ p = "over" => querying[q] = "leaving"
    <3>1. querying' = [querying EXCEPT ![q] = p] /\ querying'[q] = p
      BY <1>3, <1>4
    <3>2. querying \in [Queries -> {"idle", "registered", "asked", "answered", "leaving", "over"}]
      BY <1>2, MamTypesOf
    <3> QED
      BY <3>1, <3>2 DEF QueryAsk, QueryFails, QueryTakes, QueryEnd, QueryRegister
  <2>4. Kept(q)'
    <3>1. querying[q] = "idle" => Ids(served[q]) = {}
      BY <2>1, NoIds DEF QueryInv, Ended
    <3> QED
      BY <1>1, <1>4, <2>1, <2>3, <3>1 DEF QueryInv, Kept
  <2>5. Ended(q)'
    BY <1>1, <1>4, <2>1, <2>3 DEF QueryInv, Ended
  <2>6. Paged(q)'
    <3>1. CASE queryPage'[q] = queryPage[q]
      BY <1>1, <1>4, <2>1, <2>3, <3>1 DEF QueryInv, Paged
    <3>2. CASE querying[q] = "answered" /\ p = "leaving" /\ queryPage'[q] = page
      <4>1. serving[q].at = "done" /\ InWire(mamIn, q) = {}
        BY <2>1, <3>2 DEF QueryInv, Ended
      <4>2. Ids(mamResults[q]) = Ids(served[q]) \cap Good
        BY <2>1, <3>2, <4>1 DEF QueryInv, Kept
      <4> QED
        BY <1>1, <1>4, <1>7, <2>1, <3>2, <4>1, <4>2 DEF QueryInv, Ordered, Paged
    <3> QED
      BY <1>9, <3>1, <3>2
  <2> QED
    BY <2>2, <2>4, <2>5, <2>6 DEF QueryInv
<1> QED
  BY <1>10, <1>11, <1>12 DEF MamInv
(* A stanza for another query changes nothing for this one.                 *)
LEMMA OtherQuery ==
    ASSUME NEW x \in Queries, QueryInv(x), InWire(mamIn', x) = InWire(mamIn, x), IncIn(mamIn', x), FinLast(mamIn', x),
           HasFin(mamIn', x) => HasFin(mamIn, x), mamResults'[x] = mamResults[x], serving'[x] = serving[x],
           served'[x] = served[x], querying'[x] = querying[x], queryPage'[x] = queryPage[x],
           mamPending' = mamPending
    PROVE  QueryInv(x)'
  BY DEF QueryInv, Ordered, Kept, Ended, Paged

LEMMA ResultMam == ASSUME MamInv, HandleResult PROVE MamInv'
<1>1. PICK s \in Seq(Stanzas) : s = mamIn
  BY MamTypesOf DEF MamInv
<1>2. PICK m : m = Head(s)
  OBVIOUS
<1>3. /\ UNCHANGED <<mamPending, querying, queryAfter, queryPage, archived, serving, served>>
      /\ s # <<>> /\ m.kind = "result" /\ mamIn' = Tail(s)
      /\ mamResults' = IF Parses(m.id) THEN Filed(m) ELSE mamResults
  BY <1>1, <1>2 DEF HandleResult
<1>4. MamTypes
  BY DEF MamInv
<1>5. m \in Stanzas /\ Tail(s) \in Seq(Stanzas)
  BY <1>2, <1>3, InTail
<1>6. PICK q \in Queries : q = m.query /\ m.id \in ArchiveIDs
  BY <1>3, <1>5 DEF Stanzas
<1>7. PICK t : t = Append(mamResults[q], m.id)
  OBVIOUS
<1>8. mamResults \in [Queries -> Seq(ArchiveIDs)]
  BY <1>4, MamTypesOf
<1>9. t \in Seq(ArchiveIDs)
  BY <1>6, <1>7, <1>8, IdsAppend
<1>10. mamResults' = mamResults \/ mamResults' = [mamResults EXCEPT ![q] = t]
  BY <1>3, <1>6, <1>7 DEF Filed
<1>11. mamResults' \in [Queries -> Seq(ArchiveIDs)] /\ \A x \in Queries : x # q => mamResults'[x] = mamResults[x]
  BY <1>8, <1>9, <1>10
<1>12. Parses(m.id) /\ q \in mamPending => mamResults'[q] = t
  BY <1>3, <1>6, <1>7, <1>8 DEF Filed
<1>13. mamResults'[q] = mamResults[q] \/ (Parses(m.id) /\ mamResults'[q] = t)
  BY <1>3, <1>6, <1>7, <1>8 DEF Filed
<1>14. MamTypes'
  BY <1>3, <1>4, <1>5, <1>11 DEF MamTypes, MamTypeOK, ArchiveIDs
<1>15. ASSUME NEW x \in Queries, x # q PROVE QueryInv(x)'
  <2>1. QueryInv(x)
    BY DEF MamInv
  <2>2. ~Result(m, x)
    BY <1>6, <1>15 DEF Result
  <2>3. /\ InWire(s, x) = InWire(Tail(s), x) /\ IncIn(Tail(s), x) /\ FinLast(Tail(s), x)
        /\ HasFin(Tail(s), x) => HasFin(s, x)
    <3>1. IncIn(s, x) /\ FinLast(s, x)
      BY <1>1, <2>1 DEF QueryInv, Ordered, Ended
    <3>2. InWire(Tail(s), x) = InWire(s, x)
      BY <1>2, <1>3, <2>2, OtherTail
    <3>3. IncIn(Tail(s), x) /\ FinLast(Tail(s), x) /\ (HasFin(Tail(s), x) => HasFin(s, x))
      BY <1>2, <1>3, <3>1, InTail
    <3> QED
      BY <3>2, <3>3
  <2> QED
    BY <1>1, <1>3, <1>11, <1>15, <2>1, <2>3, OtherQuery
<1>16. QueryInv(q)'
  <2>1. QueryInv(q)
    BY DEF MamInv
  <2>2. Result(m, q)
    BY <1>3, <1>6 DEF Result
  <2>3. /\ InWire(s, q) = InWire(Tail(s), q) \cup {m.id} /\ IncIn(Tail(s), q) /\ FinLast(Tail(s), q)
        /\ Below({m.id}, InWire(Tail(s), q)) /\ (HasFin(Tail(s), q) => HasFin(s, q))
    <3>1. IncIn(s, q) /\ FinLast(s, q)
      BY <1>1, <2>1 DEF QueryInv, Ordered, Ended
    <3>2. InWire(s, q) = InWire(Tail(s), q) \cup {m.id}
      BY <1>2, <1>3, <2>2, InTail
    <3>3. IncIn(Tail(s), q) /\ FinLast(Tail(s), q) /\ (HasFin(Tail(s), q) => HasFin(s, q))
      BY <1>2, <1>3, <3>1, InTail
    <3>4. Below({m.id}, InWire(Tail(s), q))
      BY <1>2, <1>3, <2>2, <3>1, InTail
    <3> QED
      BY <3>2, <3>3, <3>4
  <2>4. Inc(mamResults[q]) /\ Below(Ids(mamResults[q]), {m.id})
    BY <1>1, <2>1, <2>3 DEF QueryInv, Ordered, Below
  <2>5. Ids(t) = Ids(mamResults[q]) \cup {m.id} /\ Inc(t)
    <3>1. PICK r \in Seq(ArchiveIDs) : r = mamResults[q]
      BY <1>8
    <3>2. PICK e \in ArchiveIDs : e = m.id
      BY <1>6
    <3>3. t = Append(r, e) /\ Inc(r) /\ Below(Ids(r), {e})
      BY <1>7, <2>4, <3>1, <3>2
    <3>4. Ids(t) = Ids(r) \cup {e} /\ Inc(t)
      BY <3>3, IdsAppend
    <3> QED
      BY <3>1, <3>2, <3>4
  <2>6. Ordered(q)'
    BY <1>1, <1>3, <1>13, <2>1, <2>3, <2>5 DEF QueryInv, Ordered, Below
  <2>7. Kept(q)'
    <3>1. Parses(m.id) => m.id \in Good
      BY <1>6 DEF Good
    <3>2. /\ Ids(mamResults[q]) \subseteq Good /\ Ids(mamResults[q]) \cup InWire(s, q) \subseteq Ids(served[q])
          /\ querying[q] \in {"registered", "asked", "answered"} =>
                 q \in mamPending /\ Ids(served[q]) \cap Good \subseteq Ids(mamResults[q]) \cup InWire(s, q)
      BY <1>1, <2>1 DEF QueryInv, Kept
    <3>3. Ids(mamResults'[q]) \subseteq Ids(mamResults[q]) \cup {m.id}
          /\ Ids(mamResults[q]) \subseteq Ids(mamResults'[q]) /\ Ids(mamResults'[q]) \subseteq Good
      BY <1>13, <2>5, <3>1, <3>2
    <3>4. ~Parses(m.id) => m.id \notin Good
      BY DEF Good
    <3>5. q \in mamPending => m.id \notin Good \/ m.id \in Ids(mamResults'[q])
      BY <1>12, <2>5, <3>4
    <3>6. Ids(mamResults'[q]) \cup InWire(Tail(s), q) \subseteq Ids(served[q])
      BY <2>3, <3>2, <3>3
    <3>7. querying[q] \in {"registered", "asked", "answered"} =>
              q \in mamPending /\ Ids(served[q]) \cap Good \subseteq Ids(mamResults'[q]) \cup InWire(Tail(s), q)
      BY <2>3, <3>2, <3>3, <3>5
    <3> QED
      BY <1>3, <3>3, <3>6, <3>7 DEF Kept
  <2>8. Ended(q)'
    BY <1>1, <1>3, <2>1, <2>3 DEF QueryInv, Ended
  <2>9. Paged(q)'
    BY <1>3, <2>1 DEF QueryInv, Paged
  <2> QED
    BY <2>6, <2>7, <2>8, <2>9 DEF QueryInv
<1> QED
  BY <1>14, <1>15, <1>16 DEF MamInv

LEMMA FinMam == ASSUME MamInv, ReadFin PROVE MamInv'
<1>1. PICK s \in Seq(Stanzas) : s = mamIn
  BY MamTypesOf DEF MamInv
<1>2. PICK m : m = Head(s)
  OBVIOUS
<1>3. /\ UNCHANGED <<mamPending, mamResults, queryAfter, queryPage, archived, serving, served>>
      /\ s # <<>> /\ m.kind = "fin" /\ mamIn' = Tail(s)
      /\ querying' = IF querying[m.query] = "asked" THEN [querying EXCEPT ![m.query] = "answered"] ELSE querying
  BY <1>1, <1>2 DEF ReadFin
<1>4. MamTypes
  BY DEF MamInv
<1>5. m \in Stanzas /\ Tail(s) \in Seq(Stanzas)
  BY <1>2, <1>3, InTail
<1>6. PICK q \in Queries : q = m.query
  BY <1>3, <1>5 DEF Stanzas
<1>7. /\ querying' \in [Queries -> {"idle", "registered", "asked", "answered", "leaving", "over"}]
      /\ querying'[q] = querying[q] \/ (querying[q] = "asked" /\ querying'[q] = "answered")
      /\ \A x \in Queries : x # q => querying'[x] = querying[x]
  BY <1>3, <1>4, <1>6, MamTypesOf
<1>8. MamTypes'
  BY <1>3, <1>4, <1>5, <1>7 DEF MamTypes, MamTypeOK
<1>9. ASSUME NEW x \in Queries, x # q PROVE QueryInv(x)'
  <2>1. QueryInv(x)
    BY DEF MamInv
  <2>2. ~Result(m, x)
    BY <1>3 DEF Result
  <2>3. /\ InWire(s, x) = InWire(Tail(s), x) /\ IncIn(Tail(s), x) /\ FinLast(Tail(s), x)
        /\ HasFin(Tail(s), x) => HasFin(s, x)
    <3>1. IncIn(s, x) /\ FinLast(s, x)
      BY <1>1, <2>1 DEF QueryInv, Ordered, Ended
    <3>2. InWire(Tail(s), x) = InWire(s, x)
      BY <1>2, <1>3, <2>2, OtherTail
    <3>3. IncIn(Tail(s), x) /\ FinLast(Tail(s), x) /\ (HasFin(Tail(s), x) => HasFin(s, x))
      BY <1>2, <1>3, <3>1, InTail
    <3> QED
      BY <3>2, <3>3
  <2> QED
    BY <1>1, <1>3, <1>7, <1>9, <2>1, <2>3, OtherQuery
<1>10. QueryInv(q)'
  <2>1. QueryInv(q)
    BY DEF MamInv
  <2>2. ~Result(m, q) /\ Fin(m, q)
    BY <1>3, <1>6 DEF Result, Fin
  <2>3. /\ InWire(s, q) = InWire(Tail(s), q) /\ IncIn(Tail(s), q) /\ FinLast(Tail(s), q)
        /\ InWire(s, q) = {} /\ (HasFin(Tail(s), q) => HasFin(s, q)) /\ HasFin(s, q)
    <3>1. IncIn(s, q) /\ FinLast(s, q)
      BY <1>1, <2>1 DEF QueryInv, Ordered, Ended
    <3>2. InWire(Tail(s), q) = InWire(s, q)
      BY <1>2, <1>3, <2>2, OtherTail
    <3>3. IncIn(Tail(s), q) /\ FinLast(Tail(s), q) /\ (HasFin(Tail(s), q) => HasFin(s, q))
      BY <1>2, <1>3, <3>1, InTail
    <3>4. InWire(s, q) = {} /\ HasFin(s, q)
      BY <1>2, <1>3, <2>2, <3>1, InTail
    <3> QED
      BY <3>2, <3>3, <3>4
  <2>4. serving[q].at = "done"
    BY <1>1, <2>1, <2>3 DEF QueryInv, Ended
  <2>5. Ordered(q)'
    BY <1>1, <1>3, <2>1, <2>3 DEF QueryInv, Ordered
  <2>6. Kept(q)'
    BY <1>1, <1>3, <1>7, <2>1, <2>3 DEF QueryInv, Kept
  <2>7. Ended(q)'
    BY <1>1, <1>3, <1>7, <2>1, <2>3, <2>4 DEF QueryInv, Ended
  <2>8. Paged(q)'
    BY <1>3, <1>7, <2>1 DEF QueryInv, Paged
  <2> QED
    BY <2>5, <2>6, <2>7, <2>8 DEF QueryInv
<1> QED
  BY <1>8, <1>9, <1>10 DEF MamInv

LEMMA ServeMam == ASSUME MamInv, NEW q \in Queries, ArchiveServes(q) PROVE MamInv'
<1>1. MamTypes
  BY DEF MamInv
<1>2. PICK a \in 0..MaxArchive : a = queryAfter[q]
  BY <1>1, MamTypesOf
<1>3. archived \in 0..MaxArchive /\ MaxArchive \in Nat /\ PageMax \in Nat
  BY <1>1, MamTypesOf, ArchiveAssumption
<1>4. PICK n \in Nat : n = (IF archived < a + PageMax THEN archived ELSE a + PageMax) /\ n <= MaxArchive
  BY <1>2, <1>3
<1>5. PICK w : w = [i \in 1..(n - a) |-> a + i]
  OBVIOUS
<1>6. /\ UNCHANGED <<mamPending, mamResults, querying, queryAfter, queryPage, mamIn, archived, served>>
      /\ querying[q] = "asked" /\ serving[q].at = "none"
      /\ serving' = [serving EXCEPT ![q] = [at |-> "sending", left |-> w]]
  BY <1>2, <1>4, <1>5 DEF ArchiveServes, Serving
<1>7. w \in Seq(ArchiveIDs) /\ Inc(w)
  <2>1. \A i \in 1..(n - a) : a + i \in 1..MaxArchive
    BY <1>2, <1>3, <1>4
  <2>2. CASE n - a \in Nat
    <3>1. w \in Seq(ArchiveIDs) /\ Len(w) = n - a
      BY <1>5, <2>1, <2>2 DEF ArchiveIDs
    <3>2. \A i \in 1..(n - a) : w[i] = a + i
      BY <1>5
    <3>3. ASSUME NEW i \in 1..(n - a), NEW k \in 1..(n - a), i < k PROVE w[i] < w[k]
      <4>1. a \in Int /\ a + i < a + k
        BY <1>2, <3>3
      <4> QED
        BY <3>2, <4>1
    <3> QED
      BY <3>1, <3>3 DEF Inc
  <2>3. CASE n - a \notin Nat
    <3>1. 1..(n - a) = {}
      BY <1>2, <1>4, <2>3
    <3>2. w = <<>>
      BY <1>5, <3>1
    <3> QED
      BY <3>2, NoIds
  <2> QED
    BY <2>2, <2>3
<1>8. /\ serving' \in [Queries -> Servings] /\ serving'[q].at = "sending" /\ serving'[q].left = w
      /\ \A x \in Queries : x # q => serving'[x] = serving[x]
  BY <1>1, <1>6, <1>7, MamTypesOf DEF Servings
<1>9. MamTypes'
  BY <1>1, <1>6, <1>8 DEF MamTypes, MamTypeOK
<1>10. ASSUME NEW x \in Queries, x # q PROVE QueryInv(x)'
  BY <1>6, <1>8, <1>10 DEF MamInv, QueryInv, Ordered, Kept, Ended, Paged
<1>11. QueryInv(q)'
  <2>1. QueryInv(q)
    BY DEF MamInv
  <2>2. served[q] = <<>> /\ ~HasFin(mamIn, q)
    BY <1>6, <2>1 DEF QueryInv, Ended
  <2>3. Ids(mamResults[q]) = {} /\ InWire(mamIn, q) = {}
    BY <2>1, <2>2, NoIds DEF QueryInv, Kept
  <2>4. Ordered(q)'
    BY <1>6, <1>7, <1>8, <2>1, <2>3 DEF QueryInv, Ordered, Below
  <2>5. Kept(q)' /\ Ended(q)' /\ Paged(q)'
    BY <1>6, <1>8, <2>1, <2>2 DEF QueryInv, Kept, Ended, Paged
  <2> QED
    BY <2>4, <2>5 DEF QueryInv
<1> QED
  BY <1>9, <1>10, <1>11 DEF MamInv

LEMMA SendsMam == ASSUME MamInv, NEW q \in Queries, ArchiveSends(q) PROVE MamInv'
<1>1. MamTypes
  BY DEF MamInv
<1>2. PICK w \in Seq(ArchiveIDs) : w = serving[q].left
  BY <1>1, MamTypesOf
<1>3. PICK m : m = [kind |-> "result", query |-> q, id |-> Head(w)]
  OBVIOUS
<1>4. PICK t : t = Append(served[q], Head(w))
  OBVIOUS
<1>5. /\ UNCHANGED <<mamPending, mamResults, querying, queryAfter, queryPage, archived>>
      /\ serving[q].at = "sending" /\ w # <<>> /\ mamIn' = Append(mamIn, m)
      /\ served' = [served EXCEPT ![q] = t] /\ serving' = [serving EXCEPT ![q].left = Tail(w)]
  BY <1>2, <1>3, <1>4 DEF ArchiveSends
<1>6. /\ Tail(w) \in Seq(ArchiveIDs) /\ Head(w) \in ArchiveIDs /\ Ids(w) = Ids(Tail(w)) \cup {Head(w)}
      /\ Inc(w) => Inc(Tail(w)) /\ Below({Head(w)}, Ids(Tail(w)))
  BY <1>5, IdsTail
<1>7. t \in Seq(ArchiveIDs) /\ Ids(t) = Ids(served[q]) \cup {Head(w)}
  BY <1>1, <1>4, <1>6, IdsAppend, MamTypesOf
<1>8. m \in Stanzas /\ m.id = Head(w) /\ Result(m, q) /\ \A x \in Queries : x # q => ~Result(m, x) /\ ~Fin(m, x)
  BY <1>3, <1>6 DEF Stanzas, Result, Fin
<1>9. /\ serving' \in [Queries -> Servings] /\ serving'[q].at = "sending" /\ serving'[q].left = Tail(w)
      /\ \A x \in Queries : x # q => serving'[x] = serving[x]
  BY <1>1, <1>5, <1>6, MamTypesOf DEF Servings
<1>10. served' \in [Queries -> Seq(ArchiveIDs)] /\ served'[q] = t
       /\ \A x \in Queries : x # q => served'[x] = served[x]
  BY <1>1, <1>5, <1>7, MamTypesOf
<1>11. mamIn \in Seq(Stanzas) /\ mamIn' \in Seq(Stanzas)
  BY <1>1, <1>5, <1>8, MamTypesOf
<1>12. MamTypes'
  BY <1>1, <1>5, <1>9, <1>10, <1>11 DEF MamTypes, MamTypeOK, ArchiveIDs
<1>13. ASSUME NEW x \in Queries, x # q PROVE QueryInv(x)'
  <2>1. QueryInv(x)
    BY DEF MamInv
  <2>2. ~Result(m, x) /\ ~Fin(m, x)
    BY <1>8, <1>13
  <2>3. /\ InWire(mamIn', x) = InWire(mamIn, x) /\ IncIn(mamIn', x) /\ FinLast(mamIn', x)
        /\ HasFin(mamIn', x) => HasFin(mamIn, x)
    <3>1. IncIn(mamIn, x) /\ FinLast(mamIn, x)
      BY <2>1 DEF QueryInv, Ordered, Ended
    <3> QED
      BY <1>5, <1>8, <1>11, <2>2, <3>1, InAppend
  <2> QED
    BY <1>5, <1>9, <1>10, <1>13, <2>1, <2>3, OtherQuery
<1>14. QueryInv(q)'
  <2>1. QueryInv(q)
    BY DEF MamInv
  <2>2. /\ Inc(mamResults[q]) /\ IncIn(mamIn, q) /\ Inc(w)
        /\ Below(Ids(mamResults[q]), InWire(mamIn, q)) /\ Below(Ids(mamResults[q]), Ids(w))
        /\ Below(InWire(mamIn, q), Ids(w))
    BY <1>2, <2>1 DEF QueryInv, Ordered
  <2>3. Below(InWire(mamIn, q), {Head(w)}) /\ Below({Head(w)}, Ids(Tail(w)))
    BY <1>6, <2>2 DEF Below
  <2>4. ~HasFin(mamIn, q) /\ FinLast(mamIn, q)
    BY <1>5, <2>1 DEF QueryInv, Ended
  <2>5. /\ InWire(mamIn', q) = InWire(mamIn, q) \cup {Head(w)} /\ IncIn(mamIn', q) /\ FinLast(mamIn', q)
        /\ ~HasFin(mamIn', q)
    <3>1. ~Fin(m, q)
      BY <1>8 DEF Fin, Result
    <3>2. InWire(mamIn', q) = InWire(mamIn, q) \cup {Head(w)}
      <4>1. InWire(mamIn', q) = InWire(mamIn, q) \cup {m.id}
        BY <1>5, <1>8, <1>11, InAppend, Zenon
      <4> QED
        BY <1>8, <4>1
    <3>3. IncIn(mamIn', q)
      BY <1>5, <1>8, <1>11, <2>2, <2>3, InAppend
    <3>4. FinLast(mamIn', q) /\ ~HasFin(mamIn', q)
      BY <1>5, <1>8, <1>11, <2>4, <3>1, InAppend
    <3> QED
      BY <3>2, <3>3, <3>4
  <2>6. Ordered(q)'
    BY <1>5, <1>6, <1>9, <2>2, <2>3, <2>5 DEF Ordered, Below
  <2>7. Kept(q)'
    BY <1>5, <1>7, <1>10, <2>1, <2>5 DEF QueryInv, Kept
  <2>8. Ended(q)'
    BY <1>5, <1>9, <2>1, <2>5 DEF QueryInv, Ended
  <2>9. Paged(q)'
    BY <1>5, <2>1 DEF QueryInv, Paged
  <2> QED
    BY <2>6, <2>7, <2>8, <2>9 DEF QueryInv
<1> QED
  BY <1>12, <1>13, <1>14 DEF MamInv

LEMMA EndsMam == ASSUME MamInv, NEW q \in Queries, ArchiveEnds(q) PROVE MamInv'
<1>1. MamTypes
  BY DEF MamInv
<1>2. PICK m : m = [kind |-> "fin", query |-> q]
  OBVIOUS
<1>3. /\ UNCHANGED <<mamPending, mamResults, querying, queryAfter, queryPage, archived, served>>
      /\ serving[q].at = "sending" /\ serving[q].left = <<>> /\ mamIn' = Append(mamIn, m)
      /\ serving' = [serving EXCEPT ![q].at = "done"]
  BY <1>2 DEF ArchiveEnds, Serving
<1>4. m \in Stanzas /\ \A x \in Queries : ~Result(m, x) /\ (x # q => ~Fin(m, x))
  BY <1>2 DEF Stanzas, Result, Fin
<1>5. /\ serving' \in [Queries -> Servings] /\ serving'[q].at = "done" /\ serving'[q].left = <<>>
      /\ \A x \in Queries : x # q => serving'[x] = serving[x]
  BY <1>1, <1>3, MamTypesOf DEF Servings
<1>6. mamIn \in Seq(Stanzas) /\ mamIn' \in Seq(Stanzas)
  BY <1>1, <1>3, <1>4, MamTypesOf
<1>7. MamTypes'
  BY <1>1, <1>3, <1>5, <1>6 DEF MamTypes, MamTypeOK
<1>8. ASSUME NEW x \in Queries, x # q PROVE QueryInv(x)'
  <2>1. QueryInv(x)
    BY DEF MamInv
  <2>2. ~Result(m, x) /\ ~Fin(m, x)
    BY <1>4, <1>8
  <2>3. /\ InWire(mamIn', x) = InWire(mamIn, x) /\ IncIn(mamIn', x) /\ FinLast(mamIn', x)
        /\ HasFin(mamIn', x) => HasFin(mamIn, x)
    <3>1. IncIn(mamIn, x) /\ FinLast(mamIn, x)
      BY <2>1 DEF QueryInv, Ordered, Ended
    <3> QED
      BY <1>3, <1>4, <1>6, <2>2, <3>1, InAppend
  <2> QED
    BY <1>3, <1>5, <1>8, <2>1, <2>3, OtherQuery
<1>9. QueryInv(q)'
  <2>1. QueryInv(q)
    BY DEF MamInv
  <2>2. ~Result(m, q)
    BY <1>4
  <2>3. InWire(mamIn', q) = InWire(mamIn, q) /\ IncIn(mamIn', q) /\ FinLast(mamIn', q)
    <3>1. IncIn(mamIn, q) /\ FinLast(mamIn, q)
      BY <2>1 DEF QueryInv, Ordered, Ended
    <3> QED
      BY <1>3, <1>4, <1>6, <2>2, <3>1, InAppend
  <2>4. Ordered(q)'
    BY <1>3, <1>5, <2>1, <2>3 DEF QueryInv, Ordered
  <2>5. Kept(q)' /\ Ended(q)' /\ Paged(q)'
    BY <1>3, <1>5, <2>1, <2>3 DEF QueryInv, Kept, Ended, Paged
  <2> QED
    BY <2>4, <2>5 DEF QueryInv
<1> QED
  BY <1>7, <1>8, <1>9 DEF MamInv

LEMMA NextMamInv == MamInv /\ [MamNext]_mamVars => MamInv'
<1> SUFFICES ASSUME MamInv, [MamNext]_mamVars PROVE MamInv'
  OBVIOUS
<1>1. CASE \E q \in Queries : \/ QueryAsk(q) \/ QueryFails(q) \/ QueryTakes(q) \/ QueryEnd(q)
                              \/ \E after \in 0..archived : QueryRegister(q, after)
  BY <1>1, CallMam
<1>2. CASE HandleResult
  BY <1>2, ResultMam
<1>3. CASE ReadFin
  BY <1>3, FinMam
<1>4. CASE \E q \in Queries : ArchiveServes(q)
  BY <1>4, ServeMam
<1>5. CASE \E q \in Queries : ArchiveSends(q)
  BY <1>5, SendsMam
<1>6. CASE \E q \in Queries : ArchiveEnds(q)
  BY <1>6, EndsMam
<1>7. CASE MessageArchived \/ UNCHANGED mamVars
  <2>1. UNCHANGED <<mamPending, mamResults, querying, queryAfter, queryPage, mamIn, serving, served>>
    BY <1>7 DEF MessageArchived, mamVars
  <2>2. archived' \in 0..MaxArchive
    BY <1>7, MamTypesOf, ArchiveAssumption DEF MamInv, MessageArchived, mamVars
  <2>3. MamTypes'
    BY <2>1, <2>2 DEF MamInv, MamTypes, MamTypeOK
  <2>4. \A q \in Queries : QueryInv(q)'
    BY <2>1 DEF MamInv, QueryInv, Ordered, Kept, Ended, Paged
  <2> QED
    BY <2>3, <2>4 DEF MamInv
<1> QED
  BY <1>1, <1>2, <1>3, <1>4, <1>5, <1>6, <1>7 DEF MamNext

LEMMA MamInvHolds == MamSpec => []MamInv
  BY InitMamInv, NextMamInv, PTL DEF MamSpec

-----------------------------------------------------------------------------
(* The theorems about archive pages. *)

(* The state of the MAM plugin stays well formed (mam.go:60-140).           *)
THEOREM ArchiveTypeCorrect == MamSpec => []MamTypeOK
<1>1. MamInv => MamTypeOK
  BY DEF MamInv, MamTypes
<1> QED
  BY <1>1, MamInvHolds, PTL

(* A page has what the archive sent for that query and could be parsed, in  *)
(* order and nothing else, for any queries at the same time and any of them *)
(* timing out (mam.go:65-70, 93-96, 128-137).                               *)
THEOREM PagesAreExact == MamSpec => []PageExact
<1>1. ASSUME MamInv, NEW q \in Queries, queryPage[q].ok
      PROVE  LET page == queryPage[q].results
             IN /\ ToSet(page) = {id \in ToSet(served[q]) : Parses(id)}
                /\ \A i, k \in 1..Len(page) : i < k => page[i] < page[k]
  <2>1. MamTypes /\ Paged(q)
    BY <1>1 DEF MamInv, QueryInv
  <2>2. queryPage[q].results \in Seq(ArchiveIDs) /\ served[q] \in Seq(ArchiveIDs)
    <3>1. queryPage[q] \in Pages /\ served[q] \in Seq(ArchiveIDs)
      BY <2>1, MamTypesOf
    <3>2. NoPage.ok = FALSE
      BY DEF NoPage
    <3>3. queryPage[q] \in [ok : {TRUE}, results : Seq(ArchiveIDs)]
      BY <1>1, <3>1, <3>2 DEF Pages
    <3> QED
      BY <3>1, <3>3
  <2>3. \A s \in Seq(ArchiveIDs) : ToSet(s) = Ids(s)
    BY DEF ToSet, Ids
  <2>4. Ids(served[q]) \cap Good = {id \in Ids(served[q]) : Parses(id)}
    BY <2>2, IDTypes DEF Good
  <2> QED
    BY <1>1, <2>1, <2>2, <2>3, <2>4 DEF Paged, Inc
<1>2. MamInv => PageExact
  BY <1>1 DEF PageExact
<1> QED
  BY <1>2, MamInvHolds, PTL
-----------------------------------------------------------------------------
(* Dispatch: lists of entries. *)

Members(s) == {s[i] : i \in 1..Len(s)}
Distinct(s) == \A i, j \in 1..Len(s) : s[i] = s[j] => i = j

(* e is before f in a.                                                      *)
Precedes(a, e, f) == \E i, j \in 1..Len(a) : i < j /\ a[i] = e /\ a[j] = f

(* Whatever order two entries of t have, they have in s.                    *)
Within(t, s) == \A i, j \in 1..Len(t) : i < j => Precedes(s, t[i], t[j])

LEMMA SequenceOf ==
    ASSUME NEW n \in Nat, NEW f, NEW S, f \in [1..n -> S]
    PROVE  f \in Seq(S) /\ Len(f) = n
  OBVIOUS

(* SortStable rearranges a list by priority and, among equals, keeps its    *)
(* order (sort.SliceStable).                                                *)
LEMMA Sorts ==
    ASSUME NEW s \in Seq(Entries)
    PROVE  /\ SortStable(s) \in Seq(Entries)
           /\ Members(SortStable(s)) = Members(s)
           /\ \A i, j \in 1..Len(SortStable(s)) : i < j =>
                 \/ Priority[SortStable(s)[i]] < Priority[SortStable(s)[j]]
                 \/ /\ Priority[SortStable(s)[i]] = Priority[SortStable(s)[j]]
                    /\ Precedes(s, SortStable(s)[i], SortStable(s)[j])
<1>1. PICK n \in Nat : n = Len(s) /\ DOMAIN s = 1..n
  OBVIOUS
<1>2. \A i \in 1..n : s[i] \in Entries /\ Priority[s[i]] \in Nat
  BY <1>1, EntriesAssumption
<1>3. IsFiniteSet(1..n) /\ Cardinality(1..n) = n
  BY FS_Interval
<1>4. \A i, j \in 1..n :
          <<i, j>> \in Stably(s) <=> \/ Priority[s[i]] < Priority[s[j]]
                                     \/ Priority[s[i]] = Priority[s[j]] /\ i < j
  <2> TAKE i \in 1..n, j \in 1..n
  <2>1. PICK p : p = <<i, j>>
    OBVIOUS
  <2>2. p[1] = i /\ p[2] = j /\ p \in (DOMAIN s) \X (DOMAIN s)
    BY <1>1, <2>1
  <2>3. p \in Stably(s) <=> \/ Priority[s[p[1]]] < Priority[s[p[2]]]
                            \/ Priority[s[p[1]]] = Priority[s[p[2]]] /\ p[1] < p[2]
    BY <2>2 DEF Stably
  <2> QED
    BY <2>1, <2>2, <2>3
<1>5. PICK R : R = Stably(s)
  OBVIOUS
<1>6. TotalOrder(1..n, R)
  <2>1. \A i \in 1..n : <<i, i>> \notin R
    BY <1>2, <1>4, <1>5
  <2>2. ASSUME NEW i \in 1..n, NEW j \in 1..n, NEW k \in 1..n, <<i, j>> \in R, <<j, k>> \in R
        PROVE  <<i, k>> \in R
    <3>1. Priority[s[i]] \in Nat /\ Priority[s[j]] \in Nat /\ Priority[s[k]] \in Nat
      BY <1>2
    <3>2. Priority[s[i]] < Priority[s[j]] \/ (Priority[s[i]] = Priority[s[j]] /\ i < j)
      BY <1>4, <1>5, <2>2
    <3>3. Priority[s[j]] < Priority[s[k]] \/ (Priority[s[j]] = Priority[s[k]] /\ j < k)
      BY <1>4, <1>5, <2>2
    <3>4. Priority[s[i]] < Priority[s[k]] \/ (Priority[s[i]] = Priority[s[k]] /\ i < k)
      BY <3>1, <3>2, <3>3
    <3> QED
      BY <1>4, <1>5, <3>4
  <2>3. ASSUME NEW i \in 1..n, NEW j \in 1..n PROVE i = j \/ <<i, j>> \in R \/ <<j, i>> \in R
    <3>1. Priority[s[i]] \in Nat /\ Priority[s[j]] \in Nat
      BY <1>2
    <3>2. <<i, j>> \in R <=> Priority[s[i]] < Priority[s[j]] \/ (Priority[s[i]] = Priority[s[j]] /\ i < j)
      BY <1>4, <1>5
    <3>3. <<j, i>> \in R <=> Priority[s[j]] < Priority[s[i]] \/ (Priority[s[j]] = Priority[s[i]] /\ j < i)
      BY <1>4, <1>5
    <3> QED
      BY <3>1, <3>2, <3>3
  <2> QED
    BY <2>1, <2>2, <2>3 DEF TotalOrder
<1>7. /\ \A k \in 1..n : Nth(1..n, R, k) \in 1..n
      /\ \A i \in 1..n : \E k \in 1..n : Nth(1..n, R, k) = i
      /\ \A k, m \in 1..n : k < m => <<Nth(1..n, R, k), Nth(1..n, R, m)>> \in R
  <2>1. PICK I : I = 1..n
    OBVIOUS
  <2>2. IsFiniteSet(I) /\ TotalOrder(I, R) /\ Cardinality(I) = n
    BY <1>3, <1>6, <2>1
  <2>3. /\ \A k \in 1..n : Nth(I, R, k) \in I
        /\ \A i \in I : \E k \in 1..n : Nth(I, R, k) = i
        /\ \A k, m \in 1..n : k < m => <<Nth(I, R, k), Nth(I, R, m)>> \in R
    BY <2>2, NthEnumerates
  <2> QED
    BY <2>1, <2>3
<1>8. PICK t : t = SortStable(s)
  OBVIOUS
<1>9. t = [k \in 1..n |-> s[Nth(1..n, R, k)]]
  BY <1>1, <1>5, <1>8 DEF SortStable
<1>10. t \in [1..n -> Entries]
  BY <1>2, <1>7, <1>9
<1>11. t \in Seq(Entries) /\ Len(t) = n
  BY <1>10, SequenceOf
<1>12. Members(t) = Members(s)
  <2>1. Members(t) \subseteq Members(s)
    BY <1>1, <1>7, <1>9, <1>11 DEF Members
  <2>2. ASSUME NEW i \in 1..n PROVE s[i] \in Members(t)
    <3>1. PICK k \in 1..n : Nth(1..n, R, k) = i
      BY <1>7
    <3> QED
      BY <1>9, <1>11, <3>1 DEF Members
  <2> QED
    BY <1>1, <2>1, <2>2 DEF Members
<1>13. ASSUME NEW i \in 1..n, NEW j \in 1..n, i < j
       PROVE  \/ Priority[t[i]] < Priority[t[j]]
              \/ Priority[t[i]] = Priority[t[j]] /\ Precedes(s, t[i], t[j])
  <2>1. PICK p \in 1..n : p = Nth(1..n, R, i) /\ t[i] = s[p]
    BY <1>7, <1>9
  <2>2. PICK q \in 1..n : q = Nth(1..n, R, j) /\ t[j] = s[q]
    BY <1>7, <1>9
  <2>3. <<p, q>> \in R
    BY <1>7, <1>13, <2>1, <2>2
  <2>4. \/ Priority[s[p]] < Priority[s[q]]
        \/ Priority[s[p]] = Priority[s[q]] /\ p < q
    BY <1>4, <1>5, <2>3
  <2>5. p < q => Precedes(s, t[i], t[j])
    BY <1>1, <2>1, <2>2 DEF Precedes
  <2> QED
    BY <2>1, <2>2, <2>4, <2>5
<1> QED
  BY <1>8, <1>11, <1>12, <1>13

(* Matched keeps entries of a list, in its order.                           *)
LEMMA Matches ==
    ASSUME NEW s \in Seq(Entries)
    PROVE  /\ Matched(s) \in Seq(Entries)
           /\ Members(Matched(s)) \subseteq Members(s)
           /\ Within(Matched(s), s)
<1>1. PICK n \in Nat : n = Len(s) /\ DOMAIN s = 1..n
  OBVIOUS
<1>2. PICK I : I = MatchingAt(s)
  OBVIOUS
<1>3. I \in SUBSET (1..n) /\ \A i \in I : s[i] \in Entries
  BY <1>1, <1>2 DEF MatchingAt
<1>4. IsFiniteSet(I)
  <2>1. IsFiniteSet(1..n)
    BY FS_Interval
  <2> QED
    BY <1>3, <2>1, FS_Subset
<1>5. PICK R : R = Ascending(I)
  OBVIOUS
<1>6. \A i, j \in I : <<i, j>> \in R <=> i < j
  BY <1>5 DEF Ascending
<1>7. TotalOrder(I, R)
  BY <1>3, <1>6 DEF TotalOrder
<1>8. PICK m \in Nat : m = Cardinality(I)
  BY <1>4, FS_CardinalityType
<1>9. /\ \A k \in 1..m : Nth(I, R, k) \in I
      /\ \A k, h \in 1..m : k < h => <<Nth(I, R, k), Nth(I, R, h)>> \in R
  BY <1>4, <1>7, <1>8, NthEnumerates
<1>10. PICK t : t = Matched(s)
  OBVIOUS
<1>11. t = [k \in 1..m |-> s[Nth(I, R, k)]]
  BY <1>2, <1>5, <1>8, <1>10 DEF Matched, Only
<1>12. t \in [1..m -> Entries]
  BY <1>3, <1>9, <1>11
<1>13. t \in Seq(Entries) /\ Len(t) = m
  BY <1>12, SequenceOf
<1>14. Members(t) \subseteq Members(s)
  BY <1>1, <1>3, <1>9, <1>11, <1>13 DEF Members
<1>15. ASSUME NEW i \in 1..m, NEW j \in 1..m, i < j PROVE Precedes(s, t[i], t[j])
  <2>1. PICK p \in I : p = Nth(I, R, i) /\ t[i] = s[p]
    BY <1>9, <1>11
  <2>2. PICK q \in I : q = Nth(I, R, j) /\ t[j] = s[q]
    BY <1>9, <1>11
  <2>3. p < q
    BY <1>6, <1>9, <1>15, <2>1, <2>2
  <2> QED
    BY <1>1, <1>3, <2>1, <2>2, <2>3 DEF Precedes
<1>16. Within(t, s)
  BY <1>13, <1>15 DEF Within
<1> QED
  BY <1>10, <1>13, <1>14, <1>16

(* Removed takes an entry out of a list and leaves the order of the others  *)
(* (append(items[:i], items[i+1:]...)).                                     *)
LEMMA Removes ==
    ASSUME NEW s \in Seq(Entries), Distinct(s), NEW e
    PROVE  /\ Removed(s, e) \in Seq(Entries)
           /\ Members(Removed(s, e)) = Members(s) \ {e}
           /\ Distinct(Removed(s, e))
           /\ Within(Removed(s, e), s)
           /\ \A x, y : Precedes(s, x, y) /\ x # e /\ y # e => Precedes(Removed(s, e), x, y)
<1>1. PICK n \in Nat : n = Len(s) /\ \A i \in 1..n : s[i] \in Entries
  OBVIOUS
<1>2. CASE \A i \in 1..n : s[i] # e
  <2>1. Removed(s, e) = s
    BY <1>1, <1>2 DEF Removed, RemoveFirst
  <2>2. Members(s) = Members(s) \ {e}
    BY <1>1, <1>2 DEF Members
  <2>3. Within(s, s)
    BY <1>1 DEF Within, Precedes
  <2> QED
    BY <2>1, <2>2, <2>3
<1>3. CASE \E i \in 1..n : s[i] = e
  <2>1. PICK p \in 1..n : s[p] = e
    BY <1>3
  <2>2. \A i \in 1..n : s[i] = e <=> i = p
    BY <1>1, <2>1 DEF Distinct
  <2>3. PICK t : t = Removed(s, e)
    OBVIOUS
  <2>4. t = RemoveAt(s, p)
    <3>1. {i \in 1..Len(s) : s[i] = e} = {p}
      BY <1>1, <2>2
    <3>2. SelectInSeq(s, LAMBDA v : v = e) = Min({p})
      BY <3>1 DEF SelectInSeq
    <3>3. Min({p}) = p
      BY DEF Min
    <3> QED
      BY <1>1, <2>1, <2>3, <3>2, <3>3 DEF Removed, RemoveFirst
  <2>5. PICK u : u = SubSeq(s, 1, p - 1)
    OBVIOUS
  <2>6. PICK v : v = SubSeq(s, p + 1, n)
    OBVIOUS
  <2>7. u \in Seq(Entries) /\ Len(u) = p - 1 /\ \A i \in 1..(p - 1) : u[i] = s[i]
    <3>1. \A i \in 1..(p - 1) : s[i] \in Entries
      BY <1>1
    <3>2. 1 \in Int /\ p - 1 \in Int
      OBVIOUS
    <3>3. /\ u \in Seq(Entries) /\ Len(u) = IF 1 <= p - 1 THEN (p - 1) - 1 + 1 ELSE 0
          /\ \A i \in 1..((p - 1) - 1 + 1) : u[i] = s[1 + i - 1]
      BY <2>5, <3>1, <3>2, SubSeqProperties
    <3> QED
      BY <3>3
  <2>8. v \in Seq(Entries) /\ Len(v) = n - p /\ \A i \in 1..(n - p) : v[i] = s[p + i]
    <3>1. \A i \in (p + 1)..n : s[i] \in Entries
      BY <1>1
    <3>2. p + 1 \in Int /\ n \in Int
      OBVIOUS
    <3>3. /\ v \in Seq(Entries) /\ Len(v) = IF p + 1 <= n THEN n - (p + 1) + 1 ELSE 0
          /\ \A i \in 1..(n - (p + 1) + 1) : v[i] = s[p + 1 + i - 1]
      BY <2>6, <3>1, <3>2, SubSeqProperties
    <3> QED
      BY <3>3
  <2>9. /\ t \in Seq(Entries) /\ Len(t) = n - 1
        /\ \A i \in 1..(n - 1) : t[i] = IF i < p THEN s[i] ELSE s[i + 1]
    <3>1. t = u \o v
      BY <1>1, <2>4, <2>5, <2>6 DEF RemoveAt
    <3>2. /\ t \in Seq(Entries) /\ Len(t) = Len(u) + Len(v)
          /\ \A i \in 1..(Len(u) + Len(v)) : t[i] = IF i <= Len(u) THEN u[i] ELSE v[i - Len(u)]
      BY <2>7, <2>8, <3>1, ConcatProperties
    <3>3. Len(t) = n - 1
      BY <2>7, <2>8, <3>2
    <3>4. ASSUME NEW i \in 1..(n - 1) PROVE t[i] = IF i < p THEN s[i] ELSE s[i + 1]
      <4>1. CASE i < p
        BY <2>7, <2>8, <3>2, <4>1
      <4>2. CASE i >= p
        <5>1. t[i] = v[i - (p - 1)] /\ i - (p - 1) \in 1..(n - p)
          BY <2>7, <2>8, <3>2, <4>2
        <5>2. p + (i - (p - 1)) = i + 1
          OBVIOUS
        <5> QED
          BY <2>8, <4>2, <5>1, <5>2
      <4> QED
        BY <4>1, <4>2
    <3> QED
      BY <3>2, <3>3, <3>4
  <2>10. \A i \in 1..(n - 1) : \E k \in 1..n : k # p /\ t[i] = s[k] /\ k = IF i < p THEN i ELSE i + 1
    BY <2>9
  <2>11. \A k \in 1..n : k # p => \E i \in 1..(n - 1) : t[i] = s[k] /\ i = IF k < p THEN k ELSE k - 1
    BY <2>9
  <2>12. Members(t) = Members(s) \ {e}
    <3>1. Members(t) \subseteq Members(s) \ {e}
      BY <1>1, <2>2, <2>9, <2>10 DEF Members
    <3>2. Members(s) \ {e} \subseteq Members(t)
      <4> SUFFICES ASSUME NEW k \in 1..n, s[k] # e PROVE s[k] \in Members(t)
        BY <1>1 DEF Members
      <4>1. PICK i \in 1..(n - 1) : t[i] = s[k]
        BY <2>1, <2>11
      <4> QED
        BY <2>9, <4>1 DEF Members
    <3> QED
      BY <3>1, <3>2
  <2>13. Distinct(t)
    BY <1>1, <2>9, <2>10 DEF Distinct
  <2>14. Within(t, s)
    <3> SUFFICES ASSUME NEW i \in 1..(n - 1), NEW j \in 1..(n - 1), i < j PROVE Precedes(s, t[i], t[j])
      BY <2>9 DEF Within
    <3>1. PICK k \in 1..n : t[i] = s[k] /\ k = IF i < p THEN i ELSE i + 1
      BY <2>10
    <3>2. PICK m \in 1..n : t[j] = s[m] /\ m = IF j < p THEN j ELSE j + 1
      BY <2>10
    <3>3. k < m
      BY <3>1, <3>2
    <3> QED
      BY <1>1, <3>1, <3>2, <3>3 DEF Precedes
  <2>15. ASSUME NEW x, NEW y, Precedes(s, x, y), x # e, y # e PROVE Precedes(t, x, y)
    <3>1. PICK k \in 1..n, m \in 1..n : k < m /\ s[k] = x /\ s[m] = y
      BY <1>1, <2>15 DEF Precedes
    <3>2. k # p /\ m # p
      BY <2>1, <2>15, <3>1
    <3>3. PICK i \in 1..(n - 1) : t[i] = s[k] /\ i = IF k < p THEN k ELSE k - 1
      BY <2>11, <3>2
    <3>4. PICK j \in 1..(n - 1) : t[j] = s[m] /\ j = IF m < p THEN m ELSE m - 1
      BY <2>11, <3>2
    <3>5. i < j
      BY <3>1, <3>2, <3>3, <3>4
    <3> QED
      BY <2>9, <3>1, <3>3, <3>4, <3>5 DEF Precedes
  <2> QED
    BY <2>3, <2>9, <2>12, <2>13, <2>14, <2>15
<1> QED
  BY <1>2, <1>3
-----------------------------------------------------------------------------
(* Dispatch: the invariant.  Each list holds what is registered in it, in   *)
(* the order that RunsBefore says; entries that were fired are off; and     *)
(* each loop goes through its snapshot in order of priority and has nothing *)
(* left that was fired when it began.                                       *)

Live(l, st) == {e \in Entries : List[e] = l /\ st[e] = "on"}
InOrder(s, a) ==
    \A i, j \in 1..Len(s) : i < j => \/ Priority[s[i]] < Priority[s[j]]
                                     \/ Priority[s[i]] = Priority[s[j]] /\ Precedes(a, s[i], s[j])

ListFine(l, s, a, st) ==
    /\ s \in Seq(Entries) /\ a \in Seq(Entries)
    /\ Members(s) = Live(l, st) /\ Members(a) = Live(l, st)
    /\ Distinct(a) /\ InOrder(s, a)
ListsInv == \A l \in Lists : ListFine(l, registry[l], arrival[l], status)

FiredInv == \A e \in fired : status[e] = "off"

Rising(s) == \A i, j \in 1..Len(s) : i < j => Priority[s[i]] <= Priority[s[j]]
LoopFine(p) ==
    /\ Rising(p.ran \o p.items)
    /\ \A i \in 1..Len(p.items) : p.items[i] \notin p.before
    /\ p.pc # "next" => p.items # <<>>
StackFine(q) == q \in Seq(Loop) /\ \A k \in 1..Len(q) : LoopFine(q[k])
StacksInv == \A t \in Threads : StackFine(stack[t])

DispatchInv == TypeOK /\ ListsInv /\ FiredInv /\ StacksInv

(* A list in order has no entry twice.                                      *)
LEMMA OrderedDistinct ==
    ASSUME NEW s \in Seq(Entries), NEW a, Distinct(a), InOrder(s, a)
    PROVE  Distinct(s)
<1> SUFFICES ASSUME NEW i \in 1..Len(s), NEW j \in 1..Len(s), i < j, s[i] = s[j] PROVE FALSE
  BY DEF Distinct
<1>1. s[i] \in Entries /\ Priority[s[i]] \in Nat
  BY EntriesAssumption
<1>2. Precedes(a, s[i], s[i])
  BY <1>1 DEF InOrder
<1> QED
  BY <1>2 DEF Precedes, Distinct

(* On: an entry that is new comes behind those of its priority.             *)
LEMMA ListAdds ==
    ASSUME NEW e \in Entries, NEW s, NEW a, NEW st \in [Entries -> {"new", "on", "off"}],
           ListFine(List[e], s, a, st), st[e] = "new", NEW su, su = [st EXCEPT ![e] = "on"]
    PROVE  ListFine(List[e], SortStable(Append(s, e)), Append(a, e), su)
<1>1. /\ s \in Seq(Entries) /\ a \in Seq(Entries) /\ Distinct(a) /\ InOrder(s, a)
      /\ Members(s) = Live(List[e], st) /\ Members(a) = Live(List[e], st)
  BY DEF ListFine
<1>2. PICK b : b = Append(a, e)
  OBVIOUS
<1>3. PICK r : r = Append(s, e)
  OBVIOUS
<1>4. b \in Seq(Entries) /\ Len(b) = Len(a) + 1 /\ b[Len(b)] = e /\ \A i \in 1..Len(a) : b[i] = a[i]
  BY <1>1, <1>2
<1>5. r \in Seq(Entries) /\ Len(r) = Len(s) + 1 /\ r[Len(r)] = e /\ \A i \in 1..Len(s) : r[i] = s[i]
  BY <1>1, <1>3
<1>6. e \notin Live(List[e], st) /\ Live(List[e], su) = Live(List[e], st) \cup {e}
  BY DEF Live
<1>7. Members(b) = Members(a) \cup {e}
  <2>1. 1..Len(b) = (1..Len(a)) \cup {Len(b)}
    BY <1>1, <1>4
  <2> QED
    BY <1>4, <2>1 DEF Members
<1>8. Members(r) = Members(s) \cup {e}
  <2>1. 1..Len(r) = (1..Len(s)) \cup {Len(r)}
    BY <1>1, <1>5
  <2> QED
    BY <1>5, <2>1 DEF Members
<1>9. Distinct(b)
  <2>1. \A i \in 1..Len(a) : a[i] # e
    BY <1>1, <1>6 DEF Members
  <2>2. \A i \in 1..Len(b) : i \in 1..Len(a) \/ i = Len(b)
    BY <1>1, <1>4
  <2> QED
    BY <1>1, <1>4, <2>1, <2>2 DEF Distinct
<1>10. \A x, y : Precedes(a, x, y) => Precedes(b, x, y)
  BY <1>1, <1>4 DEF Precedes
<1>11. \A x \in Members(a) : Precedes(b, x, e)
  BY <1>1, <1>4 DEF Precedes, Members
<1>12. ASSUME NEW x, NEW y, Precedes(r, x, y), Priority[x] = Priority[y] PROVE Precedes(b, x, y)
  <2>1. PICK i \in 1..Len(r), j \in 1..Len(r) : i < j /\ r[i] = x /\ r[j] = y
    BY <1>12 DEF Precedes
  <2>2. i \in 1..Len(s) /\ s[i] = x
    BY <1>1, <1>5, <2>1
  <2>3. CASE j = Len(r)
    <3>1. x \in Members(a)
      BY <1>1, <2>2 DEF Members
    <3> QED
      BY <1>5, <1>11, <2>1, <2>3, <3>1
  <2>4. CASE j # Len(r)
    <3>1. j \in 1..Len(s) /\ s[j] = y
      BY <1>1, <1>5, <2>1, <2>4
    <3>2. x \in Entries /\ Priority[x] \in Nat
      <4>1. s[i] \in Entries
        BY <1>1, <2>2
      <4> QED
        BY <2>2, <4>1, EntriesAssumption
    <3>3. Precedes(a, x, y)
      <4>1. \/ Priority[s[i]] < Priority[s[j]]
            \/ Priority[s[i]] = Priority[s[j]] /\ Precedes(a, s[i], s[j])
        BY <1>1, <2>1, <2>2, <3>1 DEF InOrder
      <4>2. ~(Priority[x] < Priority[y])
        BY <1>12, <3>2
      <4> QED
        BY <2>2, <3>1, <4>1, <4>2
    <3> QED
      BY <1>10, <3>3
  <2> QED
    BY <2>3, <2>4
<1>13. PICK t : t = SortStable(r)
  OBVIOUS
<1>14. /\ t \in Seq(Entries) /\ Members(t) = Members(r)
       /\ \A i, j \in 1..Len(t) : i < j => \/ Priority[t[i]] < Priority[t[j]]
                                           \/ Priority[t[i]] = Priority[t[j]] /\ Precedes(r, t[i], t[j])
  BY <1>5, <1>13, Sorts
<1>15. InOrder(t, b)
  BY <1>12, <1>14 DEF InOrder
<1> QED
  BY <1>1, <1>2, <1>3, <1>4, <1>6, <1>7, <1>8, <1>9, <1>13, <1>14, <1>15 DEF ListFine

(* Off, and the removal of a one-shot entry that is called.                 *)
LEMMA ListDrops ==
    ASSUME NEW e \in Entries, NEW s, NEW a, NEW st \in [Entries -> {"new", "on", "off"}],
           ListFine(List[e], s, a, st), NEW su, su = [st EXCEPT ![e] = "off"]
    PROVE  ListFine(List[e], Removed(s, e), Removed(a, e), su)
<1>1. /\ s \in Seq(Entries) /\ a \in Seq(Entries) /\ Distinct(a) /\ InOrder(s, a)
      /\ Members(s) = Live(List[e], st) /\ Members(a) = Live(List[e], st)
  BY DEF ListFine
<1>2. Distinct(s)
  BY <1>1, OrderedDistinct
<1>3. PICK b : b = Removed(a, e)
  OBVIOUS
<1>4. PICK r : r = Removed(s, e)
  OBVIOUS
<1>5. /\ b \in Seq(Entries) /\ Members(b) = Members(a) \ {e} /\ Distinct(b)
      /\ \A x, y : Precedes(a, x, y) /\ x # e /\ y # e => Precedes(b, x, y)
  BY <1>1, <1>3, Removes
<1>6. r \in Seq(Entries) /\ Members(r) = Members(s) \ {e} /\ Within(r, s)
  BY <1>1, <1>2, <1>4, Removes
<1>7. Live(List[e], su) = Live(List[e], st) \ {e}
  BY DEF Live
<1>8. InOrder(r, b)
  <2> SUFFICES ASSUME NEW i \in 1..Len(r), NEW j \in 1..Len(r), i < j
               PROVE  \/ Priority[r[i]] < Priority[r[j]]
                      \/ Priority[r[i]] = Priority[r[j]] /\ Precedes(b, r[i], r[j])
    BY DEF InOrder
  <2>1. r[i] # e /\ r[j] # e
    BY <1>6 DEF Members
  <2>2. PICK k \in 1..Len(s), m \in 1..Len(s) : k < m /\ s[k] = r[i] /\ s[m] = r[j]
    BY <1>6 DEF Within, Precedes
  <2>3. \/ Priority[r[i]] < Priority[r[j]]
        \/ Priority[r[i]] = Priority[r[j]] /\ Precedes(a, r[i], r[j])
    BY <1>1, <2>2 DEF InOrder
  <2> QED
    BY <1>5, <2>1, <2>3
<1> QED
  BY <1>1, <1>3, <1>4, <1>5, <1>6, <1>7, <1>8 DEF ListFine

(* The other lists.                                                         *)
LEMMA ListElse ==
    ASSUME NEW e \in Entries, NEW l, l # List[e], NEW s, NEW a, NEW x,
           NEW st \in [Entries -> {"new", "on", "off"}], ListFine(l, s, a, st),
           NEW su, su = [st EXCEPT ![e] = x]
    PROVE  ListFine(l, s, a, su)
<1>1. Live(l, su) = Live(l, st)
  BY DEF Live
<1> QED
  BY <1>1 DEF ListFine
-----------------------------------------------------------------------------
(* Dispatch: loops. *)

LEMMA LoopFields ==
    ASSUME NEW p \in Loop
    PROVE  /\ p.list \in Lists /\ p.ran \in Seq(Entries) /\ p.items \in Seq(Entries)
           /\ p.pc \in {"next", "run", "calling"} /\ p.before \in SUBSET Entries
BY DEF Loop

LEMMA StackPush ==
    ASSUME NEW q, StackFine(q), NEW p \in Loop, LoopFine(p)
    PROVE  StackFine(Append(q, p))
<1>1. q \in Seq(Loop) /\ \A k \in 1..Len(q) : LoopFine(q[k])
  BY DEF StackFine
<1>2. PICK r : r = Append(q, p)
  OBVIOUS
<1>3. r \in Seq(Loop) /\ Len(r) = Len(q) + 1 /\ r[Len(r)] = p /\ \A i \in 1..Len(q) : r[i] = q[i]
  BY <1>1, <1>2
<1>4. \A i \in 1..Len(r) : i = Len(r) \/ i \in 1..Len(q)
  BY <1>1, <1>3
<1>5. \A i \in 1..Len(r) : LoopFine(r[i])
  BY <1>1, <1>3, <1>4
<1> QED
  BY <1>2, <1>3, <1>5 DEF StackFine

LEMMA StackTop ==
    ASSUME NEW q, StackFine(q), q # <<>>
    PROVE  Last(q) \in Loop /\ LoopFine(Last(q)) /\ StackFine(Front(q))
<1>1. q \in Seq(Loop) /\ \A k \in 1..Len(q) : LoopFine(q[k])
  BY DEF StackFine
<1>2. PICK n \in Nat : n = Len(q) /\ n > 0
  BY <1>1
<1>3. Last(q) = q[n] /\ q[n] \in Loop /\ LoopFine(q[n])
  BY <1>1, <1>2 DEF Last
<1>4. PICK f : f = SubSeq(q, 1, n - 1)
  OBVIOUS
<1>5. f \in Seq(Loop) /\ Len(f) = n - 1 /\ \A i \in 1..(n - 1) : f[i] = q[i]
  <2>1. \A i \in 1..(n - 1) : q[i] \in Loop
    BY <1>1, <1>2
  <2>2. 1 \in Int /\ n - 1 \in Int
    OBVIOUS
  <2>3. /\ f \in Seq(Loop) /\ Len(f) = IF 1 <= n - 1 THEN (n - 1) - 1 + 1 ELSE 0
        /\ \A i \in 1..((n - 1) - 1 + 1) : f[i] = q[1 + i - 1]
    BY <1>4, <2>1, <2>2, SubSeqProperties
  <2> QED
    BY <1>2, <2>3
<1>6. Front(q) = f
  BY <1>2, <1>4 DEF Front
<1>7. StackFine(f)
  <2>1. \A i \in 1..(n - 1) : LoopFine(f[i])
    BY <1>1, <1>2, <1>5
  <2> QED
    BY <1>5, <2>1 DEF StackFine
<1> QED
  BY <1>3, <1>6, <1>7

(* A snapshot has registered entries, in order of priority.                 *)
LEMMA SnapshotFine ==
    ASSUME TypeOK, ListsInv, NEW l \in Lists
    PROVE  /\ Snapshot(l) \in Seq(Entries) /\ Rising(Snapshot(l))
           /\ \A i \in 1..Len(Snapshot(l)) : status[Snapshot(l)[i]] = "on"
<1>1. PICK s : s = Snapshot(l)
  OBVIOUS
<1>2. \A h \in Lists : ListFine(h, registry[h], arrival[h], status)
  BY DEF ListsInv
<1>3. "*" \in Lists /\ "handlers" \in Lists
  BY DEF Lists
<1>4. CASE l = "handlers"
  <2>1. PICK r : r = registry[l]
    OBVIOUS
  <2>2. r \in Seq(Entries) /\ Members(r) = Live(l, status) /\ InOrder(r, arrival[l])
    BY <1>2, <2>1 DEF ListFine
  <2>3. s = Matched(r)
    BY <1>1, <1>4, <2>1 DEF Snapshot
  <2>4. s \in Seq(Entries) /\ Members(s) \subseteq Members(r) /\ Within(s, r)
    BY <2>2, <2>3, Matches
  <2>5. Rising(s)
    <3> SUFFICES ASSUME NEW i \in 1..Len(s), NEW j \in 1..Len(s), i < j
                 PROVE  Priority[s[i]] <= Priority[s[j]]
      BY DEF Rising
    <3>1. PICK k \in 1..Len(r), m \in 1..Len(r) : k < m /\ r[k] = s[i] /\ r[m] = s[j]
      BY <2>4 DEF Within, Precedes
    <3>2. Priority[r[k]] < Priority[r[m]] \/ Priority[r[k]] = Priority[r[m]]
      BY <2>2, <3>1 DEF InOrder
    <3>3. r[k] \in Entries /\ r[m] \in Entries
      BY <2>2
    <3>4. Priority[r[k]] \in Nat /\ Priority[r[m]] \in Nat
      BY <3>3, EntriesAssumption
    <3> QED
      BY <3>1, <3>2, <3>4
  <2>6. \A i \in 1..Len(s) : status[s[i]] = "on"
    BY <2>2, <2>4 DEF Members, Live
  <2> QED
    BY <1>1, <2>4, <2>5, <2>6
<1>5. CASE l # "handlers"
  <2>1. PICK r : r = registry[l]
    OBVIOUS
  <2>2. PICK w : w = registry["*"]
    OBVIOUS
  <2>3. r \in Seq(Entries) /\ Members(r) = Live(l, status)
    BY <1>2, <2>1 DEF ListFine
  <2>4. w \in Seq(Entries) /\ Members(w) = Live("*", status)
    BY <1>2, <1>3, <2>2 DEF ListFine
  <2>5. PICK b : b = r \o w
    OBVIOUS
  <2>6. /\ b \in Seq(Entries) /\ Len(b) = Len(r) + Len(w)
        /\ \A i \in 1..(Len(r) + Len(w)) : b[i] = IF i <= Len(r) THEN r[i] ELSE w[i - Len(r)]
    BY <2>3, <2>4, <2>5, ConcatProperties
  <2>7. \A i \in 1..Len(b) : status[b[i]] = "on"
    <3> TAKE i \in 1..Len(b)
    <3>1. CASE i <= Len(r)
      <4>1. b[i] \in Members(r)
        BY <2>3, <2>6, <3>1 DEF Members
      <4> QED
        BY <2>3, <4>1 DEF Live
    <3>2. CASE ~(i <= Len(r))
      <4>1. b[i] = w[i - Len(r)] /\ i - Len(r) \in 1..Len(w)
        BY <2>3, <2>4, <2>6, <3>2
      <4>2. b[i] \in Members(w)
        BY <4>1 DEF Members
      <4> QED
        BY <2>4, <4>2 DEF Live
    <3> QED
      BY <3>1, <3>2
  <2>8. s = SortStable(b)
    BY <1>1, <1>5, <2>1, <2>2, <2>5 DEF Snapshot
  <2>9. /\ s \in Seq(Entries) /\ Members(s) = Members(b)
        /\ \A i, j \in 1..Len(s) : i < j =>
              Priority[s[i]] < Priority[s[j]] \/ Priority[s[i]] = Priority[s[j]]
    BY <2>6, <2>8, Sorts
  <2>10. Rising(s)
    <3> SUFFICES ASSUME NEW i \in 1..Len(s), NEW j \in 1..Len(s), i < j
                 PROVE  Priority[s[i]] <= Priority[s[j]]
      BY DEF Rising
    <3>1. s[i] \in Entries /\ s[j] \in Entries
      BY <2>9
    <3>2. Priority[s[i]] \in Nat /\ Priority[s[j]] \in Nat
      BY <3>1, EntriesAssumption
    <3> QED
      BY <2>9, <3>2
  <2>11. \A i \in 1..Len(s) : status[s[i]] = "on"
    BY <2>7, <2>9 DEF Members
  <2> QED
    BY <1>1, <2>9, <2>10, <2>11
<1> QED
  BY <1>4, <1>5

(* A loop that begins has nothing left that was fired.                      *)
LEMMA NewLoopFine ==
    ASSUME TypeOK, ListsInv, FiredInv, NEW l \in Lists
    PROVE  NewLoop(l) \in Loop /\ LoopFine(NewLoop(l))
<1>1. PICK s : s = Snapshot(l)
  OBVIOUS
<1>2. s \in Seq(Entries) /\ Rising(s) /\ \A i \in 1..Len(s) : status[s[i]] = "on"
  BY <1>1, SnapshotFine
<1>3. PICK p : p = NewLoop(l)
  OBVIOUS
<1>4. p = [list |-> l, ran |-> <<>>, items |-> s, pc |-> "next", before |-> fired]
  BY <1>1, <1>3 DEF NewLoop
<1>5. fired \in SUBSET Entries
  BY EntriesAssumption DEF TypeOK
<1>6. <<>> \in Seq(Entries)
  OBVIOUS
<1>7. p \in Loop
  BY <1>2, <1>4, <1>5, <1>6 DEF Loop
<1>8. p.ran \o p.items = s
  <2>1. <<>> \o s = s
    BY <1>2, ConcatEmptySeq
  <2> QED
    BY <1>4, <2>1
<1>9. \A i \in 1..Len(s) : s[i] \notin fired
  BY <1>2 DEF FiredInv
<1>10. LoopFine(p)
  BY <1>2, <1>4, <1>8, <1>9 DEF LoopFine
<1> QED
  BY <1>3, <1>7, <1>10

(* The next of a loop is called, and the loop goes on behind it.            *)
LEMMA AdvanceFine ==
    ASSUME NEW p \in Loop, LoopFine(p), p.items # <<>>
    PROVE  Advance(p) \in Loop /\ LoopFine(Advance(p))
<1>1. p.ran \in Seq(Entries) /\ p.items \in Seq(Entries) /\ p.before \in SUBSET Entries /\ p.list \in Lists
  BY LoopFields
<1>2. PICK r : r = p.ran
  OBVIOUS
<1>3. PICK s : s = p.items
  OBVIOUS
<1>4. PICK u : u = Append(r, Head(s))
  OBVIOUS
<1>5. PICK v : v = Tail(s)
  OBVIOUS
<1>6. s # <<>> /\ s \in Seq(Entries) /\ r \in Seq(Entries)
  BY <1>1, <1>2, <1>3
<1>7. Head(s) = s[1] /\ s[1] \in Entries /\ Len(s) \in Nat /\ Len(s) > 0 /\ Len(r) \in Nat
  BY <1>6
<1>8. v \in Seq(Entries) /\ Len(v) = Len(s) - 1 /\ \A i \in 1..Len(v) : v[i] = s[i + 1]
  BY <1>5, <1>6, HeadTailProperties
<1>9. u \in Seq(Entries) /\ Len(u) = Len(r) + 1 /\ u[Len(u)] = s[1] /\ \A i \in 1..Len(r) : u[i] = r[i]
  BY <1>4, <1>6, <1>7
<1>10. PICK q : q = Advance(p)
  OBVIOUS
<1>11. q = [p EXCEPT !.pc = "next", !.items = v, !.ran = u]
  BY <1>2, <1>3, <1>4, <1>5, <1>10 DEF Advance
<1>12. /\ q \in Loop /\ q.pc = "next" /\ q.items = v /\ q.ran = u /\ q.before = p.before
  BY <1>8, <1>9, <1>11 DEF Loop
<1>13. u \o v = r \o s
  <2>1. /\ r \o s \in Seq(Entries) /\ Len(r \o s) = Len(r) + Len(s)
        /\ \A i \in 1..(Len(r) + Len(s)) : (r \o s)[i] = IF i <= Len(r) THEN r[i] ELSE s[i - Len(r)]
    BY <1>6, ConcatProperties
  <2>2. /\ u \o v \in Seq(Entries) /\ Len(u \o v) = Len(u) + Len(v)
        /\ \A i \in 1..(Len(u) + Len(v)) : (u \o v)[i] = IF i <= Len(u) THEN u[i] ELSE v[i - Len(u)]
    BY <1>8, <1>9, ConcatProperties
  <2>3. Len(u) + Len(v) = Len(r) + Len(s)
    BY <1>7, <1>8, <1>9
  <2>4. ASSUME NEW i \in 1..(Len(r) + Len(s)) PROVE (u \o v)[i] = (r \o s)[i]
    <3>1. CASE i <= Len(r)
      BY <1>7, <1>9, <2>1, <2>2, <2>3, <3>1
    <3>2. CASE i = Len(r) + 1
      <4>1. (u \o v)[i] = s[1]
        BY <1>7, <1>9, <2>2, <2>3, <3>2
      <4>2. (r \o s)[i] = s[1]
        BY <1>7, <2>1, <3>2
      <4> QED
        BY <4>1, <4>2
    <3>3. CASE i > Len(r) + 1
      <4>1. (u \o v)[i] = v[i - Len(u)] /\ i - Len(u) \in 1..Len(v)
        BY <1>7, <1>8, <1>9, <2>2, <2>3, <3>3
      <4>2. i - Len(u) + 1 = i - Len(r)
        BY <1>7, <1>9
      <4>3. v[i - Len(u)] = s[i - Len(r)]
        BY <1>8, <4>1, <4>2
      <4>4. (r \o s)[i] = s[i - Len(r)]
        BY <1>7, <2>1, <3>3
      <4> QED
        BY <4>1, <4>3, <4>4
    <3>4. i <= Len(r) \/ i = Len(r) + 1 \/ i > Len(r) + 1
      BY <1>7
    <3> QED
      BY <3>1, <3>2, <3>3, <3>4
  <2> QED
    BY <2>1, <2>2, <2>3, <2>4, SeqEqual
<1>14. \A i \in 1..Len(v) : v[i] \notin p.before
  BY <1>3, <1>7, <1>8 DEF LoopFine
<1>15. Rising(u \o v)
  BY <1>2, <1>3, <1>13 DEF LoopFine
<1>16. LoopFine(q)
  BY <1>12, <1>14, <1>15 DEF LoopFine
<1> QED
  BY <1>10, <1>12, <1>16

(* The next of a loop is about to be called.                                *)
LEMMA PlaceFine ==
    ASSUME NEW p \in Loop, LoopFine(p), p.items # <<>>, NEW x \in {"run", "calling"}
    PROVE  [p EXCEPT !.pc = x] \in Loop /\ LoopFine([p EXCEPT !.pc = x])
<1>1. PICK q : q = [p EXCEPT !.pc = x]
  OBVIOUS
<1>2. q \in Loop /\ q.pc = x /\ q.items = p.items /\ q.ran = p.ran /\ q.before = p.before
  BY <1>1 DEF Loop
<1>3. LoopFine(q)
  BY <1>2 DEF LoopFine
<1> QED
  BY <1>1, <1>2, <1>3
-----------------------------------------------------------------------------
(* Dispatch: every step keeps the invariant. *)

LEMMA InitDispatchInv == Init => DispatchInv
<1> SUFFICES ASSUME Init PROVE DispatchInv
  OBVIOUS
<1>1. TypeOK
  BY ThreadsAssumption DEF Init, TypeOK
<1>2. ASSUME NEW l \in Lists PROVE ListFine(l, registry[l], arrival[l], status)
  <2>1. registry[l] = <<>> /\ arrival[l] = <<>> /\ \A e \in Entries : status[e] # "on"
    BY DEF Init
  <2>2. Live(l, status) = {}
    BY <2>1 DEF Live
  <2>3. Members(<<>>) = {} /\ Distinct(<<>>) /\ InOrder(<<>>, <<>>)
    BY DEF Members, Distinct, InOrder
  <2> QED
    BY <2>1, <2>2, <2>3 DEF ListFine
<1>3. FiredInv
  BY DEF Init, FiredInv
<1>4. StacksInv
  BY DEF Init, StacksInv, StackFine
<1> QED
  BY <1>1, <1>2, <1>3, <1>4 DEF DispatchInv, ListsInv

(* The stacks after a step that gives thread t the stack q.                 *)
LEMMA StacksStep ==
    ASSUME StacksInv, stack \in [Threads -> Seq(Loop)], NEW t \in Threads, NEW q, StackFine(q),
           stack' = [stack EXCEPT ![t] = q]
    PROVE  StacksInv' /\ stack' \in [Threads -> Seq(Loop)]
<1>1. q \in Seq(Loop)
  BY DEF StackFine
<1>2. stack' \in [Threads -> Seq(Loop)]
  BY <1>1
<1>3. \A u \in Threads : StackFine(stack'[u])
  BY DEF StacksInv
<1> QED
  BY <1>2, <1>3 DEF StacksInv

(* A list changes in a step that adds or removes an entry.                  *)
LEMMA RemovalStep ==
    ASSUME DispatchInv, NEW e \in Entries,
           registry' = [registry EXCEPT ![List[e]] = Removed(@, e)],
           status' = [status EXCEPT ![e] = "off"],
           arrival' = [arrival EXCEPT ![List[e]] = Removed(@, e)]
    PROVE  /\ ListsInv'
           /\ registry' \in [Lists -> Seq(Entries)] /\ arrival' \in [Lists -> Seq(Entries)]
           /\ status' \in [Entries -> {"new", "on", "off"}]
<1>1. /\ registry \in [Lists -> Seq(Entries)] /\ arrival \in [Lists -> Seq(Entries)]
      /\ status \in [Entries -> {"new", "on", "off"}]
  BY DEF DispatchInv, TypeOK
<1>2. List[e] \in Lists
  BY DEF Lists
<1>3. ASSUME NEW l \in Lists PROVE ListFine(l, registry'[l], arrival'[l], status')
  <2>1. ListFine(l, registry[l], arrival[l], status)
    BY DEF DispatchInv, ListsInv
  <2>2. CASE l = List[e]
    <3>1. registry'[l] = Removed(registry[l], e) /\ arrival'[l] = Removed(arrival[l], e)
      BY <1>1, <2>2
    <3>2. ListFine(List[e], Removed(registry[l], e), Removed(arrival[l], e), status')
      BY <1>1, <2>1, <2>2, ListDrops
    <3> QED
      BY <2>2, <3>1, <3>2
  <2>3. CASE l # List[e]
    <3>1. registry'[l] = registry[l] /\ arrival'[l] = arrival[l]
      BY <1>1, <2>3
    <3>2. ListFine(l, registry[l], arrival[l], status')
      BY <1>1, <2>1, <2>3, ListElse
    <3> QED
      BY <3>1, <3>2
  <2> QED
    BY <2>2, <2>3
<1>4. registry' \in [Lists -> Seq(Entries)] /\ arrival' \in [Lists -> Seq(Entries)]
  <2>1. \A l \in Lists : registry'[l] \in Seq(Entries) /\ arrival'[l] \in Seq(Entries)
    BY <1>3 DEF ListFine
  <2> QED
    BY <1>1, <2>1
<1>5. status' \in [Entries -> {"new", "on", "off"}]
  BY <1>1
<1> QED
  BY <1>3, <1>4, <1>5 DEF ListsInv

LEMMA OnStep ==
    ASSUME DispatchInv, NEW e \in Entries, On(e)
    PROVE  DispatchInv'
<1>1. /\ registry \in [Lists -> Seq(Entries)] /\ arrival \in [Lists -> Seq(Entries)]
      /\ status \in [Entries -> {"new", "on", "off"}] /\ FiredInv /\ fired \subseteq Entries
  BY EntriesAssumption DEF DispatchInv, TypeOK
<1>2. List[e] \in Lists
  BY DEF Lists
<1>3. /\ status[e] = "new" /\ status' = [status EXCEPT ![e] = "on"]
      /\ registry' = [registry EXCEPT ![List[e]] = SortStable(Append(@, e))]
      /\ arrival' = [arrival EXCEPT ![List[e]] = Append(@, e)]
      /\ UNCHANGED <<phases, stack, fired, spawned, work>>
  BY DEF On
<1>4. ASSUME NEW l \in Lists PROVE ListFine(l, registry'[l], arrival'[l], status')
  <2>1. ListFine(l, registry[l], arrival[l], status)
    BY DEF DispatchInv, ListsInv
  <2>2. CASE l = List[e]
    <3>1. /\ registry'[l] = SortStable(Append(registry[l], e))
          /\ arrival'[l] = Append(arrival[l], e)
      BY <1>1, <1>3, <2>2
    <3>2. ListFine(List[e], SortStable(Append(registry[l], e)), Append(arrival[l], e), status')
      BY <1>1, <1>3, <2>1, <2>2, ListAdds
    <3> QED
      BY <2>2, <3>1, <3>2
  <2>3. CASE l # List[e]
    <3>1. registry'[l] = registry[l] /\ arrival'[l] = arrival[l]
      BY <1>1, <1>3, <2>3
    <3>2. ListFine(l, registry[l], arrival[l], status')
      BY <1>1, <1>3, <2>1, <2>3, ListElse
    <3> QED
      BY <3>1, <3>2
  <2> QED
    BY <2>2, <2>3
<1>5. registry' \in [Lists -> Seq(Entries)] /\ arrival' \in [Lists -> Seq(Entries)]
  <2>1. \A l \in Lists : registry'[l] \in Seq(Entries) /\ arrival'[l] \in Seq(Entries)
    BY <1>4 DEF ListFine
  <2> QED
    BY <1>1, <1>3, <2>1
<1>6. TypeOK'
  BY <1>1, <1>3, <1>5 DEF DispatchInv, TypeOK
<1>7. FiredInv'
  BY <1>1, <1>3 DEF FiredInv
<1>8. StacksInv'
  BY <1>3 DEF DispatchInv, StacksInv
<1> QED
  BY <1>4, <1>6, <1>7, <1>8 DEF DispatchInv, ListsInv

LEMMA OffStep ==
    ASSUME DispatchInv, NEW e \in Entries, Off(e)
    PROVE  DispatchInv'
<1>1. /\ status' = [status EXCEPT ![e] = "off"] /\ status \in [Entries -> {"new", "on", "off"}]
      /\ registry' = [registry EXCEPT ![List[e]] = Removed(@, e)]
      /\ arrival' = [arrival EXCEPT ![List[e]] = Removed(@, e)]
      /\ UNCHANGED <<phases, stack, fired, spawned, work>> /\ FiredInv /\ fired \subseteq Entries
  BY EntriesAssumption DEF Off, DispatchInv, TypeOK
<1>2. /\ ListsInv' /\ status' \in [Entries -> {"new", "on", "off"}]
      /\ registry' \in [Lists -> Seq(Entries)] /\ arrival' \in [Lists -> Seq(Entries)]
  BY <1>1, RemovalStep
<1>3. TypeOK'
  BY <1>1, <1>2 DEF DispatchInv, TypeOK
<1>4. FiredInv'
  BY <1>1 DEF FiredInv
<1>5. StacksInv'
  BY <1>1 DEF DispatchInv, StacksInv
<1> QED
  BY <1>2, <1>3, <1>4, <1>5 DEF DispatchInv

LEMMA TakeStep ==
    ASSUME DispatchInv, NEW t \in Threads, Take(t)
    PROVE  DispatchInv'
<1>1. /\ StackFine(stack[t]) /\ stack[t] # <<>> /\ Top(t) = Last(stack[t])
      /\ Top(t).items # <<>> /\ UNCHANGED <<phases, spawned, work>>
  BY DEF DispatchInv, StacksInv, Take, In, Top
<1>2. PICK p : p = Top(t)
  OBVIOUS
<1>3. p \in Loop /\ LoopFine(p) /\ StackFine(Front(stack[t])) /\ p.items # <<>>
  BY <1>1, <1>2, StackTop
<1>4. PICK e : e = Head(p.items)
  OBVIOUS
<1>5. e \in Entries
  BY <1>3, <1>4, LoopFields, HeadTailProperties
<1>6. PICK q : q = [p EXCEPT !.pc = "run"]
  OBVIOUS
<1>7. StackFine(Append(Front(stack[t]), q))
  <2>1. q \in Loop /\ LoopFine(q)
    BY <1>3, <1>6, PlaceFine
  <2> QED
    BY <1>3, <2>1, StackPush
<1>8. stack' = [stack EXCEPT ![t] = Append(Front(stack[t]), q)]
  BY <1>2, <1>6 DEF Take, SetTop
<1>9. StacksInv' /\ stack' \in [Threads -> Seq(Loop)]
  BY <1>7, <1>8, StacksStep DEF DispatchInv, TypeOK
<1>10. CASE e \in Once
  <2>1. /\ registry' = [registry EXCEPT ![List[e]] = Removed(@, e)]
        /\ status' = [status EXCEPT ![e] = "off"]
        /\ arrival' = [arrival EXCEPT ![List[e]] = Removed(@, e)]
        /\ fired' = fired \cup {e}
    BY <1>2, <1>4, <1>10 DEF Take
  <2>2. /\ ListsInv' /\ status' \in [Entries -> {"new", "on", "off"}]
        /\ registry' \in [Lists -> Seq(Entries)] /\ arrival' \in [Lists -> Seq(Entries)]
    BY <1>5, <2>1, RemovalStep
  <2>3. TypeOK'
    BY <1>1, <1>9, <1>10, <2>1, <2>2 DEF DispatchInv, TypeOK
  <2>4. FiredInv'
    BY <1>5, <2>1, EntriesAssumption DEF DispatchInv, TypeOK, FiredInv
  <2> QED
    BY <1>9, <2>2, <2>3, <2>4 DEF DispatchInv
<1>11. CASE e \notin Once
  <2>1. UNCHANGED <<registry, status, arrival, fired>>
    BY <1>2, <1>4, <1>11 DEF Take
  <2>2. TypeOK'
    BY <1>1, <1>9, <2>1 DEF DispatchInv, TypeOK
  <2>3. ListsInv' /\ FiredInv'
    BY <2>1 DEF DispatchInv, ListsInv, FiredInv
  <2> QED
    BY <1>9, <2>2, <2>3 DEF DispatchInv
<1> QED
  BY <1>10, <1>11

(* The steps that change no list.                                           *)
LEMMA LoopStep ==
    ASSUME DispatchInv, UNCHANGED <<registry, status, arrival, fired>>, NEW t \in Threads, NEW q,
           StackFine(q), stack' = [stack EXCEPT ![t] = q],
           phases' \in Seq(Lists), spawned' \subseteq Async, work' \in 0..MaxWork
    PROVE  DispatchInv'
<1>1. StacksInv' /\ stack' \in [Threads -> Seq(Loop)]
  BY StacksStep DEF DispatchInv, TypeOK
<1>2. TypeOK'
  BY <1>1 DEF DispatchInv, TypeOK
<1>3. ListsInv' /\ FiredInv'
  BY DEF DispatchInv, ListsInv, FiredInv
<1> QED
  BY <1>1, <1>2, <1>3 DEF DispatchInv
LEMMA RunStep ==
    ASSUME DispatchInv, NEW t \in Threads, Run(t)
    PROVE  DispatchInv'
<1>1. /\ StackFine(stack[t]) /\ stack[t] # <<>> /\ Top(t) = Last(stack[t]) /\ Top(t).pc = "run"
      /\ UNCHANGED <<registry, status, arrival, phases, fired, work>>
  BY DEF DispatchInv, StacksInv, Run, In, Top
<1>2. PICK p : p = Top(t)
  OBVIOUS
<1>3. p \in Loop /\ LoopFine(p) /\ StackFine(Front(stack[t]))
  BY <1>1, <1>2, StackTop
<1>4. p.items # <<>>
  BY <1>1, <1>2, <1>3 DEF LoopFine
<1>5. PICK e : e = Head(p.items)
  OBVIOUS
<1>6. phases' \in Seq(Lists) /\ work' \in 0..MaxWork /\ spawned \subseteq Async
  BY <1>1 DEF DispatchInv, TypeOK
<1>7. CASE e \in Async
  <2>1. stack' = [stack EXCEPT ![t] = Append(Front(stack[t]), Advance(p))] /\ spawned' = spawned \cup {e}
    BY <1>2, <1>5, <1>7 DEF Run, SetTop
  <2>2. Advance(p) \in Loop /\ LoopFine(Advance(p))
    BY <1>3, <1>4, AdvanceFine
  <2>3. StackFine(Append(Front(stack[t]), Advance(p)))
    BY <1>3, <2>2, StackPush
  <2>4. spawned' \subseteq Async
    BY <1>6, <1>7, <2>1
  <2> QED
    BY <1>1, <1>6, <2>1, <2>3, <2>4, LoopStep
<1>8. CASE e \notin Async
  <2>1. PICK q : q = [p EXCEPT !.pc = "calling"]
    OBVIOUS
  <2>2. stack' = [stack EXCEPT ![t] = Append(Front(stack[t]), q)] /\ spawned' = spawned
    BY <1>2, <1>5, <1>8, <2>1 DEF Run, SetTop
  <2>3. q \in Loop /\ LoopFine(q)
    BY <1>3, <1>4, <2>1, PlaceFine
  <2>4. StackFine(Append(Front(stack[t]), q))
    BY <1>3, <2>3, StackPush
  <2> QED
    BY <1>1, <1>6, <2>2, <2>4, LoopStep
<1> QED
  BY <1>7, <1>8

LEMMA ReturnStep ==
    ASSUME DispatchInv, NEW t \in Threads, NEW failed \in BOOLEAN, Return(t, failed)
    PROVE  DispatchInv'
<1>1. /\ StackFine(stack[t]) /\ stack[t] # <<>> /\ Top(t) = Last(stack[t]) /\ Top(t).pc = "calling"
      /\ UNCHANGED <<registry, status, arrival, phases, fired, spawned, work>>
  BY DEF DispatchInv, StacksInv, Return, In, Top
<1>2. PICK p : p = Top(t)
  OBVIOUS
<1>3. p \in Loop /\ LoopFine(p) /\ StackFine(Front(stack[t]))
  BY <1>1, <1>2, StackTop
<1>4. p.items # <<>>
  BY <1>1, <1>2, <1>3 DEF LoopFine
<1>5. PICK q : q = Append(Front(stack[t]), Advance(p))
  OBVIOUS
<1>6. StackFine(q)
  <2>1. Advance(p) \in Loop /\ LoopFine(Advance(p))
    BY <1>3, <1>4, AdvanceFine
  <2> QED
    BY <1>3, <1>5, <2>1, StackPush
<1>7. stack' = [stack EXCEPT ![t] = q \o IF failed THEN <<NewLoop("error")>> ELSE <<>>]
  BY <1>2, <1>5 DEF Return
<1>8. q \in Seq(Loop)
  BY <1>6 DEF StackFine
<1>9. phases' \in Seq(Lists) /\ work' \in 0..MaxWork /\ spawned' \subseteq Async
  BY <1>1 DEF DispatchInv, TypeOK
<1>10. CASE failed
  <2>1. PICK m : m = NewLoop("error")
    OBVIOUS
  <2>2. "error" \in Lists
    BY DEF Lists
  <2>3. m \in Loop /\ LoopFine(m)
    BY <2>1, <2>2, NewLoopFine DEF DispatchInv
  <2>4. q \o <<m>> = Append(q, m)
    BY <1>8, <2>3, AppendIsConcat
  <2>5. StackFine(Append(q, m))
    BY <1>6, <2>3, StackPush
  <2>6. stack' = [stack EXCEPT ![t] = Append(q, m)]
    BY <1>7, <1>10, <2>1, <2>4
  <2> QED
    BY <1>1, <1>9, <2>5, <2>6, LoopStep
<1>11. CASE ~failed
  <2>1. q \o <<>> = q
    BY <1>8, ConcatEmptySeq
  <2>2. stack' = [stack EXCEPT ![t] = q]
    BY <1>7, <1>11, <2>1
  <2> QED
    BY <1>1, <1>6, <1>9, <2>2, LoopStep
<1> QED
  BY <1>10, <1>11

(* An Emit and the reader's next phase begin a loop.                        *)
LEMMA PushStep ==
    ASSUME DispatchInv, NEW t \in Threads, NEW l \in Lists, Push(t, l),
           UNCHANGED <<registry, status, arrival, fired, spawned>>,
           phases' \in Seq(Lists), work' \in 0..MaxWork
    PROVE  DispatchInv'
<1>1. PICK m : m = NewLoop(l)
  OBVIOUS
<1>2. m \in Loop /\ LoopFine(m)
  BY <1>1, NewLoopFine DEF DispatchInv
<1>3. StackFine(stack[t])
  BY DEF DispatchInv, StacksInv
<1>4. StackFine(Append(stack[t], m))
  BY <1>2, <1>3, StackPush
<1>5. stack' = [stack EXCEPT ![t] = Append(stack[t], m)]
  BY <1>1 DEF Push
<1>6. spawned' \subseteq Async
  BY DEF DispatchInv, TypeOK
<1> QED
  BY <1>4, <1>5, <1>6, LoopStep

LEMMA NextDispatchInv == DispatchInv /\ [Next]_vars => DispatchInv'
<1> SUFFICES ASSUME DispatchInv, [Next]_vars PROVE DispatchInv'
  OBVIOUS
<1>0. /\ phases \in Seq(Lists) /\ stack \in [Threads -> Seq(Loop)] /\ spawned \subseteq Async
      /\ work \in 0..MaxWork /\ MaxWork \in Nat
  BY ThreadsAssumption DEF DispatchInv, TypeOK
<1>1. ASSUME NEW e \in Entries, On(e) PROVE DispatchInv'
  BY <1>1, OnStep
<1>2. ASSUME NEW e \in Entries, Off(e) PROVE DispatchInv'
  BY <1>2, OffStep
<1>3. ASSUME NEW e \in Entries, AsyncEnd(e) PROVE DispatchInv'
  <2>1. UNCHANGED <<registry, status, arrival, phases, stack, fired, work>> /\ spawned' \subseteq Async
    BY <1>0, <1>3 DEF AsyncEnd
  <2>2. TypeOK'
    BY <2>1 DEF DispatchInv, TypeOK
  <2> QED
    BY <2>1, <2>2 DEF DispatchInv, ListsInv, FiredInv, StacksInv
<1>4. CASE Receive
  <2>1. UNCHANGED <<registry, status, arrival, stack, fired, spawned>> /\ work' \in 0..MaxWork
    BY <1>0, <1>4 DEF Receive
  <2>2. phases' \in Seq(Lists)
    <3>1. PICK typed \in {<<>>, <<"message_chat">>} :
              phases' = <<"received_stanza", "handlers", "stanza", "message">> \o typed
      BY <1>4 DEF Receive
    <3>2. <<"received_stanza", "handlers", "stanza", "message">> \in Seq(Lists) /\ typed \in Seq(Lists)
      <4>1. /\ "received_stanza" \in Lists /\ "handlers" \in Lists /\ "stanza" \in Lists
            /\ "message" \in Lists /\ "message_chat" \in Lists
        BY DEF Lists, StanzaEvents
      <4>2. <<"received_stanza", "handlers", "stanza", "message">> \in Seq(Lists)
        BY <4>1
      <4>3. <<>> \in Seq(Lists) /\ <<"message_chat">> \in Seq(Lists)
        BY <4>1
      <4> QED
        BY <4>2, <4>3
    <3> QED
      BY <3>1, <3>2, ConcatProperties
  <2>3. TypeOK'
    BY <2>1, <2>2 DEF DispatchInv, TypeOK
  <2> QED
    BY <2>1, <2>3 DEF DispatchInv, ListsInv, FiredInv, StacksInv
<1>5. CASE NextPhase
  <2>1. phases # <<>> /\ phases' = Tail(phases) /\ Push(Reader, Head(phases))
        /\ UNCHANGED <<registry, status, arrival, fired, spawned, work>>
    BY <1>5 DEF NextPhase
  <2>2. Head(phases) \in Lists /\ phases' \in Seq(Lists)
    BY <1>0, <2>1, HeadTailProperties
  <2>3. work' \in 0..MaxWork
    BY <1>0, <2>1
  <2> QED
    BY <2>1, <2>2, <2>3, PushStep, ThreadsAssumption
<1>6. ASSUME NEW t \in Threads, Take(t) PROVE DispatchInv'
  BY <1>6, TakeStep
<1>7. ASSUME NEW t \in Threads, Run(t) PROVE DispatchInv'
  BY <1>7, RunStep
<1>8. ASSUME NEW t \in Threads, LoopEnd(t) PROVE DispatchInv'
  <2>1. /\ stack[t] # <<>> /\ StackFine(stack[t]) /\ stack' = [stack EXCEPT ![t] = Front(stack[t])]
        /\ UNCHANGED <<registry, status, arrival, phases, fired, spawned, work>>
    BY <1>8 DEF LoopEnd, In, DispatchInv, StacksInv
  <2>2. StackFine(Front(stack[t]))
    BY <2>1, StackTop
  <2>3. phases' \in Seq(Lists) /\ work' \in 0..MaxWork /\ spawned' \subseteq Async
    BY <1>0, <2>1
  <2> QED
    BY <2>1, <2>2, <2>3, LoopStep
<1>9. ASSUME NEW t \in Threads, NEW failed \in BOOLEAN, Return(t, failed) PROVE DispatchInv'
  BY <1>9, ReturnStep
<1>10. ASSUME NEW t \in Threads, NEW l \in Events, Emit(t, l) PROVE DispatchInv'
  <2>1. /\ Push(t, l) /\ UNCHANGED <<registry, status, arrival, phases, fired, spawned>>
        /\ work' \in 0..MaxWork
    BY <1>0, <1>10 DEF Emit
  <2>2. l \in Lists
    BY DEF Events, Lists
  <2>3. phases' \in Seq(Lists)
    BY <1>0, <2>1
  <2> QED
    BY <2>1, <2>2, <2>3, PushStep
<1>11. CASE UNCHANGED vars
  <2>1. UNCHANGED <<registry, status, arrival, phases, stack, fired, spawned, work>>
    BY <1>11 DEF vars
  <2> QED
    BY <2>1 DEF DispatchInv, TypeOK, ListsInv, FiredInv, StacksInv
<1> QED
  BY <1>1, <1>2, <1>3, <1>4, <1>5, <1>6, <1>7, <1>8, <1>9, <1>10, <1>11 DEF Next

-----------------------------------------------------------------------------
(* Dispatch: the theorems. *)

(* The registries keep their types: in particular nothing is fired but      *)
(* one-shot entries, and nothing runs on its own but asynchronous ones.     *)
THEOREM DispatchTypeCorrect == Spec => []TypeOK
<1>1. DispatchInv => TypeOK
  BY DEF DispatchInv
<1> QED
  BY <1>1, InitDispatchInv, NextDispatchInv, PTL DEF Spec

(* Each list holds exactly the entries registered and not removed, by       *)
(* priority and registration (events.go:57-61, 76-88; handler.go:39-56).    *)
THEOREM RegistriesAreExact == Spec => []RegistryExact
<1>1. ASSUME DispatchInv PROVE RegistryExact
  <2> SUFFICES ASSUME NEW l \in Lists
               PROVE  /\ ToSet(registry[l]) = {e \in Entries : List[e] = l /\ status[e] = "on"}
                      /\ \A i, j \in DOMAIN registry[l] :
                             i < j => RunsBefore(l, registry[l][i], registry[l][j])
    BY DEF RegistryExact
  <2>1. PICK s : s = registry[l]
    OBVIOUS
  <2>2. PICK a : a = arrival[l]
    OBVIOUS
  <2>3. /\ s \in Seq(Entries) /\ a \in Seq(Entries) /\ Members(s) = Live(l, status)
        /\ InOrder(s, a)
    BY <1>1, <2>1, <2>2 DEF DispatchInv, ListsInv, ListFine
  <2>4. DOMAIN s = 1..Len(s) /\ DOMAIN a = 1..Len(a)
    BY <2>3
  <2>5. ToSet(s) = Members(s)
    BY <2>4 DEF ToSet, Members
  <2>6. \A i, j \in 1..Len(s) : i < j => RunsBefore(l, s[i], s[j])
    <3> SUFFICES ASSUME NEW i \in 1..Len(s), NEW j \in 1..Len(s), i < j
                 PROVE  RunsBefore(l, s[i], s[j])
      OBVIOUS
    <3>1. \/ Priority[s[i]] < Priority[s[j]]
          \/ Priority[s[i]] = Priority[s[j]] /\ Precedes(a, s[i], s[j])
      BY <2>3 DEF InOrder
    <3>2. ASSUME Precedes(a, s[i], s[j])
          PROVE  \E m, n \in DOMAIN arrival[l] : m < n /\ arrival[l][m] = s[i] /\ arrival[l][n] = s[j]
      BY <2>2, <2>4, <3>2 DEF Precedes
    <3> QED
      BY <3>1, <3>2 DEF RunsBefore
  <2> QED
    BY <2>1, <2>3, <2>4, <2>5, <2>6 DEF Live
<1> QED
  BY <1>1, InitDispatchInv, NextDispatchInv, PTL DEF Spec

(* Emit and dispatchStanza call in order of priority, those of "*" among    *)
(* the others (events.go:90-116, client.go:490-507).                        *)
THEOREM CallsByPriority == Spec => []PriorityOrder
<1>1. ASSUME DispatchInv PROVE PriorityOrder
  <2> SUFFICES ASSUME NEW t \in Threads, NEW k \in DOMAIN stack[t], NEW all,
                      all = stack[t][k].ran \o stack[t][k].items
               PROVE  \A i, j \in DOMAIN all : i < j => Priority[all[i]] <= Priority[all[j]]
    BY DEF PriorityOrder
  <2>1. stack[t] \in Seq(Loop) /\ \A h \in 1..Len(stack[t]) : LoopFine(stack[t][h])
    BY <1>1 DEF DispatchInv, StacksInv, StackFine
  <2>2. PICK p : p = stack[t][k]
    OBVIOUS
  <2>3. p \in Loop /\ LoopFine(p)
    BY <2>1, <2>2
  <2>4. all = p.ran \o p.items /\ p.ran \in Seq(Entries) /\ p.items \in Seq(Entries)
    BY <2>2, <2>3, LoopFields
  <2>5. all \in Seq(Entries)
    BY <2>4, ConcatProperties
  <2>6. Rising(all)
    BY <2>3, <2>4 DEF LoopFine
  <2> QED
    <3>1. DOMAIN all = 1..Len(all)
      BY <2>5
    <3> QED
      BY <2>6, <3>1 DEF Rising
<1> QED
  BY <1>1, InitDispatchInv, NextDispatchInv, PTL DEF Spec

(* No dispatch that begins after a one-shot entry was called calls it       *)
(* (events.go:103-105; client.go:494-496).                                  *)
THEOREM OneShotsAreConsumed == Spec => []OnceConsumed
<1>1. ASSUME DispatchInv PROVE OnceConsumed
  <2> SUFFICES ASSUME NEW t \in Threads, NEW k \in DOMAIN stack[t], stack[t][k].pc # "next"
               PROVE  Head(stack[t][k].items) \notin stack[t][k].before
    BY DEF OnceConsumed
  <2>1. stack[t] \in Seq(Loop) /\ \A h \in 1..Len(stack[t]) : LoopFine(stack[t][h])
    BY <1>1 DEF DispatchInv, StacksInv, StackFine
  <2>2. PICK p : p = stack[t][k]
    OBVIOUS
  <2>3. p \in Loop /\ LoopFine(p) /\ p.pc # "next"
    BY <2>1, <2>2
  <2>4. p.items \in Seq(Entries) /\ p.items # <<>>
    BY <2>3, LoopFields DEF LoopFine
  <2>5. Head(p.items) = p.items[1] /\ 1 \in 1..Len(p.items)
    BY <2>4
  <2> QED
    BY <2>2, <2>3, <2>5 DEF LoopFine
<1> QED
  BY <1>1, InitDispatchInv, NextDispatchInv, PTL DEF Spec
=============================================================================
