----------------------- MODULE StreamManagementProofs -----------------------
(***************************************************************************)
(* Proofs about StreamManagement for any senders, traffic, resumptions and *)
(* width of the counters.                                                  *)
(***************************************************************************)
EXTENDS StreamManagement, Integers, SequenceTheorems, TLAPS

-----------------------------------------------------------------------------
(* Arithmetic modulo m. *)

LEMMA ModRange ==
    ASSUME NEW m \in Nat \ {0}, NEW c \in Nat PROVE c % m \in 0..(m - 1) /\ c \div m \in Nat
  OBVIOUS

LEMMA DivMod ==
    ASSUME NEW m \in Nat \ {0}, NEW c \in Nat PROVE c = m * (c \div m) + (c % m)
  OBVIOUS

LEMMA MulMono ==
    ASSUME NEW m \in Nat \ {0}, NEW p \in Nat, NEW q \in Nat, p < q PROVE m * p + m <= m * q
<1>1. PICK d \in Nat : q = p + 1 + d
  <2>1. q - p - 1 \in Nat /\ q = p + 1 + (q - p - 1)
    OBVIOUS
  <2> QED
    BY <2>1
<1>2. m * q = m * p + m + m * d
  BY <1>1
<1>3. m * d >= 0
  OBVIOUS
<1> QED
  BY <1>2, <1>3

(* The quotient and the remainder are unique.                               *)
LEMMA ModUnique ==
    ASSUME NEW m \in Nat \ {0}, NEW q \in Nat, NEW r \in 0..(m - 1) PROVE (m * q + r) % m = r
<1>1. PICK c \in Nat : c = m * q + r
  OBVIOUS
<1>2. PICK p \in Nat : p = c \div m
  BY ModRange
<1>3. PICK s \in 0..(m - 1) : s = c % m
  BY ModRange
<1>4. c = m * p + s
  BY <1>2, <1>3, DivMod
<1>5. PICK a \in Nat, b \in Nat : a = m * p /\ b = m * q
  OBVIOUS
<1>6. ~(p < q)
  <2> SUFFICES ASSUME p < q PROVE FALSE
    OBVIOUS
  <2>1. m * p + m <= m * q
    BY MulMono
  <2> QED
    BY <1>1, <1>4, <1>5, <2>1
<1>7. ~(q < p)
  <2> SUFFICES ASSUME q < p PROVE FALSE
    OBVIOUS
  <2>1. m * q + m <= m * p
    BY MulMono
  <2> QED
    BY <1>1, <1>4, <1>5, <2>1
<1>8. p = q
  BY <1>6, <1>7
<1>9. s = r
  BY <1>1, <1>4, <1>8
<1> QED
  BY <1>1, <1>3, <1>9

(* A counter that wraps counts modulo m.                                    *)
LEMMA ModCounts ==
    ASSUME NEW m \in Nat \ {0}, NEW c \in Nat PROVE ((c % m) + 1) % m = (c + 1) % m
<1>1. PICK q \in Nat : q = c \div m
  BY ModRange
<1>2. PICK r \in 0..(m - 1) : r = c % m
  BY ModRange
<1>3. c = m * q + r
  BY <1>1, <1>2, DivMod
<1>4. CASE r + 1 < m
  <2>1. r + 1 \in 0..(m - 1)
    BY <1>4
  <2>2. c + 1 = m * q + (r + 1) /\ r + 1 = m * 0 + (r + 1)
    BY <1>3
  <2>3. (m * q + (r + 1)) % m = r + 1 /\ (m * 0 + (r + 1)) % m = r + 1
    BY <2>1, ModUnique
  <2> QED
    BY <1>2, <2>2, <2>3
<1>5. CASE r + 1 = m
  <2>1. 0 \in 0..(m - 1) /\ q + 1 \in Nat
    OBVIOUS
  <2>2. m * (q + 1) = m * q + m /\ m * 1 = m
    OBVIOUS
  <2>3. c + 1 = m * (q + 1) + 0 /\ r + 1 = m * 1 + 0
    BY <1>3, <1>5, <2>2
  <2>4. (m * (q + 1) + 0) % m = 0 /\ (m * 1 + 0) % m = 0
    BY <2>1, ModUnique
  <2> QED
    BY <1>2, <2>3, <2>4
<1> QED
  BY <1>4, <1>5

-----------------------------------------------------------------------------
(* Stream management: the count of received stanzas. *)

(* A ledger k gives every position of the elements q under way, from b on,  *)
(* a count that grows with each stanza.                                     *)
Ledger(k, q, b) ==
    \A i \in (b + 1)..Len(q) : k[i - 1] <= k[i] /\ (q[i].kind = "stanza" => k[i - 1] < k[i])

(* A count of c at position b leaves room for the stanzas after it in g.    *)
Room(q, b, c, g) == \E k \in [0..Len(q) -> 0..g] : Ledger(k, q, b) /\ c <= k[b]
EnabledRoom(q, g) == \A e \in 1..Len(q) : q[e].kind = "enabled" => Room(q, e, 0, g)

(* What the server has sent since it counts, on streams of the session and  *)
(* on others.                                                               *)
Sent == given + strays

Counts ==
    /\ toClient \in Seq(Element) /\ toServer \in Seq(Element) /\ handled \in Seq(Nat)
    /\ enabled \in BOOLEAN /\ counting \in BOOLEAN /\ counted \in Nat /\ Sent \in Nat
    /\ given \in Nat /\ strays \in Nat

(* What the client has counted, or will count once <enabled/> is read and   *)
(* taken, has room in what the server has counted; and only a server that   *)
(* counts has sent <enabled/>.                                              *)
CountInv ==
    /\ Counts
    /\ inbound = counted % Modulus
    /\ ~enabled => counted = 0
    /\ enabled => Room(toClient, 0, counted, Sent)
    /\ enabling = "got" => Room(toClient, 0, 0, Sent)
    /\ EnabledRoom(toClient, Sent)
    /\ ~counting => /\ ~enabled /\ enabling # "got"
                    /\ \A i \in 1..Len(toClient) : toClient[i].kind # "enabled"
    /\ stream # "up" => enabled
    /\ \A i \in 1..Len(toServer) : toServer[i].kind = "resume" => enabled
    /\ \A i \in 1..Len(toClient) : toClient[i].kind = "resumed" => enabled

LEMMA ElFields == \A kind, n : El(kind, n).kind = kind /\ El(kind, n).n = n
  BY DEF El

LEMMA RoomBound ==
    ASSUME NEW q \in Seq(Element), NEW b \in 0..Len(q), NEW c \in Nat, NEW g \in Nat, Room(q, b, c, g)
    PROVE  c <= g
  BY DEF Room

LEMMA RoomEnd ==
    ASSUME NEW q \in Seq(Element), NEW c \in Nat, NEW g \in Nat, c <= g
    PROVE  Room(q, Len(q), c, g)
<1>1. PICK k : k = [i \in 0..Len(q) |-> c]
  OBVIOUS
<1>2. k \in [0..Len(q) -> 0..g] /\ k[Len(q)] = c
  BY <1>1
<1>3. Ledger(k, q, Len(q))
  BY DEF Ledger
<1> QED
  BY <1>2, <1>3 DEF Room

LEMMA RoomAppend ==
    ASSUME NEW q \in Seq(Element), NEW m \in Element, NEW b \in 0..Len(q), NEW c \in Nat,
           NEW g \in Nat, NEW h \in Nat, Room(q, b, c, g), g <= h, m.kind = "stanza" => g < h
    PROVE  Room(Append(q, m), b, c, h)
<1>1. PICK k \in [0..Len(q) -> 0..g] : Ledger(k, q, b) /\ c <= k[b]
  BY DEF Room
<1>2. PICK n \in Nat : n = Len(q)
  OBVIOUS
<1>3. PICK r \in Seq(Element) : r = Append(q, m)
  OBVIOUS
<1>4. Len(r) = n + 1 /\ r[n + 1] = m /\ \A i \in 1..n : r[i] = q[i]
  BY <1>2, <1>3
<1>5. PICK j : j = [i \in 0..(n + 1) |-> IF i <= n THEN k[i] ELSE h]
  OBVIOUS
<1>6. j[n + 1] = h /\ \A i \in 0..n : j[i] = k[i]
  BY <1>5
<1>7. j \in [0..(n + 1) -> 0..h]
  <2> SUFFICES ASSUME NEW i \in 0..(n + 1) PROVE (IF i <= n THEN k[i] ELSE h) \in 0..h
    BY <1>5
  <2>1. CASE i <= n
    <3>1. i \in 0..Len(q)
      BY <1>2, <2>1
    <3>2. k[i] \in 0..g
      BY <3>1
    <3> QED
      BY <2>1, <3>2
  <2> QED
    BY <2>1
<1>8. Ledger(j, r, b)
  <2> SUFFICES ASSUME NEW i \in (b + 1)..(n + 1)
               PROVE  j[i - 1] <= j[i] /\ (r[i].kind = "stanza" => j[i - 1] < j[i])
    BY <1>4 DEF Ledger
  <2>1. CASE i <= n
    <3>1. i \in (b + 1)..Len(q) /\ i \in 0..n /\ i - 1 \in 0..n /\ i \in 1..n
      BY <1>2, <2>1
    <3>2. k[i - 1] <= k[i] /\ (q[i].kind = "stanza" => k[i - 1] < k[i])
      BY <1>1, <3>1 DEF Ledger
    <3> QED
      BY <1>4, <1>6, <3>1, <3>2
  <2>2. CASE i = n + 1
    <3>1. i - 1 = n /\ n \in 0..n /\ n \in 0..Len(q)
      BY <1>2, <2>2
    <3>2. j[i - 1] = k[n] /\ k[n] \in 0..g
      BY <1>6, <3>1
    <3> QED
      BY <1>4, <1>6, <2>2, <3>2
  <2> QED
    BY <2>1, <2>2
<1>9. c <= j[b]
  BY <1>1, <1>2, <1>6
<1> QED
  BY <1>3, <1>4, <1>7, <1>8, <1>9 DEF Room

LEMMA RoomTail ==
    ASSUME NEW q \in Seq(Element), q # <<>>, NEW b \in 1..Len(q), NEW c \in Nat, NEW g \in Nat,
           Room(q, b, c, g)
    PROVE  Room(Tail(q), b - 1, c, g)
<1>1. PICK k \in [0..Len(q) -> 0..g] : Ledger(k, q, b) /\ c <= k[b]
  BY DEF Room
<1>2. PICK n \in Nat : Len(q) = n + 1
  <2>1. Len(q) \in Nat /\ Len(q) # 0
    OBVIOUS
  <2>2. Len(q) - 1 \in Nat /\ Len(q) = (Len(q) - 1) + 1
    BY <2>1
  <2> QED
    BY <2>2
<1>3. PICK r \in Seq(Element) : r = Tail(q)
  <2>1. Tail(q) \in Seq(Element)
    OBVIOUS
  <2> QED
    BY <2>1
<1>4. Len(r) = n /\ \A i \in 1..n : r[i] = q[i + 1]
  BY <1>2, <1>3
<1>5. PICK j : j = [i \in 0..n |-> k[i + 1]]
  OBVIOUS
<1>6. \A i \in 0..n : i + 1 \in 0..Len(q)
  BY <1>2
<1>7. j \in [0..n -> 0..g]
  BY <1>5, <1>6
<1>8. Ledger(j, r, b - 1)
  <2> SUFFICES ASSUME NEW i \in ((b - 1) + 1)..n
               PROVE  j[i - 1] <= j[i] /\ (r[i].kind = "stanza" => j[i - 1] < j[i])
    BY <1>4 DEF Ledger
  <2>1. /\ i + 1 \in (b + 1)..Len(q) /\ i \in 1..n /\ i \in 0..n /\ i - 1 \in 0..n
        /\ (i + 1) - 1 = i /\ (i - 1) + 1 = i
    BY <1>2
  <2>2. k[i] <= k[i + 1] /\ (q[i + 1].kind = "stanza" => k[i] < k[i + 1])
    BY <1>1, <2>1 DEF Ledger
  <2>3. j[i] = k[i + 1] /\ j[i - 1] = k[i]
    BY <1>5, <2>1
  <2> QED
    BY <1>4, <2>1, <2>2, <2>3
<1>9. c <= j[b - 1]
  <2>1. b - 1 \in 0..n /\ (b - 1) + 1 = b
    BY <1>2
  <2> QED
    BY <1>1, <1>5, <2>1
<1> QED
  BY <1>3, <1>4, <1>7, <1>8, <1>9 DEF Room

(* Reading a stanza uses room for one.                                      *)
LEMMA RoomRead ==
    ASSUME NEW q \in Seq(Element), q # <<>>, NEW c \in Nat, NEW g \in Nat, Room(q, 0, c, g)
    PROVE  /\ Room(Tail(q), 0, c, g)
           /\ Head(q).kind = "stanza" => Room(Tail(q), 0, c + 1, g)
<1>1. PICK k \in [0..Len(q) -> 0..g] : Ledger(k, q, 0) /\ c <= k[0]
  BY DEF Room
<1>2. 1 \in 1..Len(q) /\ 0 \in 0..Len(q) /\ 1 \in 0..Len(q) /\ Head(q) = q[1]
  OBVIOUS
<1>3. k[0] <= k[1] /\ (q[1].kind = "stanza" => k[0] < k[1])
  <2>1. 1 \in (0 + 1)..Len(q) /\ 1 - 1 = 0
    BY <1>2
  <2> QED
    BY <1>1, <2>1 DEF Ledger
<1>4. Ledger(k, q, 1)
  <2> SUFFICES ASSUME NEW i \in (1 + 1)..Len(q)
               PROVE  k[i - 1] <= k[i] /\ (q[i].kind = "stanza" => k[i - 1] < k[i])
    BY DEF Ledger
  <2>1. i \in (0 + 1)..Len(q)
    OBVIOUS
  <2> QED
    BY <1>1, <2>1 DEF Ledger
<1>5. k[0] \in Nat /\ k[1] \in Nat
  BY <1>2
<1>6. Room(q, 1, c, g)
  BY <1>1, <1>3, <1>4, <1>5 DEF Room
<1>7. q[1].kind = "stanza" => Room(q, 1, c + 1, g)
  <2>1. q[1].kind = "stanza" => c + 1 <= k[1]
    BY <1>1, <1>3, <1>5
  <2> QED
    BY <1>4, <2>1 DEF Room
<1>8. 1 - 1 = 0 /\ c + 1 \in Nat
  OBVIOUS
<1>9. Room(Tail(q), 0, c, g)
  BY <1>2, <1>6, <1>8, RoomTail
<1>10. q[1].kind = "stanza" => Room(Tail(q), 0, c + 1, g)
  BY <1>2, <1>7, <1>8, RoomTail
<1> QED
  BY <1>2, <1>9, <1>10

LEMMA EnabledTail ==
    ASSUME NEW q \in Seq(Element), q # <<>>, NEW g \in Nat, EnabledRoom(q, g)
    PROVE  /\ EnabledRoom(Tail(q), g)
           /\ Head(q).kind = "enabled" => Room(Tail(q), 0, 0, g)
<1>1. PICK r \in Seq(Element) : r = Tail(q)
  <2>1. Tail(q) \in Seq(Element)
    OBVIOUS
  <2> QED
    BY <2>1
<1>2. ASSUME NEW e \in 1..Len(r), r[e].kind = "enabled" PROVE Room(r, e, 0, g)
  <2>1. e + 1 \in 1..Len(q) /\ r[e] = q[e + 1] /\ (e + 1) - 1 = e
    BY <1>1
  <2>2. Room(q, e + 1, 0, g)
    BY <1>2, <2>1 DEF EnabledRoom
  <2> QED
    BY <1>1, <2>1, <2>2, RoomTail
<1>3. ASSUME Head(q).kind = "enabled" PROVE Room(r, 0, 0, g)
  <2>1. 1 \in 1..Len(q) /\ Head(q) = q[1] /\ 1 - 1 = 0
    OBVIOUS
  <2>2. Room(q, 1, 0, g)
    BY <1>3, <2>1 DEF EnabledRoom
  <2> QED
    BY <1>1, <2>1, <2>2, RoomTail
<1> QED
  BY <1>1, <1>2, <1>3 DEF EnabledRoom

LEMMA EnabledAppend ==
    ASSUME NEW q \in Seq(Element), NEW m \in Element, NEW g \in Nat, NEW h \in Nat,
           EnabledRoom(q, g), g <= h, m.kind = "stanza" => g < h
    PROVE  EnabledRoom(Append(q, m), h)
<1>1. PICK r \in Seq(Element) : r = Append(q, m)
  <2>1. Append(q, m) \in Seq(Element)
    OBVIOUS
  <2> QED
    BY <2>1
<1>2. Len(r) = Len(q) + 1 /\ r[Len(q) + 1] = m /\ \A i \in 1..Len(q) : r[i] = q[i]
  BY <1>1
<1>3. ASSUME NEW e \in 1..Len(r), r[e].kind = "enabled" PROVE Room(r, e, 0, h)
  <2>1. CASE e \in 1..Len(q)
    <3>1. Room(q, e, 0, g) /\ e \in 0..Len(q)
      BY <1>2, <1>3, <2>1 DEF EnabledRoom
    <3> QED
      BY <1>1, <3>1, RoomAppend
  <2>2. CASE e = Len(r)
    <3>1. Room(r, Len(r), 0, h)
      BY RoomEnd
    <3> QED
      BY <2>2, <3>1
  <2> QED
    BY <1>2, <2>1, <2>2
<1> QED
  BY <1>1, <1>3 DEF EnabledRoom
LEMMA InitCountInv == Init => CountInv
<1> SUFFICES ASSUME Init PROVE CountInv
  OBVIOUS
<1>1. ~enabled /\ enabled \in BOOLEAN /\ counting \in BOOLEAN
  BY Zenon DEF Init
<1>2. Counts /\ counted = 0 /\ enabling = "idle" /\ stream = "up"
  BY <1>1 DEF Init, Counts, Sent
<1>3. Len(toClient) = 0 /\ Len(toServer) = 0
  BY DEF Init
<1>4. EnabledRoom(toClient, Sent)
  BY <1>3 DEF EnabledRoom
<1>5. inbound = counted % Modulus
  BY ModulusAssumption DEF Init
<1> QED
  BY <1>1, <1>2, <1>3, <1>4, <1>5 DEF CountInv

(* An element written to the server changes nothing of the count, unless it *)
(* asks for resumption.                                                     *)
LEMMA WriteKeeps ==
    ASSUME CountInv, NEW m \in Element, m.kind # "resume", toServer' = Append(toServer, m),
           UNCHANGED <<toClient, handled, enabled, counting, counted, given, strays, inbound, stream>>,
           enabling' = "got" => enabling = "got"
    PROVE  CountInv'
<1> Sent' = Sent
  BY DEF Sent
<1>1. toServer \in Seq(Element)
  BY DEF CountInv, Counts
<1>2. /\ toServer' \in Seq(Element) /\ Len(toServer') = Len(toServer) + 1
      /\ toServer'[Len(toServer) + 1] = m
      /\ \A i \in 1..Len(toServer) : toServer'[i] = toServer[i]
  BY <1>1
<1>3. Counts'
  BY <1>2 DEF CountInv, Counts
<1>4. ASSUME NEW i \in 1..Len(toServer'), toServer'[i].kind = "resume" PROVE enabled
  <2>1. i # Len(toServer) + 1
    BY <1>2, <1>4
  <2>2. i \in 1..Len(toServer)
    BY <1>1, <1>2, <2>1
  <2> QED
    BY <1>2, <1>4, <2>2 DEF CountInv
<1> QED
  BY <1>3, <1>4 DEF CountInv

(* Reading an element that is no stanza while stream management is enabled. *)
LEMMA ReadsKeep ==
    ASSUME CountInv, toClient # <<>>, toClient' = Tail(toClient),
           UNCHANGED <<handled, enabled, counting, given, strays>>,
           stream' \in {stream, "up"} \/ stream # "up",
           toServer' \in Seq(Element),
           \A i \in 1..Len(toServer') : toServer'[i].kind = "resume" => enabled,
           \/ UNCHANGED <<counted, inbound>>
           \/ /\ enabled /\ Head(toClient).kind = "stanza"
              /\ counted' = counted + 1 /\ inbound' = (inbound + 1) % Modulus,
           \/ enabling' = "got" => enabling = "got"
           \/ Head(toClient).kind = "enabled"
    PROVE  CountInv'
<1> Sent' = Sent
  BY DEF Sent
<1>1. toClient \in Seq(Element) /\ Sent \in Nat /\ counted \in Nat
  BY DEF CountInv, Counts
<1>2. /\ toClient' \in Seq(Element) /\ Head(toClient) = toClient[1] /\ 1 \in 1..Len(toClient)
      /\ \A i \in 1..Len(toClient') : i + 1 \in 1..Len(toClient) /\ toClient'[i] = toClient[i + 1]
  BY <1>1
<1>3. EnabledRoom(toClient', Sent) /\ (Head(toClient).kind = "enabled" => Room(toClient', 0, 0, Sent))
  BY <1>1, EnabledTail DEF CountInv
<1>4. enabling = "got" => Room(toClient', 0, 0, Sent)
  BY <1>1, RoomRead DEF CountInv
<1>5. enabling' = "got" => Room(toClient', 0, 0, Sent)
  BY <1>3, <1>4
<1>6. Head(toClient).kind = "enabled" => counting
  BY <1>2 DEF CountInv, Counts
<1>7. enabled => Room(toClient', 0, counted', Sent)
  BY <1>1, RoomRead DEF CountInv
<1>8. counted' \in Nat /\ inbound' = counted' % Modulus
  <2>1. inbound = counted % Modulus
    BY DEF CountInv
  <2>2. ((counted % Modulus) + 1) % Modulus = (counted + 1) % Modulus
    BY <1>1, ModulusAssumption, ModCounts
  <2> QED
    BY <1>1, <2>1, <2>2
<1>9. Counts'
  BY <1>2, <1>8 DEF CountInv, Counts
<1>10. ~enabled => counted' = 0
  BY DEF CountInv
<1>11. ~counting => /\ ~enabled /\ enabling' # "got"
                    /\ \A i \in 1..Len(toClient') : toClient'[i].kind # "enabled"
  BY <1>2, <1>6 DEF CountInv
<1>12. \A i \in 1..Len(toClient') : toClient'[i].kind = "resumed" => enabled
  BY <1>2 DEF CountInv
<1> QED
  BY <1>3, <1>5, <1>7, <1>8, <1>9, <1>10, <1>11, <1>12 DEF CountInv

(* The server sends the client an element: a stanza is counted once it      *)
(* counts, and <enabled/> says that it does.                                *)
LEMMA GivesKeep ==
    ASSUME CountInv, NEW m \in Element, toClient' = Append(toClient, m),
           UNCHANGED <<handled, enabled, counted, inbound, enabling, stream>>,
           counting' \in BOOLEAN, counting => counting', m.kind = "enabled" => counting',
           m.kind = "resumed" => enabled,
           given' \in Nat, strays' \in Nat,
           Sent' = IF counting /\ m.kind = "stanza" THEN Sent + 1 ELSE Sent,
           toServer' = toServer \/ (toServer # <<>> /\ toServer' = Tail(toServer))
    PROVE  CountInv'
<1>1. toClient \in Seq(Element) /\ toServer \in Seq(Element) /\ Sent \in Nat /\ counted \in Nat
  BY DEF CountInv, Counts
<1>2. /\ toClient' \in Seq(Element) /\ Len(toClient') = Len(toClient) + 1
      /\ toClient'[Len(toClient) + 1] = m
      /\ \A i \in 1..Len(toClient) : toClient'[i] = toClient[i]
  BY <1>1
<1>3. /\ toServer' \in Seq(Element)
      /\ \A i \in 1..Len(toServer') : toServer'[i].kind = "resume" => enabled
  <2>1. CASE toServer' = toServer
    BY <1>1, <2>1 DEF CountInv
  <2>2. CASE toServer # <<>> /\ toServer' = Tail(toServer)
    <3>1. /\ toServer' \in Seq(Element)
          /\ \A i \in 1..Len(toServer') : i + 1 \in 1..Len(toServer) /\ toServer'[i] = toServer[i + 1]
      BY <1>1, <2>2
    <3> QED
      BY <3>1 DEF CountInv
  <2> QED
    BY <2>1, <2>2
<1>4. Sent' \in Nat /\ Sent <= Sent' /\ (counting /\ m.kind = "stanza" => Sent < Sent')
  BY <1>1
<1>5. Counts'
  BY <1>2, <1>3, <1>4 DEF CountInv, Counts
<1>6. ASSUME NEW i \in 1..Len(toClient') PROVE i = Len(toClient) + 1 \/ i \in 1..Len(toClient)
  BY <1>1, <1>2
<1>7. \A i \in 1..Len(toClient') : toClient'[i].kind = "resumed" => enabled
  BY <1>2, <1>6 DEF CountInv
<1>8. ~counting' => /\ ~enabled /\ enabling # "got"
                    /\ \A i \in 1..Len(toClient') : toClient'[i].kind # "enabled"
  BY <1>2, <1>6 DEF CountInv
<1>9. 0 \in 0..Len(toClient)
  BY <1>1
<1>10. enabled => Room(toClient', 0, counted, Sent')
  <2> SUFFICES ASSUME enabled PROVE Room(toClient', 0, counted, Sent')
    OBVIOUS
  <2>1. Room(toClient, 0, counted, Sent) /\ counting
    BY DEF CountInv, Counts
  <2> QED
    BY <1>1, <1>4, <1>9, <2>1, RoomAppend
<1>11. enabling = "got" => Room(toClient', 0, 0, Sent')
  <2> SUFFICES ASSUME enabling = "got" PROVE Room(toClient', 0, 0, Sent')
    OBVIOUS
  <2>1. Room(toClient, 0, 0, Sent) /\ counting
    BY DEF CountInv, Counts
  <2> QED
    BY <1>1, <1>4, <1>9, <2>1, RoomAppend
<1>12. EnabledRoom(toClient', Sent')
  <2>1. CASE counting \/ m.kind # "stanza"
    BY <1>1, <1>4, <2>1, EnabledAppend DEF CountInv
  <2>2. CASE ~counting /\ m.kind = "stanza"
    <3>1. \A i \in 1..Len(toClient') : toClient'[i].kind # "enabled"
      BY <1>2, <1>6, <2>2 DEF CountInv
    <3> QED
      BY <3>1 DEF EnabledRoom
  <2> QED
    BY <2>1, <2>2
<1> QED
  BY <1>3, <1>5, <1>7, <1>8, <1>10, <1>11, <1>12 DEF CountInv
(* The client's side: Send, Enable and the reader.                          *)
LEMMA SendCounts ==
    ASSUME CountInv, NEW s \in Senders, SendWrite(s) \/ OnSent(s), holds' \in [Senders -> {0} \cup Stanzas]
    PROVE  CountInv'
<1>1. CASE SendWrite(s)
  <2>1. PICK m : m = El("stanza", holds'[s])
    OBVIOUS
  <2>2. m \in Element /\ m.kind = "stanza"
    <3>1. holds'[s] \in Nat
      BY BoundsAssumption DEF Stanzas
    <3> QED
      BY <2>1, <3>1 DEF Element, El
  <2>3. /\ toServer' = Append(toServer, m) /\ enabling' = enabling
        /\ UNCHANGED <<toClient, handled, enabled, counting, counted, given, strays, inbound, stream>>
    BY <1>1, <2>1 DEF SendWrite, smVars, serverVars
  <2> QED
    BY <2>2, <2>3, WriteKeeps
<1>2. CASE OnSent(s)
  <2>1. UNCHANGED <<toClient, toServer, handled, enabled, counting, counted, given, strays, inbound, stream,
                    enabling>>
    BY <1>2 DEF OnSent, serverVars
  <2> Sent' = Sent
    BY <2>1 DEF Sent
  <2> QED
    BY <2>1 DEF CountInv, Counts
<1> QED
  BY <1>1, <1>2

LEMMA EnableCounts == ASSUME CountInv, EnableSend \/ EnableTake \/ EnableGivesUp PROVE CountInv'
<1>1. CASE EnableSend
  <2>1. PICK m : m = El("enable", 0)
    OBVIOUS
  <2>2. m \in Element /\ m.kind = "enable"
    BY <2>1 DEF Element, El
  <2>3. /\ toServer' = Append(toServer, m) /\ enabling' = "sent"
        /\ UNCHANGED <<toClient, handled, enabled, counting, counted, given, strays, inbound, stream>>
    BY <1>1, <2>1 DEF EnableSend, smVars, serverVars
  <2> QED
    BY <2>2, <2>3, WriteKeeps
<1>2. CASE EnableTake
  <2>1. /\ enabled' = TRUE /\ inbound' = 0 /\ counted' = 0 /\ enabling = "got" /\ enabling' = "over"
        /\ UNCHANGED <<toClient, toServer, handled, counting, given, strays, stream>>
    BY <1>2 DEF EnableTake, serverVars
  <2> Sent' = Sent
    BY <2>1 DEF Sent
  <2>2. enabled'
    BY <2>1
  <2>3. Room(toClient, 0, 0, Sent) /\ counting
    BY <2>1 DEF CountInv, Counts
  <2>4. inbound' = counted' % Modulus
    BY <2>1, ModulusAssumption
  <2>5. Counts'
    <3>1. enabled' \in BOOLEAN
      BY <2>2
    <3> QED
      BY <2>1, <3>1 DEF CountInv, Counts
  <2>6. Room(toClient, 0, counted, Sent)'
    BY <2>1, <2>3
  <2>7. EnabledRoom(toClient, Sent)' /\ counting'
    BY <2>1, <2>3 DEF CountInv
  <2> QED
    BY <2>1, <2>2, <2>4, <2>5, <2>6, <2>7 DEF CountInv
<1>3. CASE EnableGivesUp
  <2>1. /\ enabling' = "over"
        /\ UNCHANGED <<toClient, toServer, handled, enabled, counting, counted, given, strays, inbound, stream>>
    BY <1>3 DEF EnableGivesUp, smVars, serverVars
  <2> Sent' = Sent
    BY <2>1 DEF Sent
  <2> QED
    BY <2>1 DEF CountInv, Counts
<1> QED
  BY <1>1, <1>2, <1>3

LEMMA ReaderCounts ==
    ASSUME CountInv, OnReceived \/ OnEnabled \/ OnFailed \/ OnRequest \/ OnAck \/ OnResumed
    PROVE  CountInv'
<1>1. toClient # <<>> /\ toClient' = Tail(toClient)
  BY DEF OnReceived, OnEnabled, OnFailed, OnRequest, OnAck, OnResumed, Read
<1>2. /\ UNCHANGED <<handled, counting, given, strays>> /\ (stream' \in {stream, "up"} \/ stream # "up")
      /\ toClient \in Seq(Element) /\ toServer \in Seq(Element) /\ enabled \in BOOLEAN
      /\ counted \in Nat /\ inbound = counted % Modulus
  BY DEF OnReceived, OnEnabled, OnFailed, OnRequest, OnAck, OnResumed, serverVars, CountInv, Counts
<1>3. enabled' = enabled
  <2>1. CASE OnResumed
    <3>1. Head(toClient).kind = "resumed" /\ Head(toClient) = toClient[1] /\ 1 \in 1..Len(toClient)
      BY <1>1, <1>2, <2>1 DEF OnResumed, Read
    <3>2. enabled
      BY <3>1 DEF CountInv
    <3> QED
      BY <1>2, <2>1, <3>2 DEF OnResumed
  <2> QED
    BY <2>1 DEF OnReceived, OnEnabled, OnFailed, OnRequest, OnAck, smVars
<1>4. toServer' \in Seq(Element) /\ \A i \in 1..Len(toServer') : toServer'[i].kind = "resume" => enabled
  <2>1. CASE toServer' = toServer
    BY <1>2, <2>1 DEF CountInv
  <2>2. CASE toServer' = Append(toServer, El("a", inbound))
    <3>1. PICK m : m = El("a", inbound)
      OBVIOUS
    <3>2. inbound \in Nat
      BY <1>2, ModulusAssumption, ModRange
    <3>3. m \in Element /\ m.kind = "a"
      BY <3>1, <3>2 DEF Element, El
    <3>4. /\ toServer' \in Seq(Element) /\ Len(toServer') = Len(toServer) + 1
          /\ toServer'[Len(toServer) + 1] = m
          /\ \A i \in 1..Len(toServer) : toServer'[i] = toServer[i]
      BY <1>2, <2>2, <3>1, <3>3
    <3>5. \A i \in 1..Len(toServer') : i = Len(toServer) + 1 \/ i \in 1..Len(toServer)
      BY <1>2, <3>4
    <3> QED
      BY <3>3, <3>4, <3>5 DEF CountInv
  <2>3. toServer' = toServer \/ toServer' = Append(toServer, El("a", inbound))
    BY DEF OnReceived, OnEnabled, OnFailed, OnRequest, OnAck, OnResumed
  <2> QED
    BY <2>1, <2>2, <2>3
<1>5. \/ UNCHANGED <<counted, inbound>>
      \/ /\ enabled /\ Head(toClient).kind = "stanza"
         /\ counted' = counted + 1 /\ inbound' = (inbound + 1) % Modulus
  BY DEF OnReceived, OnEnabled, OnFailed, OnRequest, OnAck, OnResumed, Read, smVars
<1>6. \/ enabling' = "got" => enabling = "got"
      \/ Head(toClient).kind = "enabled"
  BY DEF OnReceived, OnEnabled, OnFailed, OnRequest, OnAck, OnResumed, Read
<1> QED
  BY <1>1, <1>2, <1>3, <1>4, <1>5, <1>6, ReadsKeep

(* The connection and the server.                                           *)
LEMMA StreamCounts == ASSUME CountInv, Drop \/ Reconnect \/ Resume PROVE CountInv'
<1>1. CASE Drop
  <2>1. /\ enabled /\ toServer' = <<>> /\ toClient' = <<>>
        /\ UNCHANGED <<handled, enabled, counting, counted, given, strays, inbound, enabling>>
    BY <1>1 DEF Drop, smVars, serverVars
  <2> Sent' = Sent
    BY <2>1 DEF Sent
  <2>2. counted \in Nat /\ Sent \in Nat /\ toClient \in Seq(Element)
    BY DEF CountInv, Counts
  <2>3. counted <= Sent
    <3>1. Room(toClient, 0, counted, Sent) /\ 0 \in 0..Len(toClient)
      BY <2>1, <2>2 DEF CountInv
    <3> QED
      BY <2>2, <3>1, RoomBound
  <2>4. Len(toServer') = 0 /\ Len(toClient') = 0 /\ toServer' \in Seq(Element) /\ toClient' \in Seq(Element)
    BY <2>1
  <2>5. PICK q \in Seq(Element) : q = toClient'
    BY <2>4
  <2>6. Room(q, Len(q), counted, Sent) /\ Room(q, Len(q), 0, Sent)
    BY <2>2, <2>3, RoomEnd
  <2>7. Room(toClient', 0, counted, Sent) /\ Room(toClient', 0, 0, Sent)
    BY <2>4, <2>5, <2>6
  <2>8. EnabledRoom(toClient', Sent)
    BY <2>4 DEF EnabledRoom
  <2>9. Counts'
    BY <2>1, <2>4 DEF CountInv, Counts
  <2> QED
    BY <2>1, <2>4, <2>7, <2>8, <2>9 DEF CountInv
<1>2. CASE Reconnect
  <2>1. /\ stream # "up"
        /\ UNCHANGED <<toClient, toServer, handled, enabled, counting, counted, given, strays, inbound,
                       enabling>>
    BY <1>2 DEF Reconnect, smVars, serverVars
  <2> Sent' = Sent
    BY <2>1 DEF Sent
  <2> QED
    BY <2>1 DEF CountInv, Counts
<1>3. CASE Resume
  <2>1. /\ stream # "up" /\ toServer' = Append(toServer, El("resume", inbound))
        /\ UNCHANGED <<toClient, handled, enabled, counting, counted, given, strays, inbound, enabling>>
    BY <1>3 DEF Resume, smVars, serverVars
  <2> Sent' = Sent
    BY <2>1 DEF Sent
  <2>2. enabled /\ inbound = counted % Modulus /\ counted \in Nat /\ toServer \in Seq(Element)
    BY <2>1 DEF CountInv, Counts
  <2>3. El("resume", inbound) \in Element
    <3>1. inbound \in Nat
      BY <2>2, ModulusAssumption, ModRange
    <3> QED
      BY <3>1 DEF Element, El
  <2>4. toServer' \in Seq(Element)
    BY <2>1, <2>2, <2>3
  <2>5. Counts'
    BY <2>1, <2>4 DEF CountInv, Counts
  <2> QED
    BY <2>1, <2>2, <2>5 DEF CountInv
<1> QED
  BY <1>1, <1>2, <1>3

LEMMA TakesCounts == ASSUME CountInv, ServerTakes PROVE CountInv'
<1>1. /\ toServer # <<>> /\ toServer' = Tail(toServer)
      /\ UNCHANGED <<enabled, inbound, counted, enabling, stream, given, strays>>
      /\ toServer \in Seq(Element) /\ handled \in Seq(Nat) /\ counting \in BOOLEAN
      /\ given \in Nat /\ strays \in Nat
  BY DEF ServerTakes, smVars, serverVars, CountInv, Counts
<1> Sent' = Sent
  BY <1>1 DEF Sent
<1>2. PICK m : m = Head(toServer)
  OBVIOUS
<1>3. m \in Element /\ m = toServer[1] /\ 1 \in 1..Len(toServer)
  BY <1>1, <1>2
<1>4. m.n \in Nat
  BY <1>3 DEF Element
<1>5. CASE m.kind = "enable"
  <2>1. \/ /\ counting' = TRUE /\ toClient' = Append(toClient, El("enabled", 0))
           /\ UNCHANGED <<handled, given, strays>>
        \/ /\ toClient' = Append(toClient, El("failed", 0))
           /\ UNCHANGED <<counting, handled, given, strays>>
    BY <1>2, <1>5 DEF ServerTakes, serverVars
  <2>2. El("enabled", 0) \in Element /\ El("failed", 0) \in Element
    BY DEF Element, El
  <2>3. CASE counting' = TRUE /\ toClient' = Append(toClient, El("enabled", 0)) /\ UNCHANGED <<handled, given, strays>>
    <3>1. counting' /\ counting' \in BOOLEAN
      BY <2>3
    <3> QED
      BY <1>1, <2>2, <2>3, <3>1, ElFields, GivesKeep
  <2>4. CASE toClient' = Append(toClient, El("failed", 0)) /\ UNCHANGED <<counting, handled, given, strays>>
    BY <1>1, <2>2, <2>4, ElFields, GivesKeep
  <2> QED
    BY <2>1, <2>3, <2>4
<1>6. CASE m.kind = "resume"
  <2>1. PICK r : r = El("resumed", Len(handled) % Modulus)
    OBVIOUS
  <2>2. /\ toClient' = Append(toClient, r) \/ toClient' = Append(toClient, El("failed", 0))
        /\ UNCHANGED <<counting, handled, given, strays>>
    BY <1>2, <1>6, <2>1 DEF ServerTakes, serverVars
  <2>3. r \in Element /\ r.kind = "resumed"
    <3>1. Len(handled) % Modulus \in Nat
      BY <1>1, ModulusAssumption, ModRange
    <3> QED
      BY <2>1, <3>1 DEF Element, El
  <2>4. enabled
    BY <1>3, <1>6 DEF CountInv
  <2>5. El("failed", 0) \in Element
    BY DEF Element, El
  <2>6. CASE toClient' = Append(toClient, r)
    BY <1>1, <2>2, <2>3, <2>4, <2>6, GivesKeep
  <2>7. CASE toClient' = Append(toClient, El("failed", 0))
    BY <1>1, <2>2, <2>5, <2>7, ElFields, GivesKeep
  <2> QED
    BY <2>2, <2>6, <2>7
<1>7. CASE m.kind \notin {"enable", "resume"}
  <2>1. UNCHANGED <<counting, given, strays, toClient>> /\ handled' \in {handled, Append(handled, m.n)}
    BY <1>2, <1>7 DEF ServerTakes, serverVars
  <2>2. handled' \in Seq(Nat)
    <3>1. Append(handled, m.n) \in Seq(Nat)
      BY <1>1, <1>4
    <3> QED
      BY <1>1, <2>1, <3>1
  <2>3. /\ toServer' \in Seq(Element)
        /\ \A i \in 1..Len(toServer') : i + 1 \in 1..Len(toServer) /\ toServer'[i] = toServer[i + 1]
    BY <1>1
  <2>4. Counts'
    BY <1>1, <2>1, <2>2, <2>3 DEF CountInv, Counts
  <2> QED
    BY <1>1, <2>1, <2>3, <2>4 DEF CountInv
<1> QED
  BY <1>5, <1>6, <1>7

LEMMA SendsCounts == ASSUME CountInv, ServerSends PROVE CountInv'
<1>1. /\ UNCHANGED <<enabled, inbound, counted, enabling, stream, handled, toServer, counting>>
      /\ handled \in Seq(Nat) /\ counting \in BOOLEAN /\ given \in Nat /\ strays \in Nat
      /\ given' \in Nat /\ strays' \in Nat
  BY DEF ServerSends, smVars, CountInv, Counts
<1>2. PICK a : a = El("a", Len(handled) % Modulus)
  OBVIOUS
<1>3. a \in Element /\ a.kind = "a"
  <2>1. Len(handled) % Modulus \in Nat
    BY <1>1, ModulusAssumption, ModRange
  <2> QED
    BY <1>2, <2>1 DEF Element, El
<1>4. El("stanza", 0) \in Element /\ El("r", 0) \in Element
  BY DEF Element, El
<1>5. PICK m \in Element :
          /\ m.kind \in {"stanza", "r", "a"} /\ toClient' = Append(toClient, m)
          /\ Sent' = IF counting /\ m.kind = "stanza" THEN Sent + 1 ELSE Sent
  <2>1. CASE toClient' = Append(toClient, El("stanza", 0)) /\ Sent' = IF counting THEN Sent + 1 ELSE Sent
    BY <1>4, <2>1, ElFields
  <2>2. CASE toClient' = Append(toClient, El("r", 0)) /\ Sent' = Sent
    BY <1>4, <2>2, ElFields
  <2>3. CASE toClient' = Append(toClient, a) /\ Sent' = Sent
    BY <1>3, <2>3
  <2>4. \/ /\ toClient' = Append(toClient, El("stanza", 0))
           /\ given' = IF counting /\ managed THEN given + 1 ELSE given
           /\ strays' = IF counting /\ ~managed THEN strays + 1 ELSE strays
        \/ toClient' = Append(toClient, El("r", 0)) /\ UNCHANGED <<given, strays>>
        \/ toClient' = Append(toClient, a) /\ UNCHANGED <<given, strays>>
    BY <1>2 DEF ServerSends
  <2>5. UNCHANGED <<given, strays>> => Sent' = Sent
    BY DEF Sent
  <2>6. /\ given' = IF counting /\ managed THEN given + 1 ELSE given
        /\ strays' = IF counting /\ ~managed THEN strays + 1 ELSE strays
        => Sent' = IF counting THEN Sent + 1 ELSE Sent
    BY <1>1 DEF Sent
  <2> QED
    BY <2>1, <2>2, <2>3, <2>4, <2>5, <2>6
<1> QED
  BY <1>1, <1>5, GivesKeep
-----------------------------------------------------------------------------
(* Stream management: types.  A stanza under way to the server is one of    *)
(* the client's, and an acknowledged count is one of the counter's values.  *)

Outward == {m \in Element : m.kind = "stanza" => m.n \in Stanzas}
Inward == {m \in Element : m.kind \in {"a", "resumed"} => m.n \in 0..(Modulus - 1)}

TypeInv == TypeOK /\ toServer \in Seq(Outward) /\ toClient \in Seq(Inward)

LEMMA SeqElement == Seq(Outward) \subseteq Seq(Element) /\ Seq(Inward) \subseteq Seq(Element)
<1>1. Outward \subseteq Element /\ Inward \subseteq Element
  BY DEF Outward, Inward
<1> QED
  BY <1>1

LEMMA WrapRange == ASSUME NEW c \in Int PROVE c % Modulus \in 0..(Modulus - 1)
  BY ModulusAssumption

(* An acknowledgement takes some stanzas off the front of the queue.        *)
LEMMA AckDrops ==
    ASSUME TypeInv, NEW h \in 0..(Modulus - 1), ApplyAck(h)
    PROVE  \E d \in 0..Len(unacked) :
               /\ unacked' = SubSeq(unacked, d + 1, Len(unacked))
               /\ d <= (h + Modulus - acked) % Modulus
               /\ d = (h + Modulus - acked) % Modulus \/ d = Len(unacked)
<1>1. h + Modulus - acked \in Int /\ unacked \in Seq(Stanzas)
  BY ModulusAssumption DEF TypeInv, TypeOK
<1>2. PICK x \in Nat : x = (h + Modulus - acked) % Modulus
  BY <1>1, WrapRange
<1>3. PICK d : d = IF x > Len(unacked) THEN Len(unacked) ELSE x
  OBVIOUS
<1>4. d \in 0..Len(unacked) /\ d <= x /\ (d = x \/ d = Len(unacked))
  BY <1>1, <1>3
<1>5. unacked' = SubSeq(unacked, d + 1, Len(unacked))
  BY <1>2, <1>3 DEF ApplyAck
<1> QED
  BY <1>2, <1>4, <1>5

LEMMA ApplyTypes ==
    ASSUME TypeInv, NEW h \in 0..(Modulus - 1), ApplyAck(h)
    PROVE  unacked' \in Seq(Stanzas) /\ acked' \in 0..(Modulus - 1)
<1>1. PICK d \in 0..Len(unacked) : unacked' = SubSeq(unacked, d + 1, Len(unacked))
  BY AckDrops
<1>2. unacked \in Seq(Stanzas)
  BY DEF TypeInv, TypeOK
<1>3. unacked' \in Seq(Stanzas)
  BY <1>1, <1>2
<1> QED
  BY <1>3 DEF ApplyAck

LEMMA InitTypeInv == Init => TypeInv
<1> SUFFICES ASSUME Init PROVE TypeInv
  OBVIOUS
<1>1. enabled \in BOOLEAN /\ counting \in BOOLEAN /\ managed \in BOOLEAN /\ orderly \in BOOLEAN
  BY Zenon DEF Init
<1> QED
  BY <1>1, ModulusAssumption, BoundsAssumption DEF Init, TypeInv, TypeOK

LEMMA SendTypes == ASSUME TypeInv, NEW s \in Senders, SendWrite(s) PROVE TypeInv'
<1>1. /\ orderly' = (/\ orderly /\ enabling \notin {"sent", "got"} /\ stream # "resuming"
                     /\ \A x \in Senders : holds[x] = 0)
      /\ UNCHANGED <<enabled, inbound, outbound, acked, unacked, enabling, toClient, stream, counting,
                     managed, handled, taken, given, strays, counted, recorded, nextServer, drops>>
  BY DEF SendWrite, smVars, serverVars
<1>2. orderly' \in BOOLEAN
  BY <1>1, Zenon
<1>3. PICK n : holds' = [holds EXCEPT ![s] = n] /\ toServer' = Append(toServer, El("stanza", holds'[s]))
               /\ n \in Stanzas /\ replay' \in Seq(Stanzas) /\ nextStanza' \in 1..(MaxSend + 1)
  <2>1. /\ replay \in Seq(Stanzas) /\ nextStanza \in 1..(MaxSend + 1)
        /\ toServer' = Append(toServer, El("stanza", holds'[s]))
    BY DEF SendWrite, TypeInv, TypeOK
  <2>2. CASE replay # <<>> /\ holds' = [holds EXCEPT ![s] = Head(replay)] /\ replay' = Tail(replay)
             /\ nextStanza' = nextStanza
    <3>1. Head(replay) \in Stanzas /\ Tail(replay) \in Seq(Stanzas)
      BY <2>1, <2>2
    <3> QED
      BY <2>1, <2>2, <3>1
  <2>3. CASE /\ nextStanza <= MaxSend /\ holds' = [holds EXCEPT ![s] = nextStanza]
             /\ nextStanza' = nextStanza + 1 /\ replay' = replay
    <3>1. nextStanza \in Stanzas /\ nextStanza + 1 \in 1..(MaxSend + 1)
      BY <2>1, <2>3, BoundsAssumption DEF Stanzas
    <3> QED
      BY <2>1, <2>3, <3>1
  <2> QED
    BY <2>2, <2>3 DEF SendWrite
<1>4. holds \in [Senders -> {0} \cup Stanzas] /\ toServer \in Seq(Outward)
  BY DEF TypeInv, TypeOK
<1>5. holds' \in [Senders -> {0} \cup Stanzas] /\ holds'[s] = n
  BY <1>3, <1>4
<1>6. El("stanza", n) \in Outward
  <2>1. n \in Nat
    BY <1>3, BoundsAssumption DEF Stanzas
  <2> QED
    BY <1>3, <2>1 DEF Outward, Element, El
<1>7. toServer' \in Seq(Outward)
  BY <1>3, <1>4, <1>5, <1>6
<1>8. toServer' \in Seq(Element)
  BY <1>7, SeqElement
<1> QED
  BY <1>1, <1>2, <1>3, <1>5, <1>7, <1>8 DEF TypeInv, TypeOK

LEMMA SentTypes == ASSUME TypeInv, NEW s \in Senders, OnSent(s) PROVE TypeInv'
<1>1. /\ UNCHANGED <<enabled, inbound, acked, enabling, toServer, toClient, stream, counting, managed,
                     handled, taken, given, strays, counted, replay, orderly, nextStanza, nextServer, drops>>
      /\ holds[s] \in Stanzas /\ holds' = [holds EXCEPT ![s] = 0]
      /\ holds \in [Senders -> {0} \cup Stanzas] /\ unacked \in Seq(Stanzas)
      /\ recorded \subseteq Stanzas /\ outbound \in 0..(Modulus - 1)
  BY DEF OnSent, serverVars, bounds, TypeInv, TypeOK
<1>2. outbound' \in 0..(Modulus - 1) /\ unacked' \in Seq(Stanzas) /\ recorded' \subseteq Stanzas
  <2>1. (outbound + 1) % Modulus \in 0..(Modulus - 1)
    <3>1. outbound + 1 \in Int
      BY <1>1, ModulusAssumption
    <3> QED
      BY <3>1, WrapRange
  <2>2. Append(unacked, holds[s]) \in Seq(Stanzas) /\ recorded \cup {holds[s]} \subseteq Stanzas
    BY <1>1
  <2> QED
    BY <1>1, <2>1, <2>2 DEF OnSent
<1>3. holds' \in [Senders -> {0} \cup Stanzas]
  BY <1>1
<1> QED
  BY <1>1, <1>2, <1>3 DEF TypeInv, TypeOK

LEMMA EnableTypes == ASSUME TypeInv, EnableSend \/ EnableTake \/ EnableGivesUp PROVE TypeInv'
<1>1. CASE EnableSend
  <2>1. /\ orderly' = (orderly /\ \A s \in Senders : holds[s] = 0) /\ enabling' = "sent"
        /\ toServer' = Append(toServer, El("enable", 0)) /\ toServer \in Seq(Outward)
        /\ UNCHANGED <<smVars, holds, toClient, stream, serverVars, counted, recorded, replay, bounds>>
    BY <1>1 DEF EnableSend, TypeInv
  <2>2. orderly' \in BOOLEAN
    BY <2>1, Zenon
  <2>3. El("enable", 0) \in Outward
    BY DEF Outward, Element, El
  <2>4. toServer' \in Seq(Outward)
    BY <2>1, <2>3
  <2>5. toServer' \in Seq(Element)
    BY <2>4, SeqElement
  <2> QED
    BY <2>1, <2>2, <2>4, <2>5 DEF TypeInv, TypeOK, smVars, serverVars, bounds
<1>2. CASE EnableTake
  <2>1. enabled' \in BOOLEAN
    BY <1>2, Zenon DEF EnableTake
  <2> QED
    BY <1>2, <2>1, ModulusAssumption DEF EnableTake, TypeInv, TypeOK, serverVars, bounds
<1>3. CASE EnableGivesUp
  BY <1>3 DEF EnableGivesUp, TypeInv, TypeOK, smVars, serverVars, bounds
<1> QED
  BY <1>1, <1>2, <1>3
LEMMA ReaderTypes ==
    ASSUME TypeInv, OnReceived \/ OnEnabled \/ OnFailed \/ OnRequest \/ OnAck \/ OnResumed
    PROVE  TypeInv'
<1>1. /\ toClient # <<>> /\ toClient' = Tail(toClient) /\ toClient \in Seq(Inward)
      /\ UNCHANGED <<outbound, holds, counting, managed, handled, taken, given, strays, recorded,
                     orderly, nextStanza, nextServer, drops>>
  BY DEF OnReceived, OnEnabled, OnFailed, OnRequest, OnAck, OnResumed, Read, smVars, serverVars,
         bounds, TypeInv
<1>2. toClient' \in Seq(Inward) /\ Head(toClient) \in Inward
  BY <1>1
<1>3. toClient' \in Seq(Element)
  BY <1>2, SeqElement
<1>4. CASE OnReceived
  <2>1. inbound' \in 0..(Modulus - 1) /\ counted' \in Nat
    <3>1. inbound + 1 \in Int /\ inbound \in 0..(Modulus - 1) /\ counted \in Nat
      BY ModulusAssumption DEF TypeInv, TypeOK
    <3>2. (inbound + 1) % Modulus \in 0..(Modulus - 1)
      BY <3>1, WrapRange
    <3> QED
      BY <1>4, <3>1, <3>2 DEF OnReceived
  <2> QED
    BY <1>1, <1>2, <1>3, <1>4, <2>1 DEF OnReceived, TypeInv, TypeOK
<1>5. CASE OnEnabled \/ OnFailed
  BY <1>1, <1>2, <1>3, <1>5 DEF OnEnabled, OnFailed, smVars, TypeInv, TypeOK
<1>6. CASE OnRequest
  <2>1. toServer \in Seq(Outward) /\ inbound \in Nat
    BY ModulusAssumption DEF TypeInv, TypeOK
  <2>2. El("a", inbound) \in Outward
    BY <2>1 DEF Outward, Element, El
  <2>3. toServer' \in Seq(Outward)
    BY <1>6, <2>1, <2>2 DEF OnRequest
  <2>4. toServer' \in Seq(Element)
    BY <2>3, SeqElement
  <2> QED
    BY <1>1, <1>2, <1>3, <1>6, <2>3, <2>4 DEF OnRequest, smVars, TypeInv, TypeOK
<1>7. CASE OnAck
  <2>1. ApplyAck(Head(toClient).n) /\ Head(toClient).n \in 0..(Modulus - 1)
    BY <1>2, <1>7 DEF OnAck, Read, Inward
  <2>2. unacked' \in Seq(Stanzas) /\ acked' \in 0..(Modulus - 1)
    BY <2>1, ApplyTypes
  <2> QED
    BY <1>1, <1>2, <1>3, <1>7, <2>2 DEF OnAck, TypeInv, TypeOK
<1>8. CASE OnResumed
  <2>1. ApplyAck(Head(toClient).n) /\ Head(toClient).n \in 0..(Modulus - 1)
    BY <1>2, <1>8 DEF OnResumed, Read, Inward
  <2>2. unacked' \in Seq(Stanzas) /\ acked' \in 0..(Modulus - 1)
    BY <2>1, ApplyTypes
  <2>3. enabled' \in BOOLEAN
    BY <1>8, Zenon DEF OnResumed
  <2> QED
    BY <1>1, <1>2, <1>3, <1>8, <2>2, <2>3 DEF OnResumed, TypeInv, TypeOK
<1> QED
  BY <1>4, <1>5, <1>6, <1>7, <1>8

LEMMA StreamTypes == ASSUME TypeInv, Drop \/ Reconnect \/ Resume PROVE TypeInv'
<1>1. CASE Drop
  <2>1. drops' \in 0..MaxDrops
    BY <1>1, BoundsAssumption DEF Drop, TypeInv, TypeOK
  <2>2. managed' \in BOOLEAN
    BY <1>1, Zenon DEF Drop
  <2> QED
    BY <1>1, <2>1, <2>2 DEF Drop, smVars, serverVars, TypeInv, TypeOK
<1>2. CASE Resume
  <2>1. orderly' \in BOOLEAN
    BY <1>2, Zenon DEF Resume
  <2>2. inbound \in Nat /\ toServer \in Seq(Outward)
    BY ModulusAssumption DEF TypeInv, TypeOK
  <2>3. El("resume", inbound) \in Outward
    BY <2>2 DEF Outward, Element, El
  <2>4. toServer' \in Seq(Outward)
    BY <1>2, <2>2, <2>3 DEF Resume
  <2>5. toServer' \in Seq(Element)
    BY <2>4, SeqElement
  <2> QED
    BY <1>2, <2>1, <2>4, <2>5 DEF Resume, smVars, serverVars, bounds, TypeInv, TypeOK
<1>3. CASE Reconnect
  BY <1>3 DEF Reconnect, smVars, serverVars, bounds, TypeInv, TypeOK
<1> QED
  BY <1>1, <1>2, <1>3

(* What the server sends.                                                   *)
LEMMA InwardElements ==
    ASSUME TypeInv
    PROVE  /\ El("enabled", 0) \in Inward /\ El("failed", 0) \in Inward
           /\ El("stanza", 0) \in Inward /\ El("r", 0) \in Inward
           /\ El("resumed", Len(handled) % Modulus) \in Inward
           /\ El("a", Len(handled) % Modulus) \in Inward
<1>1. PICK c : c = Len(handled) % Modulus
  OBVIOUS
<1>2. c \in 0..(Modulus - 1) /\ c \in Nat
  <2>1. Len(handled) \in Int
    BY DEF TypeInv, TypeOK
  <2>2. c \in 0..(Modulus - 1)
    BY <1>1, <2>1, WrapRange
  <2> QED
    BY <2>2, ModulusAssumption
<1>3. El("resumed", c) \in Inward /\ El("a", c) \in Inward
  BY <1>2 DEF Inward, Element, El
<1>4. /\ El("enabled", 0) \in Inward /\ El("failed", 0) \in Inward
      /\ El("stanza", 0) \in Inward /\ El("r", 0) \in Inward
  BY DEF Inward, Element, El
<1> QED
  BY <1>1, <1>3, <1>4

LEMMA TakesTypes == ASSUME TypeInv, ServerTakes PROVE TypeInv'
<1>1. /\ toServer # <<>> /\ toServer' = Tail(toServer) /\ toServer \in Seq(Outward)
      /\ toClient \in Seq(Inward) /\ handled \in Seq(Stanzas) /\ taken \subseteq Stanzas
      /\ UNCHANGED <<smVars, enabling, holds, stream, counted, recorded, replay, orderly, bounds>>
  BY DEF ServerTakes, TypeInv, TypeOK
<1>2. PICK m : m = Head(toServer)
  OBVIOUS
<1>3. m \in Outward /\ toServer' \in Seq(Outward)
  BY <1>1, <1>2
<1>4. m.kind = "stanza" => m.n \in Stanzas
  BY <1>3 DEF Outward
<1>5. /\ counting' \in BOOLEAN /\ managed' \in BOOLEAN /\ handled' \in Seq(Stanzas)
      /\ taken' \subseteq Stanzas /\ UNCHANGED <<given, strays>> /\ toClient' \in Seq(Inward)
  <2>1. CASE m.kind = "enable"
    <3>1. \/ counting' = TRUE /\ toClient' = Append(toClient, El("enabled", 0))
          \/ counting' = counting /\ toClient' = Append(toClient, El("failed", 0))
      BY <1>2, <2>1 DEF ServerTakes, serverVars
    <3>2. UNCHANGED <<managed, handled, taken, given, strays>>
      BY <1>2, <2>1 DEF ServerTakes, serverVars
    <3>3. toClient' \in Seq(Inward)
      <4>1. PICK e \in Inward : toClient' = Append(toClient, e)
        BY <3>1, InwardElements
      <4> QED
        BY <1>1, <4>1
    <3>4. counting' \in BOOLEAN /\ managed \in BOOLEAN
      BY <3>1 DEF TypeInv, TypeOK
    <3> QED
      BY <1>1, <3>2, <3>3, <3>4
  <2>2. CASE m.kind = "stanza"
    <3>1. /\ handled' \in {handled, Append(handled, m.n)} /\ taken' = taken \cup {m.n}
          /\ UNCHANGED <<counting, managed, given, strays, toClient>>
      BY <1>2, <2>2 DEF ServerTakes
    <3>2. handled' \in Seq(Stanzas) /\ taken' \subseteq Stanzas
      <4>1. PICK n \in Stanzas : n = m.n
        BY <1>4, <2>2
      <4>2. Append(handled, n) \in Seq(Stanzas) /\ taken \cup {n} \subseteq Stanzas
        BY <1>1
      <4> QED
        BY <1>1, <3>1, <4>1, <4>2
    <3>3. counting \in BOOLEAN /\ managed \in BOOLEAN
      BY DEF TypeInv, TypeOK
    <3> QED
      BY <1>1, <3>1, <3>2, <3>3
  <2>3. CASE m.kind = "resume"
    <3>1. /\ \/ managed' = TRUE /\ toClient' = Append(toClient, El("resumed", Len(handled) % Modulus))
             \/ managed' = managed /\ toClient' = Append(toClient, El("failed", 0))
          /\ UNCHANGED <<counting, handled, taken, given, strays>>
      BY <1>2, <2>3 DEF ServerTakes, serverVars
    <3>2. toClient' \in Seq(Inward)
      <4>1. PICK e \in Inward : toClient' = Append(toClient, e)
        BY <3>1, InwardElements
      <4> QED
        BY <1>1, <4>1
    <3>3. managed' \in BOOLEAN
      BY <3>1 DEF TypeInv, TypeOK
    <3> QED
      BY <1>1, <3>1, <3>2, <3>3 DEF TypeInv, TypeOK
  <2>4. CASE m.kind \notin {"enable", "stanza", "resume"}
    <3>1. UNCHANGED <<counting, managed, handled, taken, given, strays, toClient>>
      BY <1>2, <2>4 DEF ServerTakes, serverVars
    <3> QED
      BY <1>1, <3>1 DEF TypeInv, TypeOK
  <2> QED
    BY <2>1, <2>2, <2>3, <2>4
<1>6. toServer' \in Seq(Element) /\ toClient' \in Seq(Element)
  BY <1>3, <1>5, SeqElement
<1> QED
  BY <1>1, <1>3, <1>5, <1>6 DEF TypeInv, TypeOK, smVars, bounds

LEMMA SendsTypes == ASSUME TypeInv, ServerSends PROVE TypeInv'
<1>1. /\ nextServer' \in 0..MaxServer /\ given' \in Nat /\ strays' \in Nat
      /\ UNCHANGED <<smVars, enabling, holds, toServer, stream, counting, managed, handled, taken, counted,
                     recorded, replay, orderly, nextStanza, drops>>
  BY BoundsAssumption DEF ServerSends, TypeInv, TypeOK
<1>2. toClient' \in Seq(Inward)
  <2>1. toClient \in Seq(Inward)
    BY DEF TypeInv
  <2>2. PICK m : m \in Inward /\ toClient' = Append(toClient, m)
    BY InwardElements DEF ServerSends
  <2> QED
    BY <2>1, <2>2
<1>3. toClient' \in Seq(Element)
  BY <1>2, SeqElement
<1> QED
  BY <1>1, <1>2, <1>3 DEF TypeInv, TypeOK, smVars

LEMMA NextTypeInv == TypeInv /\ [Next]_vars => TypeInv'
<1> SUFFICES ASSUME TypeInv, [Next]_vars PROVE TypeInv'
  OBVIOUS
<1>1. CASE UNCHANGED vars
  BY <1>1 DEF TypeInv, TypeOK, vars, smVars, serverVars, bounds
<1>2. CASE Next
  BY <1>2, SendTypes, SentTypes, EnableTypes, ReaderTypes, StreamTypes, TakesTypes, SendsTypes DEF Next
<1> QED
  BY <1>1, <1>2

LEMMA NextCountInv == CountInv /\ TypeInv' /\ [Next]_vars => CountInv'
<1> SUFFICES ASSUME CountInv, TypeInv', [Next]_vars PROVE CountInv'
  OBVIOUS
<1>1. CASE UNCHANGED vars
  <2>1. UNCHANGED <<toClient, toServer, handled, enabled, counting, counted, given, strays, inbound, stream,
                    enabling>>
    BY <1>1 DEF vars, smVars, serverVars
  <2> Sent' = Sent
    BY <2>1 DEF Sent
  <2> QED
    BY <2>1 DEF CountInv, Counts
<1>2. ASSUME NEW s \in Senders, SendWrite(s) \/ OnSent(s) PROVE CountInv'
  <2>1. holds' \in [Senders -> {0} \cup Stanzas]
    BY DEF TypeInv, TypeOK
  <2> QED
    BY <1>2, <2>1, SendCounts
<1>3. CASE \/ EnableSend \/ EnableTake \/ EnableGivesUp
           \/ OnReceived \/ OnEnabled \/ OnFailed \/ OnRequest \/ OnAck \/ OnResumed
           \/ Drop \/ Reconnect \/ Resume \/ ServerTakes \/ ServerSends
  BY <1>3, EnableCounts, ReaderCounts, StreamCounts, TakesCounts, SendsCounts
<1> QED
  BY <1>1, <1>2, <1>3 DEF Next

(* Every variable of stream management keeps its type: the counters stay in *)
(* their width, and only stanzas of the client are ever queued.             *)
THEOREM StreamTypeCorrect == Spec => []TypeOK
<1>1. TypeInv => TypeOK
  BY DEF TypeInv
<1> QED
  BY <1>1, InitTypeInv, NextTypeInv, PTL DEF Spec

(* The count that <a/> and <resume/> report never exceeds what the server   *)
(* has sent since <enabled/>, in the session and on streams that were not   *)
(* yet resumed, although Enable turns counting on in its own goroutine, at  *)
(* any time after the reader has seen <enabled/> (client_control.go:        *)
(* 282-293, 329-336, 344-351).                                              *)
THEOREM CountNotOverstated == Spec => []NotOverstated
<1>1. CountInv => NotOverstated
  <2> SUFFICES ASSUME CountInv PROVE NotOverstated
    OBVIOUS
  <2>1. /\ toClient \in Seq(Element) /\ counted \in Nat /\ Sent \in Nat /\ inbound = counted % Modulus
        /\ 0 \in 0..Len(toClient)
    BY DEF CountInv, Counts
  <2>2. CASE enabled
    <3>1. counted <= Sent
      BY <2>1, <2>2, RoomBound DEF CountInv
    <3> QED
      BY <2>1, <3>1 DEF NotOverstated, Sent
  <2>3. CASE ~enabled
    <3>1. counted = 0 /\ 0 <= Sent
      BY <2>1, <2>3 DEF CountInv
    <3> QED
      BY <2>1, <3>1 DEF NotOverstated, Sent
  <2> QED
    BY <2>2, <2>3
<1> QED
  BY <1>1, InitTypeInv, NextTypeInv, InitCountInv, NextCountInv, PTL DEF Spec

-----------------------------------------------------------------------------
(* Stream management: what may be under way, and in which order Enable,     *)
(* the loss of the connection and resumption go.                            *)

Lacks(q, kind) == \A i \in 1..Len(q) : q[i].kind # kind
One(q, kind) == \A i, j \in 1..Len(q) : q[i].kind = kind /\ q[j].kind = kind => i = j

(* Requests and acknowledgements of the server come after <resumed/>.       *)
Answered(q) == \A i \in 1..Len(q) : q[i].kind \in {"a", "r"} =>
                   \E j \in 1..Len(q) : j < i /\ q[j].kind = "resumed"

Wire ==
    /\ stream = "down" => toServer = <<>> /\ toClient = <<>>
    /\ stream # "resuming" => Lacks(toServer, "resume") /\ Lacks(toClient, "resumed")
    /\ stream = "new" => Lacks(toClient, "failed")
    /\ stream = "resuming" =>
           /\ One(toServer, "resume") /\ One(toClient, "resumed") /\ One(toClient, "failed")
           /\ managed \/ ~Lacks(toClient, "failed") => Lacks(toServer, "resume")
           /\ managed => /\ Lacks(toClient, "failed") /\ ~Lacks(toClient, "resumed")
                         /\ Answered(toClient)
    /\ stream = "up" => managed
    /\ stream \in {"down", "new"} => ~managed
    /\ ~managed => Lacks(toClient, "a") /\ Lacks(toClient, "r") /\ Lacks(toClient, "resumed")
Phase ==
    /\ enabled => enabling = "over"
    /\ stream # "up" => enabled
    /\ ~enabled => unacked = <<>> /\ recorded = {}
EnableOnce ==
    /\ counting => Lacks(toServer, "enable")
    /\ ~counting => handled = <<>>
    /\ enabling = "idle" => ~counting /\ Lacks(toServer, "enable")
    /\ One(toServer, "enable")

StreamInv == TypeInv /\ CountInv /\ Wire /\ Phase /\ EnableOnce

LEMMA TailFacts ==
    ASSUME NEW q \in Seq(Element), q # <<>>
    PROVE  /\ Tail(q) \in Seq(Element) /\ Len(q) = Len(Tail(q)) + 1
           /\ Head(q) = q[1] /\ 1 \in 1..Len(q)
           /\ \A i \in 1..Len(Tail(q)) : i + 1 \in 1..Len(q) /\ Tail(q)[i] = q[i + 1]
  OBVIOUS

LEMMA AppendFacts ==
    ASSUME NEW q \in Seq(Element), NEW m \in Element
    PROVE  /\ Append(q, m) \in Seq(Element) /\ Len(Append(q, m)) = Len(q) + 1
           /\ Append(q, m)[Len(q) + 1] = m /\ \A i \in 1..Len(q) : Append(q, m)[i] = q[i]
           /\ \A i \in 1..Len(Append(q, m)) : i \in 1..Len(q) \/ i = Len(q) + 1
  OBVIOUS

LEMMA LacksTail ==
    ASSUME NEW q \in Seq(Element), q # <<>>, NEW kind, Lacks(q, kind) PROVE Lacks(Tail(q), kind)
  BY TailFacts DEF Lacks

LEMMA LacksAppend ==
    ASSUME NEW q \in Seq(Element), NEW m \in Element, NEW kind, Lacks(q, kind), m.kind # kind
    PROVE  Lacks(Append(q, m), kind)
  BY AppendFacts DEF Lacks

LEMMA OneTail ==
    ASSUME NEW q \in Seq(Element), q # <<>>, NEW kind, One(q, kind)
    PROVE  One(Tail(q), kind) /\ (Head(q).kind = kind => Lacks(Tail(q), kind))
<1>1. PICK r : r = Tail(q)
  OBVIOUS
<1>2. Head(q) = q[1] /\ 1 \in 1..Len(q) /\ \A i \in 1..Len(r) : i + 1 \in 1..Len(q) /\ r[i] = q[i + 1]
  BY <1>1, TailFacts
<1>3. r \in Seq(Element)
  BY <1>1, TailFacts
<1>4. ASSUME NEW i \in 1..Len(r), NEW j \in 1..Len(r), r[i].kind = kind, r[j].kind = kind
      PROVE  i = j
  <2>1. /\ i + 1 \in 1..Len(q) /\ j + 1 \in 1..Len(q)
        /\ q[i + 1].kind = kind /\ q[j + 1].kind = kind
    BY <1>2, <1>4
  <2>2. i + 1 = j + 1
    BY <2>1 DEF One
  <2> QED
    BY <1>3, <2>2
<1>5. ASSUME Head(q).kind = kind, NEW i \in 1..Len(r) PROVE r[i].kind # kind
  <2>1. i + 1 # 1 /\ i + 1 \in 1..Len(q)
    BY <1>2, <1>3
  <2> QED
    BY <1>2, <1>5, <2>1 DEF One
<1> QED
  BY <1>1, <1>4, <1>5 DEF One, Lacks

LEMMA OneAppend ==
    ASSUME NEW q \in Seq(Element), NEW m \in Element, NEW kind, One(q, kind),
           m.kind = kind => Lacks(q, kind)
    PROVE  One(Append(q, m), kind)
<1>1. PICK r : r = Append(q, m)
  OBVIOUS
<1>2. /\ Len(r) = Len(q) + 1 /\ r[Len(q) + 1] = m /\ \A i \in 1..Len(q) : r[i] = q[i]
      /\ \A i \in 1..Len(r) : i \in 1..Len(q) \/ i = Len(q) + 1
  BY <1>1, AppendFacts
<1>3. ASSUME NEW i \in 1..Len(r), NEW j \in 1..Len(r), r[i].kind = kind, r[j].kind = kind
      PROVE  i = j
  <2>1. CASE i \in 1..Len(q) /\ j \in 1..Len(q)
    BY <1>2, <1>3, <2>1 DEF One
  <2>2. CASE i = Len(q) + 1 /\ j = Len(q) + 1
    BY <2>2
  <2>3. CASE i = Len(q) + 1 /\ j \in 1..Len(q)
    BY <1>2, <1>3, <2>3 DEF Lacks
  <2>4. CASE j = Len(q) + 1 /\ i \in 1..Len(q)
    BY <1>2, <1>3, <2>4 DEF Lacks
  <2> QED
    BY <1>2, <2>1, <2>2, <2>3, <2>4
<1> QED
  BY <1>1, <1>3 DEF One

LEMMA LacksOne == ASSUME NEW q, NEW kind, Lacks(q, kind) PROVE One(q, kind)
  BY DEF Lacks, One

(* What is not at the head is in the tail, and what was there stays there.  *)
LEMMA HasTail ==
    ASSUME NEW q \in Seq(Element), q # <<>>, NEW kind, ~Lacks(q, kind), Head(q).kind # kind
    PROVE  ~Lacks(Tail(q), kind)
<1>1. PICK i \in 1..Len(q) : q[i].kind = kind
  BY DEF Lacks
<1>2. i # 1 /\ Len(q) = Len(Tail(q)) + 1 /\ Tail(q) \in Seq(Element)
  BY <1>1, TailFacts
<1>3. i - 1 \in 1..Len(Tail(q)) /\ (i - 1) + 1 = i
  BY <1>2
<1>4. Tail(q)[i - 1].kind = kind
  BY <1>1, <1>3, TailFacts
<1> QED
  BY <1>3, <1>4 DEF Lacks

LEMMA HasAppend ==
    ASSUME NEW q \in Seq(Element), NEW m \in Element, NEW kind, ~Lacks(q, kind) \/ m.kind = kind
    PROVE  ~Lacks(Append(q, m), kind)
<1>1. CASE m.kind = kind
  <2>1. Len(q) + 1 \in 1..Len(Append(q, m)) /\ Append(q, m)[Len(q) + 1] = m
    BY AppendFacts
  <2> QED
    BY <1>1, <2>1 DEF Lacks
<1>2. CASE ~Lacks(q, kind)
  <2>1. PICK i \in 1..Len(q) : q[i].kind = kind
    BY <1>2 DEF Lacks
  <2>2. i \in 1..Len(Append(q, m)) /\ Append(q, m)[i] = q[i]
    BY AppendFacts
  <2> QED
    BY <2>1, <2>2 DEF Lacks
<1> QED
  BY <1>1, <1>2

LEMMA AnsweredTail ==
    ASSUME NEW q \in Seq(Element), q # <<>>, Answered(q)
    PROVE  /\ Head(q).kind \notin {"a", "r"}
           /\ Head(q).kind # "resumed" => Answered(Tail(q))
<1>1. PICK r : r = Tail(q)
  OBVIOUS
<1>2. /\ Head(q) = q[1] /\ 1 \in 1..Len(q) /\ Len(q) = Len(r) + 1 /\ r \in Seq(Element)
      /\ \A i \in 1..Len(r) : i + 1 \in 1..Len(q) /\ r[i] = q[i + 1]
  BY <1>1, TailFacts
<1>3. Head(q).kind \notin {"a", "r"}
  <2> SUFFICES ASSUME q[1].kind \in {"a", "r"} PROVE FALSE
    BY <1>2
  <2>1. PICK j \in 1..Len(q) : j < 1
    BY <1>2 DEF Answered
  <2> QED
    BY <2>1
<1>4. ASSUME Head(q).kind # "resumed", NEW i \in 1..Len(r), r[i].kind \in {"a", "r"}
      PROVE  \E j \in 1..Len(r) : j < i /\ r[j].kind = "resumed"
  <2>1. i + 1 \in 1..Len(q) /\ q[i + 1].kind \in {"a", "r"}
    BY <1>2, <1>4
  <2>2. PICK j \in 1..Len(q) : j < i + 1 /\ q[j].kind = "resumed"
    BY <2>1 DEF Answered
  <2>3. j # 1
    BY <1>2, <1>4, <2>2
  <2>4. j - 1 \in 1..Len(r) /\ j - 1 < i /\ (j - 1) + 1 = j
    BY <1>2, <2>2, <2>3
  <2>5. r[j - 1].kind = "resumed"
    BY <1>2, <2>2, <2>4
  <2> QED
    BY <2>4, <2>5
<1> QED
  BY <1>1, <1>3, <1>4 DEF Answered

LEMMA AnsweredAppend ==
    ASSUME NEW q \in Seq(Element), NEW m \in Element,
           \/ Answered(q) /\ ~Lacks(q, "resumed")
           \/ Lacks(q, "a") /\ Lacks(q, "r") /\ m.kind = "resumed"
    PROVE  Answered(Append(q, m))
<1>1. PICK r : r = Append(q, m)
  OBVIOUS
<1>2. /\ Len(r) = Len(q) + 1 /\ r[Len(q) + 1] = m /\ \A i \in 1..Len(q) : r[i] = q[i]
      /\ \A i \in 1..Len(r) : i \in 1..Len(q) \/ i = Len(q) + 1
      /\ \A i \in 1..Len(q) : i \in 1..Len(r)
  BY <1>1, AppendFacts
<1>3. CASE Answered(q) /\ ~Lacks(q, "resumed")
  <2> SUFFICES ASSUME NEW i \in 1..Len(r), r[i].kind \in {"a", "r"}
               PROVE  \E j \in 1..Len(r) : j < i /\ r[j].kind = "resumed"
    BY <1>1 DEF Answered
  <2>1. CASE i \in 1..Len(q)
    BY <1>2, <1>3, <2>1 DEF Answered
  <2>2. CASE i = Len(q) + 1
    <3>1. PICK j \in 1..Len(q) : q[j].kind = "resumed"
      BY <1>3 DEF Lacks
    <3>2. j < i
      BY <2>2
    <3> QED
      BY <1>2, <3>1, <3>2
  <2> QED
    BY <1>2, <2>1, <2>2
<1>4. CASE Lacks(q, "a") /\ Lacks(q, "r") /\ m.kind = "resumed"
  <2> SUFFICES ASSUME NEW i \in 1..Len(r), r[i].kind \in {"a", "r"} PROVE FALSE
    BY <1>1 DEF Answered
  <2> QED
    BY <1>2, <1>4 DEF Lacks
<1> QED
  BY <1>3, <1>4

LEMMA StreamTypesOf ==
    ASSUME StreamInv
    PROVE  /\ toServer \in Seq(Element) /\ toClient \in Seq(Element) /\ handled \in Seq(Stanzas)
           /\ enabled \in BOOLEAN /\ counting \in BOOLEAN /\ managed \in BOOLEAN
           /\ stream \in {"up", "down", "new", "resuming"}
           /\ enabling \in {"idle", "sent", "got", "over"} /\ unacked \in Seq(Stanzas)
  BY DEF StreamInv, TypeInv, TypeOK

LEMMA InitStreamInv == Init => Wire /\ Phase /\ EnableOnce
<1> SUFFICES ASSUME Init PROVE Wire /\ Phase /\ EnableOnce
  OBVIOUS
<1>1. ~counting
  BY Zenon DEF Init
<1>2. ~enabled
  BY Zenon DEF Init
<1>3. managed
  BY Zenon DEF Init
<1>4. Len(toServer) = 0 /\ Len(toClient) = 0 /\ stream = "up"
  BY DEF Init
<1>5. Lacks(toServer, "resume") /\ Lacks(toClient, "resumed") /\ Lacks(toServer, "enable")
  BY <1>4 DEF Lacks
<1>6. One(toServer, "enable")
  BY <1>5, LacksOne
<1>7. Wire
  BY <1>3, <1>4, <1>5 DEF Wire
<1>8. Phase
  BY <1>2, <1>4 DEF Init, Phase
<1>9. EnableOnce
  BY <1>1, <1>5, <1>6 DEF Init, EnableOnce
<1> QED
  BY <1>7, <1>8, <1>9

(* What the client writes, unless it is <resume/>, is nothing to resumption.*)
LEMMA WriteWire ==
    ASSUME StreamInv, NEW m \in Element, m.kind # "resume", stream # "down",
           toServer' = Append(toServer, m), UNCHANGED <<toClient, stream, managed>>
    PROVE  Wire'
<1>1. toServer \in Seq(Element)
  BY StreamTypesOf
<1>2. Lacks(toServer, "resume") => Lacks(toServer', "resume")
  BY <1>1, LacksAppend
<1>3. One(toServer, "resume") => One(toServer', "resume")
  BY <1>1, OneAppend
<1> QED
  BY <1>2, <1>3 DEF StreamInv, Wire

LEMMA SendStream ==
    ASSUME StreamInv, NEW s \in Senders, SendWrite(s) \/ OnSent(s), TypeInv'
    PROVE  Wire' /\ Phase' /\ EnableOnce'
<1>1. CASE SendWrite(s)
  <2>1. /\ UNCHANGED <<enabled, unacked, recorded, enabling, toClient, stream, counting, managed, handled>>
        /\ stream # "down" /\ toServer' = Append(toServer, El("stanza", holds'[s]))
    BY <1>1 DEF SendWrite, smVars, serverVars
  <2>2. PICK m : m = El("stanza", holds'[s])
    OBVIOUS
  <2>3. m.kind = "stanza" /\ m \in Element
    <3>1. holds' \in [Senders -> {0} \cup Stanzas]
      BY DEF TypeInv, TypeOK
    <3>2. holds'[s] \in {0} \cup Stanzas
      BY <3>1
    <3>3. holds'[s] \in Nat
      BY <3>2, BoundsAssumption DEF Stanzas
    <3> QED
      BY <2>2, <3>3 DEF El, Element
  <2>4. toServer' = Append(toServer, m) /\ toServer \in Seq(Element)
    BY <2>1, <2>2, StreamTypesOf
  <2>5. Wire'
    BY <2>1, <2>3, <2>4, WriteWire
  <2>6. Lacks(toServer, "enable") => Lacks(toServer', "enable")
    BY <2>3, <2>4, LacksAppend
  <2>7. One(toServer', "enable")
    BY <2>3, <2>4, OneAppend DEF StreamInv, EnableOnce
  <2> QED
    BY <2>1, <2>5, <2>6, <2>7 DEF StreamInv, Phase, EnableOnce
<1>2. CASE OnSent(s)
  <2>1. /\ UNCHANGED <<enabled, enabling, toClient, toServer, stream, counting, managed, handled>>
        /\ ~enabled => UNCHANGED <<unacked, recorded>>
    BY <1>2 DEF OnSent, serverVars
  <2> QED
    BY <2>1 DEF StreamInv, Wire, Phase, EnableOnce
<1> QED
  BY <1>1, <1>2

LEMMA EnableStream ==
    ASSUME StreamInv, EnableSend \/ EnableTake \/ EnableGivesUp PROVE Wire' /\ Phase' /\ EnableOnce'
<1>1. CASE EnableSend
  <2>1. /\ UNCHANGED <<enabled, unacked, recorded, toClient, stream, counting, managed, handled>>
        /\ stream = "up" /\ enabling = "idle" /\ enabling' = "sent"
        /\ toServer' = Append(toServer, El("enable", 0))
    BY <1>1 DEF EnableSend, smVars, serverVars
  <2>2. PICK m : m = El("enable", 0)
    OBVIOUS
  <2>3. m.kind = "enable" /\ m \in Element
    BY <2>2 DEF El, Element
  <2>4. toServer' = Append(toServer, m) /\ toServer \in Seq(Element)
    BY <2>1, <2>2, StreamTypesOf
  <2>5. Wire'
    BY <2>1, <2>3, <2>4, WriteWire
  <2>6. ~counting /\ ~enabled /\ Lacks(toServer, "enable")
    BY <2>1 DEF StreamInv, EnableOnce, Phase
  <2>7. One(toServer', "enable")
    BY <2>3, <2>4, <2>6, OneAppend DEF StreamInv, EnableOnce
  <2> QED
    BY <2>1, <2>5, <2>6, <2>7 DEF StreamInv, Phase, EnableOnce
<1>2. CASE EnableTake
  <2>1. /\ UNCHANGED <<toServer, toClient, stream, counting, managed, handled>> /\ enabled' = TRUE
        /\ enabling' = "over"
    BY <1>2 DEF EnableTake, serverVars
  <2>2. enabled'
    BY <2>1
  <2> QED
    BY <2>1, <2>2 DEF StreamInv, Wire, Phase, EnableOnce
<1>3. CASE EnableGivesUp
  <2>1. /\ UNCHANGED <<enabled, unacked, recorded, toServer, toClient, stream, counting, managed, handled>>
        /\ enabling' = "over"
    BY <1>3 DEF EnableGivesUp, smVars, serverVars
  <2> QED
    BY <2>1 DEF StreamInv, Wire, Phase, EnableOnce
<1> QED
  BY <1>1, <1>2, <1>3

(* Acknowledgements and requests for them pass only on a stream of the      *)
(* session, and after <resumed/>.                                           *)
LEMMA AcksUp ==
    ASSUME StreamInv, toClient # <<>>, Head(toClient).kind \in {"a", "r"} PROVE stream = "up"
<1>1. toClient \in Seq(Element) /\ Head(toClient) = toClient[1] /\ 1 \in 1..Len(toClient)
  BY StreamTypesOf, TailFacts
<1>2. ~Lacks(toClient, "a") \/ ~Lacks(toClient, "r")
  BY <1>1 DEF Lacks
<1>3. managed
  BY <1>2 DEF StreamInv, Wire
<1>4. stream # "resuming"
  <2> SUFFICES ASSUME stream = "resuming" PROVE FALSE
    OBVIOUS
  <2>1. Answered(toClient)
    BY <1>3 DEF StreamInv, Wire
  <2> QED
    BY <1>1, <2>1, AnsweredTail
<1> QED
  BY <1>3, <1>4, StreamTypesOf DEF StreamInv, Wire

(* Reading anything but <resumed/> and the refusal of it.                   *)
LEMMA ReadWire ==
    ASSUME StreamInv, toClient # <<>>, toClient' = Tail(toClient), Head(toClient).kind # "resumed",
           Head(toClient).kind # "failed" \/ stream # "resuming",
           UNCHANGED <<stream, managed>>,
           toServer' = toServer \/ (stream = "up" /\ Lacks(toServer', "resume"))
    PROVE  Wire'
<1>1. toClient \in Seq(Element)
  BY StreamTypesOf
<1>2. \A kind : Lacks(toClient, kind) => Lacks(toClient', kind)
  BY <1>1, LacksTail
<1>3. \A kind : One(toClient, kind) => One(toClient', kind)
  BY <1>1, OneTail
<1>4. Answered(toClient) => Answered(toClient')
  BY <1>1, AnsweredTail
<1>5. ~Lacks(toClient, "resumed") => ~Lacks(toClient', "resumed")
  BY <1>1, HasTail
<1>6. stream # "down"
  BY DEF StreamInv, Wire
<1> QED
  BY <1>2, <1>3, <1>4, <1>5, <1>6 DEF StreamInv, Wire

LEMMA ReaderStream ==
    ASSUME StreamInv, OnReceived \/ OnEnabled \/ (OnFailed /\ stream # "resuming") \/ OnRequest \/ OnAck
    PROVE  Wire' /\ Phase' /\ EnableOnce'
<1>1. /\ toClient # <<>> /\ toClient' = Tail(toClient) /\ Head(toClient).kind # "resumed"
      /\ Head(toClient).kind # "failed" \/ stream # "resuming"
      /\ UNCHANGED <<enabled, recorded, stream, counting, managed, handled>>
  BY DEF OnReceived, OnEnabled, OnFailed, OnRequest, OnAck, Read, smVars, serverVars
<1>2. toClient \in Seq(Element) /\ toServer \in Seq(Element)
  BY StreamTypesOf
<1>3. \/ toServer' = toServer
      \/ stream = "up" /\ toServer' = Append(toServer, El("a", inbound))
  <2>1. CASE OnRequest
    <3>1. stream = "up"
      BY <2>1, AcksUp DEF OnRequest, Read
    <3> QED
      BY <2>1, <3>1 DEF OnRequest
  <2> QED
    BY <2>1 DEF OnReceived, OnEnabled, OnFailed, OnAck
<1>4. /\ toServer' = toServer \/ (stream = "up" /\ Lacks(toServer', "resume"))
      /\ One(toServer', "enable") /\ (Lacks(toServer, "enable") => Lacks(toServer', "enable"))
  <2>1. CASE toServer' = toServer
    BY <2>1 DEF StreamInv, EnableOnce
  <2>2. CASE stream = "up" /\ toServer' = Append(toServer, El("a", inbound))
    <3>1. PICK m : m = El("a", inbound)
      OBVIOUS
    <3>2. m \in Element /\ m.kind = "a"
      <4>1. inbound \in Nat
        BY ModulusAssumption DEF StreamInv, TypeInv, TypeOK
      <4> QED
        BY <3>1, <4>1 DEF El, Element
    <3>3. toServer' = Append(toServer, m) /\ Lacks(toServer, "resume") /\ One(toServer, "enable")
      BY <2>2, <3>1 DEF StreamInv, Wire, EnableOnce
    <3>4. Lacks(toServer', "resume") /\ (Lacks(toServer, "enable") => Lacks(toServer', "enable"))
      BY <1>2, <3>2, <3>3, LacksAppend
    <3>5. One(toServer', "enable")
      BY <1>2, <3>2, <3>3, OneAppend
    <3> QED
      BY <2>2, <3>4, <3>5
  <2> QED
    BY <1>3, <2>1, <2>2
<1>5. enabling' = enabling \/ (enabling = "sent" /\ enabling' \in {"got", "over"})
  BY DEF OnReceived, OnEnabled, OnFailed, OnRequest, OnAck
<1>6. ~enabled => unacked' = <<>>
  <2>1. CASE unacked' = unacked
    BY <2>1 DEF StreamInv, Phase
  <2>2. CASE OnAck /\ ~enabled
    <3>1. unacked = <<>>
      BY <2>2 DEF StreamInv, Phase
    <3>2. ApplyAck(Head(toClient).n) /\ Head(toClient).n \in 0..(Modulus - 1)
      <4>1. Head(toClient) \in Inward
        BY <1>1 DEF StreamInv, TypeInv
      <4> QED
        BY <2>2, <4>1 DEF OnAck, Read, Inward
    <3>3. PICK d \in 0..Len(unacked) : unacked' = SubSeq(unacked, d + 1, Len(unacked))
      BY <3>2, AckDrops DEF StreamInv
    <3> QED
      BY <3>1, <3>3
  <2> QED
    BY <2>1, <2>2 DEF OnReceived, OnEnabled, OnFailed, OnRequest, smVars
<1>7. Wire'
  BY <1>1, <1>4, ReadWire
<1>8. Phase'
  BY <1>1, <1>5, <1>6 DEF StreamInv, Phase
<1>9. EnableOnce'
  BY <1>1, <1>4, <1>5 DEF StreamInv, EnableOnce
<1> QED
  BY <1>7, <1>8, <1>9

(* The server refuses to resume.                                            *)
LEMMA RefusedStream ==
    ASSUME StreamInv, OnFailed, stream = "resuming"
    PROVE  Wire' /\ Phase' /\ EnableOnce' /\ stream' = "new" /\ UNCHANGED enabling
<1>1. /\ toClient # <<>> /\ toClient' = Tail(toClient) /\ Head(toClient).kind = "failed"
      /\ UNCHANGED <<enabled, unacked, recorded, toServer, counting, managed, handled>>
      /\ stream' = "new" /\ enabling' = IF enabling = "sent" THEN "over" ELSE enabling
  BY DEF OnFailed, Read, smVars, serverVars
<1>2. toClient \in Seq(Element) /\ Head(toClient) = toClient[1] /\ 1 \in 1..Len(toClient)
  BY <1>1, StreamTypesOf, TailFacts
<1>3. ~Lacks(toClient, "failed")
  BY <1>1, <1>2 DEF Lacks
<1>4. ~managed /\ Lacks(toServer, "resume") /\ One(toClient, "failed")
  BY <1>3 DEF StreamInv, Wire
<1>5. Lacks(toClient', "failed")
  BY <1>1, <1>2, <1>4, OneTail
<1>6. Lacks(toClient', "a") /\ Lacks(toClient', "r") /\ Lacks(toClient', "resumed")
  BY <1>1, <1>2, <1>4, LacksTail DEF StreamInv, Wire
<1>7. Wire'
  BY <1>1, <1>4, <1>5, <1>6 DEF Wire
<1>8. enabled /\ enabling = "over" /\ enabling' = enabling
  BY <1>1 DEF StreamInv, Phase
<1> QED
  BY <1>1, <1>7, <1>8 DEF StreamInv, Phase, EnableOnce

LEMMA ResumedFrom ==
    ASSUME StreamInv, toClient # <<>>, Head(toClient).kind = "resumed"
    PROVE  /\ stream = "resuming" /\ managed /\ Lacks(toServer, "resume") /\ enabled
           /\ Lacks(Tail(toClient), "resumed")
<1>1. toClient \in Seq(Element) /\ Head(toClient) = toClient[1] /\ 1 \in 1..Len(toClient)
  BY StreamTypesOf, TailFacts
<1>2. ~Lacks(toClient, "resumed")
  BY <1>1 DEF Lacks
<1>3. stream = "resuming" /\ managed
  BY <1>2 DEF StreamInv, Wire
<1>4. Lacks(toServer, "resume") /\ One(toClient, "resumed") /\ enabled
  BY <1>3 DEF StreamInv, Wire, Phase
<1> QED
  BY <1>1, <1>3, <1>4, OneTail

LEMMA ConnectionStream ==
    ASSUME StreamInv, OnResumed \/ Drop \/ Reconnect \/ Resume PROVE Wire' /\ Phase' /\ EnableOnce'
<1>1. CASE OnResumed
  <2>1. /\ toClient # <<>> /\ toClient' = Tail(toClient) /\ Head(toClient).kind = "resumed"
        /\ UNCHANGED <<recorded, counting, managed, handled, enabling, toServer>>
        /\ stream' = "up" /\ enabled' = TRUE
    BY <1>1 DEF OnResumed, Read, serverVars
  <2>2. managed /\ enabled /\ Lacks(toServer', "resume") /\ Lacks(toClient', "resumed")
    BY <2>1, ResumedFrom
  <2>3. enabled'
    BY <2>1
  <2> QED
    BY <2>1, <2>2, <2>3 DEF StreamInv, Wire, Phase, EnableOnce
<1>2. CASE Drop
  <2>1. /\ enabled /\ toServer' = <<>> /\ toClient' = <<>> /\ stream' = "down" /\ managed' = FALSE
        /\ UNCHANGED <<enabled, unacked, recorded, enabling, counting, handled>>
    BY <1>2 DEF Drop, smVars, serverVars
  <2>2. Len(toServer') = 0 /\ Len(toClient') = 0
    BY <2>1
  <2>3. \A kind : Lacks(toServer', kind) /\ Lacks(toClient', kind)
    BY <2>2 DEF Lacks
  <2>4. One(toServer', "enable")
    BY <2>3, LacksOne
  <2>5. ~managed'
    BY <2>1
  <2> QED
    BY <2>1, <2>3, <2>4, <2>5 DEF StreamInv, Wire, Phase, EnableOnce
<1>3. CASE Reconnect
  <2>1. /\ stream = "down" /\ stream' = "new"
        /\ UNCHANGED <<enabled, unacked, recorded, enabling, counting, managed, handled, toServer, toClient>>
    BY <1>3 DEF Reconnect, smVars, serverVars
  <2>2. toServer = <<>> /\ toClient = <<>> /\ ~managed
    BY <2>1 DEF StreamInv, Wire
  <2>3. Len(toServer) = 0 /\ Len(toClient) = 0
    BY <2>2
  <2>4. \A kind : Lacks(toServer, kind) /\ Lacks(toClient, kind)
    BY <2>3 DEF Lacks
  <2> QED
    BY <2>1, <2>2, <2>4 DEF StreamInv, Wire, Phase, EnableOnce
<1>4. CASE Resume
  <2>1. /\ stream = "new" /\ toServer' = Append(toServer, El("resume", inbound)) /\ stream' = "resuming"
        /\ UNCHANGED <<enabled, unacked, recorded, enabling, counting, managed, handled, toClient>>
    BY <1>4 DEF Resume, smVars, serverVars
  <2>2. PICK m : m = El("resume", inbound)
    OBVIOUS
  <2>3. m \in Element /\ m.kind = "resume"
    <3>1. inbound \in Nat
      BY ModulusAssumption DEF StreamInv, TypeInv, TypeOK
    <3> QED
      BY <2>2, <3>1 DEF El, Element
  <2>4. toServer' = Append(toServer, m) /\ toServer \in Seq(Element)
    BY <2>1, <2>2, StreamTypesOf
  <2>5. Lacks(toServer, "resume") /\ Lacks(toClient, "resumed") /\ Lacks(toClient, "failed") /\ ~managed
    BY <2>1 DEF StreamInv, Wire
  <2>6. One(toServer, "resume") /\ One(toClient, "resumed") /\ One(toClient, "failed")
    BY <2>5, LacksOne
  <2>7. One(toServer', "resume") /\ One(toServer', "enable")
    BY <2>3, <2>4, <2>5, <2>6, OneAppend DEF StreamInv, EnableOnce
  <2>8. Lacks(toServer, "enable") => Lacks(toServer', "enable")
    BY <2>3, <2>4, LacksAppend
  <2>9. Wire'
    BY <2>1, <2>5, <2>6, <2>7 DEF StreamInv, Wire
  <2> QED
    BY <2>1, <2>7, <2>8, <2>9 DEF StreamInv, Phase, EnableOnce
<1> QED
  BY <1>1, <1>2, <1>3, <1>4

(* Where the connection stands when the server takes an element.            *)
LEMMA TakenFrom ==
    ASSUME StreamInv, toServer # <<>>
    PROVE  /\ stream # "down"
           /\ Head(toServer).kind = "enable" => stream = "up" /\ ~counting /\ enabling # "idle"
           /\ Head(toServer).kind = "resume" =>
                  /\ stream = "resuming" /\ ~managed
                  /\ Lacks(toClient, "failed") /\ Lacks(Tail(toServer), "resume")
<1>1. toServer \in Seq(Element) /\ Head(toServer) = toServer[1] /\ 1 \in 1..Len(toServer)
  BY StreamTypesOf, TailFacts
<1>2. stream # "down"
  BY DEF StreamInv, Wire
<1>3. ASSUME Head(toServer).kind = "enable" PROVE stream = "up" /\ ~counting /\ enabling # "idle"
  <2>1. ~Lacks(toServer, "enable")
    BY <1>1, <1>3 DEF Lacks
  <2>2. ~counting /\ enabling # "idle"
    BY <2>1 DEF StreamInv, EnableOnce
  <2>3. ~enabled
    BY <2>2 DEF StreamInv, CountInv
  <2>4. stream = "up"
    BY <2>3 DEF StreamInv, Phase
  <2> QED
    BY <2>2, <2>4
<1>4. ASSUME Head(toServer).kind = "resume"
      PROVE  /\ stream = "resuming" /\ ~managed /\ Lacks(toClient, "failed")
             /\ Lacks(Tail(toServer), "resume")
  <2>1. ~Lacks(toServer, "resume")
    BY <1>1, <1>4 DEF Lacks
  <2>2. stream = "resuming" /\ ~managed /\ Lacks(toClient, "failed") /\ One(toServer, "resume")
    BY <2>1 DEF StreamInv, Wire
  <2> QED
    BY <1>1, <1>4, <2>2, OneTail
<1> QED
  BY <1>2, <1>3, <1>4

(* The server sends an element of a kind that the session allows.           *)
LEMMA GiveWire ==
    ASSUME StreamInv, NEW m \in Element, toClient' = Append(toClient, m), stream # "down",
           UNCHANGED stream, managed \in BOOLEAN, managed' = managed,
           toServer' = toServer \/ (toServer # <<>> /\ toServer' = Tail(toServer)),
           m.kind \in {"a", "r"} => managed, m.kind # "resumed",
           m.kind = "failed" => /\ stream # "new"
                                /\ stream = "resuming" => /\ ~managed /\ Lacks(toClient, "failed")
                                                          /\ Lacks(toServer', "resume")
    PROVE  Wire'
<1>1. toClient \in Seq(Element) /\ toServer \in Seq(Element)
  BY StreamTypesOf
<1>2. \A kind : Lacks(toServer, kind) => Lacks(toServer', kind)
  BY <1>1, LacksTail
<1>3. One(toServer, "resume") => One(toServer', "resume")
  BY <1>1, OneTail
<1>4. \A kind : Lacks(toClient, kind) /\ m.kind # kind => Lacks(toClient', kind)
  BY <1>1, LacksAppend
<1>5. One(toClient, "resumed") => One(toClient', "resumed")
  BY <1>1, OneAppend
<1>6. One(toClient, "failed") /\ (m.kind = "failed" => Lacks(toClient, "failed")) => One(toClient', "failed")
  BY <1>1, OneAppend
<1>7. Answered(toClient) /\ ~Lacks(toClient, "resumed") => Answered(toClient')
  BY <1>1, AnsweredAppend
<1>8. ~Lacks(toClient, "resumed") => ~Lacks(toClient', "resumed")
  BY <1>1, HasAppend
<1>9. stream = "resuming" =>
           /\ One(toServer', "resume") /\ One(toClient', "resumed") /\ One(toClient', "failed")
           /\ managed \/ ~Lacks(toClient', "failed") => Lacks(toServer', "resume")
           /\ managed => /\ Lacks(toClient', "failed") /\ ~Lacks(toClient', "resumed")
                         /\ Answered(toClient')
  <2> SUFFICES ASSUME stream = "resuming"
               PROVE  /\ One(toServer', "resume") /\ One(toClient', "resumed") /\ One(toClient', "failed")
                      /\ managed \/ ~Lacks(toClient', "failed") => Lacks(toServer', "resume")
                      /\ managed => /\ Lacks(toClient', "failed") /\ ~Lacks(toClient', "resumed")
                                    /\ Answered(toClient')
    OBVIOUS
  <2>1. /\ One(toServer, "resume") /\ One(toClient, "resumed") /\ One(toClient, "failed")
        /\ managed \/ ~Lacks(toClient, "failed") => Lacks(toServer, "resume")
        /\ managed => /\ Lacks(toClient, "failed") /\ ~Lacks(toClient, "resumed")
                      /\ Answered(toClient)
    BY DEF StreamInv, Wire
  <2>2. One(toServer', "resume") /\ One(toClient', "resumed") /\ One(toClient', "failed")
    BY <1>3, <1>5, <1>6, <2>1
  <2>3. ASSUME managed \/ ~Lacks(toClient', "failed") PROVE Lacks(toServer', "resume")
    BY <1>2, <1>4, <2>1, <2>3
  <2>4. ASSUME managed
        PROVE  Lacks(toClient', "failed") /\ ~Lacks(toClient', "resumed") /\ Answered(toClient')
    BY <1>4, <1>7, <1>8, <2>1, <2>4
  <2> QED
    BY <2>2, <2>3, <2>4
<1>10. /\ stream # "resuming" => Lacks(toServer', "resume") /\ Lacks(toClient', "resumed")
       /\ stream = "new" => Lacks(toClient', "failed")
       /\ ~managed => Lacks(toClient', "a") /\ Lacks(toClient', "r") /\ Lacks(toClient', "resumed")
  BY <1>2, <1>4 DEF StreamInv, Wire
<1>11. (stream = "up" => managed) /\ (stream \in {"down", "new"} => ~managed)
  BY DEF StreamInv, Wire
<1> QED
  BY <1>9, <1>10, <1>11 DEF Wire

LEMMA TakesStream == ASSUME StreamInv, ServerTakes PROVE Wire' /\ Phase' /\ EnableOnce'
<1>1. /\ toServer # <<>> /\ toServer' = Tail(toServer)
      /\ UNCHANGED <<enabled, unacked, recorded, enabling, stream>>
  BY DEF ServerTakes, smVars
<1>2. /\ toServer \in Seq(Element) /\ toClient \in Seq(Element) /\ counting \in BOOLEAN /\ managed \in BOOLEAN
      /\ stream # "down"
  BY <1>1, StreamTypesOf, TakenFrom
<1>3. /\ \A kind : Lacks(toServer, kind) => Lacks(toServer', kind)
      /\ One(toServer', "enable") /\ (Head(toServer).kind = "enable" => Lacks(toServer', "enable"))
  BY <1>1, <1>2, LacksTail, OneTail DEF StreamInv, EnableOnce
<1>4. Phase'
  BY <1>1 DEF StreamInv, Phase
<1>5. CASE Head(toServer).kind = "enable"
  <2>1. PICK m \in {El("enabled", 0), El("failed", 0)} : toClient' = Append(toClient, m)
    BY <1>5 DEF ServerTakes
  <2>2. m \in Element /\ m.kind \in {"enabled", "failed"}
    BY DEF Element, El
  <2>3. stream = "up" /\ ~counting /\ enabling # "idle"
    BY <1>1, <1>5, TakenFrom
  <2>4. UNCHANGED <<managed, handled>>
    BY <1>5 DEF ServerTakes, serverVars
  <2>5. Wire'
    BY <1>1, <1>2, <2>1, <2>2, <2>3, <2>4, GiveWire
  <2>6. EnableOnce'
    BY <1>1, <1>3, <1>5, <2>3, <2>4 DEF StreamInv, EnableOnce
  <2> QED
    BY <1>4, <2>5, <2>6
<1>6. CASE Head(toServer).kind = "resume"
  <2>1. PICK r : r = El("resumed", Len(handled) % Modulus)
    OBVIOUS
  <2>2. /\ \/ managed' = TRUE /\ toClient' = Append(toClient, r)
           \/ managed' = managed /\ toClient' = Append(toClient, El("failed", 0))
        /\ UNCHANGED <<counting, handled>>
    BY <1>6, <2>1 DEF ServerTakes, serverVars
  <2>3. stream = "resuming" /\ ~managed /\ Lacks(toClient, "failed") /\ Lacks(toServer', "resume")
    BY <1>1, <1>6, TakenFrom
  <2>4. EnableOnce'
    BY <1>1, <1>3, <2>2 DEF StreamInv, EnableOnce
  <2>5. CASE managed' = TRUE /\ toClient' = Append(toClient, r)
    <3>1. r \in Element /\ r.kind = "resumed"
      <4>1. r \in Inward
        BY <2>1, InwardElements DEF StreamInv
      <4> QED
        BY <2>1, <4>1, ElFields DEF Inward
    <3>2. Lacks(toClient, "a") /\ Lacks(toClient, "r") /\ Lacks(toClient, "resumed")
      BY <2>3 DEF StreamInv, Wire
    <3>3. Lacks(toClient', "failed") /\ One(toClient, "resumed")
      BY <1>2, <2>3, <2>5, <3>1, <3>2, LacksAppend, LacksOne
    <3>4. One(toClient', "resumed") /\ ~Lacks(toClient', "resumed") /\ Answered(toClient')
      BY <1>2, <2>5, <3>1, <3>2, <3>3, OneAppend, HasAppend, AnsweredAppend
    <3>5. One(toClient', "failed") /\ One(toServer', "resume")
      BY <2>3, <3>3, LacksOne
    <3>6. managed'
      BY <2>5
    <3>7. Wire'
      BY <1>1, <2>3, <3>3, <3>4, <3>5, <3>6 DEF Wire
    <3> QED
      BY <1>4, <2>4, <3>7
  <2>6. CASE managed' = managed /\ toClient' = Append(toClient, El("failed", 0))
    <3>1. El("failed", 0) \in Element
      BY DEF Element, El
    <3>2. Wire'
      BY <1>1, <1>2, <2>3, <2>6, <3>1, ElFields, GiveWire
    <3> QED
      BY <1>4, <2>4, <3>2
  <2> QED
    BY <2>2, <2>5, <2>6
<1>7. CASE Head(toServer).kind \notin {"enable", "resume"}
  <2>1. UNCHANGED <<counting, managed, toClient>> /\ (~counting => handled' = handled)
    BY <1>7 DEF ServerTakes, serverVars
  <2>2. One(toServer, "resume") => One(toServer', "resume")
    BY <1>1, <1>2, OneTail
  <2>3. Wire'
    BY <1>1, <1>2, <1>3, <2>1, <2>2 DEF StreamInv, Wire
  <2> QED
    BY <1>1, <1>3, <1>4, <2>1, <2>3 DEF StreamInv, EnableOnce
<1> QED
  BY <1>5, <1>6, <1>7

LEMMA SendsStream == ASSUME StreamInv, ServerSends PROVE Wire' /\ Phase' /\ EnableOnce'
<1>1. /\ UNCHANGED <<enabled, unacked, recorded, enabling, stream, toServer, counting, managed, handled>>
      /\ stream # "down" /\ managed \in BOOLEAN
  BY StreamTypesOf DEF ServerSends, smVars
<1>2. PICK m \in {El("stanza", 0), El("r", 0), El("a", Len(handled) % Modulus)} :
          toClient' = Append(toClient, m) /\ (m = El("stanza", 0) \/ managed)
  BY DEF ServerSends
<1>3. m \in Element /\ m.kind \in {"stanza", "r", "a"} /\ (m.kind \in {"a", "r"} => managed)
  <2>1. m \in Inward
    BY InwardElements DEF StreamInv
  <2> QED
    BY <1>2, <2>1, ElFields DEF Inward
<1>4. Wire'
  BY <1>1, <1>2, <1>3, GiveWire
<1> QED
  BY <1>1, <1>4 DEF StreamInv, Phase, EnableOnce

LEMMA NextStreamInv == StreamInv /\ [Next]_vars => StreamInv'
<1> SUFFICES ASSUME StreamInv, [Next]_vars PROVE StreamInv'
  OBVIOUS
<1>1. TypeInv' /\ CountInv'
  BY NextTypeInv, NextCountInv DEF StreamInv
<1>2. CASE UNCHANGED vars
  <2>1. Wire' /\ Phase' /\ EnableOnce'
    BY <1>2 DEF StreamInv, Wire, Phase, EnableOnce, vars, smVars, serverVars
  <2> QED
    BY <1>1, <2>1 DEF StreamInv
<1>3. CASE Next
  <2>1. Wire' /\ Phase' /\ EnableOnce'
    BY <1>1, <1>3, SendStream, EnableStream, ReaderStream, RefusedStream, ConnectionStream, TakesStream,
       SendsStream DEF Next
  <2> QED
    BY <1>1, <2>1 DEF StreamInv
<1> QED
  BY <1>2, <1>3
-----------------------------------------------------------------------------
(* Stream management: the queue of unacknowledged stanzas. *)

(* k gives every acknowledgement under way its count without the wrap: they *)
(* grow from the one applied last, k[0], to what the server has handled.    *)
AckLedger(k, q, a, h) ==
    /\ k \in [0..Len(q) -> 0..h] /\ a = k[0] % Modulus
    /\ \A i \in 1..Len(q) : /\ k[i - 1] <= k[i]
                            /\ q[i].kind \in {"a", "resumed"} => q[i].n = k[i] % Modulus
                            /\ q[i].kind = "resumed" => k[i] = h

(* c gives the elements under way to the server the count it will have then.*)
SendLedger(c, q, h) ==
    /\ c \in [0..Len(q) -> Nat] /\ c[0] = h
    /\ \A i \in 1..Len(q) : c[i] = IF q[i].kind = "stanza" THEN c[i - 1] + 1 ELSE c[i - 1]
    /\ \A i, j \in 0..Len(q) : i <= j => c[i] <= c[j]

(* By the time the server has counted x stanzas it has n: it has it now, or *)
(* n is among those under way, or among those to be sent again.             *)
Placed(n, x, c, q, r, t) ==
    \/ n \in t
    \/ \E i \in 1..Len(q) : q[i].kind = "stanza" /\ q[i].n = n /\ c[i] <= x
    \/ \E j \in 1..Len(r) : r[j] = n /\ c[Len(q)] + j <= x
SentIn(n, q) == \E i \in 1..Len(q) : q[i].kind = "stanza" /\ q[i].n = n

NoHolds == \A s \in Senders : holds[s] = 0

(* While connected: the stanza at place p of the queue is with the server   *)
(* before p more acknowledgements than the a applied so far can be given.   *)
FitsUp(a, c) ==
    /\ SendLedger(c, toServer, Len(handled))
    /\ c[Len(toServer)] <= a + Len(unacked) + 1
    /\ NoHolds => c[Len(toServer)] <= a + Len(unacked)
    /\ \A p \in 1..Len(unacked) : Placed(unacked[p], a + p, c, toServer, replay, taken)
    /\ \A s \in Senders : holds[s] # 0 => holds[s] \in taken \/ SentIn(holds[s], toServer)

(* Until resumption: what the server has not is beyond what it can ack, and *)
(* so is what is sent meanwhile.                                            *)
FitsLost(a) ==
    /\ Len(handled) <= a + Len(unacked) + 1
    /\ NoHolds => Len(handled) <= a + Len(unacked)
    /\ \A p \in 1..Len(unacked) : unacked[p] \in taken \/ Len(handled) < a + p
    /\ \A s \in Senders : holds[s] # 0 => holds[s] \in taken \/ Len(handled) <= a + Len(unacked)

Keeps ==
    \E k : /\ AckLedger(k, toClient, acked, Len(handled))
           /\ enabled /\ stream = "up" => \E c : FitsUp(k[0], c)
           /\ stream # "up" => FitsLost(k[0])

(* Every stanza under way is followed by a request of the given kind.       *)
Before(q, kind) ==
    \A i \in 1..Len(q) : q[i].kind = "stanza" => \E j \in 1..Len(q) : i < j /\ q[j].kind = kind

(* One Send at a time, none during Enable or resumption.                    *)
OneByOne ==
    /\ \A s, t \in Senders : holds[s] # 0 /\ holds[t] # 0 => s = t
    /\ enabling \in {"sent", "got"} =>
           NoHolds /\ handled = <<>> /\ Before(toServer, "enable")
    /\ stream = "resuming" => NoHolds /\ Before(toServer, "resume")

QueueInv == orderly => OneByOne /\ Keeps /\ UnackedRetained

LEMMA BeforeTail ==
    ASSUME NEW q \in Seq(Element), q # <<>>, NEW kind, Before(q, kind)
    PROVE  Before(Tail(q), kind)
<1>1. /\ Len(q) = Len(Tail(q)) + 1 /\ Len(Tail(q)) \in Nat
      /\ \A i \in 1..Len(Tail(q)) : i + 1 \in 1..Len(q) /\ Tail(q)[i] = q[i + 1]
  BY TailFacts
<1>2. ASSUME NEW i \in 1..Len(Tail(q)), Tail(q)[i].kind = "stanza"
      PROVE  \E j \in 1..Len(Tail(q)) : i < j /\ Tail(q)[j].kind = kind
  <2>1. PICK j \in 1..Len(q) : i + 1 < j /\ q[j].kind = kind
    BY <1>1, <1>2 DEF Before
  <2>2. j - 1 \in 1..Len(Tail(q)) /\ (j - 1) + 1 = j /\ i < j - 1
    BY <1>1, <2>1
  <2>3. Tail(q)[j - 1].kind = kind
    BY <1>1, <2>1, <2>2
  <2> QED
    BY <2>2, <2>3
<1> QED
  BY <1>2 DEF Before

LEMMA BeforeAppend ==
    ASSUME NEW q \in Seq(Element), NEW m \in Element, m.kind # "stanza"
    PROVE  Before(Append(q, m), m.kind)
<1>1. PICK r : r = Append(q, m)
  OBVIOUS
<1>2. /\ Len(r) = Len(q) + 1 /\ r[Len(q) + 1] = m /\ Len(q) \in Nat
      /\ \A i \in 1..Len(r) : i \in 1..Len(q) \/ i = Len(q) + 1
  BY <1>1, AppendFacts
<1>3. ASSUME NEW i \in 1..Len(r), r[i].kind = "stanza"
      PROVE  \E j \in 1..Len(r) : i < j /\ r[j].kind = m.kind
  <2>1. i # Len(q) + 1
    BY <1>2, <1>3
  <2>2. Len(q) + 1 \in 1..Len(r) /\ i < Len(q) + 1
    BY <1>2, <2>1
  <2> QED
    BY <1>2, <2>2
<1> QED
  BY <1>1, <1>3 DEF Before

(* Where the request has been taken no stanza is under way.                 *)
LEMMA BeforeNone ==
    ASSUME NEW q \in Seq(Element), NEW kind, Before(q, kind), Lacks(q, kind) PROVE Lacks(q, "stanza")
  BY DEF Before, Lacks

LEMMA LedgerEmpty ==
    ASSUME NEW v \in Nat, NEW h \in Nat, v <= h, NEW a, a = v % Modulus, NEW q, q = <<>>
    PROVE  \E j : AckLedger(j, q, a, h) /\ j[0] = v
<1>1. PICK j : j = [i \in 0..0 |-> v]
  OBVIOUS
<1>2. Len(q) = 0 /\ j \in [0..0 -> 0..h] /\ j[0] = v
  BY <1>1
<1> QED
  BY <1>2 DEF AckLedger

LEMMA LedgerSkip ==
    ASSUME NEW q \in Seq(Element), q # <<>>, NEW h \in Nat, NEW a, NEW k, AckLedger(k, q, a, h)
    PROVE  \E j : AckLedger(j, Tail(q), a, h) /\ j[0] = k[0]
<1>1. PICK r : r = Tail(q)
  OBVIOUS
<1>2. /\ Len(q) = Len(r) + 1 /\ Len(r) \in Nat
      /\ \A i \in 1..Len(r) : i + 1 \in 1..Len(q) /\ r[i] = q[i + 1]
  BY <1>1, TailFacts
<1>3. PICK n \in Nat : n = Len(r)
  BY <1>2
<1>4. PICK j : j = [i \in 0..n |-> IF i = 0 THEN k[0] ELSE k[i + 1]]
  OBVIOUS
<1>5. j[0] = k[0] /\ \A i \in 1..n : j[i] = k[i + 1]
  BY <1>4
<1>6. k \in [0..(n + 1) -> 0..h]
  BY <1>2, <1>3 DEF AckLedger
<1>7. j \in [0..n -> 0..h]
  BY <1>4, <1>6
<1>8. ASSUME NEW i \in 1..n
      PROVE  /\ j[i - 1] <= j[i] /\ (r[i].kind \in {"a", "resumed"} => r[i].n = j[i] % Modulus)
             /\ r[i].kind = "resumed" => j[i] = h
  <2>1. i + 1 \in 1..Len(q) /\ (i + 1) - 1 = i /\ r[i] = q[i + 1]
    BY <1>2, <1>3
  <2>2. /\ k[i] <= k[i + 1] /\ (r[i].kind \in {"a", "resumed"} => r[i].n = k[i + 1] % Modulus)
        /\ r[i].kind = "resumed" => k[i + 1] = h
    BY <2>1 DEF AckLedger
  <2>3. j[i - 1] <= k[i]
    <3>1. CASE i = 1
      <4>1. 1 \in 1..Len(q) /\ 1 - 1 = 0
        BY <1>2, <1>3
      <4>2. k[0] <= k[1]
        BY <4>1 DEF AckLedger
      <4> QED
        BY <1>5, <3>1, <4>2
    <3>2. CASE i # 1
      <4>1. i - 1 \in 1..n /\ (i - 1) + 1 = i /\ i \in 0..(n + 1)
        BY <3>2
      <4>2. j[i - 1] = k[i] /\ k[i] \in 0..h
        BY <1>5, <1>6, <4>1
      <4> QED
        BY <4>2
    <3> QED
      BY <3>1, <3>2
  <2>4. /\ j[i] = k[i + 1] /\ k[i] \in 0..h /\ k[i + 1] \in 0..h /\ j[i - 1] \in 0..h
    BY <1>5, <1>6, <1>7
  <2> QED
    BY <2>2, <2>3, <2>4
<1>9. a = j[0] % Modulus
  BY <1>5 DEF AckLedger
<1>10. AckLedger(j, r, a, h)
  BY <1>3, <1>7, <1>8, <1>9 DEF AckLedger
<1> QED
  BY <1>1, <1>5, <1>10

LEMMA LedgerAck ==
    ASSUME NEW q \in Seq(Element), q # <<>>, NEW h \in Nat, NEW a, NEW k, AckLedger(k, q, a, h),
           Head(q).kind \in {"a", "resumed"}
    PROVE  /\ k[0] \in Nat /\ k[1] \in Nat /\ k[0] <= k[1] /\ k[1] <= h
           /\ a = k[0] % Modulus /\ Head(q).n = k[1] % Modulus
           /\ Head(q).kind = "resumed" => k[1] = h
           /\ \E j : AckLedger(j, Tail(q), Head(q).n, h) /\ j[0] = k[1]
<1>1. PICK r : r = Tail(q)
  OBVIOUS
<1>2. /\ Len(q) = Len(r) + 1 /\ Len(r) \in Nat /\ Head(q) = q[1] /\ 1 \in 1..Len(q)
      /\ \A i \in 1..Len(r) : i + 1 \in 1..Len(q) /\ r[i] = q[i + 1]
  BY <1>1, TailFacts
<1>3. PICK n \in Nat : n = Len(r)
  BY <1>2
<1>4. PICK j : j = [i \in 0..n |-> k[i + 1]]
  OBVIOUS
<1>5. \A i \in 0..n : j[i] = k[i + 1]
  BY <1>4
<1>6. k \in [0..(n + 1) -> 0..h]
  BY <1>2, <1>3 DEF AckLedger
<1>7. j \in [0..n -> 0..h]
  BY <1>4, <1>6
<1>8. /\ k[0] <= k[1] /\ a = k[0] % Modulus /\ Head(q).n = k[1] % Modulus
      /\ Head(q).kind = "resumed" => k[1] = h
  <2>1. 1 - 1 = 0
    OBVIOUS
  <2> QED
    BY <1>2, <2>1 DEF AckLedger
<1>9. k[0] \in 0..h /\ k[1] \in 0..h
  BY <1>6
<1>10. ASSUME NEW i \in 1..n
       PROVE  /\ j[i - 1] <= j[i] /\ (r[i].kind \in {"a", "resumed"} => r[i].n = j[i] % Modulus)
              /\ r[i].kind = "resumed" => j[i] = h
  <2>1. i + 1 \in 1..Len(q) /\ (i + 1) - 1 = i /\ r[i] = q[i + 1]
    BY <1>2, <1>3
  <2>2. /\ k[i] <= k[i + 1] /\ (r[i].kind \in {"a", "resumed"} => r[i].n = k[i + 1] % Modulus)
        /\ r[i].kind = "resumed" => k[i + 1] = h
    BY <2>1 DEF AckLedger
  <2>3. i - 1 \in 0..n /\ i \in 0..n /\ (i - 1) + 1 = i
    OBVIOUS
  <2>4. j[i - 1] = k[i] /\ j[i] = k[i + 1]
    BY <1>5, <2>3
  <2> QED
    BY <2>2, <2>4
<1>11. j[0] = k[1]
  BY <1>5
<1>12. AckLedger(j, r, Head(q).n, h)
  BY <1>3, <1>7, <1>8, <1>10, <1>11 DEF AckLedger
<1> QED
  BY <1>1, <1>8, <1>9, <1>11, <1>12

LEMMA LedgerAppend ==
    ASSUME NEW q \in Seq(Element), NEW m \in Element, NEW h \in Nat, NEW a, NEW k,
           AckLedger(k, q, a, h), m.kind \in {"a", "resumed"} => m.n = h % Modulus
    PROVE  \E j : AckLedger(j, Append(q, m), a, h) /\ j[0] = k[0]
<1>1. PICK r : r = Append(q, m)
  OBVIOUS
<1>2. PICK n \in Nat : n = Len(q)
  OBVIOUS
<1>3. Len(r) = n + 1 /\ r[n + 1] = m /\ \A i \in 1..n : r[i] = q[i]
  BY <1>1, <1>2, AppendFacts
<1>4. PICK j : j = [i \in 0..(n + 1) |-> IF i = n + 1 THEN h ELSE k[i]]
  OBVIOUS
<1>5. j[n + 1] = h /\ \A i \in 0..n : j[i] = k[i]
  BY <1>4
<1>6. k \in [0..n -> 0..h]
  BY <1>2 DEF AckLedger
<1>7. j \in [0..(n + 1) -> 0..h]
  BY <1>4, <1>6
<1>8. ASSUME NEW i \in 1..(n + 1)
      PROVE  /\ j[i - 1] <= j[i] /\ (r[i].kind \in {"a", "resumed"} => r[i].n = j[i] % Modulus)
             /\ r[i].kind = "resumed" => j[i] = h
  <2>1. CASE i = n + 1
    <3>1. i - 1 = n /\ n \in 0..n
      BY <2>1
    <3>2. j[i - 1] = k[n] /\ k[n] \in 0..h
      BY <1>5, <1>6, <3>1
    <3> QED
      BY <1>3, <1>5, <2>1, <3>2
  <2>2. CASE i \in 1..n
    <3>1. i - 1 \in 0..n /\ i \in 0..n
      BY <2>2
    <3>2. j[i - 1] = k[i - 1] /\ j[i] = k[i] /\ r[i] = q[i]
      BY <1>3, <1>5, <2>2, <3>1
    <3> QED
      BY <1>2, <2>2, <3>2 DEF AckLedger
  <2> QED
    BY <2>1, <2>2
<1>9. j[0] = k[0] /\ a = j[0] % Modulus
  BY <1>5 DEF AckLedger
<1>10. AckLedger(j, r, a, h)
  BY <1>3, <1>7, <1>8, <1>9 DEF AckLedger
<1> QED
  BY <1>1, <1>9, <1>10

LEMMA LedgerGrows ==
    ASSUME NEW q \in Seq(Element), NEW h \in Nat, NEW a, NEW k, AckLedger(k, q, a, h),
           Lacks(q, "resumed")
    PROVE  AckLedger(k, q, a, h + 1)
<1>1. k \in [0..Len(q) -> 0..(h + 1)]
  BY DEF AckLedger
<1> QED
  BY <1>1 DEF AckLedger, Lacks

LEMMA SendAppend ==
    ASSUME NEW q \in Seq(Element), NEW m \in Element, NEW h \in Nat, NEW c, SendLedger(c, q, h)
    PROVE  \E d : /\ SendLedger(d, Append(q, m), h) /\ \A i \in 0..Len(q) : d[i] = c[i]
                  /\ d[Len(q) + 1] = IF m.kind = "stanza" THEN c[Len(q)] + 1 ELSE c[Len(q)]
<1>1. PICK r : r = Append(q, m)
  OBVIOUS
<1>2. PICK n \in Nat : n = Len(q)
  OBVIOUS
<1>3. Len(r) = n + 1 /\ r[n + 1] = m /\ \A i \in 1..n : r[i] = q[i]
  BY <1>1, <1>2, AppendFacts
<1>4. /\ c \in [0..n -> Nat] /\ c[0] = h /\ \A i, j \in 0..n : i <= j => c[i] <= c[j]
      /\ \A i \in 1..n : c[i] = IF q[i].kind = "stanza" THEN c[i - 1] + 1 ELSE c[i - 1]
  BY <1>2 DEF SendLedger
<1>5. PICK x \in Nat : x = IF m.kind = "stanza" THEN c[n] + 1 ELSE c[n]
  BY <1>4
<1>6. PICK d : d = [i \in 0..(n + 1) |-> IF i = n + 1 THEN x ELSE c[i]]
  OBVIOUS
<1>7. d[n + 1] = x /\ \A i \in 0..n : d[i] = c[i]
  BY <1>6
<1>8. d \in [0..(n + 1) -> Nat]
  BY <1>4, <1>6
<1>9. c[n] <= x /\ c[n] \in Nat
  BY <1>4, <1>5
<1>10. \A i, j \in 0..(n + 1) : i <= j => d[i] <= d[j]
  <2> SUFFICES ASSUME NEW i \in 0..(n + 1), NEW j \in 0..(n + 1), i <= j PROVE d[i] <= d[j]
    OBVIOUS
  <2>1. CASE j \in 0..n
    <3>1. i \in 0..n
      BY <2>1
    <3>2. d[i] = c[i] /\ d[j] = c[j] /\ c[i] <= c[j]
      BY <1>4, <1>7, <2>1, <3>1
    <3> QED
      BY <3>2
  <2>2. CASE j = n + 1 /\ i \in 0..n
    <3>1. d[i] = c[i] /\ c[i] \in Nat /\ c[i] <= c[n] /\ d[j] = x
      BY <1>4, <1>7, <2>2
    <3> QED
      BY <1>9, <3>1
  <2>3. CASE j = n + 1 /\ i = n + 1
    BY <1>7, <2>3
  <2> QED
    BY <2>1, <2>2, <2>3
<1>11. \A i \in 1..(n + 1) : d[i] = IF r[i].kind = "stanza" THEN d[i - 1] + 1 ELSE d[i - 1]
  <2> SUFFICES ASSUME NEW i \in 1..(n + 1)
               PROVE  d[i] = IF r[i].kind = "stanza" THEN d[i - 1] + 1 ELSE d[i - 1]
    OBVIOUS
  <2>1. CASE i \in 1..n
    <3>1. i - 1 \in 0..n /\ i \in 0..n
      BY <2>1
    <3>2. d[i - 1] = c[i - 1] /\ d[i] = c[i] /\ r[i] = q[i]
      BY <1>3, <1>7, <2>1, <3>1
    <3> QED
      BY <1>4, <2>1, <3>2
  <2>2. CASE i = n + 1
    <3>1. i - 1 = n /\ d[n] = c[n]
      BY <1>7, <2>2
    <3> QED
      BY <1>3, <1>5, <1>7, <2>2, <3>1
  <2> QED
    BY <2>1, <2>2
<1>12. d[0] = h
  BY <1>4, <1>7
<1>13. SendLedger(d, r, h)
  BY <1>3, <1>8, <1>10, <1>11, <1>12 DEF SendLedger
<1> QED
  BY <1>1, <1>2, <1>5, <1>7, <1>13

LEMMA SendTail ==
    ASSUME NEW q \in Seq(Element), q # <<>>, NEW h \in Nat, NEW c, SendLedger(c, q, h)
    PROVE  /\ c[1] = IF Head(q).kind = "stanza" THEN h + 1 ELSE h
           /\ \E d : SendLedger(d, Tail(q), c[1]) /\ \A i \in 0..Len(Tail(q)) : d[i] = c[i + 1]
<1>1. PICK r : r = Tail(q)
  OBVIOUS
<1>2. /\ Len(q) = Len(r) + 1 /\ Len(r) \in Nat /\ Head(q) = q[1] /\ 1 \in 1..Len(q)
      /\ \A i \in 1..Len(r) : i + 1 \in 1..Len(q) /\ r[i] = q[i + 1]
  BY <1>1, TailFacts
<1>3. PICK n \in Nat : n = Len(r)
  BY <1>2
<1>4. /\ c \in [0..(n + 1) -> Nat] /\ c[0] = h /\ \A i, j \in 0..(n + 1) : i <= j => c[i] <= c[j]
      /\ \A i \in 1..(n + 1) : c[i] = IF q[i].kind = "stanza" THEN c[i - 1] + 1 ELSE c[i - 1]
  BY <1>2, <1>3 DEF SendLedger
<1>5. c[1] = IF Head(q).kind = "stanza" THEN h + 1 ELSE h
  <2>1. 1 \in 1..(n + 1) /\ 1 - 1 = 0
    OBVIOUS
  <2> QED
    BY <1>2, <1>4, <2>1
<1>6. PICK d : d = [i \in 0..n |-> c[i + 1]]
  OBVIOUS
<1>7. \A i \in 0..n : d[i] = c[i + 1] /\ i + 1 \in 0..(n + 1)
  BY <1>6
<1>8. d \in [0..n -> Nat]
  BY <1>4, <1>6, <1>7
<1>9. \A i \in 1..n : d[i] = IF r[i].kind = "stanza" THEN d[i - 1] + 1 ELSE d[i - 1]
  <2> SUFFICES ASSUME NEW i \in 1..n
               PROVE  d[i] = IF r[i].kind = "stanza" THEN d[i - 1] + 1 ELSE d[i - 1]
    OBVIOUS
  <2>1. i - 1 \in 0..n /\ i \in 0..n /\ (i - 1) + 1 = i /\ i + 1 \in 1..(n + 1) /\ (i + 1) - 1 = i
    OBVIOUS
  <2>2. d[i - 1] = c[i] /\ d[i] = c[i + 1] /\ r[i] = q[i + 1]
    BY <1>2, <1>3, <1>7, <2>1
  <2> QED
    BY <1>4, <2>1, <2>2
<1>10. \A i, j \in 0..n : i <= j => d[i] <= d[j]
  <2> SUFFICES ASSUME NEW i \in 0..n, NEW j \in 0..n, i <= j PROVE d[i] <= d[j]
    OBVIOUS
  <2>1. d[i] = c[i + 1] /\ d[j] = c[j + 1] /\ i + 1 \in 0..(n + 1) /\ j + 1 \in 0..(n + 1) /\ i + 1 <= j + 1
    BY <1>7
  <2> QED
    BY <1>4, <2>1
<1>11. d[0] = c[1]
  BY <1>7
<1>12. SendLedger(d, r, c[1])
  BY <1>3, <1>8, <1>9, <1>10, <1>11 DEF SendLedger
<1> QED
  BY <1>1, <1>3, <1>5, <1>7, <1>12

LEMMA SendBounds ==
    ASSUME NEW q \in Seq(Element), NEW h \in Nat, NEW c, SendLedger(c, q, h), NEW i \in 0..Len(q)
    PROVE  c[i] \in Nat /\ h <= c[i] /\ c[i] <= c[Len(q)] /\ (i # 0 /\ q[i].kind = "stanza" => h < c[i])
<1>1. 0 \in 0..Len(q) /\ Len(q) \in 0..Len(q) /\ 0 <= i /\ i <= Len(q)
  OBVIOUS
<1>2. c[i] \in Nat /\ c[0] = h /\ c[0] <= c[i] /\ c[i] <= c[Len(q)]
  BY <1>1 DEF SendLedger
<1>3. ASSUME i # 0, q[i].kind = "stanza" PROVE h < c[i]
  <2>1. i - 1 \in 0..Len(q) /\ i \in 1..Len(q) /\ 0 <= i - 1
    BY <1>3
  <2>2. c[i] = c[i - 1] + 1 /\ c[0] <= c[i - 1] /\ c[i - 1] \in Nat
    BY <1>1, <1>3, <2>1 DEF SendLedger
  <2> QED
    BY <1>2, <2>2
<1> QED
  BY <1>2, <1>3

LEMMA SendNone ==
    ASSUME NEW q \in Seq(Element), NEW h \in Nat, Lacks(q, "stanza")
    PROVE  \E c : SendLedger(c, q, h) /\ c[Len(q)] = h
<1>1. PICK c : c = [i \in 0..Len(q) |-> h]
  OBVIOUS
<1>2. c \in [0..Len(q) -> Nat] /\ \A i \in 0..Len(q) : c[i] = h
  BY <1>1
<1>3. \A i \in 1..Len(q) : i \in 0..Len(q) /\ i - 1 \in 0..Len(q)
  OBVIOUS
<1>4. 0 \in 0..Len(q) /\ Len(q) \in 0..Len(q)
  OBVIOUS
<1>5. SendLedger(c, q, h)
  BY <1>2, <1>3, <1>4 DEF SendLedger, Lacks
<1> QED
  BY <1>2, <1>4, <1>5

(* An acknowledgement takes no more off the queue than it acknowledges.     *)
LEMMA AckDelta ==
    ASSUME NEW a \in Nat, NEW r \in Nat, a <= r
    PROVE  ((r % Modulus) + Modulus - (a % Modulus)) % Modulus <= r - a
<1>1. PICK m \in Nat \ {0} : m = Modulus
  BY ModulusAssumption
<1>2. PICK p \in Nat, x \in 0..(m - 1) : p = a \div m /\ x = a % m
  BY ModRange
<1>3. PICK q \in Nat, y \in 0..(m - 1) : q = r \div m /\ y = r % m
  BY ModRange
<1>4. a = m * p + x /\ r = m * q + y
  BY <1>2, <1>3, DivMod
<1>5. PICK u \in Nat, v \in Nat : u = m * p /\ v = m * q
  OBVIOUS
<1>6. ~(q < p)
  <2> SUFFICES ASSUME q < p PROVE FALSE
    OBVIOUS
  <2>1. m * q + m <= m * p
    BY MulMono
  <2> QED
    BY <1>4, <1>5, <2>1
<1>7. p < q => u + m <= v
  BY <1>5, MulMono
<1>8. p = q => u = v
  BY <1>5
<1>9. CASE y >= x
  <2>1. y - x \in 0..(m - 1) /\ y + m - x = m * 1 + (y - x)
    BY <1>9
  <2>2. (m * 1 + (y - x)) % m = y - x
    BY <2>1, ModUnique
  <2>3. (y + m - x) % m = y - x
    BY <2>1, <2>2
  <2>4. y - x <= r - a
    BY <1>4, <1>5, <1>6, <1>7, <1>8
  <2> QED
    BY <1>1, <1>2, <1>3, <2>3, <2>4
<1>10. CASE y < x
  <2>1. y + m - x \in 0..(m - 1) /\ y + m - x = m * 0 + (y + m - x)
    BY <1>10
  <2>2. (m * 0 + (y + m - x)) % m = y + m - x
    BY <2>1, ModUnique
  <2>3. (y + m - x) % m = y + m - x
    BY <2>1, <2>2
  <2>4. p # q
    BY <1>4, <1>5, <1>8, <1>10
  <2>5. p < q
    BY <1>6, <2>4
  <2>6. y + m - x <= r - a
    BY <1>4, <1>5, <1>7, <2>5
  <2> QED
    BY <1>1, <1>2, <1>3, <2>3, <2>6
<1> QED
  BY <1>9, <1>10
LEMMA PlacedTail ==
    ASSUME NEW q \in Seq(Element), q # <<>>, NEW c, NEW d, NEW n, NEW x, NEW r, NEW t, NEW w,
           Placed(n, x, c, q, r, t), \A i \in 0..Len(Tail(q)) : d[i] = c[i + 1],
           t \subseteq w, Head(q).kind = "stanza" => Head(q).n \in w
    PROVE  Placed(n, x, d, Tail(q), r, w)
<1>1. /\ Len(q) = Len(Tail(q)) + 1 /\ Head(q) = q[1] /\ Len(Tail(q)) \in Nat
      /\ \A i \in 1..Len(Tail(q)) : Tail(q)[i] = q[i + 1]
  BY TailFacts
<1>2. CASE n \in t
  BY <1>2 DEF Placed
<1>3. CASE \E i \in 1..Len(q) : q[i].kind = "stanza" /\ q[i].n = n /\ c[i] <= x
  <2>1. PICK i \in 1..Len(q) : q[i].kind = "stanza" /\ q[i].n = n /\ c[i] <= x
    BY <1>3
  <2>2. CASE i = 1
    BY <1>1, <2>1, <2>2 DEF Placed
  <2>3. CASE i # 1
    <3>1. i - 1 \in 1..Len(Tail(q)) /\ i - 1 \in 0..Len(Tail(q)) /\ (i - 1) + 1 = i
      BY <1>1, <2>3
    <3>2. Tail(q)[i - 1] = q[i] /\ d[i - 1] = c[i]
      BY <1>1, <3>1
    <3> QED
      BY <2>1, <3>1, <3>2 DEF Placed
  <2> QED
    BY <2>2, <2>3
<1>4. CASE \E j \in 1..Len(r) : r[j] = n /\ c[Len(q)] + j <= x
  <2>1. d[Len(Tail(q))] = c[Len(q)]
    BY <1>1
  <2> QED
    BY <1>4, <2>1 DEF Placed
<1> QED
  BY <1>2, <1>3, <1>4 DEF Placed

LEMMA PlacedAppend ==
    ASSUME NEW q \in Seq(Element), NEW m \in Element, NEW c, NEW d, NEW n, NEW x, NEW r, NEW t, NEW h,
           SendLedger(c, q, h),
           Placed(n, x, c, q, r, t), \A i \in 0..Len(q) : d[i] = c[i],
           \/ m.kind # "stanza" /\ d[Len(q) + 1] = c[Len(q)]
           \/ r = <<>>
    PROVE  Placed(n, x, d, Append(q, m), r, t)
<1>1. /\ Len(Append(q, m)) = Len(q) + 1 /\ \A i \in 1..Len(q) : Append(q, m)[i] = q[i]
  BY AppendFacts
<1>2. CASE n \in t
  BY <1>2 DEF Placed
<1>3. CASE \E i \in 1..Len(q) : q[i].kind = "stanza" /\ q[i].n = n /\ c[i] <= x
  <2>1. PICK i \in 1..Len(q) : q[i].kind = "stanza" /\ q[i].n = n /\ c[i] <= x
    BY <1>3
  <2>2. i \in 1..Len(Append(q, m)) /\ d[i] = c[i] /\ Append(q, m)[i] = q[i]
    BY <1>1
  <2> QED
    BY <2>1, <2>2 DEF Placed
<1>4. CASE \E j \in 1..Len(r) : r[j] = n /\ c[Len(q)] + j <= x
  <2>1. r # <<>>
    BY <1>4
  <2>2. d[Len(Append(q, m))] = c[Len(q)]
    BY <1>1, <2>1
  <2> QED
    BY <1>4, <2>2 DEF Placed
<1> QED
  BY <1>2, <1>3, <1>4 DEF Placed

(* A stanza that is sent again moves from what is to be sent to the wire.   *)
LEMMA PlacedMove ==
    ASSUME NEW q \in Seq(Element), NEW m \in Element, NEW c, NEW d, NEW n, NEW x, NEW r \in Seq(Stanzas),
           NEW t, NEW h \in Nat, SendLedger(c, q, h),
           Placed(n, x, c, q, r, t), \A i \in 0..Len(q) : d[i] = c[i],
           r # <<>>, m.kind = "stanza", m.n = Head(r), d[Len(q) + 1] = c[Len(q)] + 1
    PROVE  Placed(n, x, d, Append(q, m), Tail(r), t)
<1>1. /\ Len(Append(q, m)) = Len(q) + 1 /\ \A i \in 1..Len(q) : Append(q, m)[i] = q[i]
      /\ Append(q, m)[Len(q) + 1] = m /\ Len(q) + 1 \in 1..Len(Append(q, m))
  BY AppendFacts
<1>2. CASE n \in t
  BY <1>2 DEF Placed
<1>3. CASE \E i \in 1..Len(q) : q[i].kind = "stanza" /\ q[i].n = n /\ c[i] <= x
  <2>1. PICK i \in 1..Len(q) : q[i].kind = "stanza" /\ q[i].n = n /\ c[i] <= x
    BY <1>3
  <2>2. i \in 1..Len(Append(q, m)) /\ d[i] = c[i] /\ Append(q, m)[i] = q[i]
    BY <1>1
  <2> QED
    BY <2>1, <2>2 DEF Placed
<1>4. CASE \E j \in 1..Len(r) : r[j] = n /\ c[Len(q)] + j <= x
  <2>1. PICK j \in 1..Len(r) : r[j] = n /\ c[Len(q)] + j <= x
    BY <1>4
  <2>2. Head(r) = r[1] /\ Len(Tail(r)) = Len(r) - 1 /\ \A i \in 1..Len(Tail(r)) : Tail(r)[i] = r[i + 1]
    OBVIOUS
  <2>3. CASE j = 1
    BY <1>1, <2>1, <2>2, <2>3 DEF Placed
  <2>4. CASE j # 1
    <3>1. j - 1 \in 1..Len(Tail(r)) /\ (j - 1) + 1 = j
      BY <2>2, <2>4
    <3>2. Tail(r)[j - 1] = n
      BY <2>1, <2>2, <3>1
    <3>3. c[Len(q)] \in Nat
      BY DEF SendLedger
    <3>4. d[Len(Append(q, m))] + (j - 1) <= x
      <4>1. (c[Len(q)] + 1) + (j - 1) = c[Len(q)] + j
        BY <3>3
      <4> QED
        BY <1>1, <2>1, <4>1
    <3> QED
      BY <3>1, <3>2, <3>4 DEF Placed
  <2> QED
    BY <2>3, <2>4
<1> QED
  BY <1>2, <1>3, <1>4 DEF Placed

LEMMA SentAppend ==
    ASSUME NEW q \in Seq(Element), NEW m \in Element, NEW n,
           SentIn(n, q) \/ (m.kind = "stanza" /\ m.n = n)
    PROVE  SentIn(n, Append(q, m))
<1>1. /\ Len(Append(q, m)) = Len(q) + 1 /\ \A i \in 1..Len(q) : Append(q, m)[i] = q[i]
      /\ Append(q, m)[Len(q) + 1] = m /\ Len(q) + 1 \in 1..Len(Append(q, m))
      /\ \A i \in 1..Len(q) : i \in 1..Len(Append(q, m))
  BY AppendFacts
<1> QED
  BY <1>1 DEF SentIn

LEMMA SentTail ==
    ASSUME NEW q \in Seq(Element), q # <<>>, NEW n, SentIn(n, q)
    PROVE  (Head(q).kind = "stanza" /\ Head(q).n = n) \/ SentIn(n, Tail(q))
<1>1. PICK i \in 1..Len(q) : q[i].kind = "stanza" /\ q[i].n = n
  BY DEF SentIn
<1>2. /\ Len(q) = Len(Tail(q)) + 1 /\ Head(q) = q[1] /\ Len(Tail(q)) \in Nat
      /\ \A j \in 1..Len(Tail(q)) : Tail(q)[j] = q[j + 1]
  BY TailFacts
<1>3. CASE i = 1
  BY <1>1, <1>2, <1>3
<1>4. CASE i # 1
  <2>1. i - 1 \in 1..Len(Tail(q)) /\ (i - 1) + 1 = i
    BY <1>2, <1>4
  <2> QED
    BY <1>1, <1>2, <2>1 DEF SentIn
<1> QED
  BY <1>3, <1>4

LEMMA InQueue == ASSUME NEW q \in Seq(Stanzas), NEW n PROVE n \in ToSet(q) <=> \E p \in 1..Len(q) : q[p] = n
  BY DEF ToSet

LEMMA QueueTypes ==
    ASSUME StreamInv
    PROVE  /\ toServer \in Seq(Element) /\ toClient \in Seq(Element) /\ unacked \in Seq(Stanzas)
           /\ replay \in Seq(Stanzas) /\ holds \in [Senders -> {0} \cup Stanzas]
           /\ Len(handled) \in Nat /\ Len(unacked) \in Nat /\ handled \in Seq(Stanzas)
           /\ orderly \in BOOLEAN /\ counting \in BOOLEAN /\ enabled \in BOOLEAN
           /\ enabled => counting
  BY DEF StreamInv, TypeInv, TypeOK, CountInv

LEMMA InitQueueInv == Init => QueueInv
<1> SUFFICES ASSUME Init PROVE QueueInv
  OBVIOUS
<1>1. NoHolds /\ enabling = "idle" /\ stream = "up" /\ recorded = {}
  BY DEF Init, NoHolds
<1>2. ~enabled
  BY Zenon DEF Init
<1>3. handled = <<>> /\ toClient = <<>> /\ acked = 0
  BY DEF Init
<1>4. Len(handled) = 0 /\ 0 = 0 % Modulus
  BY <1>3, ModulusAssumption
<1>5. PICK k : AckLedger(k, toClient, acked, Len(handled))
  BY <1>3, <1>4, LedgerEmpty
<1>6. Keeps
  BY <1>1, <1>2, <1>5 DEF Keeps
<1>7. OneByOne
  BY <1>1 DEF OneByOne, NoHolds
<1>8. UnackedRetained
  BY <1>1 DEF UnackedRetained
<1> QED
  BY <1>6, <1>7, <1>8 DEF QueueInv

LEMMA LedgerStart ==
    ASSUME NEW q \in Seq(Element), NEW h \in Nat, NEW a, NEW k, AckLedger(k, q, a, h)
    PROVE  k[0] \in Nat /\ k[0] <= h /\ a = k[0] % Modulus
<1>1. 0 \in 0..Len(q)
  OBVIOUS
<1>2. k[0] \in 0..h
  BY <1>1 DEF AckLedger
<1> QED
  BY <1>2 DEF AckLedger

LEMMA WriteQueue ==
    ASSUME StreamInv, QueueInv, NEW s \in Senders, SendWrite(s), StreamInv' PROVE QueueInv'
<1> SUFFICES ASSUME orderly' PROVE OneByOne' /\ Keeps' /\ UnackedRetained'
  BY DEF QueueInv
<1>1. /\ enabling \notin {"sent", "got"} /\ stream # "resuming" /\ NoHolds
      /\ UNCHANGED <<enabled, acked, unacked, recorded, enabling, toClient, stream, handled, taken>>
      /\ toServer' = Append(toServer, El("stanza", holds'[s]))
      /\ orderly' = (orderly /\ enabling \notin {"sent", "got"} /\ stream # "resuming" /\ NoHolds)
  BY DEF SendWrite, smVars, serverVars, NoHolds
<1>2. orderly
  BY <1>1, Zenon
<1>3. OneByOne /\ Keeps /\ UnackedRetained
  BY <1>2 DEF QueueInv
<1>4. PICK n : /\ holds' = [holds EXCEPT ![s] = n]
               /\ \/ replay # <<>> /\ n = Head(replay) /\ replay' = Tail(replay)
                  \/ (stream = "up" => replay = <<>>) /\ n = nextStanza /\ replay' = replay
  BY DEF SendWrite
<1>5. holds'[s] = n /\ \A t \in Senders : t # s => holds'[t] = 0
  <2>1. holds \in [Senders -> {0} \cup Stanzas]
    BY QueueTypes
  <2>2. \A t \in Senders : t # s => holds'[t] = holds[t]
    BY <1>4, <2>1
  <2> QED
    BY <1>1, <1>4, <2>1, <2>2 DEF NoHolds
<1>6. n # 0 /\ n \in Nat
  <2>1. CASE n = Head(replay) /\ replay # <<>>
    <3>1. n \in Stanzas
      BY <2>1, QueueTypes
    <3> QED
      BY <3>1, BoundsAssumption DEF Stanzas
  <2>2. CASE n = nextStanza
    <3>1. nextStanza \in 1..(MaxSend + 1)
      BY DEF StreamInv, TypeInv, TypeOK
    <3> QED
      BY <2>2, <3>1, BoundsAssumption
  <2> QED
    BY <1>4, <2>1, <2>2
<1>7. PICK m : m = El("stanza", n)
  OBVIOUS
<1>8. m \in Element /\ m.kind = "stanza" /\ m.n = n /\ toServer' = Append(toServer, m)
  BY <1>1, <1>5, <1>6, <1>7 DEF El, Element
<1>9. OneByOne'
  BY <1>1, <1>5 DEF OneByOne
<1>10. UnackedRetained'
  BY <1>1, <1>3 DEF UnackedRetained
<1>11. PICK k : /\ AckLedger(k, toClient, acked, Len(handled))
                /\ enabled /\ stream = "up" => \E c : FitsUp(k[0], c)
                /\ stream # "up" => FitsLost(k[0])
  BY <1>1, <1>3 DEF Keeps
<1>12. ASSUME enabled, stream = "up" PROVE \E c : FitsUp(k[0], c)'
  <2>1. PICK c : FitsUp(k[0], c)
    BY <1>11, <1>12
  <2>2. SendLedger(c, toServer, Len(handled)) /\ toServer \in Seq(Element) /\ Len(handled) \in Nat
    BY <2>1, QueueTypes DEF FitsUp
  <2>3. PICK d : /\ SendLedger(d, Append(toServer, m), Len(handled))
                 /\ \A i \in 0..Len(toServer) : d[i] = c[i]
                 /\ d[Len(toServer) + 1] = c[Len(toServer)] + 1
    BY <1>8, <2>2, SendAppend
  <2>4. SendLedger(d, toServer', Len(handled))
    BY <1>8, <2>3
  <2>5. Len(toServer') = Len(toServer) + 1
    BY <1>8, <2>2, AppendFacts
  <2>6. c[Len(toServer)] <= k[0] + Len(unacked)
    BY <1>1, <2>1 DEF FitsUp
  <2>7. c[Len(toServer)] \in Nat /\ k[0] \in Nat /\ Len(unacked) \in Nat
    <3>1. Len(toServer) \in 0..Len(toServer)
      BY <2>2
    <3> QED
      BY <1>11, <2>2, <3>1, QueueTypes, SendBounds, LedgerStart
  <2>8. d[Len(toServer')] <= k[0] + Len(unacked) + 1
    BY <2>3, <2>5, <2>6, <2>7
  <2>9. ASSUME NEW p \in 1..Len(unacked)
        PROVE  Placed(unacked[p], k[0] + p, d, toServer', replay', taken)
    <3>1. Placed(unacked[p], k[0] + p, c, toServer, replay, taken)
      BY <2>1 DEF FitsUp
    <3>2. CASE replay # <<>> /\ n = Head(replay) /\ replay' = Tail(replay)
      <4>1. replay \in Seq(Stanzas)
        BY QueueTypes
      <4>2. Placed(unacked[p], k[0] + p, d, Append(toServer, m), Tail(replay), taken)
        BY <1>8, <2>2, <2>3, <3>1, <3>2, <4>1, PlacedMove
      <4> QED
        BY <1>8, <3>2, <4>2
    <3>3. CASE replay = <<>> /\ replay' = replay
      <4>1. Placed(unacked[p], k[0] + p, d, Append(toServer, m), replay, taken)
        BY <1>8, <2>2, <2>3, <3>1, <3>3, PlacedAppend
      <4> QED
        BY <1>8, <3>3, <4>1
    <3> QED
      BY <1>4, <1>12, <3>2, <3>3
  <2>10. SentIn(n, toServer')
    BY <1>8, <2>2, SentAppend
  <2>11. \A t \in Senders : holds'[t] # 0 => SentIn(holds'[t], toServer')
    BY <1>5, <2>10
  <2>12. ~NoHolds'
    BY <1>5, <1>6 DEF NoHolds
  <2>13. FitsUp(k[0], d)'
    BY <1>1, <2>4, <2>8, <2>9, <2>11, <2>12 DEF FitsUp
  <2> QED
    BY <2>13
<1>13. ASSUME stream # "up" PROVE FitsLost(k[0])'
  <2>1. FitsLost(k[0]) /\ Len(handled) <= k[0] + Len(unacked)
    BY <1>1, <1>11, <1>13 DEF FitsLost
  <2>2. ~NoHolds'
    BY <1>5, <1>6 DEF NoHolds
  <2> QED
    BY <1>1, <2>1, <2>2 DEF FitsLost
<1>14. Keeps'
  BY <1>1, <1>11, <1>12, <1>13 DEF Keeps
<1> QED
  BY <1>9, <1>10, <1>14

LEMMA SentQueue ==
    ASSUME StreamInv, QueueInv, NEW s \in Senders, OnSent(s), StreamInv' PROVE QueueInv'
<1> SUFFICES ASSUME orderly' PROVE OneByOne' /\ Keeps' /\ UnackedRetained'
  BY DEF QueueInv
<1>1. /\ UNCHANGED <<enabled, acked, enabling, toServer, toClient, stream, handled, taken, replay, orderly>>
      /\ holds[s] # 0 /\ holds' = [holds EXCEPT ![s] = 0]
      /\ ~enabled => UNCHANGED <<unacked, recorded>>
      /\ enabled => unacked' = Append(unacked, holds[s]) /\ recorded' = recorded \cup {holds[s]}
  BY DEF OnSent, serverVars
<1>2. OneByOne /\ Keeps /\ UnackedRetained
  BY <1>1 DEF QueueInv
<1>3. PICK n : n = holds[s]
  OBVIOUS
<1>4. n # 0 /\ n \in Stanzas /\ unacked \in Seq(Stanzas) /\ holds \in [Senders -> {0} \cup Stanzas]
  BY <1>1, <1>3, QueueTypes
<1>5. NoHolds' /\ \A t \in Senders : holds'[t] = 0
  BY <1>1, <1>2, <1>4 DEF OneByOne, NoHolds
<1>6. enabling \notin {"sent", "got"} /\ stream # "resuming"
  BY <1>1, <1>2 DEF OneByOne, NoHolds
<1>7. OneByOne'
  BY <1>1, <1>5, <1>6 DEF OneByOne
<1>8. PICK k : /\ AckLedger(k, toClient, acked, Len(handled))
               /\ enabled /\ stream = "up" => \E c : FitsUp(k[0], c)
               /\ stream # "up" => FitsLost(k[0])
  BY <1>2 DEF Keeps
<1>9. k[0] \in Nat /\ Len(unacked) \in Nat /\ Len(handled) \in Nat /\ toServer \in Seq(Element)
  BY <1>8, QueueTypes, LedgerStart
<1>10. CASE ~enabled
  <2>1. stream = "up"
    BY <1>10 DEF StreamInv, Phase
  <2>2. Keeps'
    BY <1>1, <1>8, <1>10, <2>1 DEF Keeps
  <2>3. UnackedRetained'
    BY <1>1, <1>2, <1>10 DEF UnackedRetained
  <2> QED
    BY <1>7, <2>2, <2>3
<1>11. CASE enabled
  <2>1. PICK l \in Nat : l = Len(unacked)
    BY <1>9
  <2>2. /\ unacked' = Append(unacked, n) /\ Len(unacked') = l + 1 /\ unacked'[l + 1] = n
        /\ unacked' \in Seq(Stanzas) /\ \A p \in 1..l : unacked'[p] = unacked[p]
    <3>1. unacked' = Append(unacked, n)
      BY <1>1, <1>3, <1>11
    <3> QED
      BY <1>4, <2>1, <3>1
  <2>3. \A p \in 1..Len(unacked') : p \in 1..l \/ p = l + 1
    BY <2>2
  <2>4. UnackedRetained'
    <3>1. \A x \in recorded : x \in taken \/ \E p \in 1..l : unacked[p] = x
      BY <1>2, <1>4, <2>1, InQueue DEF UnackedRetained
    <3>2. \A p \in 1..l : p \in 1..Len(unacked')
      BY <2>2
    <3>3. l + 1 \in 1..Len(unacked')
      BY <2>2
    <3>4. \A x \in recorded' : x \in taken \/ \E p \in 1..Len(unacked') : unacked'[p] = x
      BY <1>1, <1>3, <1>11, <2>2, <3>1, <3>2, <3>3
    <3>5. PICK v \in Seq(Stanzas) : v = unacked'
      BY <2>2
    <3>6. \A x \in recorded' : x \in taken \/ x \in ToSet(v)
      BY <3>4, <3>5, InQueue
    <3> QED
      BY <1>1, <3>5, <3>6 DEF UnackedRetained
  <2>5. ASSUME stream = "up" PROVE \E c : FitsUp(k[0], c)'
    <3>1. PICK c : FitsUp(k[0], c)
      BY <1>8, <1>11, <2>5
    <3>2. SendLedger(c, toServer, Len(handled)) /\ c[Len(toServer)] <= k[0] + l + 1
      BY <2>1, <3>1 DEF FitsUp
    <3>3. c[Len(toServer)] \in Nat
      <4>1. Len(toServer) \in 0..Len(toServer)
        BY <1>9
      <4> QED
        BY <1>9, <3>2, <4>1, SendBounds
    <3>4. c[Len(toServer)] <= k[0] + Len(unacked') /\ c[Len(toServer)] <= k[0] + Len(unacked') + 1
      BY <1>9, <2>2, <3>2, <3>3
    <3>5. Placed(n, k[0] + (l + 1), c, toServer, replay, taken)
      <4>1. CASE n \in taken
        BY <4>1 DEF Placed
      <4>2. CASE SentIn(n, toServer)
        <5>1. PICK i \in 1..Len(toServer) : toServer[i].kind = "stanza" /\ toServer[i].n = n
          BY <4>2 DEF SentIn
        <5>2. i \in 0..Len(toServer)
          OBVIOUS
        <5>3. c[i] \in Nat /\ c[i] <= c[Len(toServer)]
          BY <1>9, <3>2, <5>2, SendBounds
        <5>4. c[i] <= k[0] + (l + 1)
          BY <1>9, <3>2, <3>3, <5>3
        <5> QED
          BY <5>1, <5>4 DEF Placed
      <4> QED
        BY <1>3, <1>4, <3>1, <4>1, <4>2 DEF FitsUp
    <3>6. ASSUME NEW p \in 1..Len(unacked')
          PROVE  Placed(unacked'[p], k[0] + p, c, toServer, replay, taken)
      <4>1. CASE p \in 1..l
        BY <2>1, <2>2, <3>1, <4>1 DEF FitsUp
      <4>2. CASE p = l + 1
        BY <2>2, <3>5, <4>2
      <4> QED
        BY <2>3, <4>1, <4>2
    <3>7. FitsUp(k[0], c)'
      BY <1>1, <1>5, <3>2, <3>4, <3>6 DEF FitsUp
    <3> QED
      BY <3>7
  <2>6. ASSUME stream # "up" PROVE FitsLost(k[0])'
    <3>1. FitsLost(k[0])
      BY <1>8, <2>6
    <3>2. (n \in taken \/ Len(handled) <= k[0] + l) /\ Len(handled) <= k[0] + l + 1
      BY <1>3, <1>4, <2>1, <3>1 DEF FitsLost
    <3>3. ASSUME NEW p \in 1..Len(unacked') PROVE unacked'[p] \in taken \/ Len(handled) < k[0] + p
      <4>1. CASE p \in 1..l
        BY <2>1, <2>2, <3>1, <4>1 DEF FitsLost
      <4>2. CASE p = l + 1
        BY <1>9, <2>2, <3>2, <4>2
      <4> QED
        BY <2>3, <4>1, <4>2
    <3>4. Len(handled) <= k[0] + Len(unacked') + 1 /\ Len(handled) <= k[0] + Len(unacked')
      BY <1>9, <2>2, <3>2
    <3> QED
      BY <1>1, <1>5, <3>3, <3>4 DEF FitsLost
  <2>7. Keeps'
    BY <1>1, <1>8, <2>5, <2>6 DEF Keeps
  <2> QED
    BY <1>7, <2>4, <2>7
<1> QED
  BY <1>10, <1>11, QueueTypes

LEMMA EnableQueue ==
    ASSUME StreamInv, QueueInv, EnableSend \/ EnableTake \/ EnableGivesUp PROVE QueueInv'
<1> SUFFICES ASSUME orderly' PROVE OneByOne' /\ Keeps' /\ UnackedRetained'
  BY DEF QueueInv
<1>1. orderly
  BY Zenon DEF EnableSend, EnableTake, EnableGivesUp
<1>2. OneByOne /\ Keeps /\ UnackedRetained
  BY <1>1 DEF QueueInv
<1>3. CASE EnableSend
  <2>1. /\ UNCHANGED <<enabled, acked, unacked, recorded, holds, toClient, stream, handled, taken>>
        /\ enabling = "idle" /\ enabling' = "sent" /\ stream = "up"
        /\ toServer' = Append(toServer, El("enable", 0)) /\ orderly' = (orderly /\ NoHolds)
    BY <1>3 DEF EnableSend, smVars, serverVars, NoHolds
  <2>2. NoHolds
    BY <2>1, Zenon
  <2>3. ~enabled /\ handled = <<>>
    BY <2>1 DEF StreamInv, Phase, EnableOnce
  <2>4. PICK m : m = El("enable", 0)
    OBVIOUS
  <2>5. m \in Element /\ m.kind = "enable"
    BY <2>4 DEF El, Element
  <2>7. Before(toServer', "enable")
    BY <2>1, <2>4, <2>5, QueueTypes, BeforeAppend
  <2>8. NoHolds' /\ handled' = <<>>
    BY <2>1, <2>2, <2>3 DEF NoHolds
  <2>9. OneByOne'
    BY <1>2, <2>1, <2>7, <2>8 DEF OneByOne
  <2>10. Keeps'
    BY <1>2, <2>1, <2>3 DEF Keeps
  <2>11. UnackedRetained'
    BY <1>2, <2>1 DEF UnackedRetained
  <2> QED
    BY <2>9, <2>10, <2>11
<1>4. CASE EnableTake
  <2>1. /\ UNCHANGED <<holds, toServer, toClient, stream, handled, taken, replay>>
        /\ enabling = "got" /\ enabling' = "over" /\ acked' = 0 /\ unacked' = <<>> /\ recorded' = {}
    BY <1>4 DEF EnableTake, serverVars
  <2>2. NoHolds /\ handled = <<>> /\ counting /\ ~enabled
    BY <1>2, <2>1 DEF OneByOne, StreamInv, CountInv, Counts, Phase
  <2>3. stream = "up"
    BY <2>2 DEF StreamInv, Phase
  <2>4. Lacks(toServer, "stanza")
    <3>1. Lacks(toServer, "enable")
      BY <2>2 DEF StreamInv, EnableOnce
    <3>2. Before(toServer, "enable")
      BY <1>2, <2>1 DEF OneByOne
    <3> QED
      BY <3>1, <3>2, QueueTypes, BeforeNone
  <2>5. PICK k : AckLedger(k, toClient, acked, Len(handled))
    BY <1>2 DEF Keeps
  <2>6. Len(handled) = 0 /\ k[0] = 0
    <3>1. Len(handled) = 0 /\ 0 \in 0..Len(toClient)
      BY <2>2, QueueTypes
    <3>2. k[0] \in 0..0
      BY <2>5, <3>1 DEF AckLedger
    <3> QED
      BY <3>1, <3>2
  <2>7. AckLedger(k, toClient, 0, Len(handled))
    <3>1. 0 = 0 % Modulus
      BY ModulusAssumption
    <3> QED
      BY <2>5, <2>6, <3>1 DEF AckLedger
  <2>8. PICK c : SendLedger(c, toServer, Len(handled)) /\ c[Len(toServer)] = 0
    BY <2>4, <2>6, QueueTypes, SendNone
  <2>9. Len(unacked') = 0
    BY <2>1
  <2>10. FitsUp(k[0], c)'
    BY <2>1, <2>2, <2>6, <2>8, <2>9 DEF FitsUp, NoHolds
  <2>11. Keeps'
    BY <2>1, <2>3, <2>7, <2>10 DEF Keeps
  <2>12. OneByOne' /\ UnackedRetained'
    BY <1>2, <2>1 DEF OneByOne, UnackedRetained, NoHolds
  <2> QED
    BY <2>11, <2>12
<1>5. CASE EnableGivesUp
  <2>1. /\ UNCHANGED <<enabled, acked, unacked, recorded, holds, toServer, toClient, stream, handled,
                       taken, replay>>
        /\ enabling' = "over"
    BY <1>5 DEF EnableGivesUp, smVars, serverVars
  <2>2. Keeps'
    BY <1>2, <2>1 DEF Keeps, FitsUp, FitsLost, NoHolds
  <2>3. OneByOne' /\ UnackedRetained'
    BY <1>2, <2>1 DEF OneByOne, UnackedRetained, NoHolds
  <2> QED
    BY <2>2, <2>3
<1> QED
  BY <1>3, <1>4, <1>5

LEMMA PlacedWider ==
    ASSUME NEW q \in Seq(Element), NEW h \in Nat, NEW c, SendLedger(c, q, h), NEW r \in Seq(Stanzas),
           NEW n, NEW t, NEW x \in Nat, NEW y \in Nat, x <= y, Placed(n, x, c, q, r, t)
    PROVE  Placed(n, y, c, q, r, t)
<1>1. \A i \in 0..Len(q) : c[i] \in Nat
  BY SendBounds
<1>2. CASE n \in t
  BY <1>2 DEF Placed
<1>3. ASSUME NEW i \in 1..Len(q), q[i].kind = "stanza" /\ q[i].n = n /\ c[i] <= x
      PROVE  Placed(n, y, c, q, r, t)
  <2>1. i \in 0..Len(q)
    OBVIOUS
  <2>2. c[i] <= y
    BY <1>1, <1>3, <2>1
  <2> QED
    BY <1>3, <2>2 DEF Placed
<1>4. ASSUME NEW j \in 1..Len(r), r[j] = n /\ c[Len(q)] + j <= x PROVE Placed(n, y, c, q, r, t)
  <2>1. Len(q) \in 0..Len(q)
    OBVIOUS
  <2>2. c[Len(q)] + j <= y
    BY <1>1, <1>4, <2>1
  <2> QED
    BY <1>4, <2>2 DEF Placed
<1> QED
  BY <1>2, <1>3, <1>4 DEF Placed

(* What is placed within the count the server has now, the server has.      *)
LEMMA PlacedTaken ==
    ASSUME NEW q \in Seq(Element), NEW h \in Nat, NEW c, SendLedger(c, q, h), NEW r \in Seq(Stanzas),
           NEW n, NEW t, NEW x \in Nat, x <= h, Placed(n, x, c, q, r, t)
    PROVE  n \in t
<1>1. ASSUME NEW i \in 1..Len(q), q[i].kind = "stanza" /\ q[i].n = n /\ c[i] <= x PROVE FALSE
  <2>1. i \in 0..Len(q) /\ i # 0
    OBVIOUS
  <2>2. c[i] \in Nat /\ h < c[i]
    BY <1>1, <2>1, SendBounds
  <2> QED
    BY <1>1, <2>2
<1>2. ASSUME NEW j \in 1..Len(r), r[j] = n /\ c[Len(q)] + j <= x PROVE FALSE
  <2>1. Len(q) \in 0..Len(q)
    OBVIOUS
  <2>2. c[Len(q)] \in Nat /\ h <= c[Len(q)]
    BY <2>1, SendBounds
  <2> QED
    BY <1>2, <2>2
<1> QED
  BY <1>1, <1>2 DEF Placed

LEMMA LedgerKeeps ==
    ASSUME StreamInv, Keeps,
           UNCHANGED <<enabled, acked, unacked, holds, toServer, handled, taken, replay>>,
           stream' = stream \/ (stream # "up" /\ stream' # "up"),
           \A k : AckLedger(k, toClient, acked, Len(handled)) =>
                      \E j : AckLedger(j, toClient', acked, Len(handled)) /\ j[0] = k[0]
    PROVE  Keeps'
<1>1. PICK k : /\ AckLedger(k, toClient, acked, Len(handled))
               /\ enabled /\ stream = "up" => \E c : FitsUp(k[0], c)
               /\ stream # "up" => FitsLost(k[0])
  BY DEF Keeps
<1>2. PICK j : AckLedger(j, toClient', acked, Len(handled)) /\ j[0] = k[0]
  BY <1>1
<1>3. enabled /\ stream = "up" => \E c : FitsUp(j[0], c)'
  BY <1>1, <1>2 DEF FitsUp, NoHolds
<1>4. stream # "up" => FitsLost(j[0])'
  BY <1>1, <1>2 DEF FitsLost, NoHolds
<1> QED
  BY <1>2, <1>3, <1>4 DEF Keeps

LEMMA SkipQueue ==
    ASSUME StreamInv, QueueInv, OnReceived \/ OnEnabled \/ OnFailed PROVE QueueInv'
<1> SUFFICES ASSUME orderly' PROVE OneByOne' /\ Keeps' /\ UnackedRetained'
  BY DEF QueueInv
<1>1. /\ UNCHANGED <<enabled, acked, unacked, recorded, holds, toServer, handled, taken, replay, orderly>>
      /\ toClient # <<>> /\ toClient' = Tail(toClient)
      /\ stream' = stream \/ (stream # "up" /\ stream' = "new")
      /\ enabling' \in {"sent", "got"} => enabling \in {"sent", "got"}
  BY DEF OnReceived, OnEnabled, OnFailed, Read, smVars, serverVars
<1>2. OneByOne /\ Keeps /\ UnackedRetained
  BY <1>1 DEF QueueInv
<1>3. \A k : AckLedger(k, toClient, acked, Len(handled)) =>
                 \E j : AckLedger(j, toClient', acked, Len(handled)) /\ j[0] = k[0]
  BY <1>1, QueueTypes, LedgerSkip
<1>4. Keeps'
  BY <1>1, <1>2, <1>3, LedgerKeeps
<1>5. OneByOne'
  BY <1>1, <1>2 DEF OneByOne, NoHolds
<1>6. UnackedRetained'
  BY <1>1, <1>2 DEF UnackedRetained
<1> QED
  BY <1>4, <1>5, <1>6

LEMMA RequestQueue == ASSUME StreamInv, QueueInv, OnRequest PROVE QueueInv'
<1> SUFFICES ASSUME orderly' PROVE OneByOne' /\ Keeps' /\ UnackedRetained'
  BY DEF QueueInv
<1>1. /\ UNCHANGED <<enabled, acked, unacked, recorded, holds, enabling, stream, handled, taken, replay,
                     orderly>>
      /\ toClient # <<>> /\ toClient' = Tail(toClient) /\ Head(toClient).kind = "r"
      /\ toServer' = IF enabled THEN Append(toServer, El("a", inbound)) ELSE toServer
  BY DEF OnRequest, Read, smVars, serverVars
<1>2. OneByOne /\ Keeps /\ UnackedRetained
  BY <1>1 DEF QueueInv
<1>3. UnackedRetained'
  BY <1>1, <1>2 DEF UnackedRetained
<1>4. stream = "up"
  BY <1>1, AcksUp
<1>5. PICK k : /\ AckLedger(k, toClient, acked, Len(handled))
               /\ enabled => \E c : FitsUp(k[0], c)
  BY <1>2, <1>4 DEF Keeps
<1>6. PICK l : AckLedger(l, toClient', acked, Len(handled)) /\ l[0] = k[0]
  BY <1>1, <1>5, QueueTypes, LedgerSkip
<1>7. CASE ~enabled
  <2>1. toServer' = toServer
    BY <1>1, <1>7
  <2>2. OneByOne'
    BY <1>1, <1>2, <2>1 DEF OneByOne, NoHolds
  <2>3. Keeps'
    BY <1>1, <1>4, <1>6, <1>7 DEF Keeps
  <2> QED
    BY <1>3, <2>2, <2>3
<1>8. CASE enabled
  <2>1. PICK m : m = El("a", inbound)
    OBVIOUS
  <2>2. m \in Element /\ m.kind = "a" /\ toServer' = Append(toServer, m)
    <3>1. inbound \in Nat
      BY ModulusAssumption DEF StreamInv, TypeInv, TypeOK
    <3> QED
      BY <1>1, <1>8, <2>1, <3>1 DEF El, Element
  <2>3. enabling = "over"
    BY <1>8 DEF StreamInv, Phase
  <2>4. OneByOne'
    BY <1>1, <1>2, <1>4, <2>3 DEF OneByOne, NoHolds
  <2>5. PICK c : FitsUp(k[0], c)
    BY <1>5, <1>8
  <2>6. SendLedger(c, toServer, Len(handled)) /\ toServer \in Seq(Element) /\ Len(handled) \in Nat
    BY <2>5, QueueTypes DEF FitsUp
  <2>7. PICK d : /\ SendLedger(d, Append(toServer, m), Len(handled))
                 /\ \A i \in 0..Len(toServer) : d[i] = c[i]
                 /\ d[Len(toServer) + 1] = c[Len(toServer)]
    BY <2>2, <2>6, SendAppend
  <2>8. SendLedger(d, toServer', Len(handled)) /\ d[Len(toServer')] = c[Len(toServer)]
    BY <2>2, <2>6, <2>7, AppendFacts
  <2>9. ASSUME NEW p \in 1..Len(unacked)
        PROVE  Placed(unacked[p], k[0] + p, d, toServer', replay, taken)
    <3>1. Placed(unacked[p], k[0] + p, c, toServer, replay, taken)
      BY <2>5 DEF FitsUp
    <3>2. Placed(unacked[p], k[0] + p, d, Append(toServer, m), replay, taken)
      BY <2>2, <2>6, <2>7, <3>1, PlacedAppend
    <3> QED
      BY <2>2, <3>2
  <2>10. ASSUME NEW s \in Senders, holds[s] # 0
         PROVE  holds[s] \in taken \/ SentIn(holds[s], toServer')
    <3>1. holds[s] \in taken \/ SentIn(holds[s], toServer)
      BY <2>5, <2>10 DEF FitsUp
    <3>2. SentIn(holds[s], toServer) => SentIn(holds[s], Append(toServer, m))
      BY <2>2, <2>6, SentAppend
    <3> QED
      BY <2>2, <3>1, <3>2
  <2>11. FitsUp(l[0], d)'
    BY <1>1, <1>6, <2>5, <2>8, <2>9, <2>10 DEF FitsUp, NoHolds
  <2>12. Keeps'
    BY <1>1, <1>4, <1>6, <2>11 DEF Keeps
  <2> QED
    BY <1>3, <2>4, <2>12
<1> QED
  BY <1>7, <1>8

(* What an acknowledgement does to the queue: k[1] - k[0] at most are dropped. *)
LEMMA AckQueue ==
    ASSUME StreamInv, toClient # <<>>, Head(toClient).kind \in {"a", "resumed"},
           NEW k, AckLedger(k, toClient, acked, Len(handled)), ApplyAck(Head(toClient).n)
    PROVE  \E d \in 0..Len(unacked) :
               /\ k[0] + d <= k[1] /\ Len(unacked') = Len(unacked) - d
               /\ \A p \in 1..Len(unacked') : p + d \in 1..Len(unacked) /\ unacked'[p] = unacked[p + d]
<1>1. /\ k[0] \in Nat /\ k[1] \in Nat /\ k[0] <= k[1] /\ acked = k[0] % Modulus
      /\ Head(toClient).n = k[1] % Modulus
  BY QueueTypes, LedgerAck
<1>2. PICK h : h = Head(toClient).n
  OBVIOUS
<1>3. h \in 0..(Modulus - 1)
  <2>1. k[1] \in Int
    BY <1>1
  <2> QED
    BY <1>1, <1>2, <2>1, WrapRange
<1>4. TypeInv /\ ApplyAck(h)
  BY <1>2 DEF StreamInv
<1>5. PICK d \in 0..Len(unacked) : /\ unacked' = SubSeq(unacked, d + 1, Len(unacked))
                                   /\ d <= (h + Modulus - acked) % Modulus
  BY <1>3, <1>4, AckDrops
<1>6. PICK x : x = (h + Modulus - acked) % Modulus
  OBVIOUS
<1>7. x \in Nat /\ x <= k[1] - k[0]
  <2>1. x = ((k[1] % Modulus) + Modulus - (k[0] % Modulus)) % Modulus
    BY <1>1, <1>2, <1>6
  <2>2. (k[1] % Modulus) + Modulus - (k[0] % Modulus) \in Int
    BY <1>1, ModulusAssumption
  <2>3. x \in Nat
    BY <2>1, <2>2, WrapRange
  <2>4. x <= k[1] - k[0]
    BY <1>1, <2>1, AckDelta
  <2> QED
    BY <2>3, <2>4
<1>8. k[0] + d <= k[1]
  BY <1>1, <1>5, <1>6, <1>7
<1>9. unacked \in Seq(Stanzas)
  BY QueueTypes
<1>10. /\ Len(unacked') = Len(unacked) - d
       /\ \A p \in 1..Len(unacked') : p + d \in 1..Len(unacked) /\ unacked'[p] = unacked[p + d]
  BY <1>5, <1>9
<1> QED
  BY <1>8, <1>10

(* What is dropped the server has, so the rest is still retained.           *)
LEMMA AckRetained ==
    ASSUME StreamInv, UnackedRetained, StreamInv', NEW d \in 0..Len(unacked),
           Len(unacked') = Len(unacked) - d,
           \A p \in 1..Len(unacked') : p + d \in 1..Len(unacked) /\ unacked'[p] = unacked[p + d],
           \A p \in 1..d : unacked[p] \in taken,
           UNCHANGED <<recorded, taken>>
    PROVE  UnackedRetained'
<1>1. unacked \in Seq(Stanzas) /\ Len(unacked) \in Nat
  BY QueueTypes
<1>2. PICK v \in Seq(Stanzas) : v = unacked'
  <2>1. unacked' \in Seq(Stanzas)
    BY DEF StreamInv, TypeInv, TypeOK
  <2> QED
    BY <2>1
<1>3. ASSUME NEW n \in recorded, n \notin taken PROVE n \in ToSet(v)
  <2>1. PICK p \in 1..Len(unacked) : unacked[p] = n
    BY <1>1, <1>3, InQueue DEF UnackedRetained
  <2>2. p \notin 1..d
    BY <1>3, <2>1
  <2>3. p - d \in 1..Len(v) /\ (p - d) + d = p
    BY <1>1, <1>2, <2>2
  <2>4. v[p - d] = n
    BY <1>2, <2>1, <2>3
  <2> QED
    BY <2>3, <2>4, InQueue
<1> QED
  BY <1>2, <1>3 DEF UnackedRetained

LEMMA AcksQueue == ASSUME StreamInv, QueueInv, OnAck, StreamInv' PROVE QueueInv'
<1> SUFFICES ASSUME orderly' PROVE OneByOne' /\ Keeps' /\ UnackedRetained'
  BY DEF QueueInv
<1>1. /\ UNCHANGED <<enabled, recorded, holds, enabling, toServer, stream, handled, taken, replay,
                     orderly>>
      /\ toClient # <<>> /\ toClient' = Tail(toClient) /\ Head(toClient).kind = "a"
      /\ ApplyAck(Head(toClient).n) /\ acked' = Head(toClient).n
  BY DEF OnAck, Read, serverVars, ApplyAck
<1>2. OneByOne /\ Keeps /\ UnackedRetained
  BY <1>1 DEF QueueInv
<1>3. stream = "up"
  BY <1>1, AcksUp
<1>4. OneByOne'
  BY <1>1, <1>2 DEF OneByOne, NoHolds
<1>5. PICK k : /\ AckLedger(k, toClient, acked, Len(handled))
               /\ enabled => \E c : FitsUp(k[0], c)
  BY <1>2, <1>3 DEF Keeps
<1>6. /\ toClient \in Seq(Element) /\ toServer \in Seq(Element) /\ replay \in Seq(Stanzas)
      /\ Len(handled) \in Nat /\ Len(unacked) \in Nat
  BY QueueTypes
<1>7. /\ k[0] \in Nat /\ k[1] \in Nat /\ k[1] <= Len(handled)
      /\ \E j : AckLedger(j, Tail(toClient), Head(toClient).n, Len(handled)) /\ j[0] = k[1]
  BY <1>1, <1>5, <1>6, LedgerAck
<1>8. PICK j : AckLedger(j, toClient', acked', Len(handled)) /\ j[0] = k[1]
  BY <1>1, <1>7
<1>9. PICK d \in 0..Len(unacked) :
               /\ k[0] + d <= k[1] /\ Len(unacked') = Len(unacked) - d
               /\ \A p \in 1..Len(unacked') : p + d \in 1..Len(unacked) /\ unacked'[p] = unacked[p + d]
  BY <1>1, <1>5, AckQueue
<1>10. CASE ~enabled
  <2>1. Keeps'
    BY <1>1, <1>3, <1>8, <1>10 DEF Keeps
  <2>2. recorded = {}
    BY <1>10 DEF StreamInv, Phase
  <2>3. UnackedRetained'
    BY <1>1, <2>2 DEF UnackedRetained
  <2> QED
    BY <1>4, <2>1, <2>3
<1>11. CASE enabled
  <2>1. PICK c : FitsUp(k[0], c)
    BY <1>5, <1>11
  <2>2. /\ SendLedger(c, toServer, Len(handled)) /\ c[Len(toServer)] <= k[0] + Len(unacked) + 1
        /\ NoHolds => c[Len(toServer)] <= k[0] + Len(unacked)
    BY <2>1 DEF FitsUp
  <2>3. \A p \in 1..Len(unacked) : Placed(unacked[p], k[0] + p, c, toServer, replay, taken)
    BY <2>1 DEF FitsUp
  <2>4. ASSUME NEW p \in 1..d PROVE unacked[p] \in taken
    <3>1. p \in 1..Len(unacked) /\ k[0] + p \in Nat /\ k[0] + p <= Len(handled)
      <4>1. k[0] \in Nat /\ k[1] \in Nat /\ k[1] <= Len(handled) /\ k[0] + d <= k[1]
        BY <1>7, <1>9
      <4> QED
        BY <1>6, <4>1
    <3>2. Placed(unacked[p], k[0] + p, c, toServer, replay, taken)
      BY <2>3, <3>1
    <3> QED
      BY <1>6, <2>2, <3>1, <3>2, PlacedTaken
  <2>5. UnackedRetained'
    BY <1>1, <1>2, <1>9, <2>4, AckRetained
  <2>6. ASSUME NEW p \in 1..Len(unacked')
        PROVE  Placed(unacked'[p], k[1] + p, c, toServer, replay, taken)
    <3>1. p + d \in 1..Len(unacked) /\ unacked'[p] = unacked[p + d] /\ p \in Nat
      BY <1>6, <1>9
    <3>2. PICK n : n = unacked[p + d]
      OBVIOUS
    <3>3. PICK x : x = k[0] + (p + d)
      OBVIOUS
    <3>4. Placed(n, x, c, toServer, replay, taken)
      BY <2>3, <3>1, <3>2, <3>3
    <3>5. x \in Nat /\ k[1] + p \in Nat /\ x <= k[1] + p
      <4> k[0] \in Nat /\ k[1] \in Nat /\ d \in Nat /\ p \in Nat
        BY <1>6, <1>7, <3>1
      <4>1. PICK a \in Nat, r \in Nat, e \in Nat, y \in Nat : a = k[0] /\ r = k[1] /\ e = d /\ y = p
        BY Zenon
      <4>2. a + e <= r
        BY <1>9, <4>1
      <4>3. a + (y + e) \in Nat /\ r + y \in Nat /\ a + (y + e) <= r + y
        BY <4>2
      <4> QED
        BY <3>3, <4>1, <4>3
    <3>6. Placed(n, k[1] + p, c, toServer, replay, taken)
      BY <1>6, <2>2, <3>4, <3>5, PlacedWider
    <3> QED
      BY <3>1, <3>2, <3>6
  <2>7. c[Len(toServer)] \in Nat
    <3>1. Len(toServer) \in 0..Len(toServer)
      BY <1>6
    <3> QED
      BY <1>6, <2>2, <3>1, SendBounds
  <2>8. /\ c[Len(toServer)] <= k[1] + Len(unacked') + 1
        /\ NoHolds => c[Len(toServer)] <= k[1] + Len(unacked')
    <3> k[0] \in Nat /\ k[1] \in Nat /\ d \in Nat /\ Len(unacked) \in Nat
      BY <1>6, <1>7
    <3>1. PICK a \in Nat, r \in Nat, e \in Nat, l \in Nat, y \in Nat :
              a = k[0] /\ r = k[1] /\ e = d /\ l = Len(unacked) /\ y = c[Len(toServer)]
      BY <2>7, Zenon
    <3>2. a + e <= r /\ Len(unacked') = l - e /\ y <= a + l + 1 /\ (NoHolds => y <= a + l)
      BY <1>9, <2>2, <3>1
    <3>3. y <= r + (l - e) + 1 /\ (NoHolds => y <= r + (l - e))
      BY <3>2
    <3> QED
      BY <3>1, <3>2, <3>3
  <2>9. \A s \in Senders : holds[s] # 0 => holds[s] \in taken \/ SentIn(holds[s], toServer)
    BY <2>1 DEF FitsUp
  <2>10. FitsUp(j[0], c)'
    BY <1>1, <1>8, <2>2, <2>6, <2>8, <2>9 DEF FitsUp, NoHolds
  <2>11. Keeps'
    BY <1>1, <1>3, <1>8, <2>10 DEF Keeps
  <2> QED
    BY <1>4, <2>5, <2>11
<1> QED
  BY <1>10, <1>11

LEMMA ResumedQueue == ASSUME StreamInv, QueueInv, OnResumed, StreamInv' PROVE QueueInv'
<1> SUFFICES ASSUME orderly' PROVE OneByOne' /\ Keeps' /\ UnackedRetained'
  BY DEF QueueInv
<1>1. /\ UNCHANGED <<recorded, holds, enabling, toServer, handled, taken, orderly>>
      /\ toClient # <<>> /\ toClient' = Tail(toClient) /\ Head(toClient).kind = "resumed"
      /\ ApplyAck(Head(toClient).n) /\ acked' = Head(toClient).n
      /\ stream' = "up" /\ replay' = unacked'
  BY DEF OnResumed, Read, serverVars, ApplyAck
<1>2. OneByOne /\ Keeps /\ UnackedRetained
  BY <1>1 DEF QueueInv
<1>3. /\ toClient \in Seq(Element) /\ Len(handled) \in Nat /\ Len(unacked) \in Nat
      /\ toServer \in Seq(Element)
  BY QueueTypes
<1>4. stream = "resuming" /\ Lacks(toServer, "resume")
  BY <1>1, ResumedFrom
<1>5. NoHolds /\ enabling = "over"
  BY <1>2, <1>4 DEF OneByOne, StreamInv, Phase
<1>6. OneByOne'
  BY <1>1, <1>5 DEF OneByOne, NoHolds
<1>7. PICK k : AckLedger(k, toClient, acked, Len(handled)) /\ FitsLost(k[0])
  BY <1>2, <1>4 DEF Keeps
<1>8. /\ k[0] \in Nat /\ k[1] = Len(handled)
      /\ \E j : AckLedger(j, Tail(toClient), Head(toClient).n, Len(handled)) /\ j[0] = k[1]
  BY <1>1, <1>3, <1>7, LedgerAck
<1>9. PICK j : AckLedger(j, toClient', acked', Len(handled)) /\ j[0] = Len(handled)
  BY <1>1, <1>8
<1>10. PICK d \in 0..Len(unacked) :
                /\ k[0] + d <= k[1] /\ Len(unacked') = Len(unacked) - d
                /\ \A p \in 1..Len(unacked') : p + d \in 1..Len(unacked) /\ unacked'[p] = unacked[p + d]
  BY <1>1, <1>7, AckQueue
<1>11. ASSUME NEW p \in 1..d PROVE unacked[p] \in taken
  <2>1. p \in 1..Len(unacked) /\ ~(Len(handled) < k[0] + p)
    BY <1>3, <1>8, <1>10
  <2> QED
    BY <1>7, <2>1 DEF FitsLost
<1>12. UnackedRetained'
  BY <1>1, <1>2, <1>10, <1>11, AckRetained
<1>13. PICK c : SendLedger(c, toServer, Len(handled)) /\ c[Len(toServer)] = Len(handled)
  <2>1. Before(toServer, "resume")
    BY <1>2, <1>4 DEF OneByOne
  <2>2. Lacks(toServer, "stanza")
    BY <1>3, <1>4, <2>1, BeforeNone
  <2> QED
    BY <1>3, <2>2, SendNone
<1>14. Len(unacked') \in Nat
  BY <1>3, <1>10
<1>15. \A p \in 1..Len(unacked') : Placed(unacked'[p], Len(handled) + p, c, toServer, unacked', taken)
  BY <1>3, <1>13, <1>14 DEF Placed
<1>16. /\ c[Len(toServer)] <= Len(handled) + Len(unacked') + 1
       /\ c[Len(toServer)] <= Len(handled) + Len(unacked')
  BY <1>3, <1>13, <1>14
<1>17. FitsUp(j[0], c)'
  BY <1>1, <1>5, <1>9, <1>13, <1>15, <1>16 DEF FitsUp, NoHolds
<1>18. Keeps'
  BY <1>1, <1>9, <1>17 DEF Keeps
<1> QED
  BY <1>6, <1>12, <1>18

LEMMA DropQueue == ASSUME StreamInv, QueueInv, Drop, stream = "up" PROVE QueueInv'
<1> SUFFICES ASSUME orderly' PROVE OneByOne' /\ Keeps' /\ UnackedRetained'
  BY DEF QueueInv
<1>1. /\ UNCHANGED <<enabled, acked, unacked, recorded, holds, enabling, handled, taken, orderly>>
      /\ enabled /\ stream' = "down" /\ toServer' = <<>> /\ toClient' = <<>>
  BY DEF Drop, smVars
<1>2. OneByOne /\ Keeps /\ UnackedRetained
  BY <1>1 DEF QueueInv
<1>3. enabling = "over"
  BY <1>1 DEF StreamInv, Phase
<1>4. OneByOne' /\ UnackedRetained'
  BY <1>1, <1>2, <1>3 DEF OneByOne, UnackedRetained
<1>5. PICK k : /\ AckLedger(k, toClient, acked, Len(handled))
               /\ \E c : FitsUp(k[0], c)
  BY <1>1, <1>2 DEF Keeps
<1>6. PICK c : FitsUp(k[0], c)
  BY <1>5
<1>7. /\ toClient \in Seq(Element) /\ toServer \in Seq(Element) /\ replay \in Seq(Stanzas)
      /\ Len(handled) \in Nat /\ Len(unacked) \in Nat
  BY QueueTypes
<1>8. k[0] \in Nat /\ k[0] <= Len(handled) /\ acked = k[0] % Modulus
  BY <1>5, <1>7, LedgerStart
<1>9. PICK j : AckLedger(j, toClient', acked, Len(handled)) /\ j[0] = k[0]
  <2>1. \E j : AckLedger(j, <<>>, acked, Len(handled)) /\ j[0] = k[0]
    BY <1>7, <1>8, LedgerEmpty
  <2> QED
    BY <1>1, <2>1
<1>10. SendLedger(c, toServer, Len(handled)) /\ c[Len(toServer)] <= k[0] + Len(unacked) + 1
  BY <1>6 DEF FitsUp
<1>11. ASSUME NEW p \in 1..Len(unacked), unacked[p] \notin taken PROVE Len(handled) < k[0] + p
  <2>1. Placed(unacked[p], k[0] + p, c, toServer, replay, taken)
    BY <1>6 DEF FitsUp
  <2>2. k[0] + p \in Nat
    BY <1>7, <1>8
  <2>3. ~(k[0] + p <= Len(handled))
    BY <1>7, <1>10, <1>11, <2>1, <2>2, PlacedTaken
  <2> QED
    BY <1>7, <2>2, <2>3
<1>12. ASSUME NEW s \in Senders, holds[s] # 0, holds[s] \notin taken
       PROVE  Len(handled) <= k[0] + Len(unacked)
  <2>1. SentIn(holds[s], toServer)
    BY <1>6, <1>12 DEF FitsUp
  <2>2. PICK i \in 1..Len(toServer) : toServer[i].kind = "stanza"
    BY <2>1 DEF SentIn
  <2>3. i \in 0..Len(toServer) /\ i # 0 /\ Len(toServer) \in 0..Len(toServer)
    BY <1>7
  <2>4. c[i] \in Nat /\ c[i] <= c[Len(toServer)] /\ Len(handled) < c[i] /\ c[Len(toServer)] \in Nat
    BY <1>7, <1>10, <2>2, <2>3, SendBounds
  <2> QED
    BY <1>7, <1>8, <1>10, <2>4
<1>13. /\ Len(handled) <= k[0] + Len(unacked) + 1
       /\ NoHolds => Len(handled) <= k[0] + Len(unacked)
  <2>1. Len(toServer) \in 0..Len(toServer)
    BY <1>7
  <2>2. Len(handled) <= c[Len(toServer)] /\ c[Len(toServer)] \in Nat
    BY <1>7, <1>10, <2>1, SendBounds
  <2>3. NoHolds => c[Len(toServer)] <= k[0] + Len(unacked)
    BY <1>6 DEF FitsUp
  <2> QED
    BY <1>7, <1>8, <1>10, <2>2, <2>3
<1>14. FitsLost(j[0])'
  BY <1>1, <1>9, <1>11, <1>12, <1>13 DEF FitsLost, NoHolds
<1>15. Keeps'
  BY <1>1, <1>9, <1>14 DEF Keeps
<1> QED
  BY <1>4, <1>15

(* A stream that was not resumed is lost in turn, or made.                  *)
LEMMA LostQueue ==
    ASSUME StreamInv, QueueInv, Drop \/ Reconnect, stream # "up" PROVE QueueInv'
<1> SUFFICES ASSUME orderly' PROVE OneByOne' /\ Keeps' /\ UnackedRetained'
  BY DEF QueueInv
<1>1. /\ UNCHANGED <<enabled, acked, unacked, recorded, holds, enabling, handled, taken, orderly>>
      /\ stream' \in {"down", "new"}
      /\ toClient' = <<>>
  <2>1. CASE Drop
    BY <2>1 DEF Drop, smVars
  <2>2. CASE Reconnect
    BY <2>2 DEF Reconnect, smVars, serverVars, StreamInv, Wire
  <2> QED
    BY <2>1, <2>2
<1>2. OneByOne /\ Keeps /\ UnackedRetained
  BY <1>1 DEF QueueInv
<1>3. enabling = "over"
  BY DEF StreamInv, Phase
<1>4. OneByOne' /\ UnackedRetained'
  BY <1>1, <1>2, <1>3 DEF OneByOne, UnackedRetained
<1>5. PICK k : AckLedger(k, toClient, acked, Len(handled)) /\ FitsLost(k[0])
  BY <1>2 DEF Keeps
<1>6. toClient \in Seq(Element) /\ Len(handled) \in Nat
  BY QueueTypes
<1>7. k[0] \in Nat /\ k[0] <= Len(handled) /\ acked = k[0] % Modulus
  BY <1>5, <1>6, LedgerStart
<1>8. PICK j : AckLedger(j, toClient', acked, Len(handled)) /\ j[0] = k[0]
  <2>1. \E j : AckLedger(j, <<>>, acked, Len(handled)) /\ j[0] = k[0]
    BY <1>6, <1>7, LedgerEmpty
  <2> QED
    BY <1>1, <2>1
<1>9. FitsLost(j[0])'
  BY <1>1, <1>5, <1>8 DEF FitsLost, NoHolds
<1>10. Keeps'
  BY <1>1, <1>8, <1>9 DEF Keeps
<1> QED
  BY <1>4, <1>10

LEMMA ResumeQueue == ASSUME StreamInv, QueueInv, Resume PROVE QueueInv'
<1> SUFFICES ASSUME orderly' PROVE OneByOne' /\ Keeps' /\ UnackedRetained'
  BY DEF QueueInv
<1>1. /\ UNCHANGED <<enabled, acked, unacked, recorded, holds, enabling, handled, taken, toClient>>
      /\ stream = "new" /\ stream' = "resuming" /\ orderly' = (orderly /\ NoHolds)
      /\ toServer' = Append(toServer, El("resume", inbound))
  BY DEF Resume, smVars, serverVars, NoHolds
<1>2. orderly /\ NoHolds
  BY <1>1, Zenon
<1>3. OneByOne /\ Keeps /\ UnackedRetained
  BY <1>2 DEF QueueInv
<1>4. enabling = "over"
  BY <1>1 DEF StreamInv, Phase
<1>5. OneByOne' /\ UnackedRetained'
  <2>1. PICK m : m = El("resume", inbound)
    OBVIOUS
  <2>2. m \in Element /\ m.kind = "resume"
    <3>1. inbound \in Nat
      BY ModulusAssumption DEF StreamInv, TypeInv, TypeOK
    <3> QED
      BY <2>1, <3>1 DEF El, Element
  <2>3. Before(toServer', "resume")
    BY <1>1, <2>1, <2>2, QueueTypes, BeforeAppend
  <2> QED
    BY <1>1, <1>2, <1>3, <1>4, <2>3 DEF OneByOne, UnackedRetained, NoHolds
<1>6. PICK k : AckLedger(k, toClient, acked, Len(handled)) /\ FitsLost(k[0])
  BY <1>1, <1>3 DEF Keeps
<1>7. FitsLost(k[0])'
  BY <1>1, <1>6 DEF FitsLost, NoHolds
<1>8. Keeps'
  BY <1>1, <1>6, <1>7 DEF Keeps
<1> QED
  BY <1>5, <1>8

LEMMA TakesQueue == ASSUME StreamInv, QueueInv, ServerTakes PROVE QueueInv'
<1> SUFFICES ASSUME orderly' PROVE OneByOne' /\ Keeps' /\ UnackedRetained'
  BY DEF QueueInv
<1>1. /\ UNCHANGED <<enabled, acked, unacked, recorded, holds, enabling, stream, replay, orderly>>
      /\ toServer # <<>> /\ toServer' = Tail(toServer)
  BY DEF ServerTakes, smVars
<1>2. OneByOne /\ Keeps /\ UnackedRetained
  BY <1>1 DEF QueueInv
<1>3. /\ toClient \in Seq(Element) /\ toServer \in Seq(Element) /\ replay \in Seq(Stanzas)
      /\ Len(handled) \in Nat /\ handled \in Seq(Stanzas) /\ counting \in BOOLEAN
      /\ enabled => counting
  BY QueueTypes
<1>4. \A kind : Before(toServer, kind) => Before(toServer', kind)
  BY <1>1, <1>3, BeforeTail
<1>5. /\ enabling \in {"sent", "got"} => Before(toServer, "enable") /\ Before(toServer', "enable")
      /\ stream = "resuming" => Before(toServer, "resume") /\ Before(toServer', "resume")
  BY <1>2, <1>4 DEF OneByOne
<1>6. PICK k : /\ AckLedger(k, toClient, acked, Len(handled))
               /\ enabled /\ stream = "up" => \E c : FitsUp(k[0], c)
               /\ stream # "up" => FitsLost(k[0])
  BY <1>2 DEF Keeps
<1>7. Head(toServer) = toServer[1] /\ 1 \in 1..Len(toServer) /\ stream # "down"
  BY <1>1, <1>3, TailFacts, TakenFrom
<1>8. CASE Head(toServer).kind = "resume"
  <2>1. stream = "resuming" /\ UNCHANGED <<handled, taken>>
    BY <1>1, <1>8, TakenFrom DEF ServerTakes, serverVars
  <2>2. PICK m \in {El("resumed", Len(handled) % Modulus), El("failed", 0)} : toClient' = Append(toClient, m)
    BY <1>8 DEF ServerTakes
  <2>3. m \in Element /\ (m.kind \in {"a", "resumed"} => m.n = Len(handled) % Modulus)
    <3>1. Len(handled) % Modulus \in Nat
      BY <1>3, WrapRange
    <3> QED
      BY <3>1 DEF El, Element
  <2>4. PICK j : AckLedger(j, toClient', acked, Len(handled)) /\ j[0] = k[0]
    BY <1>3, <1>6, <2>2, <2>3, LedgerAppend
  <2>5. FitsLost(j[0])'
    BY <1>1, <1>6, <2>1, <2>4 DEF FitsLost, NoHolds
  <2>6. Keeps'
    BY <1>1, <2>1, <2>4, <2>5 DEF Keeps
  <2>7. enabling = "over"
    BY <2>1 DEF StreamInv, Phase
  <2>8. OneByOne' /\ UnackedRetained'
    BY <1>1, <1>2, <1>5, <2>1, <2>7 DEF OneByOne, UnackedRetained, NoHolds
  <2> QED
    BY <2>6, <2>8
<1>9. CASE Head(toServer).kind = "enable"
  <2>1. PICK m \in {El("enabled", 0), El("failed", 0)} : toClient' = Append(toClient, m)
    BY <1>9 DEF ServerTakes
  <2>2. m \in Element /\ m.kind \notin {"a", "resumed"}
    BY DEF Element, El
  <2>3. UNCHANGED <<handled, taken>>
    BY <1>9 DEF ServerTakes, serverVars
  <2>4. ~enabled /\ stream = "up"
    BY <1>1, <1>3, <1>9, TakenFrom
  <2>5. PICK j : AckLedger(j, toClient', acked, Len(handled)) /\ j[0] = k[0]
    BY <1>3, <1>6, <2>1, <2>2, LedgerAppend
  <2>6. Keeps'
    BY <1>1, <2>3, <2>4, <2>5 DEF Keeps
  <2>7. OneByOne' /\ UnackedRetained'
    BY <1>1, <1>2, <1>5, <2>3 DEF OneByOne, UnackedRetained, NoHolds
  <2> QED
    BY <2>6, <2>7
<1>10. CASE Head(toServer).kind \notin {"enable", "resume"}
  <2>1. /\ toClient' = toClient /\ taken \subseteq taken'
        /\ Head(toServer).kind = "stanza" => Head(toServer).n \in taken'
        /\ handled' = IF Head(toServer).kind = "stanza" /\ counting /\ managed
                        THEN Append(handled, Head(toServer).n) ELSE handled
    BY <1>10 DEF ServerTakes, serverVars
  <2>2. UnackedRetained'
    BY <1>1, <1>2, <2>1 DEF UnackedRetained
  <2>3. enabling \in {"sent", "got"} => handled' = <<>>
    <3>1. ASSUME enabling \in {"sent", "got"}, Head(toServer).kind = "stanza" PROVE ~counting
      BY <1>5, <1>7, <3>1 DEF Before, StreamInv, EnableOnce, Lacks
    <3> QED
      BY <1>2, <2>1, <3>1 DEF OneByOne
  <2>4. OneByOne'
    BY <1>1, <1>2, <1>5, <2>3 DEF OneByOne, NoHolds
  <2>5. ASSUME stream # "up", Head(toServer).kind = "stanza" PROVE ~managed
    <3>1. ASSUME managed PROVE FALSE
      <4>1. stream = "resuming" /\ Lacks(toServer, "resume")
        BY <1>7, <2>5, <3>1, StreamTypesOf DEF StreamInv, Wire
      <4>2. Lacks(toServer, "stanza")
        BY <1>3, <1>5, <4>1, BeforeNone
      <4> QED
        BY <1>7, <2>5, <4>2 DEF Lacks
    <3> QED
      BY <3>1
  <2>6. CASE stream # "up"
    <3>1. handled' = handled
      BY <2>1, <2>5, <2>6
    <3>2. FitsLost(k[0])'
      BY <1>1, <1>6, <2>1, <2>6, <3>1 DEF FitsLost, NoHolds
    <3>3. Keeps'
      BY <1>1, <1>6, <2>1, <2>6, <3>1, <3>2 DEF Keeps
    <3> QED
      BY <2>2, <2>4, <3>3
  <2>7. CASE stream = "up"
    <3>1. managed /\ Lacks(toClient, "resumed")
      BY <2>7 DEF StreamInv, Wire
    <3>2. \/ Head(toServer).kind = "stanza" /\ counting /\ Len(handled') = Len(handled) + 1
          \/ ~(Head(toServer).kind = "stanza" /\ counting) /\ Len(handled') = Len(handled)
      BY <1>3, <2>1, <3>1
    <3>3. AckLedger(k, toClient', acked, Len(handled'))
      <4>1. AckLedger(k, toClient, acked, Len(handled) + 1)
        BY <1>3, <1>6, <3>1, LedgerGrows
      <4> QED
        BY <1>6, <2>1, <3>2, <4>1
    <3>4. ASSUME enabled PROVE \E d : FitsUp(k[0], d)'
      <4>1. PICK c : FitsUp(k[0], c)
        BY <1>6, <2>7, <3>4
      <4>2. SendLedger(c, toServer, Len(handled))
        BY <4>1 DEF FitsUp
      <4>3. /\ c[1] = IF Head(toServer).kind = "stanza" THEN Len(handled) + 1 ELSE Len(handled)
            /\ \E d : SendLedger(d, Tail(toServer), c[1])
                      /\ \A i \in 0..Len(Tail(toServer)) : d[i] = c[i + 1]
        BY <1>1, <1>3, <4>2, SendTail
      <4>4. Len(handled') = c[1]
        BY <1>3, <3>2, <3>4, <4>3
      <4>5. PICK d : /\ SendLedger(d, toServer', Len(handled'))
                     /\ \A i \in 0..Len(Tail(toServer)) : d[i] = c[i + 1]
        BY <1>1, <4>3, <4>4
      <4>6. d[Len(toServer')] = c[Len(toServer)]
        <5>1. Len(toServer) = Len(Tail(toServer)) + 1 /\ Tail(toServer) \in Seq(Element)
          BY <1>1, <1>3, TailFacts
        <5>2. Len(Tail(toServer)) \in 0..Len(Tail(toServer))
          BY <5>1
        <5> QED
          BY <1>1, <4>5, <5>1, <5>2
      <4>7. ASSUME NEW p \in 1..Len(unacked)
            PROVE  Placed(unacked[p], k[0] + p, d, toServer', replay, taken')
        <5>1. Placed(unacked[p], k[0] + p, c, toServer, replay, taken)
          BY <4>1 DEF FitsUp
        <5>2. PICK w : w = taken'
          OBVIOUS
        <5>3. taken \subseteq w /\ (Head(toServer).kind = "stanza" => Head(toServer).n \in w)
          BY <2>1, <5>2
        <5>4. Placed(unacked[p], k[0] + p, d, Tail(toServer), replay, w)
          BY <1>1, <1>3, <4>5, <5>1, <5>3, PlacedTail
        <5> QED
          BY <1>1, <5>2, <5>4
      <4>8. ASSUME NEW s \in Senders, holds[s] # 0
            PROVE  holds[s] \in taken' \/ SentIn(holds[s], toServer')
        <5>1. holds[s] \in taken \/ SentIn(holds[s], toServer)
          BY <4>1, <4>8 DEF FitsUp
        <5>2. SentIn(holds[s], toServer) =>
                  \/ Head(toServer).kind = "stanza" /\ Head(toServer).n = holds[s]
                  \/ SentIn(holds[s], Tail(toServer))
          BY <1>1, <1>3, SentTail
        <5> QED
          BY <1>1, <2>1, <5>1, <5>2
      <4>9. FitsUp(k[0], d)'
        BY <1>1, <4>1, <4>5, <4>6, <4>7, <4>8 DEF FitsUp, NoHolds
      <4> QED
        BY <4>9
    <3>5. Keeps'
      BY <1>1, <2>7, <3>3, <3>4 DEF Keeps
    <3> QED
      BY <2>2, <2>4, <3>5
  <2> QED
    BY <2>6, <2>7
<1> QED
  BY <1>8, <1>9, <1>10

LEMMA SendsQueue == ASSUME StreamInv, QueueInv, ServerSends PROVE QueueInv'
<1> SUFFICES ASSUME orderly' PROVE OneByOne' /\ Keeps' /\ UnackedRetained'
  BY DEF QueueInv
<1>1. UNCHANGED <<enabled, acked, unacked, recorded, holds, toServer, enabling, stream, handled, taken,
                  replay, orderly>>
  BY DEF ServerSends, smVars
<1>2. OneByOne /\ Keeps /\ UnackedRetained
  BY <1>1 DEF QueueInv
<1>3. toClient \in Seq(Element) /\ Len(handled) \in Nat
  BY QueueTypes
<1>4. PICK m \in {El("stanza", 0), El("r", 0), El("a", Len(handled) % Modulus)} :
              toClient' = Append(toClient, m)
  BY DEF ServerSends
<1>5. m \in Element /\ (m.kind \in {"a", "resumed"} => m.n = Len(handled) % Modulus)
  <2>1. Len(handled) % Modulus \in Nat
    BY <1>3, WrapRange
  <2> QED
    BY <2>1 DEF El, Element
<1>6. \A k : AckLedger(k, toClient, acked, Len(handled)) =>
                 \E j : AckLedger(j, toClient', acked, Len(handled)) /\ j[0] = k[0]
  BY <1>3, <1>4, <1>5, LedgerAppend
<1>7. Keeps'
  BY <1>1, <1>2, <1>6, LedgerKeeps
<1>8. OneByOne' /\ UnackedRetained'
  BY <1>1, <1>2 DEF OneByOne, UnackedRetained, NoHolds
<1> QED
  BY <1>7, <1>8

LEMMA NextQueueInv == StreamInv /\ StreamInv' /\ QueueInv /\ [Next]_vars => QueueInv'
<1> SUFFICES ASSUME StreamInv, StreamInv', QueueInv, [Next]_vars PROVE QueueInv'
  OBVIOUS
<1>1. CASE \E s \in Senders : SendWrite(s) \/ OnSent(s)
  BY <1>1, WriteQueue, SentQueue
<1>2. CASE EnableSend \/ EnableTake \/ EnableGivesUp
  BY <1>2, EnableQueue
<1>3. CASE OnReceived \/ OnEnabled \/ OnFailed
  BY <1>3, SkipQueue
<1>4. CASE OnRequest
  BY <1>4, RequestQueue
<1>5. CASE OnAck
  BY <1>5, AcksQueue
<1>6. CASE OnResumed
  BY <1>6, ResumedQueue
<1>7. CASE Drop \/ Reconnect
  <2>1. CASE stream = "up"
    <3>1. Drop
      BY <1>7, <2>1 DEF Reconnect
    <3> QED
      BY <2>1, <3>1, DropQueue
  <2>2. CASE stream # "up"
    BY <1>7, <2>2, LostQueue
  <2> QED
    BY <2>1, <2>2
<1>8. CASE Resume
  BY <1>8, ResumeQueue
<1>9. CASE ServerTakes
  BY <1>9, TakesQueue
<1>10. CASE ServerSends
  BY <1>10, SendsQueue
<1>11. CASE UNCHANGED vars
  <2>1. UNCHANGED <<enabled, acked, unacked, enabling, holds, toServer, toClient, stream, handled, taken,
                    recorded, replay, orderly>>
    BY <1>11 DEF vars, smVars, serverVars
  <2> QED
    BY <2>1 DEF QueueInv, OneByOne, Keeps, FitsUp, FitsLost, NoHolds, UnackedRetained
<1> QED
  BY <1>1, <1>2, <1>3, <1>4, <1>5, <1>6, <1>7, <1>8, <1>9, <1>10, <1>11 DEF Next

(* While Sends overlap neither one another nor Enable or resumption, every  *)
(* stanza that onSent queued is with the server or still in unacked, for    *)
(* any number of senders and drops and wherever the uint32 counters wrap    *)
(* (client_control.go:316-328, 375-386).                                    *)
THEOREM QueueIsRetained == Spec => []OrderlyRetained
<1>1. Init => StreamInv /\ QueueInv
  BY InitTypeInv, InitCountInv, InitStreamInv, InitQueueInv DEF StreamInv
<1>2. StreamInv /\ QueueInv /\ [Next]_vars => StreamInv' /\ QueueInv'
  BY NextStreamInv, NextQueueInv
<1>3. QueueInv => OrderlyRetained
  BY DEF QueueInv, OrderlyRetained
<1> QED
  BY <1>1, <1>2, <1>3, PTL DEF Spec

=============================================================================
