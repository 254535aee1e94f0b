--------------------------- MODULE AccountProofs ---------------------------
(***************************************************************************)
(* Proofs about what is kept for the account.  Roster, and the block list  *)
(* and the two switches of ClientControl: the caches that responses and    *)
(* pushes feed, for any contacts, values, calls, changes and pushes.       *)
(* Bookmarks, for any rooms, marks, calls and entries of other clients.    *)
(* OmemoStore, for any calls, keys, device IDs, changes, crashes and       *)
(* failures of the disk.  OmemoManager, for any accounts, devices, policy, *)
(* calls and decisions: whom EncryptMessage encrypts to, and what          *)
(* PublishDeviceList does to the account's other devices.                  *)
(***************************************************************************)
EXTENDS Roster, ClientControl, Bookmarks, OmemoStore, OmemoManager, SelectionsProofs, WellFoundedInduction

-----------------------------------------------------------------------------
(* The roster: its inductive invariant. *)

Entries == [JIDs -> Values \cup {Gone}]
FullResults == [kind : {"result"}, get : Gets, query : {TRUE}, entries : Entries, ver : Nat]
EmptyResults == [kind : {"result"}, get : Gets, query : {FALSE}]
Pushes == [kind : {"push"}, from : {"account", "stranger"}, change : Change, ver : Nat]
FromServer == FullResults \cup EmptyResults \cup Pushes
OwnPush(m) == m \in Pushes /\ m.from = "account"

RosterTypes ==
    /\ items \in Entries /\ version \in Nat /\ since \in [Gets -> Nat]
    /\ getting \in [Gets -> {"idle", "asked", "answered", "over"}]
    /\ response \in [Gets -> FromServer \cup {NoResponse}]
    /\ \A g \in Gets : getting[g] = "answered" => response[g] \in FullResults \cup EmptyResults
    /\ log \in Seq(Change) /\ Len(log) > 0
    /\ interested \in BOOLEAN /\ based \in BOOLEAN /\ calm \in BOOLEAN
    /\ fromServer \in Seq(FromServer)

(* EntryAt and RosterAt, of any log.                                        *)
About(l, v, j) == {i \in 1..v : l[i].jid = j}
EntryIn(l, v, j) ==
    IF About(l, v, j) = {} THEN Gone
    ELSE l[CHOOSE i \in About(l, v, j) : \A k \in About(l, v, j) : k <= i].to
RosterIn(l, v) == [j \in JIDs |-> EntryIn(l, v, j)]

(* A stanza m takes a client that is at version v to version w of the log:  *)
(* a push repeats changes or adds the next one, a result is of the version  *)
(* that the pushes before it lead to.  Version 0 is that of a client which  *)
(* has not asked for the roster.                                            *)
Follows(m, v, w, l) ==
    /\ OwnPush(m) => /\ w = m.ver /\ m.ver \in 1..Len(l) /\ m.change = l[m.ver]
                     /\ v # 0 /\ m.ver <= v + 1
    /\ m \in FullResults => /\ w = m.ver /\ m.ver \in 1..Len(l) /\ m.entries = RosterIn(l, m.ver)
                            /\ v = 0 \/ v = m.ver
    /\ ~OwnPush(m) /\ m \notin FullResults => w = v

(* The versions st that the stanzas q under way lead through, and the last. *)
Along(st, q, l) ==
    /\ st \in [0..Len(q) -> 0..Len(l)]
    /\ \A i \in 1..Len(q) : Follows(q[i], st[i - 1], st[i], l)
Ends(st, q, l, on) ==
    /\ on => st[Len(q)] = Len(l)
    /\ ~on => \A i \in 0..Len(q) : st[i] = 0

(* The entries are right that have not changed since the cache's version,   *)
(* or missing, as long as no Get has brought the roster.                    *)
Right(its, v, l, b) ==
    \A j \in JIDs : (\A i \in (v + 1)..Len(l) : l[i].jid # j) =>
        its[j] = EntryIn(l, Len(l), j) \/ (~b /\ its[j] = Gone)

(* The cache fits the version p that the reader has come to.                *)
CacheAt(p) ==
    /\ version = 0 \/ version = p
    /\ version = 0 => ~based /\ \A j \in JIDs : items[j] = Gone
    /\ version # 0 => interested /\ Right(items, version, log, based)
    /\ \A g \in Gets : getting[g] = "answered" /\ response[g] \in FullResults =>
           interested /\ p # 0 /\ response[g].ver = p /\ response[g].entries = RosterIn(log, p)
    /\ \A g \in Gets : since[g] <= Len(log) /\ (since[g] # 0 => interested)

Fits == \E st : /\ Along(st, fromServer, log) /\ Ends(st, fromServer, log, interested)
                /\ CacheAt(st[0])
RosterInv == RosterTypes /\ (calm => Fits)

-----------------------------------------------------------------------------
(* The roster at a version. *)

(* A set of natural numbers has a smallest member, a bounded one a largest. *)
LEMMA NatMin == ASSUME NEW T, T \subseteq Nat, T # {} PROVE \E x \in T : \A y \in T : x <= y
<1> DEFINE R == {ss \in Nat \X Nat : ss[1] < ss[2]}
<1>1. IsWellFoundedOn(R, Nat)
  BY NatLessThanWellFounded DEF OpToRel
<1> HIDE DEF R
<1>2. PICK x \in T : \A y \in T : ~ (<<y, x>> \in R)
  BY <1>1, WFMin
<1>3. ASSUME NEW y \in T PROVE x <= y
  <2>1. x \in Nat /\ y \in Nat /\ ~ (<<y, x>> \in R)
    BY <1>2
  <2>2. y < x => <<y, x>> \in R
    BY <2>1 DEF R
  <2> QED
    BY <2>1, <2>2
<1> QED
  BY <1>3

LEMMA NatMax ==
    ASSUME NEW v \in Nat, NEW T, T \subseteq 1..v, T # {}
    PROVE  \E x \in T : \A y \in T : y <= x
<1>1. PICK U : U = {n \in Nat : \E y \in T : n + y = v}
  OBVIOUS
<1>2. U \subseteq Nat /\ U # {}
  <2>1. PICK y \in T : TRUE
    OBVIOUS
  <2>2. v - y \in Nat /\ (v - y) + y = v
    BY <2>1
  <2> QED
    BY <1>1, <2>2
<1>3. PICK n \in U : \A k \in U : n <= k
  BY <1>2, NatMin
<1>4. PICK x \in T : n + x = v
  BY <1>1, <1>3
<1>5. ASSUME NEW y \in T PROVE y <= x
  <2>1. v - y \in Nat /\ (v - y) + y = v
    OBVIOUS
  <2>2. v - y \in U
    BY <1>1, <2>1
  <2>3. n <= v - y /\ n \in Nat /\ x \in Nat /\ y \in Nat
    BY <1>2, <1>3, <2>2
  <2> QED
    BY <1>4, <2>3
<1> QED
  BY <1>4, <1>5

(* The last change of an entry up to a version, if there is one.            *)
LEMMA LastAbout ==
    ASSUME NEW l, NEW v \in Nat, NEW j, About(l, v, j) # {}
    PROVE  \E i \in About(l, v, j) : /\ \A k \in About(l, v, j) : k <= i
                                     /\ EntryIn(l, v, j) = l[i].to
<1>1. About(l, v, j) \subseteq 1..v
  BY DEF About
<1>2. \E i \in About(l, v, j) : \A k \in About(l, v, j) : k <= i
  BY <1>1, NatMax
<1>3. PICK i : i = CHOOSE m \in About(l, v, j) : \A k \in About(l, v, j) : k <= m
  OBVIOUS
<1>4. i \in About(l, v, j) /\ \A k \in About(l, v, j) : k <= i
  BY <1>2, <1>3
<1>5. EntryIn(l, v, j) = l[i].to
  BY <1>3 DEF EntryIn
<1> QED
  BY <1>4, <1>5

(* The version that changes an entry, and those that do not.                *)
LEMMA EntryChanged ==
    ASSUME NEW l, NEW v \in Nat \ {0} PROVE EntryIn(l, v, l[v].jid) = l[v].to
<1>1. v \in About(l, v, l[v].jid) /\ About(l, v, l[v].jid) \subseteq 1..v
  BY DEF About
<1>2. PICK i \in About(l, v, l[v].jid) : /\ \A k \in About(l, v, l[v].jid) : k <= i
                                         /\ EntryIn(l, v, l[v].jid) = l[i].to
  BY <1>1, LastAbout
<1>3. i = v
  BY <1>1, <1>2
<1> QED
  BY <1>2, <1>3

LEMMA EntryUnchanged ==
    ASSUME NEW l, NEW v \in Nat, NEW w \in Nat, v <= w, NEW j, \A i \in (v + 1)..w : l[i].jid # j
    PROVE  EntryIn(l, w, j) = EntryIn(l, v, j)
<1>1. About(l, w, j) = About(l, v, j)
  <2>1. \A i \in About(l, w, j) : i \in About(l, v, j)
    BY DEF About
  <2>2. \A i \in About(l, v, j) : i \in About(l, w, j)
    BY DEF About
  <2> QED
    BY <2>1, <2>2
<1> QED
  BY <1>1 DEF EntryIn

(* A version of the roster stays what it is when the log grows.             *)
LEMMA EntryStable ==
    ASSUME NEW l, NEW m, NEW v \in Nat, NEW j, \A i \in 1..v : l[i] = m[i]
    PROVE  EntryIn(l, v, j) = EntryIn(m, v, j)
<1>1. About(l, v, j) = About(m, v, j) /\ About(l, v, j) \subseteq 1..v
  BY DEF About
<1>2. CASE About(l, v, j) = {}
  BY <1>1, <1>2 DEF EntryIn
<1>3. CASE About(l, v, j) # {}
  <2>1. PICK i \in About(l, v, j) : /\ \A k \in About(l, v, j) : k <= i
                                    /\ EntryIn(l, v, j) = l[i].to
    BY <1>3, LastAbout
  <2>2. PICK k \in About(m, v, j) : /\ \A n \in About(m, v, j) : n <= k
                                    /\ EntryIn(m, v, j) = m[k].to
    BY <1>1, <1>3, LastAbout
  <2>3. i = k
    BY <1>1, <2>1, <2>2
  <2> QED
    BY <1>1, <2>1, <2>2, <2>3
<1> QED
  BY <1>2, <1>3

LEMMA RosterStable ==
    ASSUME NEW l, NEW m, NEW v \in Nat, \A i \in 1..v : l[i] = m[i]
    PROVE  RosterIn(l, v) = RosterIn(m, v)
BY EntryStable DEF RosterIn

LEMMA EntryAtIs == \A v, j : EntryAt(v, j) = EntryIn(log, v, j)
BY DEF EntryAt, EntryIn, About
(* A push, a result and a change at the server leave the entries right.     *)
LEMMA RightPush ==
    ASSUME NEW l \in Seq(Change), NEW its \in Entries, NEW v \in Nat, NEW i \in 1..Len(l), NEW b,
           \/ ~b /\ \A j \in JIDs : its[j] = Gone
           \/ Right(its, v, l, b) /\ i <= v + 1
    PROVE  Right([its EXCEPT ![l[i].jid] = l[i].to], i, l, b)
<1>1. PICK new : new = [its EXCEPT ![l[i].jid] = l[i].to]
  OBVIOUS
<1>2. \A j \in JIDs : new[j] = IF j = l[i].jid THEN l[i].to ELSE its[j]
  BY <1>1 DEF Entries
<1>3. Len(l) \in Nat /\ i \in Nat \ {0} /\ i <= Len(l)
  OBVIOUS
<1>4. ASSUME NEW j \in JIDs, \A k \in (i + 1)..Len(l) : l[k].jid # j
      PROVE  new[j] = EntryIn(l, Len(l), j) \/ (~b /\ new[j] = Gone)
  <2>1. CASE j = l[i].jid
    <3>1. EntryIn(l, i, j) = l[i].to
      BY <1>3, <2>1, EntryChanged
    <3>2. EntryIn(l, Len(l), j) = EntryIn(l, i, j)
      BY <1>3, <1>4, EntryUnchanged
    <3> QED
      BY <1>2, <2>1, <3>1, <3>2
  <2>2. CASE j # l[i].jid
    <3>1. new[j] = its[j]
      BY <1>2, <2>2
    <3>2. CASE ~b /\ \A n \in JIDs : its[n] = Gone
      BY <3>1, <3>2
    <3>3. CASE Right(its, v, l, b) /\ i <= v + 1
      <4>1. \A k \in (v + 1)..Len(l) : l[k].jid # j
        BY <1>3, <1>4, <2>2, <3>3
      <4> QED
        BY <3>1, <3>3, <4>1 DEF Right
    <3> QED
      BY <3>2, <3>3
  <2> QED
    BY <2>1, <2>2
<1>5. Right(new, i, l, b)
  BY <1>4 DEF Right
<1> QED
  BY <1>1, <1>5

LEMMA RightMerge ==
    ASSUME NEW l \in Seq(Change), NEW its \in Entries, NEW p \in 1..Len(l), NEW b,
           (\A j \in JIDs : its[j] = Gone) \/ Right(its, p, l, b)
    PROVE  Right([j \in JIDs |-> IF RosterIn(l, p)[j] # Gone THEN RosterIn(l, p)[j] ELSE its[j]],
                 p, l, TRUE)
<1>1. PICK new : new = [j \in JIDs |-> IF RosterIn(l, p)[j] # Gone THEN RosterIn(l, p)[j] ELSE its[j]]
  OBVIOUS
<1>2. \A j \in JIDs : new[j] = IF EntryIn(l, p, j) # Gone THEN EntryIn(l, p, j) ELSE its[j]
  BY <1>1 DEF RosterIn
<1>3. ASSUME NEW j \in JIDs, \A k \in (p + 1)..Len(l) : l[k].jid # j
      PROVE  new[j] = EntryIn(l, Len(l), j)
  <2>1. EntryIn(l, Len(l), j) = EntryIn(l, p, j)
    BY <1>3, EntryUnchanged
  <2>2. its[j] = Gone \/ its[j] = EntryIn(l, Len(l), j)
    BY <1>3 DEF Right
  <2> QED
    BY <1>2, <2>1, <2>2
<1>4. Right(new, p, l, TRUE)
  BY <1>3 DEF Right
<1> QED
  BY <1>1, <1>4

LEMMA RightGrows ==
    ASSUME NEW l \in Seq(Change), NEW its, NEW v \in 0..Len(l), NEW b, NEW c \in Change,
           Right(its, v, l, b)
    PROVE  Right(its, v, Append(l, c), b)
<1>1. PICK n \in Nat : n = Len(l)
  OBVIOUS
<1>2. PICK m : m = Append(l, c)
  OBVIOUS
<1>3. Len(m) = n + 1 /\ m[n + 1] = c /\ \A i \in 1..n : m[i] = l[i]
  BY <1>1, <1>2
<1>4. ASSUME NEW j \in JIDs, \A i \in (v + 1)..(n + 1) : m[i].jid # j
      PROVE  its[j] = EntryIn(m, n + 1, j) \/ (~b /\ its[j] = Gone)
  <2>1. \A i \in (v + 1)..n : l[i].jid # j
    BY <1>1, <1>3, <1>4
  <2>2. its[j] = EntryIn(l, n, j) \/ (~b /\ its[j] = Gone)
    BY <1>1, <2>1 DEF Right
  <2>3. EntryIn(l, n, j) = EntryIn(m, n, j)
    BY <1>3, EntryStable
  <2>4. \A i \in (n + 1)..(n + 1) : m[i].jid # j
    BY <1>1, <1>4
  <2>5. EntryIn(m, n + 1, j) = EntryIn(m, n, j)
    BY <2>4, EntryUnchanged
  <2> QED
    BY <2>2, <2>3, <2>5
<1>5. Right(its, v, m, b)
  BY <1>3, <1>4 DEF Right
<1> QED
  BY <1>2, <1>5

-----------------------------------------------------------------------------
(* The stanzas under way. *)

LEMMA FullFields ==
    ASSUME NEW m \in FullResults
    PROVE  /\ m.kind = "result" /\ m.get \in Gets /\ m.query = TRUE /\ m.entries \in Entries
           /\ m.ver \in Nat /\ m \notin Pushes
BY DEF FullResults, Pushes

LEMMA EmptyFields ==
    ASSUME NEW m \in EmptyResults
    PROVE  m.kind = "result" /\ m.get \in Gets /\ m.query = FALSE /\ m \notin Pushes /\ m \notin FullResults
BY DEF EmptyResults, FullResults, Pushes

LEMMA PushFields ==
    ASSUME NEW m \in Pushes
    PROVE  /\ m.kind = "push" /\ m.from \in {"account", "stranger"} /\ m.change \in Change
           /\ m.ver \in Nat /\ m \notin FullResults
BY DEF Pushes, FullResults

LEMMA NewPush ==
    ASSUME NEW f \in {"account", "stranger"}, NEW c \in Change, NEW v \in Nat
    PROVE  /\ [kind |-> "push", from |-> f, change |-> c, ver |-> v] \in Pushes
           /\ [kind |-> "push", from |-> f, change |-> c, ver |-> v].from = f
           /\ [kind |-> "push", from |-> f, change |-> c, ver |-> v].change = c
           /\ [kind |-> "push", from |-> f, change |-> c, ver |-> v].ver = v
BY DEF Pushes

LEMMA NewFull ==
    ASSUME NEW g \in Gets, NEW es \in Entries, NEW v \in Nat
    PROVE  /\ [kind |-> "result", get |-> g, query |-> TRUE, entries |-> es, ver |-> v] \in FullResults
           /\ [kind |-> "result", get |-> g, query |-> TRUE, entries |-> es, ver |-> v].entries = es
           /\ [kind |-> "result", get |-> g, query |-> TRUE, entries |-> es, ver |-> v].ver = v
BY DEF FullResults

LEMMA NewEmpty == ASSUME NEW g \in Gets PROVE EmptyResult(g) \in EmptyResults
BY DEF EmptyResult, EmptyResults

(* The first stanza is read.                                                *)
LEMMA AlongTail ==
    ASSUME NEW q \in Seq(FromServer), q # <<>>, NEW l \in Seq(Change), NEW st, Along(st, q, l),
           NEW on, Ends(st, q, l, on)
    PROVE  \E s : Along(s, Tail(q), l) /\ Ends(s, Tail(q), l, on) /\ s[0] = st[1]
<1>1. PICK n \in Nat : n = Len(Tail(q)) /\ Len(q) = n + 1
  OBVIOUS
<1>2. PICK r : r = Tail(q)
  OBVIOUS
<1>3. Len(r) = n /\ \A i \in 1..n : r[i] = q[i + 1]
  BY <1>1, <1>2
<1>4. PICK s : s = [i \in 0..n |-> st[i + 1]]
  OBVIOUS
<1>5. s \in [0..n -> 0..Len(l)] /\ s[0] = st[1] /\ \A i \in 0..n : s[i] = st[i + 1]
  BY <1>1, <1>4 DEF Along
<1>6. \A i \in 1..n : Follows(r[i], s[i - 1], s[i], l)
  <2> SUFFICES ASSUME NEW i \in 1..n PROVE Follows(r[i], s[i - 1], s[i], l)
    OBVIOUS
  <2>1. i + 1 \in 1..Len(q) /\ (i + 1) - 1 = i /\ r[i] = q[i + 1]
    BY <1>1, <1>3
  <2>2. s[i - 1] = st[i] /\ s[i] = st[i + 1]
    BY <1>5
  <2>3. Follows(q[i + 1], st[i], st[i + 1], l)
    BY <2>1 DEF Along
  <2> QED
    BY <2>1, <2>2, <2>3
<1>7. Along(s, r, l)
  BY <1>3, <1>5, <1>6 DEF Along
<1>8. Ends(s, r, l, on)
  BY <1>1, <1>3, <1>5, SMTT(20) DEF Ends
<1> QED
  BY <1>2, <1>5, <1>7, <1>8

(* One more stanza is sent.                                                 *)
LEMMA AlongAppend ==
    ASSUME NEW q \in Seq(FromServer), NEW l \in Seq(Change), NEW st, Along(st, q, l),
           NEW m \in FromServer, NEW w \in 0..Len(l), Follows(m, st[Len(q)], w, l)
    PROVE  \E s : /\ Along(s, Append(q, m), l) /\ s[0] = st[0] /\ s[Len(q) + 1] = w
                  /\ \A i \in 0..Len(q) : s[i] = st[i]
<1>1. PICK n \in Nat : n = Len(q)
  OBVIOUS
<1>2. PICK r : r = Append(q, m)
  OBVIOUS
<1>3. Len(r) = n + 1 /\ r[n + 1] = m /\ \A i \in 1..n : r[i] = q[i]
  BY <1>1, <1>2
<1>4. PICK s : s = [i \in 0..(n + 1) |-> IF i = n + 1 THEN w ELSE st[i]]
  OBVIOUS
<1>5. s \in [0..(n + 1) -> 0..Len(l)] /\ s[n + 1] = w /\ \A i \in 0..n : s[i] = st[i]
  BY <1>1, <1>4 DEF Along
<1>6. \A i \in 1..(n + 1) : Follows(r[i], s[i - 1], s[i], l)
  <2> SUFFICES ASSUME NEW i \in 1..(n + 1) PROVE Follows(r[i], s[i - 1], s[i], l)
    OBVIOUS
  <2>1. CASE i = n + 1
    <3>1. i - 1 = n /\ s[n] = st[n] /\ r[i] = m /\ s[i] = w
      BY <1>3, <1>5, <2>1
    <3> QED
      BY <1>1, <3>1
  <2>2. CASE i # n + 1
    <3>1. i \in 1..n /\ s[i - 1] = st[i - 1] /\ s[i] = st[i] /\ r[i] = q[i]
      BY <1>3, <1>5, <2>2
    <3>2. Follows(q[i], st[i - 1], st[i], l)
      BY <1>1, <3>1 DEF Along
    <3> QED
      BY <3>1, <3>2
  <2> QED
    BY <2>1, <2>2
<1>7. Along(s, r, l)
  BY <1>3, <1>5, <1>6 DEF Along
<1>8. s[0] = st[0] /\ s[Len(q) + 1] = w /\ \A i \in 0..Len(q) : s[i] = st[i]
  BY <1>1, <1>5
<1> QED
  BY <1>2, <1>7, <1>8

(* The log grows under the stanzas that are under way.                      *)
LEMMA AlongGrows ==
    ASSUME NEW q \in Seq(FromServer), NEW l \in Seq(Change), NEW st, Along(st, q, l), NEW c \in Change
    PROVE  Along(st, q, Append(l, c))
<1>1. PICK n \in Nat : n = Len(l)
  OBVIOUS
<1>2. PICK k : k = Append(l, c)
  OBVIOUS
<1>3. Len(k) = n + 1 /\ \A i \in 1..n : k[i] = l[i]
  BY <1>1, <1>2
<1>4. \A v \in 1..n : RosterIn(k, v) = RosterIn(l, v)
  BY <1>3, RosterStable
<1>5. \A i \in 1..Len(q) : Follows(q[i], st[i - 1], st[i], k)
  <2> SUFFICES ASSUME NEW i \in 1..Len(q) PROVE Follows(q[i], st[i - 1], st[i], k)
    OBVIOUS
  <2>1. Follows(q[i], st[i - 1], st[i], l)
    BY DEF Along
  <2> QED
    BY <1>1, <1>3, <1>4, <2>1 DEF Follows
<1>6. st \in [0..Len(q) -> 0..Len(k)]
  BY <1>1, <1>3 DEF Along
<1>7. Along(st, q, k)
  BY <1>5, <1>6 DEF Along
<1> QED
  BY <1>2, <1>7

(* The server answers with pushes of the changes since version v.           *)
Replays(r, q, l, v, e) ==
    /\ Len(r) = Len(q) + 1 + (Len(l) - v)
    /\ (\A i \in 1..Len(q) : r[i] = q[i]) /\ r[Len(q) + 1] = e
    /\ \A i \in 1..(Len(l) - v) :
           /\ OwnPush(r[Len(q) + 1 + i]) /\ r[Len(q) + 1 + i].ver = v + i
           /\ r[Len(q) + 1 + i].change = l[v + i]

LEMMA AlongReplay ==
    ASSUME NEW q \in Seq(FromServer), NEW l \in Seq(Change), NEW st, Along(st, q, l), Len(l) > 0,
           st[Len(q)] = Len(l), NEW v \in 0..Len(l), NEW e \in EmptyResults,
           NEW r \in Seq(FromServer), Replays(r, q, l, v, e)
    PROVE  \E s : Along(s, r, l) /\ s[Len(r)] = Len(l) /\ s[0] = st[0]
<1>1. PICK n \in Nat : n = Len(q)
  OBVIOUS
<1>2. PICK k \in Nat : k = Len(l)
  OBVIOUS
<1>3. PICK d \in Nat : d = k - v
  <2>1. k - v \in Nat
    BY <1>2
  <2> QED
    BY <2>1
<1>4. Len(r) = n + 1 + d /\ v + d = k /\ v \in Nat
  BY <1>1, <1>2, <1>3 DEF Replays
<1>5. PICK s : s = [i \in 0..(n + 1 + d) |-> IF i <= n THEN st[i] ELSE IF i = n + 1 THEN k ELSE v + (i - (n + 1))]
  OBVIOUS
<1>6. \A i \in 0..n : s[i] = st[i]
  BY <1>5
<1>7. s[n + 1] = k /\ \A i \in 1..d : s[n + 1 + i] = v + i
  <2>1. s[n + 1] = k
    BY <1>5
  <2>2. ASSUME NEW i \in 1..d PROVE s[n + 1 + i] = v + i
    <3>1. /\ n + 1 + i \in 0..(n + 1 + d) /\ ~(n + 1 + i <= n) /\ n + 1 + i # n + 1
          /\ v + ((n + 1 + i) - (n + 1)) = v + i
      BY <1>4
    <3> QED
      BY <1>5, <3>1
  <2> QED
    BY <2>1, <2>2
<1>8. s \in [0..Len(r) -> 0..k]
  <2>1. ASSUME NEW i \in 0..(n + 1 + d)
        PROVE  (IF i <= n THEN st[i] ELSE IF i = n + 1 THEN k ELSE v + (i - (n + 1))) \in 0..k
    <3>1. CASE i <= n
      <4>1. i \in 0..Len(q)
        BY <1>1, <3>1
      <4>2. st[i] \in 0..Len(l)
        BY <4>1 DEF Along
      <4> QED
        BY <1>2, <3>1, <4>2
    <3>2. CASE ~(i <= n)
      BY <1>4, <3>2
    <3> QED
      BY <3>1, <3>2
  <2> QED
    BY <1>4, <1>5, <2>1
<1>9. ASSUME NEW i \in 1..Len(r) PROVE Follows(r[i], s[i - 1], s[i], l)
  <2>1. CASE i <= n
    <3>1. i \in 1..n /\ i - 1 \in 0..n
      BY <2>1
    <3>2. Follows(q[i], st[i - 1], st[i], l)
      BY <1>1, <3>1 DEF Along
    <3>3. r[i] = q[i] /\ s[i] = st[i] /\ s[i - 1] = st[i - 1]
      <4>1. \A x \in 1..n : r[x] = q[x]
        BY <1>1, Zenon DEF Replays
      <4>2. i \in 0..n
        BY <3>1
      <4> QED
        BY <1>6, <3>1, <4>1, <4>2, Zenon
    <3> QED
      BY <3>2, <3>3
  <2>2. CASE i = n + 1
    <3>1. r[i] = e /\ s[i] = k /\ s[i - 1] = k
      <4>1. r[n + 1] = e
        BY <1>1, Zenon DEF Replays
      <4>2. i - 1 = n /\ n \in 0..n
        BY <2>2
      <4>3. s[n] = k
        BY <1>1, <1>2, <1>6, <4>2, Zenon
      <4> QED
        BY <1>7, <2>2, <4>1, <4>2, <4>3, Zenon
    <3>2. e \notin FullResults /\ ~OwnPush(e)
      BY EmptyFields DEF OwnPush
    <3> QED
      BY <3>1, <3>2 DEF Follows
  <2>3. CASE i > n + 1
    <3>1. PICK j \in 1..d : i = n + 1 + j
      <4>1. i - (n + 1) \in 1..d /\ i = n + 1 + (i - (n + 1))
        BY <1>4, <2>3
      <4> QED
        BY <4>1
    <3>2. OwnPush(r[i]) /\ r[i].ver = v + j /\ r[i].change = l[v + j]
      BY <1>1, <1>2, <1>3, <3>1 DEF Replays
    <3>3. s[i] = v + j /\ v + j \in 1..Len(l)
      <4>1. v + j \in 1..k
        BY <1>4
      <4> QED
        BY <1>2, <1>7, <3>1, <4>1
    <3>4. r[i] \notin FullResults
      BY <3>2, PushFields DEF OwnPush
    <3>5. s[i - 1] # 0 /\ v + j <= s[i - 1] + 1
      <4>1. CASE j = 1
        BY <1>2, <1>4, <1>7, <3>1, <4>1
      <4>2. CASE j # 1
        <5>1. j - 1 \in 1..d /\ i - 1 = n + 1 + (j - 1)
          BY <3>1, <4>2
        <5>2. s[i - 1] = v + (j - 1)
          BY <1>7, <5>1
        <5> QED
          BY <1>4, <5>1, <5>2
      <4> QED
        BY <4>1, <4>2
    <3> QED
      BY <3>2, <3>3, <3>4, <3>5 DEF Follows
  <2> QED
    BY <1>4, <2>1, <2>2, <2>3
<1>10. Along(s, r, l)
  BY <1>2, <1>8, <1>9 DEF Along
<1>11. s[Len(r)] = Len(l)
  <2>1. CASE d = 0
    BY <1>2, <1>4, <1>7, <2>1
  <2>2. CASE d # 0
    <3>1. d \in 1..d
      BY <2>2
    <3> QED
      BY <1>2, <1>4, <1>7, <3>1
  <2> QED
    BY <2>1, <2>2
<1> QED
  BY <1>6, <1>10, <1>11

-----------------------------------------------------------------------------
(* Every step keeps the roster's invariant. *)

LEMMA InitRosterInv == RosterInit => RosterInv
<1> SUFFICES ASSUME RosterInit PROVE RosterInv
  OBVIOUS
<1>1. PICK c \in Change : log = <<c>>
  BY DEF RosterInit
<1>2. log \in Seq(Change) /\ Len(log) = 1
  BY <1>1
<1>3. RosterTypes
  <2>1. items \in Entries /\ version \in Nat /\ since \in [Gets -> Nat]
    BY DEF RosterInit, Entries
  <2>2. getting \in [Gets -> {"idle", "asked", "answered", "over"}] /\ \A g \in Gets : getting[g] # "answered"
    BY DEF RosterInit
  <2>3. response \in [Gets -> FromServer \cup {NoResponse}]
    BY DEF RosterInit
  <2>4. interested \in BOOLEAN /\ based \in BOOLEAN /\ calm \in BOOLEAN
    BY DEF RosterInit
  <2>5. fromServer \in Seq(FromServer)
    BY DEF RosterInit
  <2> QED
    BY <1>2, <2>1, <2>2, <2>3, <2>4, <2>5 DEF RosterTypes
<1>4. PICK st : st = [i \in 0..0 |-> 0]
  OBVIOUS
<1>5. fromServer = <<>> /\ Len(fromServer) = 0 /\ interested = FALSE
  BY DEF RosterInit
<1>6. Along(st, fromServer, log) /\ Ends(st, fromServer, log, interested)
  BY <1>2, <1>4, <1>5 DEF Along, Ends
<1>7. CacheAt(st[0])
  BY <1>2, <1>4 DEF RosterInit, CacheAt
<1> QED
  BY <1>3, <1>6, <1>7 DEF RosterInv, Fits

LEMMA AskKeeps ==
    ASSUME RosterInv, NEW g \in Gets, NEW v \in {0, version}, GetAsk(g, v) PROVE RosterInv'
<1>1. RosterTypes'
  BY DEF RosterInv, RosterTypes, GetAsk, cache
<1>2. ASSUME calm PROVE Fits'
  <2>1. PICK st : /\ Along(st, fromServer, log) /\ Ends(st, fromServer, log, interested)
                  /\ CacheAt(st[0])
    BY <1>2 DEF RosterInv, Fits
  <2>2. st[0] \in 0..Len(log)
    <3>1. 0 \in 0..Len(fromServer) /\ st \in [0..Len(fromServer) -> 0..Len(log)]
      BY <2>1 DEF Along, RosterInv, RosterTypes
    <3> QED
      BY <3>1
  <2>3. CacheAt(st[0])'
    <3>1. \A k \in Gets : since'[k] <= Len(log) /\ (since'[k] # 0 => interested)
      BY <2>1, <2>2 DEF CacheAt, GetAsk, RosterInv, RosterTypes
    <3>2. \A k \in Gets : getting'[k] = "answered" => getting[k] = "answered"
      BY DEF GetAsk, RosterInv, RosterTypes
    <3> QED
      BY <2>1, <3>1, <3>2 DEF CacheAt, GetAsk, cache
  <2> QED
    BY <2>1, <2>3 DEF Fits, GetAsk
<1> QED
  BY <1>1, <1>2 DEF RosterInv, GetAsk

LEMMA TimeoutKeeps == ASSUME RosterInv, NEW g \in Gets, GetTimesOut(g) PROVE RosterInv'
<1>1. RosterTypes'
  BY DEF RosterInv, RosterTypes, GetTimesOut, cache
<1>2. ASSUME calm PROVE Fits'
  <2>1. PICK st : /\ Along(st, fromServer, log) /\ Ends(st, fromServer, log, interested)
                  /\ CacheAt(st[0])
    BY <1>2 DEF RosterInv, Fits
  <2>2. CacheAt(st[0])'
    <3>1. \A k \in Gets : getting'[k] = "answered" => getting[k] = "answered" /\ response'[k] = response[k]
      BY DEF GetTimesOut, RosterInv, RosterTypes
    <3> QED
      BY <2>1, <3>1 DEF CacheAt, GetTimesOut, cache
  <2> QED
    BY <2>1, <2>2 DEF Fits, GetTimesOut
<1> QED
  BY <1>1, <1>2 DEF RosterInv, GetTimesOut
(* Get lays a response over the cache: as no push was applied since it was  *)
(* read, it is of the version the reader has come to.                       *)
LEMMA ApplyKeeps == ASSUME RosterInv, NEW g \in Gets, GetApply(g) PROVE RosterInv'
<1>1. /\ getting[g] = "answered" /\ response[g] \in FullResults \cup EmptyResults /\ items \in Entries
      /\ getting' = [getting EXCEPT ![g] = "over"] /\ response' = [response EXCEPT ![g] = NoResponse]
      /\ UNCHANGED <<since, log, interested, fromServer, calm, strange>>
      /\ log \in Seq(Change) /\ version \in Nat /\ based \in BOOLEAN
  BY DEF RosterInv, RosterTypes, GetApply
<1>2. PICK r : r = response[g]
  OBVIOUS
<1>3. \A k \in Gets : getting'[k] = "answered" => getting[k] = "answered" /\ response'[k] = response[k]
  BY <1>1 DEF RosterInv, RosterTypes
<1>4. CASE r \in FullResults
  <2>1. r.query = TRUE /\ r.entries \in Entries /\ r.ver \in Nat
    BY <1>4, FullFields
  <2>2. /\ items' = [j \in JIDs |-> IF r.entries[j] # Gone THEN r.entries[j] ELSE items[j]]
        /\ version' = r.ver /\ based' = TRUE
    BY <1>2, <2>1 DEF GetApply, Merged
  <2>3. items' \in Entries
    BY <1>1, <2>1, <2>2 DEF Entries
  <2>4. RosterTypes'
    BY <1>1, <1>3, <2>1, <2>2, <2>3 DEF RosterInv, RosterTypes
  <2>5. ASSUME calm PROVE Fits'
    <3>1. PICK st : /\ Along(st, fromServer, log) /\ Ends(st, fromServer, log, interested)
                    /\ CacheAt(st[0])
      BY <2>5 DEF RosterInv, Fits
    <3>2. PICK p \in 0..Len(log) : p = st[0]
      BY <1>1, <3>1 DEF Along
    <3>3. interested /\ p # 0 /\ r.ver = p /\ r.entries = RosterIn(log, p)
      BY <1>1, <1>2, <1>4, <3>1, <3>2 DEF CacheAt
    <3>4. p \in 1..Len(log)
      BY <1>1, <3>2, <3>3
    <3>5. (\A j \in JIDs : items[j] = Gone) \/ Right(items, p, log, based)
      BY <3>1, <3>2 DEF CacheAt
    <3>6. Right(items', p, log, TRUE)
      <4>1. items' = [j \in JIDs |-> IF RosterIn(log, p)[j] # Gone THEN RosterIn(log, p)[j] ELSE items[j]]
        BY <2>2, <3>3
      <4>2. Right([j \in JIDs |-> IF RosterIn(log, p)[j] # Gone THEN RosterIn(log, p)[j] ELSE items[j]],
                  p, log, TRUE)
        BY <1>1, <3>4, <3>5, RightMerge
      <4> QED
        BY <4>1, <4>2
    <3>7. CacheAt(st[0])'
      <4>1. version' = p /\ version' # 0 /\ based' = TRUE /\ log' = log /\ interested'
        BY <1>1, <2>2, <3>3
      <4>2. Right(items', version', log', based')
        BY <3>6, <4>1
      <4>3. \A k \in Gets : getting'[k] = "answered" /\ response'[k] \in FullResults =>
                interested /\ p # 0 /\ response'[k].ver = p /\ response'[k].entries = RosterIn(log, p)
        BY <1>3, <3>1, <3>2 DEF CacheAt
      <4>4. \A k \in Gets : since[k] <= Len(log) /\ (since[k] # 0 => interested)
        BY <3>1 DEF CacheAt
      <4> QED
        BY <1>1, <3>2, <4>1, <4>2, <4>3, <4>4 DEF CacheAt
    <3> QED
      BY <1>1, <3>1, <3>7 DEF Fits
  <2> QED
    BY <1>1, <2>4, <2>5 DEF RosterInv
<1>5. CASE r \in EmptyResults
  <2>1. r.query = FALSE
    BY <1>5, EmptyFields
  <2>2. UNCHANGED <<items, version, based>>
    BY <1>1, <1>2, <2>1 DEF GetApply, cache
  <2>3. RosterTypes'
    BY <1>1, <1>3, <2>2 DEF RosterInv, RosterTypes
  <2>4. ASSUME calm PROVE Fits'
    <3>1. PICK st : /\ Along(st, fromServer, log) /\ Ends(st, fromServer, log, interested)
                    /\ CacheAt(st[0])
      BY <2>4 DEF RosterInv, Fits
    <3>2. CacheAt(st[0])'
      BY <1>1, <1>3, <2>2, <3>1 DEF CacheAt
    <3> QED
      BY <1>1, <3>1, <3>2 DEF Fits
  <2> QED
    BY <1>1, <2>3, <2>4 DEF RosterInv
<1> QED
  BY <1>1, <1>2, <1>4, <1>5

(* What is known of the first stanza when the cache fits.                   *)
LEMMA HeadFacts ==
    ASSUME RosterTypes, fromServer # <<>>
    PROVE  /\ Head(fromServer) \in FromServer /\ Tail(fromServer) \in Seq(FromServer)
           /\ Head(fromServer) = fromServer[1] /\ 1 \in 1..Len(fromServer)
BY DEF RosterTypes

LEMMA ReadKeeps == ASSUME RosterInv, ReadResponse PROVE RosterInv'
<1>1. /\ fromServer # <<>> /\ Head(fromServer).kind = "result" /\ fromServer' = Tail(fromServer)
      /\ UNCHANGED <<items, version, since, log, interested, based, calm, strange>>
      /\ log \in Seq(Change) /\ version \in Nat /\ fromServer \in Seq(FromServer)
  BY DEF RosterInv, RosterTypes, ReadResponse, cache
<1>2. PICK m : m = Head(fromServer)
  OBVIOUS
<1>3. m \in FromServer /\ Tail(fromServer) \in Seq(FromServer) /\ m = fromServer[1] /\ 1 \in 1..Len(fromServer)
  BY <1>1, <1>2, HeadFacts DEF RosterInv
<1>4. m \in FullResults \cup EmptyResults /\ m.get \in Gets
  BY <1>1, <1>2, <1>3, PushFields, FullFields, EmptyFields DEF FromServer
<1>5. \A k \in Gets : getting'[k] = "answered" =>
          \/ getting[k] = "answered" /\ response'[k] = response[k]
          \/ response'[k] = m
  BY <1>2, <1>4 DEF ReadResponse, RosterInv, RosterTypes
<1>6. RosterTypes'
  <2>1. getting' \in [Gets -> {"idle", "asked", "answered", "over"}]
    <3>1. getting' = getting \/ getting' = [getting EXCEPT ![m.get] = "answered"]
      BY <1>2 DEF ReadResponse
    <3>2. getting \in [Gets -> {"idle", "asked", "answered", "over"}]
      BY DEF RosterInv, RosterTypes
    <3> QED
      BY <1>4, <3>1, <3>2
  <2>2. response' \in [Gets -> FromServer \cup {NoResponse}]
    <3>1. response' = response \/ response' = [response EXCEPT ![m.get] = m]
      BY <1>2 DEF ReadResponse
    <3>2. response \in [Gets -> FromServer \cup {NoResponse}]
      BY DEF RosterInv, RosterTypes
    <3> QED
      BY <1>3, <1>4, <3>1, <3>2
  <2>3. \A k \in Gets : getting'[k] = "answered" => response'[k] \in FullResults \cup EmptyResults
    BY <1>4, <1>5 DEF RosterInv, RosterTypes
  <2> QED
    BY <1>1, <1>3, <2>1, <2>2, <2>3 DEF RosterInv, RosterTypes
<1>7. ASSUME calm PROVE Fits'
  <2>1. PICK st : /\ Along(st, fromServer, log) /\ Ends(st, fromServer, log, interested)
                  /\ CacheAt(st[0])
    BY <1>7 DEF RosterInv, Fits
  <2>2. PICK s : /\ Along(s, fromServer', log) /\ Ends(s, fromServer', log, interested)
                 /\ s[0] = st[1]
    BY <1>1, <2>1, AlongTail
  <2>3. Follows(m, st[0], st[1], log)
    BY <1>3, <2>1 DEF Along
  <2>4. ~OwnPush(m)
    BY <1>4, FullFields, EmptyFields DEF OwnPush
  <2>5. st[0] = 0 \/ st[1] = st[0]
    BY <2>3, <2>4 DEF Follows
  <2>6. m \in FullResults => /\ m.ver = st[1] /\ st[1] # 0 /\ m.entries = RosterIn(log, st[1])
    BY <2>3 DEF Follows
  <2>7. m \in FullResults => interested
    BY <1>3, <2>1, <2>6 DEF Ends
  <2>8. version = 0 \/ version = st[1]
    BY <2>1, <2>5 DEF CacheAt
  <2>9. \A k \in Gets : getting'[k] = "answered" /\ response'[k] \in FullResults =>
            interested /\ st[1] # 0 /\ response'[k].ver = st[1] /\ response'[k].entries = RosterIn(log, st[1])
    <3> SUFFICES ASSUME NEW k \in Gets, getting'[k] = "answered", response'[k] \in FullResults
                 PROVE  /\ interested /\ st[1] # 0 /\ response'[k].ver = st[1]
                        /\ response'[k].entries = RosterIn(log, st[1])
      OBVIOUS
    <3>1. CASE response'[k] = m
      BY <2>6, <2>7, <3>1
    <3>2. CASE getting[k] = "answered" /\ response'[k] = response[k]
      BY <2>1, <2>5, <3>2 DEF CacheAt
    <3> QED
      BY <1>5, <3>1, <3>2
  <2>10. CacheAt(s[0])'
    BY <1>1, <2>1, <2>2, <2>8, <2>9 DEF CacheAt
  <2> QED
    BY <1>1, <2>2, <2>10 DEF Fits
<1> QED
  BY <1>1, <1>6, <1>7 DEF RosterInv

(* A push is applied, or refused when it is a stranger's.                   *)
LEMMA HandlePushKeeps == ASSUME RosterInv, HandlePush PROVE RosterInv'
<1>1. /\ fromServer # <<>> /\ Head(fromServer).kind = "push" /\ fromServer' = Tail(fromServer)
      /\ UNCHANGED <<getting, since, response, log, interested, based, strange>>
      /\ log \in Seq(Change) /\ version \in Nat /\ fromServer \in Seq(FromServer) /\ items \in Entries
      /\ calm \in BOOLEAN
  BY DEF RosterInv, RosterTypes, HandlePush
<1>2. PICK m : m = Head(fromServer)
  OBVIOUS
<1>3. m \in FromServer /\ Tail(fromServer) \in Seq(FromServer) /\ m = fromServer[1] /\ 1 \in 1..Len(fromServer)
  BY <1>1, <1>2, HeadFacts DEF RosterInv
<1>4. m \in Pushes
  BY <1>1, <1>2, <1>3, FullFields, EmptyFields DEF FromServer
<1>5. m.change \in Change /\ m.ver \in Nat /\ m \notin FullResults
  BY <1>4, PushFields
<1>6. CASE m.from = "account"
  <2>1. /\ items' = [items EXCEPT ![m.change.jid] = m.change.to] /\ version' = m.ver
        /\ calm' = (calm /\ \A g \in Gets : getting[g] # "answered")
    BY <1>2, <1>6 DEF HandlePush, FromAccount, Pushed
  <2>2. m.change.to \in Values \cup {Gone} /\ items' \in Entries
    BY <1>1, <1>5, <2>1 DEF Change, Entries
  <2>3. calm' \in BOOLEAN
    BY <1>1, <2>1, Zenon
  <2>4. RosterTypes'
    BY <1>1, <1>3, <1>5, <2>1, <2>2, <2>3 DEF RosterInv, RosterTypes
  <2>5. ASSUME calm' PROVE Fits'
    <3>1. calm /\ \A g \in Gets : getting[g] # "answered"
      BY <2>1, <2>5
    <3>2. PICK st : /\ Along(st, fromServer, log) /\ Ends(st, fromServer, log, interested)
                    /\ CacheAt(st[0])
      BY <3>1 DEF RosterInv, Fits
    <3>3. PICK s : /\ Along(s, fromServer', log) /\ Ends(s, fromServer', log, interested)
                   /\ s[0] = st[1]
      BY <1>1, <3>2, AlongTail
    <3>4. Follows(m, st[0], st[1], log) /\ st[0] \in Nat
      BY <1>1, <1>3, <3>2 DEF Along
    <3>5. OwnPush(m)
      BY <1>4, <1>6 DEF OwnPush
    <3>6. /\ st[1] = m.ver /\ m.ver \in 1..Len(log) /\ m.change = log[m.ver] /\ st[0] # 0
          /\ m.ver <= st[0] + 1
      BY <3>4, <3>5 DEF Follows
    <3>7. interested
      BY <1>3, <3>2, <3>6 DEF Ends
    <3>8. \/ ~based /\ \A j \in JIDs : items[j] = Gone
          \/ Right(items, version, log, based) /\ m.ver <= version + 1
      BY <3>2, <3>6 DEF CacheAt
    <3>9. Right(items', version', log', based')
      BY <1>1, <2>1, <3>6, <3>8, RightPush
    <3>10. version' = s[0] /\ version' # 0
      BY <2>1, <3>3, <3>6
    <3>11. \A k \in Gets : since[k] <= Len(log) /\ (since[k] # 0 => interested)
      BY <3>2 DEF CacheAt
    <3>12. CacheAt(s[0])'
      BY <1>1, <3>1, <3>7, <3>9, <3>10, <3>11 DEF CacheAt
    <3> QED
      BY <1>1, <3>3, <3>12 DEF Fits
  <2> QED
    BY <2>4, <2>5 DEF RosterInv
<1>7. CASE m.from # "account"
  <2>1. UNCHANGED <<items, version, calm>>
    BY <1>2, <1>7 DEF HandlePush, FromAccount, cache
  <2>2. RosterTypes'
    BY <1>1, <1>3, <2>1 DEF RosterInv, RosterTypes
  <2>3. ASSUME calm PROVE Fits'
    <3>1. PICK st : /\ Along(st, fromServer, log) /\ Ends(st, fromServer, log, interested)
                    /\ CacheAt(st[0])
      BY <2>3 DEF RosterInv, Fits
    <3>2. PICK s : /\ Along(s, fromServer', log) /\ Ends(s, fromServer', log, interested)
                   /\ s[0] = st[1]
      BY <1>1, <3>1, AlongTail
    <3>3. Follows(m, st[0], st[1], log)
      BY <1>3, <3>1 DEF Along
    <3>4. s[0] = st[0]
      BY <1>5, <1>7, <3>2, <3>3 DEF Follows, OwnPush
    <3>5. CacheAt(s[0])'
      BY <1>1, <2>1, <3>1, <3>4 DEF CacheAt
    <3> QED
      BY <1>1, <3>2, <3>5 DEF Fits
  <2> QED
    BY <2>1, <2>2, <2>3 DEF RosterInv
<1> QED
  BY <1>6, <1>7
(* The cache still fits when the server has sent something, and when its    *)
(* roster has changed.                                                      *)
LEMMA CacheKept ==
    ASSUME NEW p, CacheAt(p), interested => interested',
           UNCHANGED <<items, version, getting, since, response, log, based>>
    PROVE  CacheAt(p)'
BY DEF CacheAt

LEMMA CacheGrows ==
    ASSUME RosterTypes, NEW p \in 0..Len(log), CacheAt(p), NEW c \in Change, log' = Append(log, c),
           UNCHANGED <<items, version, getting, since, response, interested, based>>
    PROVE  CacheAt(p)'
<1>1. log \in Seq(Change) /\ Len(log) \in Nat /\ version \in Nat /\ since \in [Gets -> Nat]
  BY DEF RosterTypes
<1>2. Len(log') = Len(log) + 1 /\ \A i \in 1..Len(log) : log'[i] = log[i]
  BY <1>1
<1>3. RosterIn(log', p) = RosterIn(log, p)
  <2>1. p \in Nat /\ \A i \in 1..p : log'[i] = log[i]
    BY <1>1, <1>2
  <2> QED
    BY <2>1, RosterStable
<1>4. version # 0 => interested /\ Right(items, version, log', based)
  <2> SUFFICES ASSUME version # 0 PROVE interested /\ Right(items, version, log', based)
    OBVIOUS
  <2>1. interested /\ Right(items, version, log, based) /\ version \in 0..Len(log)
    BY <1>1 DEF CacheAt
  <2> QED
    BY <1>1, <2>1, RightGrows
<1>5. \A g \in Gets : since[g] <= Len(log') /\ (since[g] # 0 => interested)
  BY <1>1, <1>2 DEF CacheAt
<1>6. version' # 0 => interested' /\ Right(items', version', log', based')
  BY <1>4
<1>7. \A g \in Gets : getting[g] = "answered" /\ response[g] \in FullResults =>
          interested /\ p # 0 /\ response[g].ver = p /\ response[g].entries = RosterIn(log', p)
  BY <1>3 DEF CacheAt
<1> QED
  BY <1>5, <1>6, <1>7 DEF CacheAt

(* The whole roster, of the version the pushes under way lead to; or the    *)
(* changes since the version that Get sent.                                 *)
LEMMA ServerAnswersKeeps == ASSUME RosterInv, NEW g \in Gets, ServerAnswers(g) PROVE RosterInv'
<1>1. /\ UNCHANGED <<items, version, getting, since, response, log, based, calm, strange>>
      /\ interested' = TRUE /\ log \in Seq(Change) /\ Len(log) \in Nat /\ Len(log) > 0
      /\ fromServer \in Seq(FromServer) /\ since \in [Gets -> Nat] /\ interested \in BOOLEAN
  BY DEF ServerAnswers, RosterInv, RosterTypes, cache
<1>2. SUFFICES fromServer' \in Seq(FromServer) /\ (calm => Fits')
  BY <1>1 DEF RosterInv, RosterTypes
<1>3. PICK n \in Nat : n = Len(log)
  BY <1>1
<1>4. CASE fromServer' = Append(fromServer, Response(g, RosterAt(Len(log))))
  <2>1. RosterAt(Len(log)) = RosterIn(log, n)
    BY <1>3, EntryAtIs DEF RosterAt, RosterIn
  <2>2. RosterIn(log, n) \in Entries
    <3> SUFFICES ASSUME NEW j \in JIDs PROVE EntryIn(log, n, j) \in Values \cup {Gone}
      BY DEF RosterIn, Entries
    <3>1. CASE About(log, n, j) = {}
      BY <3>1 DEF EntryIn
    <3>2. CASE About(log, n, j) # {}
      <4>1. PICK i \in About(log, n, j) : EntryIn(log, n, j) = log[i].to
        BY <3>2, LastAbout
      <4>2. log[i] \in Change
        BY <1>1, <1>3, <4>1 DEF About
      <4> QED
        BY <4>1, <4>2 DEF Change
    <3> QED
      BY <3>1, <3>2
  <2>3. PICK m : m = Response(g, RosterAt(Len(log)))
    OBVIOUS
  <2>4. m \in FullResults /\ m.entries = RosterIn(log, n) /\ m.ver = n
    BY <1>3, <2>1, <2>2, <2>3, NewFull DEF Response
  <2>5. m \in FromServer /\ ~OwnPush(m)
    BY <2>4, FullFields DEF FromServer, OwnPush
  <2>6. fromServer' = Append(fromServer, m) /\ fromServer' \in Seq(FromServer)
    BY <1>1, <1>4, <2>3, <2>5
  <2>7. ASSUME calm PROVE Fits'
    <3>1. PICK st : /\ Along(st, fromServer, log) /\ Ends(st, fromServer, log, interested)
                    /\ CacheAt(st[0])
      BY <2>7 DEF RosterInv, Fits
    <3>2. st[Len(fromServer)] = 0 \/ st[Len(fromServer)] = n
      BY <1>1, <1>3, <3>1 DEF Ends
    <3>3. Follows(m, st[Len(fromServer)], n, log)
      BY <1>1, <1>3, <2>4, <2>5, <3>2 DEF Follows
    <3>4. PICK s : Along(s, fromServer', log) /\ s[0] = st[0] /\ s[Len(fromServer) + 1] = n
      BY <1>1, <1>3, <2>5, <2>6, <3>1, <3>3, AlongAppend
    <3>5. Len(fromServer') = Len(fromServer) + 1
      BY <1>1, <2>6
    <3>6. Ends(s, fromServer', log, TRUE)
      BY <1>3, <3>4, <3>5 DEF Ends
    <3>7. CacheAt(s[0])'
      BY <1>1, <3>1, <3>4, CacheKept
    <3> QED
      BY <1>1, <3>4, <3>6, <3>7 DEF Fits
  <2> QED
    BY <2>6, <2>7
<1>5. CASE /\ since[g] # 0
           /\ fromServer' = Append(fromServer, EmptyResult(g)) \o
                               [i \in 1..(Len(log) - since[g]) |-> RosterPush(since[g] + i)]
  <2>1. PICK v \in Nat : v = since[g]
    BY <1>1
  <2>2. PICK e : e = EmptyResult(g)
    OBVIOUS
  <2>3. e \in EmptyResults /\ e \in FromServer
    BY <2>2, NewEmpty DEF FromServer
  <2>4. PICK a : a = Append(fromServer, e)
    OBVIOUS
  <2>5. /\ a \in Seq(FromServer) /\ Len(a) = Len(fromServer) + 1 /\ a[Len(fromServer) + 1] = e
        /\ \A i \in 1..Len(fromServer) : a[i] = fromServer[i]
    BY <1>1, <2>3, <2>4
  <2>6. PICK b : b = [i \in 1..(Len(log) - v) |-> RosterPush(v + i)]
    OBVIOUS
  <2>7. PICK d \in Nat : d = IF v <= n THEN n - v ELSE 0
    BY <1>3, <2>1
  <2>8. 1..(Len(log) - v) = 1..d
    BY <1>3, <2>1, <2>7
  <2>9. ASSUME NEW i \in 1..d
        PROVE  /\ RosterPush(v + i) \in Pushes /\ RosterPush(v + i).from = "account"
               /\ RosterPush(v + i).change = log[v + i] /\ RosterPush(v + i).ver = v + i
    <3>1. v + i \in 1..n
      BY <2>7
    <3>2. log[v + i] \in Change /\ v + i \in Nat
      BY <1>1, <1>3, <3>1
    <3> QED
      BY <3>2, NewPush DEF RosterPush
  <2>10. b \in Seq(FromServer) /\ Len(b) = d /\ \A i \in 1..d : b[i] = RosterPush(v + i)
    <3>1. b = [i \in 1..d |-> RosterPush(v + i)]
      BY <2>6, <2>8
    <3>2. b \in [1..d -> FromServer]
      BY <2>9, <3>1 DEF FromServer
    <3> QED
      BY <3>1, <3>2
  <2>11. fromServer' = a \o b
    BY <1>5, <2>1, <2>2, <2>4, <2>6
  <2>12. /\ a \o b \in Seq(FromServer) /\ Len(a \o b) = Len(a) + Len(b)
         /\ \A i \in 1..(Len(a) + Len(b)) : (a \o b)[i] = IF i <= Len(a) THEN a[i] ELSE b[i - Len(a)]
    BY <2>5, <2>10, ConcatProperties
  <2>13. ASSUME calm PROVE Fits'
    <3>1. PICK st : /\ Along(st, fromServer, log) /\ Ends(st, fromServer, log, interested)
                    /\ CacheAt(st[0])
      BY <2>13 DEF RosterInv, Fits
    <3>2. interested /\ v <= n
      BY <1>3, <1>5, <2>1, <3>1 DEF CacheAt
    <3>3. st[Len(fromServer)] = Len(log) /\ v \in 0..Len(log) /\ d = Len(log) - v
      BY <1>3, <2>7, <3>1, <3>2 DEF Ends
    <3>4. PICK k \in Nat : k = Len(fromServer)
      BY <1>1
    <3>5. /\ fromServer' \in Seq(FromServer) /\ Len(fromServer') = k + 1 + d
          /\ \A i \in 1..k : fromServer'[i] = fromServer[i]
          /\ fromServer'[k + 1] = e
      BY <2>5, <2>10, <2>11, <2>12, <3>4
    <3>6. ASSUME NEW i \in 1..d PROVE fromServer'[k + 1 + i] = RosterPush(v + i)
      <4>1. /\ k + 1 + i \in 1..(Len(a) + Len(b)) /\ ~(k + 1 + i <= Len(a))
            /\ (k + 1 + i) - Len(a) = i
        BY <2>5, <2>10, <3>4
      <4> QED
        BY <2>10, <2>11, <2>12, <4>1
    <3>7. \A i \in 1..d : /\ OwnPush(fromServer'[k + 1 + i]) /\ fromServer'[k + 1 + i].ver = v + i
                          /\ fromServer'[k + 1 + i].change = log[v + i]
      BY <2>9, <3>6 DEF OwnPush
    <3>8. PICK s : Along(s, fromServer', log) /\ s[Len(fromServer')] = Len(log) /\ s[0] = st[0]
      <4>1. Replays(fromServer', fromServer, log, v, e)
        BY <3>3, <3>4, <3>5, <3>7 DEF Replays
      <4>2. /\ fromServer \in Seq(FromServer) /\ log \in Seq(Change) /\ Len(log) > 0
            /\ Along(st, fromServer, log) /\ st[Len(fromServer)] = Len(log) /\ v \in 0..Len(log)
            /\ e \in EmptyResults /\ fromServer' \in Seq(FromServer)
        BY <1>1, <2>3, <3>1, <3>3, <3>5
      <4> QED
        BY <4>1, <4>2, AlongReplay
    <3>9. CacheAt(s[0])'
      BY <1>1, <3>1, <3>8, CacheKept
    <3>10. Ends(s, fromServer', log, TRUE)
      BY <3>8 DEF Ends
    <3> QED
      BY <1>1, <3>8, <3>9, <3>10 DEF Fits
  <2> QED
    BY <2>11, <2>12, <2>13
<1> QED
  BY <1>4, <1>5 DEF ServerAnswers

(* A change goes out as a push to a client that has asked for the roster.   *)
LEMMA ChangeKeeps == ASSUME RosterInv, NEW c \in Change, ServerChanges(c) PROVE RosterInv'
<1>1. /\ UNCHANGED <<items, version, getting, since, response, interested, based, calm, strange>>
      /\ log \in Seq(Change) /\ Len(log) \in Nat /\ log' = Append(log, c)
      /\ fromServer \in Seq(FromServer) /\ interested \in BOOLEAN
  BY DEF ServerChanges, RosterInv, RosterTypes, cache
<1>2. /\ Len(log') = Len(log) + 1 /\ log'[Len(log) + 1] = c /\ log' \in Seq(Change)
      /\ \A i \in 1..Len(log) : log'[i] = log[i]
  BY <1>1
<1>3. SUFFICES fromServer' \in Seq(FromServer) /\ (calm => Fits')
  BY <1>1, <1>2 DEF RosterInv, RosterTypes
<1>4. ASSUME calm
      PROVE  \E st : /\ Along(st, fromServer, log') /\ Ends(st, fromServer, log, interested)
                     /\ CacheAt(st[0])'
  <2>1. PICK st : /\ Along(st, fromServer, log) /\ Ends(st, fromServer, log, interested)
                  /\ CacheAt(st[0])
    BY <1>4 DEF RosterInv, Fits
  <2>2. Along(st, fromServer, log')
    BY <1>1, <2>1, AlongGrows
  <2>3. st[0] \in 0..Len(log)
    BY <1>1, <2>1 DEF Along
  <2>4. CacheAt(st[0])'
    BY <1>1, <2>1, <2>3, CacheGrows DEF RosterInv
  <2> QED
    BY <2>1, <2>2, <2>4
<1>5. CASE interested
  <2>1. PICK m : m = [kind |-> "push", from |-> "account", change |-> c, ver |-> Len(log) + 1]
    OBVIOUS
  <2>2. m \in Pushes /\ m.from = "account" /\ m.change = c /\ m.ver = Len(log) + 1
    BY <1>1, <2>1, NewPush
  <2>3. m \in FromServer /\ OwnPush(m) /\ m \notin FullResults
    BY <2>2, PushFields DEF FromServer, OwnPush
  <2>4. fromServer' = Append(fromServer, m) /\ fromServer' \in Seq(FromServer)
    BY <1>1, <1>5, <2>1, <2>3 DEF ServerChanges
  <2>5. ASSUME calm PROVE Fits'
    <3>1. PICK st : /\ Along(st, fromServer, log') /\ Ends(st, fromServer, log, interested)
                    /\ CacheAt(st[0])'
      BY <1>4, <2>5
    <3>2. st[Len(fromServer)] = Len(log) /\ Len(log) # 0
      BY <1>5, <3>1 DEF Ends, RosterInv, RosterTypes
    <3>3. Follows(m, st[Len(fromServer)], Len(log) + 1, log')
      BY <1>1, <1>2, <2>2, <2>3, <3>2 DEF Follows
    <3>4. Len(log) + 1 \in 0..Len(log')
      BY <1>1, <1>2
    <3>5. PICK s : Along(s, fromServer', log') /\ s[0] = st[0] /\ s[Len(fromServer) + 1] = Len(log) + 1
      <4>1. PICK l \in Seq(Change) : l = log'
        BY <1>2
      <4>2. PICK w \in 0..Len(l) : w = Len(log) + 1
        BY <3>4, <4>1
      <4>3. Along(st, fromServer, l) /\ Follows(m, st[Len(fromServer)], w, l)
        BY <3>1, <3>3, <4>1, <4>2
      <4>4. PICK s : Along(s, Append(fromServer, m), l) /\ s[0] = st[0] /\ s[Len(fromServer) + 1] = w
        BY <1>1, <2>3, <4>3, AlongAppend
      <4> QED
        BY <2>4, <4>1, <4>2, <4>4
    <3>6. Len(fromServer') = Len(fromServer) + 1
      BY <1>1, <2>4
    <3>7. Ends(s, fromServer', log', interested')
      BY <1>1, <1>2, <1>5, <3>5, <3>6 DEF Ends
    <3>8. CacheAt(s[0])'
      BY <3>1, <3>5
    <3> QED
      BY <3>5, <3>7, <3>8 DEF Fits
  <2> QED
    BY <2>4, <2>5
<1>6. CASE ~interested
  <2>1. fromServer' = fromServer
    BY <1>6 DEF ServerChanges
  <2>2. ASSUME calm PROVE Fits'
    <3>1. PICK st : /\ Along(st, fromServer, log') /\ Ends(st, fromServer, log, interested)
                    /\ CacheAt(st[0])'
      BY <1>4, <2>2
    <3>2. Ends(st, fromServer', log', interested')
      BY <1>1, <1>6, <2>1, <3>1 DEF Ends
    <3> QED
      BY <2>1, <3>1, <3>2 DEF Fits
  <2> QED
    BY <1>1, <2>1, <2>2
<1> QED
  BY <1>5, <1>6

LEMMA StrangerKeeps == ASSUME RosterInv, NEW c \in Change, StrangerPushes(c) PROVE RosterInv'
<1>1. /\ UNCHANGED <<items, version, getting, since, response, log, interested, based, calm>>
      /\ log \in Seq(Change) /\ fromServer \in Seq(FromServer)
  BY DEF StrangerPushes, RosterInv, RosterTypes, cache
<1>2. PICK m : m = [kind |-> "push", from |-> "stranger", change |-> c, ver |-> MaxChanges]
  OBVIOUS
<1>3. m \in Pushes /\ m.from = "stranger"
  BY <1>2, NewPush, RosterBoundsAssumption
<1>4. m \in FromServer /\ ~OwnPush(m) /\ m \notin FullResults
  BY <1>3, PushFields DEF FromServer, OwnPush
<1>5. fromServer' = Append(fromServer, m) /\ fromServer' \in Seq(FromServer)
  BY <1>1, <1>2, <1>4 DEF StrangerPushes
<1>6. Len(fromServer') = Len(fromServer) + 1 /\ Len(fromServer) \in Nat
  BY <1>1, <1>5
<1>7. ASSUME calm PROVE Fits'
  <2>1. PICK st : /\ Along(st, fromServer, log) /\ Ends(st, fromServer, log, interested)
                  /\ CacheAt(st[0])
    BY <1>7 DEF RosterInv, Fits
  <2>2. PICK w \in 0..Len(log) : w = st[Len(fromServer)]
    BY <1>6, <2>1 DEF Along
  <2>3. Follows(m, st[Len(fromServer)], w, log)
    BY <1>4, <2>2 DEF Follows
  <2>4. PICK s : /\ Along(s, fromServer', log) /\ s[0] = st[0] /\ s[Len(fromServer) + 1] = w
                 /\ \A i \in 0..Len(fromServer) : s[i] = st[i]
    BY <1>1, <1>4, <1>5, <2>1, <2>3, AlongAppend
  <2>5. Ends(s, fromServer', log, interested)
    BY <1>6, <2>1, <2>2, <2>4 DEF Ends
  <2>6. CacheAt(s[0])'
    BY <1>1, <2>1, <2>4, CacheKept
  <2> QED
    BY <1>1, <2>4, <2>5, <2>6 DEF Fits
<1>8. RosterTypes'
  BY <1>1, <1>5 DEF RosterInv, RosterTypes
<1> QED
  BY <1>1, <1>7, <1>8 DEF RosterInv

LEMMA NextRosterInv == RosterInv /\ [RosterNext]_rosterVars => RosterInv'
<1> SUFFICES ASSUME RosterInv, [RosterNext]_rosterVars PROVE RosterInv'
  OBVIOUS
<1>1. CASE UNCHANGED rosterVars
  BY <1>1 DEF RosterInv, RosterTypes, Fits, CacheAt, rosterVars, cache
<1>2. ASSUME NEW g \in Gets, GetTimesOut(g) \/ GetApply(g) \/ ServerAnswers(g) PROVE RosterInv'
  BY <1>2, TimeoutKeeps, ApplyKeeps, ServerAnswersKeeps
<1>3. ASSUME NEW g \in Gets, NEW v \in {0, version}, GetAsk(g, v) PROVE RosterInv'
  BY <1>3, AskKeeps
<1>4. CASE ReadResponse \/ HandlePush
  BY <1>4, ReadKeeps, HandlePushKeeps
<1>5. ASSUME NEW c \in Change, ServerChanges(c) \/ StrangerPushes(c) PROVE RosterInv'
  BY <1>5, ChangeKeeps, StrangerKeeps
<1> QED
  BY <1>1, <1>2, <1>3, <1>4, <1>5 DEF RosterNext

(* The cache of the roster fits its version, whatever calls time out, what  *)
(* the server repeats and what strangers push, as long as no push overtakes *)
(* a response between the reader and its Get (roster.go:70-84, 131-143).    *)
THEOREM RosterIsSound == RosterSpec => []OrderlySound
<1>1. RosterInv => OrderlySound
  <2> SUFFICES ASSUME RosterInv, calm, based, NEW j \in JIDs,
                      \A i \in (version + 1)..Len(log) : log[i].jid # j
               PROVE  items[j] = EntryAt(Len(log), j)
    BY DEF OrderlySound, VersionSound
  <2>1. PICK st : CacheAt(st[0])
    BY DEF RosterInv, Fits
  <2>2. Right(items, version, log, based)
    BY <2>1 DEF CacheAt
  <2> QED
    BY <2>2, EntryAtIs DEF Right
<1> QED
  BY <1>1, InitRosterInv, NextRosterInv, PTL DEF RosterSpec

-----------------------------------------------------------------------------
(* Carbons and client state. *)

(* The types of the two switches and of the calls that set them.            *)
SwitchTypes ==
    /\ switch \in [Switches -> BOOLEAN] /\ serverSwitch \in [Switches -> BOOLEAN]
    /\ setting \in [Sets -> {"idle", "asked", "done", "over"}]
    /\ setTo \in [Sets -> Switches \X BOOLEAN] /\ switchOut \in [Switches -> Seq(Sets)]
    /\ alone \in [Sets -> BOOLEAN] /\ settled \in [Switches -> BOOLEAN]
    /\ \A s \in Sets : setting[s] = "asked" => setTo[s][1] = "carbons"

(* What the server will have once it has taken all that was sent to it.     *)
Final(w) == IF switchOut[w] = <<>> THEN serverSwitch[w]
            ELSE setTo[switchOut[w][Len(switchOut[w])]][2]

(* What is on its way was asked for, each once.                             *)
Sent(w) ==
    /\ \A i \in 1..Len(switchOut[w]) : /\ setting[switchOut[w][i]] # "idle"
                                       /\ setTo[switchOut[w][i]][1] = w
    /\ \A i, j \in 1..Len(switchOut[w]) : switchOut[w][i] = switchOut[w][j] => i = j

(* Between sets a settled switch is, or will be, what the flag says.        *)
Rest(w) == settled[w] = TRUE /\ Setting(w) = {} =>
               Final(w) = switch[w] /\ (w = "carbons" => switchOut[w] = <<>>)

(* During a set alone: nothing was sent after it, and if it is done all     *)
(* that was sent before it, by calls that gave up, has been taken.          *)
Busy(w) == \A s \in Setting(w) :
    /\ settled[w] = TRUE => alone[s] = TRUE
    /\ alone[s] = TRUE =>
           /\ Setting(w) = {s} /\ Final(w) = setTo[s][2]
           /\ setting[s] = "asked" =>
                  /\ switchOut[w] # <<>> /\ switchOut[w][Len(switchOut[w])] = s
                  /\ settled[w] = TRUE => Len(switchOut[w]) = 1 /\ serverSwitch[w] = switch[w]
           /\ setting[s] = "done" /\ w = "carbons" => switchOut[w] = <<>>

OneSwitch(w) == Sent(w) /\ Rest(w) /\ Busy(w)
SwitchInv == SwitchTypes /\ \A w \in Switches : OneSwitch(w)

(* The client starts active and without carbons, and so does its session.   *)
LEMMA InitSwitchInv == ControlInit => SwitchInv
<1> SUFFICES ASSUME ControlInit PROVE SwitchInv
  OBVIOUS
<1>1. SwitchTypes
  <2> <<>> \in Seq(Sets)
    OBVIOUS
  <2>1. "csi" \in Switches
    BY DEF Switches
  <2>2. /\ switch = [w \in Switches |-> w = "csi"] /\ serverSwitch = switch
        /\ setting = [s \in Sets |-> "idle"] /\ setTo = [s \in Sets |-> <<"csi", TRUE>>]
        /\ switchOut = [w \in Switches |-> <<>>]
        /\ alone = [s \in Sets |-> FALSE] /\ settled = [w \in Switches |-> TRUE]
    BY DEF ControlInit
  <2> QED
    BY <2>1, <2>2 DEF SwitchTypes
<1>2. \A w \in Switches : Setting(w) = {} /\ switch[w] = serverSwitch[w] /\ switchOut[w] = <<>>
  BY DEF ControlInit, Setting
<1> QED
  BY <1>1, <1>2 DEF SwitchInv, OneSwitch, Sent, Rest, Busy, Final

(* What a set asks for is a value of one of the two switches.               *)
LEMMA SetToTypes == ASSUME SwitchTypes, NEW s \in Sets PROVE setTo[s][1] \in Switches /\ setTo[s][2] \in BOOLEAN
<1>1. setTo[s] \in Switches \X BOOLEAN
  BY DEF SwitchTypes
<1> QED
  BY <1>1

(* A switch that a step does not concern stays as it is.                    *)
LEMMA OtherSwitch ==
    ASSUME SwitchTypes, NEW v \in Switches, OneSwitch(v), switch'[v] = switch[v],
           serverSwitch'[v] = serverSwitch[v], switchOut'[v] = switchOut[v], settled'[v] = settled[v],
           Setting(v)' = Setting(v),
           \A t \in Sets : setting[t] # "idle" /\ setTo[t][1] = v =>
               setTo'[t] = setTo[t] /\ setting'[t] = setting[t] /\ alone'[t] = alone[t]
    PROVE  OneSwitch(v)'
<1>1. switchOut[v] \in Seq(Sets) /\ \A i \in 1..Len(switchOut[v]) : switchOut[v][i] \in Sets
  BY DEF SwitchTypes
<1>2. \A i \in 1..Len(switchOut[v]) : LET t == switchOut[v][i]
                                      IN setTo'[t] = setTo[t] /\ setting'[t] = setting[t]
  BY <1>1 DEF OneSwitch, Sent
<1>3. Sent(v)'
  BY <1>2 DEF OneSwitch, Sent
<1>4. Final(v)' = Final(v)
  <2>1. CASE switchOut[v] = <<>>
    BY <2>1 DEF Final
  <2>2. CASE switchOut[v] # <<>>
    <3>1. Len(switchOut[v]) \in 1..Len(switchOut[v])
      BY <1>1, <2>2
    <3> QED
      BY <1>2, <2>2, <3>1 DEF Final
  <2> QED
    BY <2>1, <2>2
<1>5. Rest(v)'
  BY <1>4 DEF OneSwitch, Rest
<1>6. \A t \in Setting(v) : setTo'[t] = setTo[t] /\ setting'[t] = setting[t] /\ alone'[t] = alone[t]
  BY DEF Setting
<1>7. Busy(v)'
  BY <1>4, <1>6 DEF OneSwitch, Busy
<1> QED
  BY <1>3, <1>5, <1>7 DEF OneSwitch

(* A set begins (client_control.go:158-163, 207-210, 216-219).              *)
LEMMA AskSwitch ==
    ASSUME SwitchInv, NEW s \in Sets, NEW w \in Switches, NEW on \in BOOLEAN, SetAsk(s, w, on)
    PROVE  SwitchInv'
<1>1. /\ setting[s] = "idle" /\ UNCHANGED <<switch, serverSwitch>>
      /\ setTo' = [setTo EXCEPT ![s] = <<w, on>>]
      /\ switchOut' = [switchOut EXCEPT ![w] = Append(@, s)]
      /\ setting' = [setting EXCEPT ![s] = IF w = "csi" THEN "done" ELSE "asked"]
      /\ alone' = [t \in Sets |-> IF t = s THEN Setting(w) = {} ELSE alone[t] /\ t \notin Setting(w)]
      /\ settled' = [settled EXCEPT ![w] = @ /\ Setting(w) = {}]
  BY DEF SetAsk, Overlapping
<1>2. SwitchTypes
  BY DEF SwitchInv
<1>3. /\ setTo'[s] = <<w, on>> /\ setTo'[s][1] = w /\ setTo'[s][2] = on
      /\ setting'[s] = IF w = "csi" THEN "done" ELSE "asked"
      /\ \A t \in Sets : t # s => setTo'[t] = setTo[t] /\ setting'[t] = setting[t]
  BY <1>1, <1>2 DEF SwitchTypes
<1>4. /\ alone'[s] = (Setting(w) = {})
      /\ \A t \in Sets : t # s => alone'[t] = (alone[t] /\ t \notin Setting(w))
      /\ settled'[w] = (settled[w] /\ Setting(w) = {})
      /\ \A v \in Switches : v # w => settled'[v] = settled[v] /\ switchOut'[v] = switchOut[v]
      /\ switchOut'[w] = Append(switchOut[w], s)
  BY <1>1, <1>2 DEF SwitchTypes
<1>5. SwitchTypes'
  <2>1. alone' \in [Sets -> BOOLEAN]
    <3>1. \A t \in Sets : (IF t = s THEN Setting(w) = {} ELSE alone[t] /\ t \notin Setting(w)) \in BOOLEAN
      BY Zenon
    <3> QED
      BY <1>1, <3>1, Zenon
  <2>2. settled' \in [Switches -> BOOLEAN]
    BY <1>1, <1>2 DEF SwitchTypes
  <2>3. /\ setTo' \in [Sets -> Switches \X BOOLEAN] /\ switchOut' \in [Switches -> Seq(Sets)]
        /\ setting' \in [Sets -> {"idle", "asked", "done", "over"}]
    BY <1>1, <1>2 DEF SwitchTypes
  <2>4. \A t \in Sets : setting'[t] = "asked" => setTo'[t][1] = "carbons"
    BY <1>2, <1>3 DEF SwitchTypes, Switches
  <2> QED
    BY <1>1, <1>2, <2>1, <2>2, <2>3, <2>4 DEF SwitchTypes
<1>6. Setting(w)' = Setting(w) \cup {s} /\ s \notin Setting(w)
  BY <1>1, <1>3 DEF Setting
<1>7. ASSUME NEW v \in Switches, v # w PROVE OneSwitch(v)'
  <2>1. Setting(v)' = Setting(v)
    BY <1>1, <1>3, <1>7 DEF Setting
  <2>2. \A t \in Sets : setting[t] # "idle" /\ setTo[t][1] = v =>
            setTo'[t] = setTo[t] /\ setting'[t] = setting[t] /\ alone'[t] = alone[t]
    <3> SUFFICES ASSUME NEW t \in Sets, setting[t] # "idle", setTo[t][1] = v
                 PROVE  setTo'[t] = setTo[t] /\ setting'[t] = setting[t] /\ alone'[t] = alone[t]
      OBVIOUS
    <3>1. t # s /\ t \notin Setting(w) /\ alone[t] \in BOOLEAN
      BY <1>1, <1>2, <1>7 DEF Setting, SwitchTypes
    <3>2. alone'[t] = (alone[t] /\ t \notin Setting(w))
      BY <1>4, <3>1
    <3> QED
      BY <1>3, <3>1, <3>2
  <2> QED
    BY <1>1, <1>2, <1>4, <1>7, <2>1, <2>2, OtherSwitch DEF SwitchInv
<1>8. OneSwitch(w)'
  <2>1. PICK q \in Seq(Sets) : q = switchOut[w]
    BY <1>2 DEF SwitchTypes
  <2> Append(q, s) \in Seq(Sets)
    OBVIOUS
  <2>2. PICK r \in Seq(Sets) : r = Append(q, s)
    BY Zenon
  <2>3. /\ switchOut'[w] = r /\ Len(r) = Len(q) + 1 /\ r[Len(q) + 1] = s /\ Len(q) \in Nat
        /\ \A i \in 1..Len(q) : r[i] = q[i] /\ q[i] \in Sets
        /\ \A i \in 1..Len(r) : i \in 1..Len(q) \/ i = Len(q) + 1
    BY <1>4, <2>1, <2>2
  <2>4. /\ \A i \in 1..Len(q) : setting[q[i]] # "idle" /\ setTo[q[i]][1] = w /\ q[i] # s
        /\ \A i, j \in 1..Len(q) : q[i] = q[j] => i = j
    <3>1. Sent(w)
      BY DEF SwitchInv, OneSwitch
    <3>2. \A i \in 1..Len(q) : setting[q[i]] # "idle" /\ setTo[q[i]][1] = w
      BY <2>1, <3>1 DEF Sent
    <3>3. \A i, j \in 1..Len(q) : q[i] = q[j] => i = j
      BY <2>1, <3>1 DEF Sent
    <3> QED
      BY <1>1, <3>2, <3>3
  <2>5. Sent(w)'
    <3>1. \A i \in 1..Len(r) : setting'[r[i]] # "idle" /\ setTo'[r[i]][1] = w
      BY <1>3, <2>3, <2>4
    <3>2. \A i, j \in 1..Len(r) : r[i] = r[j] => i = j
      BY <2>3, <2>4
    <3> QED
      BY <2>3, <3>1, <3>2 DEF Sent
  <2>6. Rest(w)'
    BY <1>6 DEF Rest
  <2>7. Final(w)' = on
    BY <1>3, <2>3 DEF Final
  <2>8. ASSUME settled'[w] = TRUE PROVE settled[w] = TRUE /\ Setting(w) = {} /\ alone'[s] = TRUE
    <3>1. settled[w] \in BOOLEAN
      BY <1>2 DEF SwitchTypes
    <3>2. settled[w] /\ Setting(w) = {}
      BY <1>4, <2>8
    <3> QED
      BY <1>4, <3>1, <3>2
  <2>9. ASSUME alone'[s] = TRUE PROVE Setting(w)' = {s}
    <3>1. Setting(w) = {}
      BY <1>4, <2>9
    <3> QED
      BY <1>6, <3>1
  <2>10. ASSUME settled'[w] = TRUE, setting'[s] = "asked"
         PROVE  Len(switchOut'[w]) = 1 /\ serverSwitch'[w] = switch'[w]
    <3>1. w = "carbons"
      BY <1>5, <1>3, <2>10 DEF SwitchTypes
    <3>2. switchOut[w] = <<>> /\ serverSwitch[w] = switch[w]
      BY <2>8, <2>10, <3>1 DEF SwitchInv, OneSwitch, Rest, Final
    <3> QED
      BY <1>1, <2>1, <2>3, <3>2
  <2>11. setting'[s] = "done" => w # "carbons"
    BY <1>3
  <2>12. ASSUME NEW t \in Setting(w) PROVE settled'[w] # TRUE /\ alone'[t] # TRUE
    <3>1. t \in Sets /\ t # s
      BY <1>6 DEF Setting
    <3>2. alone'[t] = (alone[t] /\ t \notin Setting(w))
      BY <1>4, <3>1
    <3> QED
      BY <2>8, <3>2
  <2>13. Busy(w)'
    <3> SUFFICES ASSUME NEW t \in Setting(w)'
                 PROVE  /\ settled'[w] = TRUE => alone'[t] = TRUE
                        /\ alone'[t] = TRUE =>
                             /\ Setting(w)' = {t} /\ Final(w)' = setTo'[t][2]
                             /\ setting'[t] = "asked" =>
                                  /\ switchOut'[w] # <<>> /\ switchOut'[w][Len(switchOut'[w])] = t
                                  /\ settled'[w] = TRUE =>
                                       Len(switchOut'[w]) = 1 /\ serverSwitch'[w] = switch'[w]
                             /\ setting'[t] = "done" /\ w = "carbons" => switchOut'[w] = <<>>
      BY DEF Busy
    <3>1. CASE t = s
      <4>1. switchOut'[w] # <<>> /\ switchOut'[w][Len(switchOut'[w])] = s
        BY <2>3
      <4>2. Final(w)' = setTo'[s][2]
        BY <1>3, <2>7
      <4> QED
        BY <2>8, <2>9, <2>10, <2>11, <3>1, <4>1, <4>2, Zenon
    <3>2. CASE t # s
      BY <1>6, <2>12, <3>2
    <3> QED
      BY <3>1, <3>2
  <2> QED
    BY <2>5, <2>6, <2>13 DEF OneSwitch
<1> QED
  BY <1>5, <1>7, <1>8 DEF SwitchInv

(* What is left when the server has taken the first of what was sent.       *)
LEMMA TakenSet ==
    ASSUME SwitchTypes, NEW w \in Switches, switchOut[w] # <<>>, Sent(w)
    PROVE  \E h \in Sets, r \in Seq(Sets) :
               /\ h = Head(switchOut[w]) /\ r = Tail(switchOut[w]) /\ setTo[h][1] = w
               /\ setting[h] # "idle" /\ Len(switchOut[w]) = Len(r) + 1 /\ Len(r) \in Nat
               /\ \A i \in 1..Len(r) : /\ setting[r[i]] # "idle" /\ setTo[r[i]][1] = w
                                       /\ r[i] # h /\ r[i] \in Sets
               /\ \A i, j \in 1..Len(r) : r[i] = r[j] => i = j
               /\ r = <<>> => switchOut[w][Len(switchOut[w])] = h
               /\ r # <<>> => switchOut[w][Len(switchOut[w])] = r[Len(r)]
<1>1. PICK q \in Seq(Sets) : q = switchOut[w]
  BY DEF SwitchTypes
<1> Head(q) \in Sets /\ Tail(q) \in Seq(Sets)
  BY <1>1
<1>2. PICK h \in Sets, r \in Seq(Sets) : h = Head(q) /\ r = Tail(q)
  BY Zenon
<1>3. /\ Len(q) = Len(r) + 1 /\ Len(r) \in Nat /\ h = q[1] /\ 1 \in 1..Len(q)
      /\ \A i \in 1..Len(r) : r[i] = q[i + 1] /\ i + 1 \in 1..Len(q) /\ i + 1 # 1 /\ r[i] \in Sets
  BY <1>1, <1>2
<1>4. \A i \in 1..Len(q) : setting[q[i]] # "idle" /\ setTo[q[i]][1] = w
  BY <1>1 DEF Sent
<1>5. \A i, j \in 1..Len(q) : q[i] = q[j] => i = j
  BY <1>1 DEF Sent
<1>6. \A i, j \in 1..Len(r) : r[i] = r[j] => i = j
  BY <1>3, <1>5
<1>7. /\ r = <<>> => q[Len(q)] = h
      /\ r # <<>> => q[Len(q)] = r[Len(r)]
  BY <1>3
<1>8. \A i \in 1..Len(r) : setting[r[i]] # "idle" /\ setTo[r[i]][1] = w /\ r[i] # h /\ r[i] \in Sets
  BY <1>3, <1>4, <1>5
<1>9. setTo[h][1] = w /\ setting[h] # "idle"
  BY <1>3, <1>4
<1> WITNESS h \in Sets, r \in Seq(Sets)
<1> QED
  BY <1>1, <1>2, <1>3, <1>6, <1>7, <1>8, <1>9, Zenon

(* The server does as asked (the answer to client_control.go:163).          *)
LEMMA SetsSwitch == ASSUME SwitchInv, NEW w \in Switches, ServerSets(w) PROVE SwitchInv'
<1>1. SwitchTypes /\ OneSwitch(w)
  BY DEF SwitchInv
<1>2. PICK h \in Sets, r \in Seq(Sets) :
               /\ h = Head(switchOut[w]) /\ r = Tail(switchOut[w]) /\ setTo[h][1] = w
               /\ setting[h] # "idle" /\ Len(switchOut[w]) = Len(r) + 1 /\ Len(r) \in Nat
               /\ \A i \in 1..Len(r) : /\ setting[r[i]] # "idle" /\ setTo[r[i]][1] = w
                                       /\ r[i] # h /\ r[i] \in Sets
               /\ \A i, j \in 1..Len(r) : r[i] = r[j] => i = j
               /\ r = <<>> => switchOut[w][Len(switchOut[w])] = h
               /\ r # <<>> => switchOut[w][Len(switchOut[w])] = r[Len(r)]
  BY <1>1, TakenSet DEF ServerSets, OneSwitch
<1>3. /\ switchOut[w] # <<>> /\ switchOut' = [switchOut EXCEPT ![w] = r]
      /\ serverSwitch' = [serverSwitch EXCEPT ![w] = setTo[h][2]]
      /\ setting' = [setting EXCEPT ![h] = IF setting[h] = "asked" THEN "done" ELSE setting[h]]
      /\ UNCHANGED <<switch, setTo, alone, settled>>
  BY <1>2 DEF ServerSets
<1>4. setTo[h][2] \in BOOLEAN
  BY <1>1, SetToTypes
<1>5. /\ switchOut'[w] = r /\ serverSwitch'[w] = setTo[h][2]
      /\ \A v \in Switches : v # w => switchOut'[v] = switchOut[v] /\ serverSwitch'[v] = serverSwitch[v]
      /\ setting'[h] = (IF setting[h] = "asked" THEN "done" ELSE setting[h])
      /\ \A t \in Sets : t # h => setting'[t] = setting[t]
  BY <1>1, <1>3 DEF SwitchTypes
<1>6. SwitchTypes'
  <2>1. serverSwitch' \in [Switches -> BOOLEAN] /\ switchOut' \in [Switches -> Seq(Sets)]
    BY <1>1, <1>3, <1>4 DEF SwitchTypes
  <2>2. setting' \in [Sets -> {"idle", "asked", "done", "over"}]
    BY <1>1, <1>3 DEF SwitchTypes
  <2>3. \A t \in Sets : setting'[t] = "asked" => setTo'[t][1] = "carbons"
    BY <1>1, <1>3, <1>5 DEF SwitchTypes
  <2> QED
    BY <1>1, <1>3, <2>1, <2>2, <2>3 DEF SwitchTypes
<1>7. \A v \in Switches : Setting(v)' = Setting(v)
  BY <1>2, <1>3, <1>5 DEF Setting
<1>8. ASSUME NEW v \in Switches, v # w PROVE OneSwitch(v)'
  <2>1. OneSwitch(v)
    BY DEF SwitchInv
  <2>2. \A t \in Sets : setting[t] # "idle" /\ setTo[t][1] = v =>
            setTo'[t] = setTo[t] /\ setting'[t] = setting[t] /\ alone'[t] = alone[t]
    BY <1>2, <1>3, <1>5, <1>8
  <2> QED
    BY <1>1, <1>3, <1>5, <1>7, <1>8, <2>1, <2>2, OtherSwitch
<1>9. OneSwitch(w)'
  <2>1. \A i \in 1..Len(r) : setting'[r[i]] # "idle" /\ setTo'[r[i]][1] = w
    BY <1>2, <1>3, <1>5
  <2>2. Sent(w)'
    BY <1>2, <1>5, <2>1 DEF Sent
  <2>3. Final(w)' = Final(w)
    <3>1. CASE r = <<>>
      BY <1>2, <1>3, <1>5, <3>1 DEF Final
    <3>2. CASE r # <<>>
      BY <1>2, <1>3, <1>5, <3>2 DEF Final
    <3> QED
      BY <3>1, <3>2
  <2>4. Rest(w)'
    BY <1>1, <1>3, <1>7, <2>3 DEF OneSwitch, Rest
  <2>5. ASSUME NEW t \in Setting(w), alone[t] = TRUE, setting'[t] = "asked"
        PROVE  r # <<>> /\ r[Len(r)] = t /\ settled[w] # TRUE
    <3>1. t \in Sets /\ t # h /\ setting[t] = "asked"
      BY <1>5, <2>5 DEF Setting
    <3>2. /\ switchOut[w][Len(switchOut[w])] = t
          /\ settled[w] = TRUE => Len(switchOut[w]) = 1
      BY <1>1, <2>5, <3>1 DEF OneSwitch, Busy
    <3>3. r # <<>>
      BY <1>2, <3>1, <3>2
    <3>4. Len(r) # 0 /\ Len(switchOut[w]) = Len(r) + 1 /\ Len(r) \in Nat
      BY <1>2, <3>3
    <3>5. Len(switchOut[w]) # 1
      BY <3>4
    <3>6. r[Len(r)] = t
      BY <1>2, <3>2, <3>3
    <3> QED
      BY <3>2, <3>3, <3>5, <3>6
  <2>6. ASSUME NEW t \in Setting(w), alone[t] = TRUE, setting'[t] = "done", w = "carbons"
        PROVE  r = <<>>
    <3>1. t = h /\ setting[t] = "asked"
      <4>1. setting[t] # "done"
        BY <1>1, <1>3, <2>6 DEF OneSwitch, Busy
      <4> QED
        BY <1>5, <2>6, <4>1 DEF Setting
    <3>2. switchOut[w][Len(switchOut[w])] = h
      BY <1>1, <2>6, <3>1 DEF OneSwitch, Busy
    <3>3. ASSUME r # <<>> PROVE FALSE
      <4>1. Len(r) \in 1..Len(r)
        BY <3>3
      <4> QED
        BY <1>2, <3>2, <3>3, <4>1
    <3> QED
      BY <3>3
  <2>7. Busy(w)'
    <3> SUFFICES ASSUME NEW t \in Setting(w)
                 PROVE  /\ settled[w] = TRUE => alone[t] = TRUE
                        /\ alone[t] = TRUE =>
                             /\ Setting(w) = {t} /\ Final(w)' = setTo[t][2]
                             /\ setting'[t] = "asked" =>
                                  /\ switchOut'[w] # <<>> /\ switchOut'[w][Len(switchOut'[w])] = t
                                  /\ settled[w] # TRUE
                             /\ setting'[t] = "done" /\ w = "carbons" => switchOut'[w] = <<>>
      BY <1>3, <1>7 DEF Busy
    <3>1. /\ settled[w] = TRUE => alone[t] = TRUE
          /\ alone[t] = TRUE => Setting(w) = {t} /\ Final(w) = setTo[t][2]
      BY <1>1 DEF OneSwitch, Busy
    <3> QED
      BY <1>5, <2>3, <2>5, <2>6, <3>1
  <2> QED
    BY <2>2, <2>4, <2>7 DEF OneSwitch
<1> QED
  BY <1>6, <1>8, <1>9 DEF SwitchInv

(* The server refuses a request for carbons.                                *)
LEMMA RefusesSwitch == ASSUME SwitchInv, ServerRefuses PROVE SwitchInv'
<1>0. PICK w \in Switches : w = "carbons"
  BY DEF Switches
<1>1. SwitchTypes /\ OneSwitch(w)
  BY DEF SwitchInv
<1>2. PICK h \in Sets, r \in Seq(Sets) :
               /\ h = Head(switchOut[w]) /\ r = Tail(switchOut[w]) /\ setTo[h][1] = w
               /\ setting[h] # "idle" /\ Len(switchOut[w]) = Len(r) + 1 /\ Len(r) \in Nat
               /\ \A i \in 1..Len(r) : /\ setting[r[i]] # "idle" /\ setTo[r[i]][1] = w
                                       /\ r[i] # h /\ r[i] \in Sets
               /\ \A i, j \in 1..Len(r) : r[i] = r[j] => i = j
               /\ r = <<>> => switchOut[w][Len(switchOut[w])] = h
               /\ r # <<>> => switchOut[w][Len(switchOut[w])] = r[Len(r)]
  BY <1>0, <1>1, TakenSet DEF ServerRefuses, OneSwitch
<1>3. /\ switchOut[w] # <<>> /\ switchOut' = [switchOut EXCEPT ![w] = r]
      /\ setting' = [setting EXCEPT ![h] = IF setting[h] = "asked" THEN "over" ELSE setting[h]]
      /\ UNCHANGED <<switch, setTo, serverSwitch, alone, settled>>
  BY <1>0, <1>2 DEF ServerRefuses
<1>4. /\ switchOut'[w] = r
      /\ \A v \in Switches : v # w => switchOut'[v] = switchOut[v]
      /\ setting'[h] = (IF setting[h] = "asked" THEN "over" ELSE setting[h])
      /\ \A t \in Sets : t # h => setting'[t] = setting[t]
  BY <1>0, <1>1, <1>3 DEF SwitchTypes
<1>5. SwitchTypes'
  <2>1. switchOut' \in [Switches -> Seq(Sets)]
    BY <1>1, <1>3 DEF SwitchTypes
  <2>2. setting' \in [Sets -> {"idle", "asked", "done", "over"}]
    BY <1>1, <1>3 DEF SwitchTypes
  <2>3. \A t \in Sets : setting'[t] = "asked" => setTo'[t][1] = "carbons"
    BY <1>1, <1>3, <1>4 DEF SwitchTypes
  <2> QED
    BY <1>1, <1>3, <2>1, <2>2, <2>3 DEF SwitchTypes
<1>6. /\ \A v \in Switches : v # w => Setting(v)' = Setting(v)
      /\ Setting(w)' \subseteq Setting(w)
      /\ setting[h] # "asked" => Setting(w)' = Setting(w)
      /\ setting[h] = "asked" => Setting(w)' = Setting(w) \ {h} /\ h \in Setting(w)
  BY <1>2, <1>3, <1>4 DEF Setting
<1>7. ASSUME NEW v \in Switches, v # w PROVE OneSwitch(v)'
  <2>1. OneSwitch(v)
    BY DEF SwitchInv
  <2>2. \A t \in Sets : setting[t] # "idle" /\ setTo[t][1] = v =>
            setTo'[t] = setTo[t] /\ setting'[t] = setting[t] /\ alone'[t] = alone[t]
    BY <1>2, <1>3, <1>4, <1>7
  <2> QED
    BY <1>1, <1>3, <1>4, <1>6, <1>7, <2>1, <2>2, OtherSwitch
<1>8. OneSwitch(w)'
  <2>1. \A i \in 1..Len(r) : setting'[r[i]] # "idle" /\ setTo'[r[i]][1] = w
    <3>1. \A i \in 1..Len(r) : setting'[r[i]] = setting[r[i]]
      BY <1>2, <1>4
    <3> QED
      BY <1>2, <1>3, <3>1
  <2>2. Sent(w)'
    BY <1>2, <1>4, <2>1 DEF Sent
  <2>3. ASSUME settled[w] = TRUE, Setting(w)' = {}
        PROVE  switchOut'[w] = <<>> /\ Final(w)' = switch'[w]
    <3>1. setting[h] = "asked" /\ h \in Setting(w)
      BY <1>0, <1>1, <1>3, <1>6, <2>3 DEF OneSwitch, Rest
    <3>2. Len(switchOut[w]) = 1 /\ serverSwitch[w] = switch[w]
      BY <1>1, <2>3, <3>1 DEF OneSwitch, Busy
    <3>3. r = <<>>
      BY <1>2, <3>2
    <3> QED
      BY <1>3, <1>4, <3>2, <3>3 DEF Final
  <2>4. Rest(w)'
    BY <1>3, <2>3 DEF Rest
  <2>5. ASSUME NEW t \in Setting(w)', alone[t] = TRUE
        PROVE  /\ Setting(w)' = {t} /\ setting'[t] = "asked" /\ settled[w] # TRUE
               /\ r # <<>> /\ r[Len(r)] = t
    <3>1. t \in Setting(w) /\ t \in Sets
      BY <1>6 DEF Setting
    <3>2. Setting(w) = {t} /\ (setting[t] = "done" => switchOut[w] = <<>>)
      BY <1>0, <1>1, <2>5, <3>1 DEF OneSwitch, Busy
    <3>3. setting[h] # "asked" /\ Setting(w)' = {t}
      BY <1>6, <2>5, <3>2
    <3>4. setting[t] = "asked" /\ t # h
      BY <1>1, <1>3, <3>1, <3>2, <3>3 DEF Setting, SwitchTypes
    <3>5. /\ switchOut[w][Len(switchOut[w])] = t
          /\ settled[w] = TRUE => Len(switchOut[w]) = 1
      BY <1>1, <2>5, <3>1, <3>4 DEF OneSwitch, Busy
    <3>6. r # <<>>
      BY <1>2, <3>4, <3>5
    <3>7. Len(r) # 0 /\ Len(switchOut[w]) = Len(r) + 1 /\ Len(r) \in Nat
      BY <1>2, <3>6
    <3>8. Len(switchOut[w]) # 1
      BY <3>7
    <3>9. r[Len(r)] = t
      BY <1>2, <3>5, <3>6
    <3> QED
      BY <1>4, <3>1, <3>3, <3>4, <3>5, <3>6, <3>8, <3>9
  <2>6. ASSUME NEW t \in Setting(w)', alone[t] = TRUE PROVE Final(w)' = setTo'[t][2]
    BY <1>3, <1>4, <2>5, <2>6 DEF Final
  <2>7. ASSUME NEW t \in Setting(w)', settled[w] = TRUE PROVE alone[t] = TRUE
    BY <1>1, <1>6, <2>7 DEF OneSwitch, Busy
  <2>8. Busy(w)'
    BY <1>3, <1>4, <2>5, <2>6, <2>7 DEF Busy
  <2> QED
    BY <2>2, <2>4, <2>8 DEF OneSwitch
<1> QED
  BY <1>5, <1>7, <1>8 DEF SwitchInv

(* A set ends: it gives up, or writes its flag (client_control.go:164-168,  *)
(* 211-213, 220-222).                                                       *)
LEMMA EndSwitch == ASSUME SwitchInv, NEW s \in Sets, SetTimesOut(s) \/ SetApply(s) PROVE SwitchInv'
<1>1. PICK w \in Switches, on \in BOOLEAN : w = setTo[s][1] /\ on = setTo[s][2]
  BY SetToTypes DEF SwitchInv
<1>2. SwitchTypes /\ OneSwitch(w)
  BY DEF SwitchInv
<1>3. /\ setting[s] \in {"asked", "done"} /\ setting' = [setting EXCEPT ![s] = "over"]
      /\ UNCHANGED <<setTo, switchOut, serverSwitch, alone>>
      /\ \/ switch' = switch /\ settled' = [settled EXCEPT ![w] = FALSE]
         \/ /\ setting[s] = "done" /\ switch' = [switch EXCEPT ![w] = on]
            /\ settled' = [settled EXCEPT ![w] = @ \/ alone[s]]
  BY <1>1 DEF SetTimesOut, SetApply
<1>4. /\ setting'[s] = "over" /\ \A t \in Sets : t # s => setting'[t] = setting[t]
      /\ \A v \in Switches : v # w => switch'[v] = switch[v] /\ settled'[v] = settled[v]
      /\ \/ settled'[w] = FALSE
         \/ setting[s] = "done" /\ switch'[w] = on /\ settled'[w] = (settled[w] \/ alone[s])
  BY <1>2, <1>3 DEF SwitchTypes
<1>5. SwitchTypes'
  <2>1. settled' \in [Switches -> BOOLEAN]
    <3>1. settled[w] \in BOOLEAN /\ alone[s] \in BOOLEAN
      BY <1>2 DEF SwitchTypes
    <3>2. (settled[w] \/ alone[s]) \in BOOLEAN
      BY <3>1, Zenon
    <3>3. \/ settled' = [settled EXCEPT ![w] = FALSE]
          \/ settled' = [settled EXCEPT ![w] = settled[w] \/ alone[s]]
      BY <1>2, <1>3 DEF SwitchTypes
    <3> QED
      BY <1>2, <3>2, <3>3 DEF SwitchTypes
  <2>2. switch' \in [Switches -> BOOLEAN] /\ setting' \in [Sets -> {"idle", "asked", "done", "over"}]
    BY <1>2, <1>3 DEF SwitchTypes
  <2>3. \A t \in Sets : setting'[t] = "asked" => setTo'[t][1] = "carbons"
    BY <1>2, <1>3, <1>4 DEF SwitchTypes
  <2> QED
    BY <1>2, <1>3, <2>1, <2>2, <2>3 DEF SwitchTypes
<1>6. /\ \A v \in Switches : v # w => Setting(v)' = Setting(v)
      /\ s \in Setting(w) /\ Setting(w)' = Setting(w) \ {s}
  BY <1>1, <1>3, <1>4 DEF Setting
<1>7. ASSUME NEW v \in Switches, v # w PROVE OneSwitch(v)'
  <2>1. OneSwitch(v)
    BY DEF SwitchInv
  <2>2. \A t \in Sets : setting[t] # "idle" /\ setTo[t][1] = v =>
            setTo'[t] = setTo[t] /\ setting'[t] = setting[t] /\ alone'[t] = alone[t]
    BY <1>1, <1>3, <1>4, <1>7
  <2> QED
    BY <1>2, <1>3, <1>4, <1>6, <1>7, <2>1, <2>2, OtherSwitch
<1>8. OneSwitch(w)'
  <2>1. Sent(w)'
    <3>1. switchOut[w] \in Seq(Sets)
      BY <1>2 DEF SwitchTypes
    <3>2. \A i \in 1..Len(switchOut[w]) : setting'[switchOut[w][i]] # "idle"
      BY <1>2, <1>4, <3>1 DEF OneSwitch, Sent
    <3> QED
      BY <1>2, <1>3, <3>2 DEF OneSwitch, Sent
  <2>2. Final(w)' = Final(w)
    BY <1>3 DEF Final
  <2>3. ASSUME settled'[w] = TRUE PROVE setting[s] = "done" /\ switch'[w] = on /\ alone[s] = TRUE
    <3>1. settled[w] = TRUE => alone[s] = TRUE
      BY <1>2, <1>6 DEF OneSwitch, Busy
    <3>2. settled[w] \in BOOLEAN /\ alone[s] \in BOOLEAN
      BY <1>2 DEF SwitchTypes
    <3>3. setting[s] = "done" /\ switch'[w] = on /\ settled'[w] = (settled[w] \/ alone[s])
      BY <1>4, <2>3
    <3>4. settled[w] \/ alone[s]
      BY <2>3, <3>3
    <3> QED
      BY <3>1, <3>2, <3>3, <3>4
  <2>4. ASSUME settled'[w] = TRUE
        PROVE  Setting(w) = {s} /\ Final(w) = on /\ (w = "carbons" => switchOut[w] = <<>>)
    BY <1>1, <1>2, <1>6, <2>3, <2>4 DEF OneSwitch, Busy
  <2>5. Rest(w)'
    BY <1>3, <2>2, <2>3, <2>4 DEF Rest
  <2>6. ASSUME NEW t \in Setting(w)' PROVE settled'[w] # TRUE /\ alone'[t] # TRUE
    <3>1. t \in Setting(w) /\ t # s
      BY <1>6
    <3>2. alone[t] # TRUE
      BY <1>2, <1>6, <3>1 DEF OneSwitch, Busy
    <3> QED
      BY <1>3, <2>4, <3>1, <3>2
  <2>7. Busy(w)'
    BY <2>6 DEF Busy
  <2> QED
    BY <2>1, <2>5, <2>7 DEF OneSwitch
<1> QED
  BY <1>5, <1>7, <1>8 DEF SwitchInv

LEMMA NextSwitchInv == SwitchInv /\ [ControlNext]_controlVars => SwitchInv'
<1> SUFFICES ASSUME SwitchInv, [ControlNext]_controlVars PROVE SwitchInv'
  OBVIOUS
<1>1. CASE SwitchNext
  BY <1>1, AskSwitch, SetsSwitch, RefusesSwitch, EndSwitch DEF SwitchNext
<1>2. CASE UNCHANGED switchVars
  BY <1>2 DEF switchVars, SwitchInv, SwitchTypes, OneSwitch, Sent, Rest, Busy, Final, Setting
<1>3. BlockNext \/ UNCHANGED controlVars => UNCHANGED switchVars
  BY DEF BlockNext, ListAsk, ListTimesOut, ListApply, ServerLists, ReadBlockList, HandleBlockPush,
         ServerBlocks, StrangerBlocks, controlVars
<1> QED
  BY <1>1, <1>2, <1>3 DEF ControlNext

(* Whatever sets overlapped or timed out before: once a set of the switch   *)
(* ran alone and succeeded, Enabled and IsActive are what the server has    *)
(* when it has all that was sent, until sets overlap or one times out again *)
(* (client_control.go:158-170, 207-224).                                    *)
THEOREM SwitchesDoRecover == ControlSpec => []SwitchesRecover
<1>1. SwitchInv => SwitchesRecover
  BY DEF SwitchInv, SwitchTypes, OneSwitch, Rest, Final, SwitchesRecover
<1>2. SwitchInv /\ [ControlNext]_controlVars => SwitchInv'
  BY NextSwitchInv
<1> QED
  BY <1>1, <1>2, InitSwitchInv, PTL DEF ControlSpec

-----------------------------------------------------------------------------
(* The block list. *)

(* The types of the client's and the server's side of the block list.       *)
BlockStanza == [kind : {"list"}, list : BlockLists, items : SUBSET Contacts]
               \cup [kind : {"push"}, from : {"account", "stranger"}, change : BlockChange]
BlockTypes ==
    /\ blocked \in SUBSET Contacts
    /\ listing \in [BlockLists -> {"idle", "asked", "answered", "over"}]
    /\ listed \in [BlockLists -> SUBSET Contacts]
    /\ blockLog \in Seq(BlockChange) /\ blockIn \in Seq(BlockStanza)
    /\ subscribed \in BOOLEAN /\ blockBased \in BOOLEAN /\ blockOrderly \in BOOLEAN

(* What a change does to a list, and what a stanza does to the list that a  *)
(* client which is up to date holds when it reads it.                       *)
Changed(s, ch) == IF ch.block THEN s \cup ch.items
                  ELSE IF ch.items = {} THEN {} ELSE s \ ch.items
Advance(s, m) == IF m.kind = "push" /\ m.from = "account" THEN Changed(s, m.change) ELSE s

(* st[i] is the server's list as of the i-th stanza on its way: the account *)
(* pushes lead from one to the next and the last is the server's list now,  *)
(* each response carries the list of its place, and what the client holds,  *)
(* in its cache or in the channel of a List, is the first, st[0].           *)
Trail(st) ==
    /\ st \in [0..Len(blockIn) -> SUBSET Contacts]
    /\ st[Len(blockIn)] = BlockListAt(Len(blockLog))
    /\ \A i \in 1..Len(blockIn) : st[i] = Advance(st[i - 1], blockIn[i])
    /\ \A i \in 1..Len(blockIn) : blockIn[i].kind = "list" => blockIn[i].items = st[i]
    /\ blockOrderly /\ blockBased => blocked = st[0]
    /\ blockOrderly => \A l \in BlockLists : listing[l] = "answered" => listed[l] = st[0]

(* Before the first response the server sends no push, and a List has no    *)
(* answer.                                                                  *)
Unlisted ==
    /\ \A i \in 1..Len(blockIn) : blockIn[i].kind = "push" /\ blockIn[i].from = "stranger"
    /\ ~blockBased /\ \A l \in BlockLists : listing[l] # "answered"
Trails == IF subscribed THEN \E st : Trail(st) ELSE Unlisted
BlockInv == BlockTypes /\ Trails

(* The items of a change are contacts.                                      *)
LEMMA ChangesTyped == ASSUME NEW ch \in BlockChange PROVE ch.items \subseteq Contacts
<1>1. CASE \E c \in Contacts : ch = [block |-> TRUE, items |-> {c}]
  BY <1>1
<1>2. CASE \E s \in {{}} \cup {{c} : c \in Contacts} : ch = [block |-> FALSE, items |-> s]
  BY <1>2
<1> QED
  BY <1>1, <1>2 DEF BlockChange

(* A change at the end of the log changes the server's list as it says.     *)
LEMMA ListAfterChange ==
    ASSUME BlockTypes, NEW ch \in BlockChange, blockLog' = Append(blockLog, ch)
    PROVE  BlockListAt(Len(blockLog))' = Changed(BlockListAt(Len(blockLog)), ch)
<1> DEFINE n == Len(blockLog)
<1>1. /\ n \in Nat /\ Len(blockLog') = n + 1 /\ blockLog'[n + 1] = ch
      /\ \A i \in 1..n : blockLog'[i] = blockLog[i]
  BY DEF BlockTypes
<1>2. BlockListAt(Len(blockLog))'
        = {c \in Contacts : \E i \in 1..(n + 1) :
              /\ blockLog'[i].block /\ c \in blockLog'[i].items
              /\ \A k \in (i + 1)..(n + 1) : ~Unblocks(blockLog'[k], c)}
  BY <1>1 DEF BlockListAt
<1>3. BlockListAt(n) = {c \in Contacts : \E i \in 1..n :
              /\ blockLog[i].block /\ c \in blockLog[i].items
              /\ \A k \in (i + 1)..n : ~Unblocks(blockLog[k], c)}
  BY DEF BlockListAt
<1>4. ch.items \subseteq Contacts
  BY ChangesTyped
<1> HIDE DEF n
<1>5. ASSUME NEW c \in Contacts
      PROVE  (\E i \in 1..(n + 1) : /\ blockLog'[i].block /\ c \in blockLog'[i].items
                                    /\ \A k \in (i + 1)..(n + 1) : ~Unblocks(blockLog'[k], c))
             <=> \/ ch.block /\ c \in ch.items
                 \/ /\ ~Unblocks(ch, c)
                    /\ \E i \in 1..n : /\ blockLog[i].block /\ c \in blockLog[i].items
                                       /\ \A k \in (i + 1)..n : ~Unblocks(blockLog[k], c)
  <2>1. ASSUME NEW i \in 1..(n + 1), blockLog'[i].block, c \in blockLog'[i].items,
               \A k \in (i + 1)..(n + 1) : ~Unblocks(blockLog'[k], c), i # n + 1
        PROVE  /\ ~Unblocks(ch, c) /\ i \in 1..n /\ blockLog[i].block /\ c \in blockLog[i].items
               /\ \A k \in (i + 1)..n : ~Unblocks(blockLog[k], c)
    BY <1>1, <2>1
  <2>2. ASSUME ~Unblocks(ch, c), NEW i \in 1..n, blockLog[i].block, c \in blockLog[i].items,
               \A k \in (i + 1)..n : ~Unblocks(blockLog[k], c)
        PROVE  /\ i \in 1..(n + 1) /\ blockLog'[i].block /\ c \in blockLog'[i].items
               /\ \A k \in (i + 1)..(n + 1) : ~Unblocks(blockLog'[k], c)
    BY <1>1, <2>2
  <2>3. n + 1 \in 1..(n + 1) /\ (n + 1 + 1)..(n + 1) = {}
    BY <1>1
  <2> QED
    BY <1>1, <2>1, <2>2, <2>3
<1>6. Changed(BlockListAt(n), ch)
        = {c \in Contacts : \/ ch.block /\ c \in ch.items
                            \/ ~Unblocks(ch, c) /\ c \in BlockListAt(n)}
  BY <1>3, <1>4 DEF Changed, Unblocks
<1>7. \A c \in Contacts : c \in BlockListAt(n) <=>
          \E i \in 1..n : /\ blockLog[i].block /\ c \in blockLog[i].items
                          /\ \A k \in (i + 1)..n : ~Unblocks(blockLog[k], c)
  BY <1>3
<1> QED
  BY <1>2, <1>5, <1>6, <1>7 DEF n

(* What the server's list and the changes to it are made of.                *)
LEMMA ListsTyped == BlockListAt(Len(blockLog)) \in SUBSET Contacts
BY DEF BlockListAt

(* Nothing is asked for yet.                                                *)
LEMMA InitBlockInv == ControlInit => BlockInv
<1> SUFFICES ASSUME ControlInit PROVE BlockInv
  OBVIOUS
<1>1. BlockTypes
  <2>1. /\ listing \in [BlockLists -> {"idle", "asked", "answered", "over"}]
        /\ listed \in [BlockLists -> SUBSET Contacts]
    BY DEF ControlInit
  <2>2. blockLog \in Seq(BlockChange) /\ blockIn \in Seq(BlockStanza)
    BY DEF ControlInit
  <2>3. subscribed \in BOOLEAN /\ blockBased \in BOOLEAN /\ blockOrderly \in BOOLEAN
    BY DEF ControlInit
  <2>4. blocked \in SUBSET Contacts
    BY DEF ControlInit
  <2> QED
    BY <2>1, <2>2, <2>3, <2>4 DEF BlockTypes
<1>2. ~subscribed /\ Unlisted
  BY DEF ControlInit, Unlisted
<1> QED
  BY <1>1, <1>2 DEF BlockInv, Trails

(* A stanza appended to the stream whose effect the server's list has had.  *)
LEMMA TrailAppend ==
    ASSUME BlockTypes, NEW m \in BlockStanza, blockIn' = Append(blockIn, m),
           UNCHANGED <<blocked, listing, listed, blockBased, blockOrderly>>,
           NEW st, Trail(st),
           BlockListAt(Len(blockLog))' = Advance(BlockListAt(Len(blockLog)), m),
           m.kind = "list" => m.items = BlockListAt(Len(blockLog))'
    PROVE  \E t : Trail(t)'
<1>0. PICK n : n = Len(blockIn)
  OBVIOUS
<1>1. PICK new : new = BlockListAt(Len(blockLog))'
  OBVIOUS
<1>2. PICK t : t = [i \in 0..(n + 1) |-> IF i = n + 1 THEN new ELSE st[i]]
  OBVIOUS
<1>3. /\ n \in Nat /\ Len(blockIn') = n + 1 /\ blockIn'[n + 1] = m
      /\ \A i \in 1..n : blockIn'[i] = blockIn[i]
  BY <1>0 DEF BlockTypes
<1>4. new \in SUBSET Contacts
  BY <1>1 DEF BlockListAt
<1>5. /\ t \in [0..(n + 1) -> SUBSET Contacts] /\ t[n + 1] = new /\ t[n] = st[n] /\ t[0] = st[0]
      /\ \A i \in 0..n : t[i] = st[i]
  BY <1>0, <1>2, <1>3, <1>4 DEF Trail
<1>6. ASSUME NEW i \in 1..(n + 1) PROVE t[i] = Advance(t[i - 1], blockIn'[i])
  <2>1. CASE i = n + 1
    BY <1>0, <1>1, <1>3, <1>5, <2>1 DEF Trail
  <2>2. CASE i # n + 1
    <3>1. i \in 1..n /\ i \in 0..n /\ i - 1 \in 0..n
      BY <1>3, <2>2
    <3> QED
      BY <1>0, <1>3, <1>5, <3>1 DEF Trail
  <2> QED
    BY <2>1, <2>2
<1>7. ASSUME NEW i \in 1..(n + 1), blockIn'[i].kind = "list" PROVE blockIn'[i].items = t[i]
  <2>1. CASE i = n + 1
    BY <1>1, <1>3, <1>5, <1>7, <2>1
  <2>2. CASE i # n + 1
    <3>1. i \in 1..n /\ i \in 0..n
      BY <1>3, <2>2
    <3> QED
      BY <1>0, <1>3, <1>5, <1>7, <3>1 DEF Trail
  <2> QED
    BY <2>1, <2>2
<1>8. /\ blockOrderly' /\ blockBased' => blocked' = t[0]
      /\ blockOrderly' => \A l \in BlockLists : listing'[l] = "answered" => listed'[l] = t[0]
  BY <1>5 DEF Trail
<1>9. Trail(t)'
  BY <1>1, <1>3, <1>5, <1>6, <1>7, <1>8 DEF Trail
<1> QED
  BY <1>9

(* The first stanza is read, and what the client holds follows it.          *)
LEMMA TrailTail ==
    ASSUME BlockTypes, blockIn # <<>>, blockIn' = Tail(blockIn), UNCHANGED blockLog,
           NEW st, Trail(st),
           blockOrderly' /\ blockBased' => blocked' = Advance(st[0], blockIn[1]),
           blockOrderly' => \A l \in BlockLists :
               listing'[l] = "answered" => listed'[l] = Advance(st[0], blockIn[1])
    PROVE  \E t : Trail(t)'
<1>0. PICK n : n = Len(blockIn) - 1
  OBVIOUS
<1>1. PICK t : t = [i \in 0..n |-> st[i + 1]]
  OBVIOUS
<1>2. /\ n \in Nat /\ Len(blockIn') = n /\ Len(blockIn) = n + 1
      /\ \A i \in 1..n : blockIn'[i] = blockIn[i + 1]
  BY <1>0 DEF BlockTypes
<1>3. BlockListAt(Len(blockLog))' = BlockListAt(Len(blockLog))
  BY DEF BlockListAt
<1>4. \A i \in 0..n : i + 1 \in 0..(n + 1) /\ i + 1 \in 1..(n + 1)
  BY <1>2
<1>5. t \in [0..n -> SUBSET Contacts] /\ \A i \in 0..n : t[i] = st[i + 1]
  BY <1>1, <1>2, <1>4 DEF Trail
<1>6. t[n] = BlockListAt(Len(blockLog))'
  BY <1>2, <1>3, <1>5 DEF Trail
<1>7. ASSUME NEW i \in 1..n PROVE t[i] = Advance(t[i - 1], blockIn'[i])
  <2>1. i \in 0..n /\ i - 1 \in 0..n /\ i + 1 \in 1..(n + 1) /\ (i + 1) - 1 = (i - 1) + 1
    BY <1>2
  <2>2. t[i] = st[i + 1] /\ t[i - 1] = st[(i + 1) - 1]
    BY <1>5, <2>1
  <2>3. st[i + 1] = Advance(st[(i + 1) - 1], blockIn[i + 1])
    BY <1>2, <2>1 DEF Trail
  <2>4. blockIn'[i] = blockIn[i + 1]
    BY <1>2
  <2> QED
    BY <2>2, <2>3, <2>4
<1>8. ASSUME NEW i \in 1..n, blockIn'[i].kind = "list" PROVE blockIn'[i].items = t[i]
  <2>1. i \in 0..n /\ i + 1 \in 1..(n + 1)
    BY <1>2
  <2> QED
    BY <1>2, <1>5, <1>8, <2>1 DEF Trail
<1>9. t[0] = Advance(st[0], blockIn[1])
  <2>1. 0 \in 0..n /\ 1 \in 1..(n + 1) /\ 1 - 1 = 0 /\ 0 + 1 = 1
    BY <1>2
  <2> QED
    BY <1>2, <1>5, <2>1 DEF Trail
<1>10. Trail(t)'
  BY <1>2, <1>5, <1>6, <1>7, <1>8, <1>9 DEF Trail
<1> QED
  BY <1>10

(* The client's or a List's copy changes and the stream does not.           *)
LEMMA TrailStill ==
    ASSUME BlockTypes, UNCHANGED <<blockIn, blockLog>>, NEW st, Trail(st),
           blockOrderly' /\ blockBased' => blocked' = st[0],
           blockOrderly' => \A l \in BlockLists : listing'[l] = "answered" => listed'[l] = st[0]
    PROVE  \E t : Trail(t)'
<1>1. BlockListAt(Len(blockLog))' = BlockListAt(Len(blockLog))
  BY DEF BlockListAt
<1>2. Trail(st)'
  BY <1>1 DEF Trail
<1> QED
  BY <1>2

(* The stanzas the server sends are well formed.                            *)
LEMMA StanzasTyped ==
    /\ \A l \in BlockLists, s \in SUBSET Contacts :
           [kind |-> "list", list |-> l, items |-> s] \in BlockStanza
    /\ \A f \in {"account", "stranger"}, ch \in BlockChange :
           [kind |-> "push", from |-> f, change |-> ch] \in BlockStanza
    /\ \A m \in BlockStanza :
           /\ m.kind \in {"list", "push"}
           /\ m.kind = "list" => m.list \in BlockLists /\ m.items \in SUBSET Contacts
           /\ m.kind = "push" => m.from \in {"account", "stranger"} /\ m.change \in BlockChange
BY DEF BlockStanza

(* The types are kept.                                                      *)
LEMMA NextBlockTypes == BlockTypes /\ BlockNext => BlockTypes'
<1> SUFFICES ASSUME BlockTypes, BlockNext PROVE BlockTypes'
  OBVIOUS
<1>1. ASSUME NEW l \in BlockLists, ListAsk(l) \/ ListTimesOut(l) PROVE BlockTypes'
  BY <1>1 DEF ListAsk, ListTimesOut, BlockTypes
<1>2. ASSUME NEW l \in BlockLists, ListApply(l) PROVE BlockTypes'
  BY <1>2 DEF ListApply, BlockTypes
<1>3. ASSUME NEW l \in BlockLists, ServerLists(l) PROVE BlockTypes'
  <2>1. blockIn' \in Seq(BlockStanza)
    BY <1>3, StanzasTyped, ListsTyped DEF ServerLists, BlockTypes
  <2> QED
    BY <1>3, <2>1 DEF ServerLists, BlockTypes
<1>4. blockIn # <<>> => /\ Head(blockIn) \in BlockStanza /\ Tail(blockIn) \in Seq(BlockStanza)
                        /\ Head(blockIn) = blockIn[1]
  BY DEF BlockTypes
<1>5. ASSUME ReadBlockList PROVE BlockTypes'
  <2>1. blockIn' \in Seq(BlockStanza)
    BY <1>4, <1>5 DEF ReadBlockList
  <2>2. Head(blockIn).list \in BlockLists /\ Head(blockIn).items \in SUBSET Contacts
    BY <1>4, <1>5, StanzasTyped DEF ReadBlockList
  <2>3. /\ listing' \in [BlockLists -> {"idle", "asked", "answered", "over"}]
        /\ listed' \in [BlockLists -> SUBSET Contacts]
    BY <1>5, <2>2 DEF ReadBlockList, BlockTypes
  <2> QED
    BY <1>5, <2>1, <2>3 DEF ReadBlockList, BlockTypes
<1>6. ASSUME HandleBlockPush PROVE BlockTypes'
  <2>1. blockIn' \in Seq(BlockStanza)
    BY <1>4, <1>6 DEF HandleBlockPush
  <2>2. PICK ch : ch = Head(blockIn).change
    OBVIOUS
  <2>3. ch \in BlockChange
    BY <1>4, <1>6, <2>2, StanzasTyped DEF HandleBlockPush
  <2>4. ch.items \subseteq Contacts
    BY <2>3, ChangesTyped
  <2>5. blocked' \in SUBSET Contacts
    BY <1>6, <2>2, <2>4 DEF HandleBlockPush, AfterPush, BlockTypes
  <2>6. blockOrderly' \in BOOLEAN
    BY <1>6 DEF HandleBlockPush, BlockTypes
  <2> QED
    BY <1>6, <2>1, <2>5, <2>6 DEF HandleBlockPush, BlockTypes
<1>7. ASSUME NEW ch \in BlockChange, ServerBlocks(ch) PROVE BlockTypes'
  <2>1. blockIn' \in Seq(BlockStanza)
    BY <1>7, StanzasTyped DEF ServerBlocks, BlockTypes
  <2>2. blockLog' \in Seq(BlockChange)
    BY <1>7 DEF ServerBlocks, BlockTypes
  <2> QED
    BY <1>7, <2>1, <2>2 DEF ServerBlocks, BlockTypes
<1>8. ASSUME NEW ch \in BlockChange, StrangerBlocks(ch) PROVE BlockTypes'
  <2>1. blockIn' \in Seq(BlockStanza)
    BY <1>8, StanzasTyped DEF StrangerBlocks, BlockTypes
  <2> QED
    BY <1>8, <2>1 DEF StrangerBlocks, BlockTypes
<1> QED
  BY <1>1, <1>2, <1>3, <1>5, <1>6, <1>7, <1>8 DEF BlockNext

(* A List that asks, gives up or is applied leaves the stream as it is.     *)
LEMMA ListStep ==
    ASSUME BlockInv, NEW l \in BlockLists, ListAsk(l) \/ ListTimesOut(l) \/ ListApply(l)
    PROVE  Trails'
<1>1. UNCHANGED <<blockIn, blockLog, subscribed, blockOrderly, listed>>
  BY DEF ListAsk, ListTimesOut, ListApply
<1>2. \A k \in BlockLists : listing'[k] = "answered" => listing[k] = "answered"
  BY DEF ListAsk, ListTimesOut, ListApply, BlockInv, BlockTypes
<1>3. \/ UNCHANGED <<blocked, blockBased>>
      \/ listing[l] = "answered" /\ blocked' = listed[l]
  BY DEF ListAsk, ListTimesOut, ListApply
<1>4. CASE subscribed
  <2>1. PICK st : Trail(st)
    BY <1>4 DEF BlockInv, Trails
  <2>2. blockOrderly' /\ blockBased' => blocked' = st[0]
    BY <1>1, <1>3, <2>1 DEF Trail
  <2>3. blockOrderly' => \A k \in BlockLists : listing'[k] = "answered" => listed'[k] = st[0]
    BY <1>1, <1>2, <2>1 DEF Trail
  <2>4. \E t : Trail(t)'
    BY <1>1, <2>1, <2>2, <2>3, TrailStill DEF BlockInv
  <2> QED
    BY <1>1, <1>4, <2>4 DEF Trails
<1>5. CASE ~subscribed
  <2>1. Unlisted
    BY <1>5 DEF BlockInv, Trails
  <2>2. Unlisted'
    BY <1>1, <1>2, <1>3, <2>1 DEF Unlisted
  <2> QED
    BY <1>1, <1>5, <2>2 DEF Trails
<1> QED
  BY <1>4, <1>5 DEF BlockInv, BlockTypes

(* The reader hands a response over, or finds its List gone.                *)
LEMMA ReadStep == ASSUME BlockInv, ReadBlockList PROVE Trails'
<1>1. /\ Len(blockIn) \in Nat /\ Len(blockIn) > 0 /\ Head(blockIn) = blockIn[1]
      /\ blockIn[1] \in BlockStanza
  BY DEF BlockInv, BlockTypes, ReadBlockList
<1>2. PICK m : m = blockIn[1]
  OBVIOUS
<1>3. m.kind = "list" /\ m.list \in BlockLists /\ 1 \in 1..Len(blockIn)
  BY <1>1, <1>2, StanzasTyped DEF ReadBlockList
<1>4. /\ blockIn' = Tail(blockIn) /\ blockIn # <<>>
      /\ UNCHANGED <<blocked, blockLog, subscribed, blockBased, blockOrderly>>
  BY DEF ReadBlockList
<1>5. \A k \in BlockLists : listing'[k] = "answered" =>
          \/ listing[k] = "answered" /\ listed'[k] = listed[k]
          \/ listed'[k] = m.items
  BY <1>1, <1>2, <1>3 DEF ReadBlockList, BlockInv, BlockTypes
<1>6. subscribed
  BY <1>2, <1>3 DEF BlockInv, Trails, Unlisted
<1>7. PICK st : Trail(st)
  BY <1>6 DEF BlockInv, Trails
<1>8. Advance(st[0], blockIn[1]) = st[0] /\ m.items = st[0]
  <2>1. Advance(st[0], blockIn[1]) = st[0]
    BY <1>2, <1>3 DEF Advance
  <2>2. st[1] = Advance(st[1 - 1], blockIn[1]) /\ m.items = st[1]
    BY <1>2, <1>3, <1>7 DEF Trail
  <2> QED
    BY <2>1, <2>2
<1>9. blockOrderly' /\ blockBased' => blocked' = Advance(st[0], blockIn[1])
  BY <1>4, <1>7, <1>8 DEF Trail
<1>10. blockOrderly' => \A l \in BlockLists :
           listing'[l] = "answered" => listed'[l] = Advance(st[0], blockIn[1])
  BY <1>4, <1>5, <1>7, <1>8 DEF Trail
<1>11. \E t : Trail(t)'
  BY <1>4, <1>7, <1>9, <1>10, TrailTail DEF BlockInv
<1> QED
  BY <1>4, <1>6, <1>11 DEF Trails

(* The reader runs the push handler.                                        *)
LEMMA PushStep == ASSUME BlockInv, HandleBlockPush PROVE Trails'
<1>1. /\ Len(blockIn) \in Nat /\ Len(blockIn) > 0 /\ Head(blockIn) = blockIn[1]
      /\ blockIn[1] \in BlockStanza
  BY DEF BlockInv, BlockTypes, HandleBlockPush
<1>2. PICK m : m = blockIn[1]
  OBVIOUS
<1>3. m.kind = "push" /\ m.from \in {"account", "stranger"} /\ 1 \in 1..Len(blockIn)
  BY <1>1, <1>2, StanzasTyped DEF HandleBlockPush
<1>4. /\ blockIn' = Tail(blockIn) /\ blockIn # <<>>
      /\ UNCHANGED <<listing, listed, blockLog, subscribed, blockBased>>
  BY DEF HandleBlockPush
<1>5. \/ m.from = "stranger" /\ UNCHANGED <<blocked, blockOrderly>>
      \/ /\ m.from = "account" /\ blocked' = Changed(blocked, m.change)
         /\ blockOrderly' => blockOrderly /\ \A l \in BlockLists : listing[l] # "answered"
  BY <1>1, <1>2, <1>3 DEF HandleBlockPush, AfterPush, Changed
<1>6. CASE subscribed
  <2>1. PICK st : Trail(st)
    BY <1>6 DEF BlockInv, Trails
  <2>2. Advance(st[0], blockIn[1]) = IF m.from = "account" THEN Changed(st[0], m.change) ELSE st[0]
    BY <1>2, <1>3 DEF Advance
  <2>3. blockOrderly' /\ blockBased' => blocked' = Advance(st[0], blockIn[1])
    <3>1. CASE m.from = "stranger"
      BY <1>4, <1>5, <2>1, <2>2, <3>1 DEF Trail
    <3>2. CASE m.from = "account"
      <4>1. blockOrderly' /\ blockBased' => blocked = st[0]
        BY <1>4, <1>5, <2>1, <3>2 DEF Trail
      <4> QED
        BY <1>5, <2>2, <3>2, <4>1
    <3> QED
      BY <1>3, <3>1, <3>2
  <2>4. blockOrderly' => \A l \in BlockLists :
            listing'[l] = "answered" => listed'[l] = Advance(st[0], blockIn[1])
    BY <1>4, <1>5, <2>1, <2>2 DEF Trail
  <2>5. \E t : Trail(t)'
    BY <1>4, <2>1, <2>3, <2>4, TrailTail DEF BlockInv
  <2> QED
    BY <1>4, <1>6, <2>5 DEF Trails
<1>7. CASE ~subscribed
  <2>1. Unlisted
    BY <1>7 DEF BlockInv, Trails
  <2>2. \A i \in 1..Len(blockIn') : i + 1 \in 1..Len(blockIn) /\ blockIn'[i] = blockIn[i + 1]
    BY <1>4 DEF BlockInv, BlockTypes
  <2>3. Unlisted'
    BY <1>4, <2>1, <2>2 DEF Unlisted
  <2> QED
    BY <1>4, <1>7, <2>3 DEF Trails
<1> QED
  BY <1>6, <1>7 DEF BlockInv, BlockTypes

(* The server answers a List; from then on the client gets its pushes.      *)
LEMMA AnswerStep == ASSUME BlockInv, NEW l \in BlockLists, ServerLists(l) PROVE Trails'
<1>1. PICK now : now = BlockListAt(Len(blockLog))
  OBVIOUS
<1>2. PICK m : m = [kind |-> "list", list |-> l, items |-> now]
  OBVIOUS
<1>3. m \in BlockStanza /\ m.kind = "list" /\ m.items = now /\ now \in SUBSET Contacts
  BY <1>1, <1>2, StanzasTyped, ListsTyped
<1>4. /\ blockIn' = Append(blockIn, m) /\ subscribed'
      /\ UNCHANGED <<blocked, listing, listed, blockLog, blockBased, blockOrderly>>
  BY <1>1, <1>2 DEF ServerLists
<1>5. now = BlockListAt(Len(blockLog))'
  BY <1>1, <1>4 DEF BlockListAt
<1>6. Advance(now, m) = now
  BY <1>3 DEF Advance
<1>7. CASE subscribed
  <2>1. PICK st : Trail(st)
    BY <1>7 DEF BlockInv, Trails
  <2>2. BlockListAt(Len(blockLog))' = Advance(BlockListAt(Len(blockLog)), m)
    BY <1>1, <1>5, <1>6
  <2>3. m.kind = "list" => m.items = BlockListAt(Len(blockLog))'
    BY <1>3, <1>5
  <2>4. \E t : Trail(t)'
    BY <1>3, <1>4, <2>1, <2>2, <2>3, TrailAppend DEF BlockInv
  <2> QED
    BY <1>4, <2>4 DEF Trails
<1>8. CASE ~subscribed
  <2>1. Unlisted
    BY <1>8 DEF BlockInv, Trails
  <2>2. PICK n : n = Len(blockIn)
    OBVIOUS
  <2>3. /\ n \in Nat /\ Len(blockIn') = n + 1 /\ blockIn'[n + 1] = m
        /\ \A i \in 1..n : blockIn'[i] = blockIn[i]
    BY <1>4, <2>2 DEF BlockInv, BlockTypes
  <2>4. PICK t : t = [i \in 0..(n + 1) |-> now]
    OBVIOUS
  <2>5. /\ t \in [0..(n + 1) -> SUBSET Contacts] /\ t[n + 1] = now
        /\ \A i \in 1..(n + 1) : t[i] = now /\ t[i - 1] = now
    BY <1>3, <2>3, <2>4
  <2>6. \A i \in 1..(n + 1) : t[i] = Advance(t[i - 1], blockIn'[i])
    <3>1. \A i \in 1..n : Advance(now, blockIn'[i]) = now
      BY <2>1, <2>2, <2>3 DEF Unlisted, Advance
    <3>2. \A i \in 1..(n + 1) : i \in 1..n \/ i = n + 1
      BY <2>3
    <3> QED
      BY <1>6, <2>3, <2>5, <3>1, <3>2
  <2>7. \A i \in 1..(n + 1) : blockIn'[i].kind = "list" => blockIn'[i].items = t[i]
    <3>1. \A i \in 1..n : blockIn'[i].kind # "list"
      BY <2>1, <2>2, <2>3 DEF Unlisted
    <3>2. \A i \in 1..(n + 1) : i \in 1..n \/ i = n + 1
      BY <2>3
    <3> QED
      BY <1>3, <2>3, <2>5, <3>1, <3>2
  <2>8. ~blockBased' /\ \A k \in BlockLists : listing'[k] # "answered"
    BY <1>4, <2>1 DEF Unlisted
  <2>9. Trail(t)'
    BY <1>5, <2>3, <2>5, <2>6, <2>7, <2>8 DEF Trail
  <2> QED
    BY <1>4, <2>9 DEF Trails
<1> QED
  BY <1>7, <1>8 DEF BlockInv, BlockTypes

(* The account's list changes, or a stranger pretends it does.              *)
LEMMA ChangeStep ==
    ASSUME BlockInv, NEW ch \in BlockChange, ServerBlocks(ch) \/ StrangerBlocks(ch)
    PROVE  Trails'
<1>1. PICK f : f = IF ServerBlocks(ch) THEN "account" ELSE "stranger"
  OBVIOUS
<1>2. PICK m : m = [kind |-> "push", from |-> f, change |-> ch]
  OBVIOUS
<1>3. m \in BlockStanza /\ m.kind = "push" /\ m.from = f /\ m.change = ch
  BY <1>1, <1>2, StanzasTyped
<1>4. UNCHANGED <<blocked, listing, listed, subscribed, blockBased, blockOrderly>>
  BY DEF ServerBlocks, StrangerBlocks
<1>5. CASE subscribed
  <2>1. PICK st : Trail(st)
    BY <1>5 DEF BlockInv, Trails
  <2>2. blockIn' = Append(blockIn, m)
    BY <1>1, <1>2, <1>5 DEF ServerBlocks, StrangerBlocks
  <2>3. BlockListAt(Len(blockLog))' = Advance(BlockListAt(Len(blockLog)), m)
    <3>1. CASE ServerBlocks(ch)
      BY <1>1, <1>3, <3>1, ListAfterChange DEF ServerBlocks, Advance, BlockInv
    <3>2. CASE ~ServerBlocks(ch)
      <4>1. UNCHANGED blockLog /\ m.from = "stranger"
        BY <1>1, <1>3, <3>2 DEF StrangerBlocks
      <4> QED
        BY <4>1 DEF Advance, BlockListAt
    <3> QED
      BY <3>1, <3>2
  <2>4. \E t : Trail(t)'
    BY <1>3, <1>4, <2>1, <2>2, <2>3, TrailAppend DEF BlockInv
  <2> QED
    BY <1>4, <1>5, <2>4 DEF Trails
<1>6. CASE ~subscribed
  <2>1. Unlisted
    BY <1>6 DEF BlockInv, Trails
  <2>2. \/ blockIn' = blockIn
        \/ blockIn' = Append(blockIn, m) /\ m.from = "stranger"
    BY <1>1, <1>2, <1>6 DEF ServerBlocks, StrangerBlocks
  <2>3. \A i \in 1..Len(blockIn') : blockIn'[i].kind = "push" /\ blockIn'[i].from = "stranger"
    BY <1>3, <2>1, <2>2 DEF Unlisted, BlockInv, BlockTypes
  <2>4. Unlisted'
    BY <1>4, <2>1, <2>3 DEF Unlisted
  <2> QED
    BY <1>4, <1>6, <2>4 DEF Trails
<1> QED
  BY <1>5, <1>6 DEF BlockInv, BlockTypes

(* Every step keeps the invariant.                                          *)
LEMMA NextBlockInv == BlockInv /\ [ControlNext]_controlVars => BlockInv'
<1> SUFFICES ASSUME BlockInv, [ControlNext]_controlVars PROVE BlockInv'
  OBVIOUS
<1>1. CASE BlockNext
  <2>1. BlockTypes'
    BY <1>1, NextBlockTypes DEF BlockInv
  <2>2. Trails'
    BY <1>1, ListStep, ReadStep, PushStep, AnswerStep, ChangeStep DEF BlockNext
  <2> QED
    BY <2>1, <2>2 DEF BlockInv
<1>2. CASE UNCHANGED blockVars
  BY <1>2 DEF blockVars, BlockInv, BlockTypes, Trails, Trail, Unlisted, BlockListAt
<1>3. SwitchNext \/ UNCHANGED controlVars => UNCHANGED blockVars
  BY DEF SwitchNext, ServerSets, ServerRefuses, SetTimesOut, SetApply, SetAsk, controlVars
<1> QED
  BY <1>1, <1>2, <1>3 DEF ControlNext

(* When nothing is under way and a List has been applied, the cache that    *)
(* IsBlocked looks in is the server's list, unless a push was applied       *)
(* between the reader's handing over of a response and List's use of it     *)
(* (client_control.go:59-64, 89-108).                                       *)
THEOREM BlockListIsExact == ControlSpec => []BlockListExact
<1>1. BlockInv => BlockListExact
  <2> SUFFICES ASSUME BlockInv, blockOrderly, blockBased, blockIn = <<>>
               PROVE  blocked = BlockListAt(Len(blockLog))
    BY DEF BlockListExact
  <2>1. subscribed
    BY DEF BlockInv, Trails, Unlisted
  <2>2. PICK st : Trail(st)
    BY <2>1 DEF BlockInv, Trails
  <2>3. Len(blockIn) = 0
    OBVIOUS
  <2> QED
    BY <2>2, <2>3 DEF Trail
<1>2. BlockInv /\ [ControlNext]_controlVars => BlockInv'
  BY NextBlockInv
<1> QED
  BY <1>1, <1>2, InitBlockInv, PTL DEF ControlSpec

-----------------------------------------------------------------------------
(* Bookmarks: what is stored parses to what was meant. *)

(* What of a child LocalPart is not left out by Get.                        *)
Lasting == {x \in Kids : x.local \notin {"nick", "password"}}

LEMMA BookmarkBounds ==
    MaxForeign \in Nat /\ MaxBookmarkCalls \in Nat
BY BookmarksAssumption

LEMMA ExtensionsAt ==
    ASSUME NEW s \in Seq(Kids)
    PROVE  Extensions(s) = Only(s, IndicesOf(s, Lasting))
<1>1. DOMAIN s = 1..Len(s) /\ \A i \in 1..Len(s) : s[i] \in Kids
  OBVIOUS
<1>2. {i \in DOMAIN s : s[i].local \notin {"nick", "password"}} = IndicesOf(s, Lasting)
  BY <1>1 DEF IndicesOf, Lasting
<1> QED
  BY <1>2 DEF Extensions

LEMMA MarkTypes ==
    ASSUME NEW m \in Marks
    PROVE  /\ m \in Bookmark
           /\ m.autojoin \in BOOLEAN /\ m.nick \in STRING /\ m.extensions \in Seq(Kids)
           /\ m = [autojoin |-> m.autojoin, nick |-> m.nick, extensions |-> m.extensions]
           /\ NickChildren(m) \in Seq(Kids) /\ NickChildren(m) \o m.extensions \in Seq(Kids)
           /\ m # NoMark
<1>1. m \in Bookmark
  BY BookmarksAssumption
<1>2. /\ m.autojoin \in BOOLEAN /\ m.nick \in STRING /\ m.extensions \in Seq(Kids)
      /\ m = [autojoin |-> m.autojoin, nick |-> m.nick, extensions |-> m.extensions]
  <2>1. /\ m.autojoin \in BOOLEAN /\ m.nick \in STRING /\ m.extensions \in Seq(Children)
        /\ m = [autojoin |-> m.autojoin, nick |-> m.nick, extensions |-> m.extensions]
    BY <1>1 DEF Bookmark
  <2>2. m.extensions \in Seq(Kids)
    BY <2>1 DEF Kids
  <2> QED
    BY <2>1, <2>2
<1>3. NickChildren(m) \in Seq(Kids)
  <2>1. PICK x : x = Child("bookmarks", "nick", m.nick)
    OBVIOUS
  <2>2. x \in Kids
    BY <2>1 DEF Kids
  <2>3. <<x>> \in Seq(Kids) /\ <<>> \in Seq(Kids)
    BY <2>2
  <2>4. NickChildren(m) = <<x>> \/ NickChildren(m) = <<>>
    BY <2>1 DEF NickChildren
  <2> QED
    BY <2>3, <2>4
<1>4. NickChildren(m) \o m.extensions \in Seq(Kids)
  BY <1>2, <1>3, ConcatProperties
<1>5. m # NoMark
  BY <1>1 DEF Bookmark, NoMark
<1> QED
  BY <1>1, <1>2, <1>3, <1>4, <1>5

(* The nick and the extensions of a bookmark are read back as they were.    *)
LEMMA NickReadBack ==
    ASSUME NEW m \in Marks, NEW node, node.children = NickChildren(m) \o m.extensions
    PROVE  ChildText(node, "nick") = m.nick
<1>1. PICK e \in Seq(Kids) : e = m.extensions
  BY MarkTypes
<1>2. PICK a \in Seq(Kids) : a = NickChildren(m)
  BY MarkTypes
<1>3. PICK c : c = a \o e
  OBVIOUS
<1>4. PICK n \in Nat, r \in Nat : n = Len(a) /\ r = Len(e)
  OBVIOUS
<1>5. /\ c \in Seq(Kids) /\ Len(c) = n + r
      /\ \A i \in 1..n : c[i] = a[i]
      /\ \A i \in 1..r : c[n + i] = e[i]
  BY <1>3, <1>4, ConcatParts
<1>6. DOMAIN c = 1..(n + r) /\ node.children = c
  BY <1>1, <1>2, <1>3, <1>4, <1>5
<1>7. PICK at : at = {i \in DOMAIN c : c[i].space = "bookmarks" /\ c[i].local = "nick"}
  OBVIOUS
<1>8. ChildText(node, "nick") = IF at = {} THEN "" ELSE c[CHOOSE i \in at : \A j \in at : i <= j].text
  BY <1>6, <1>7 DEF ChildText
<1>9. CASE m.nick = ""
  <2>1. n = 0
    BY <1>2, <1>4, <1>9 DEF NickChildren
  <2>2. \A i \in DOMAIN c : c[i] = e[i] /\ i \in DOMAIN m.extensions
    BY <1>1, <1>4, <1>5, <1>6, <2>1
  <2>3. at = {}
    BY <1>1, <1>7, <1>9, <2>2, BookmarksAssumption
  <2> QED
    BY <1>8, <1>9, <2>3
<1>10. CASE m.nick # ""
  <2>1. a = <<Child("bookmarks", "nick", m.nick)>>
    BY <1>2, <1>10 DEF NickChildren
  <2>2. n = 1 /\ a[1] = Child("bookmarks", "nick", m.nick)
    BY <1>4, <2>1
  <2>3. c[1] = Child("bookmarks", "nick", m.nick) /\ 1 \in DOMAIN c
    BY <1>5, <1>6, <2>2
  <2>4. 1 \in at /\ at \in SUBSET (1..(n + r))
    BY <1>6, <1>7, <2>3 DEF Child
  <2>5. (CHOOSE i \in at : \A j \in at : i <= j) = 1
    <3>1. \A j \in at : j \in Nat /\ 1 <= j
      BY <1>4, <2>4
    <3>2. \A i \in at : (\A j \in at : i <= j) => i = 1
      BY <2>4, <3>1
    <3> QED
      BY <2>4, <3>1, <3>2
  <2>6. c[1].text = m.nick
    BY <2>3 DEF Child
  <2> QED
    BY <1>8, <2>4, <2>5, <2>6
<1> QED
  BY <1>9, <1>10

LEMMA ExtensionsReadBack ==
    ASSUME NEW m \in Marks
    PROVE  Extensions(NickChildren(m) \o m.extensions) = Extensions(m.extensions)
<1>1. PICK e \in Seq(Kids) : e = m.extensions
  BY MarkTypes
<1>2. PICK a \in Seq(Kids) : a = NickChildren(m)
  BY MarkTypes
<1>3. a \o e \in Seq(Kids)
  BY ConcatProperties
<1>4. Extensions(a \o e) = Only(a, IndicesOf(a, Lasting)) \o Only(e, IndicesOf(e, Lasting))
  <2>1. Extensions(a \o e) = Only(a \o e, IndicesOf(a \o e, Lasting))
    BY <1>3, ExtensionsAt
  <2> QED
    BY <2>1, OnlyConcat
<1>5. IndicesOf(a, Lasting) = {}
  <2>1. \A i \in 1..Len(a) : a[i].local = "nick"
    <3>1. a = <<>> \/ a = <<Child("bookmarks", "nick", m.nick)>>
      BY <1>2 DEF NickChildren
    <3>2. CASE a = <<>>
      BY <3>2
    <3>3. CASE a = <<Child("bookmarks", "nick", m.nick)>>
      BY <3>3 DEF Child
    <3> QED
      BY <3>1, <3>2, <3>3
  <2> QED
    BY <2>1 DEF IndicesOf, Lasting
<1>6. Only(a, IndicesOf(a, Lasting)) = <<>>
  BY <1>5, OnlyNone
<1>7. PICK x : x = Only(e, IndicesOf(e, Lasting))
  OBVIOUS
<1>8. x \in Seq(Kids)
  <2>1. IndicesOf(e, Lasting) \in SUBSET (1..Len(e))
    BY DEF IndicesOf
  <2> QED
    BY <1>7, <2>1, OnlyInSeq
<1>9. <<>> \o x = x
  BY <1>8, ConcatEmptySeq
<1>10. x = Extensions(e)
  BY <1>7, ExtensionsAt
<1> QED
  BY <1>1, <1>2, <1>4, <1>6, <1>7, <1>9, <1>10

(* An item as the plugin or another client writes it.                       *)
LEMMA NativeReadBack ==
    ASSUME NEW m \in Marks, NEW raw \in Raws, m.autojoin <=> raw \in {"true", "1"}, NEW node,
           node = [autojoin |-> raw, children |-> NickChildren(m) \o m.extensions]
    PROVE  /\ node \in ItemNodes /\ node # NoItem
           /\ ParseNative(node) = Surviving(m)
<1>1. node.children = NickChildren(m) \o m.extensions /\ node.autojoin = raw
  OBVIOUS
<1>2. node \in ItemNodes
  BY MarkTypes DEF ItemNodes
<1>3. node # NoItem
  BY <1>2 DEF ItemNodes, NoItem
<1>4. AutoJoinValue(node) = m.autojoin
  <2>1. AutoJoinValue(node) <=> m.autojoin
    BY <1>1 DEF AutoJoinValue
  <2>2. AutoJoinValue(node) \in BOOLEAN /\ m.autojoin \in BOOLEAN
    BY MarkTypes DEF AutoJoinValue
  <2> QED
    BY <2>1, <2>2
<1>5. ChildText(node, "nick") = m.nick
  BY <1>1, NickReadBack
<1>6. Extensions(node.children) = Extensions(m.extensions)
  BY <1>1, ExtensionsReadBack
<1>7. PICK x : x = Extensions(m.extensions)
  OBVIOUS
<1>8. Surviving(m) = [autojoin |-> m.autojoin, nick |-> m.nick, extensions |-> x]
  <2>1. Surviving(m) = [m EXCEPT !.extensions = x]
    BY <1>7 DEF Surviving
  <2> QED
    BY <2>1, MarkTypes
<1>9. ParseNative(node) = [autojoin |-> m.autojoin, nick |-> m.nick, extensions |-> x]
  BY <1>4, <1>5, <1>6, <1>7 DEF ParseNative
<1> QED
  BY <1>2, <1>3, <1>8, <1>9
(* A list as legacy bookmarks are written.                                  *)
ReadLegacy(nodes) == [i \in DOMAIN nodes |-> ParseLegacy(nodes[i])]
BareList(list) == [i \in DOMAIN list |-> Bare(list[i])]

LEMMA LegacyReadBack ==
    ASSUME NEW jid \in Rooms \cup {NoRoom}, NEW m \in Marks, NEW raw \in Raws,
           m.autojoin <=> raw \in {"true", "1"}
    PROVE  /\ LegacyWritten(jid, raw, m) \in Conferences
           /\ ParseLegacy(LegacyWritten(jid, raw, m)) = Bare([jid |-> jid, mark |-> m])
<1>1. PICK a \in Seq(Kids) : a = NickChildren(m)
  BY MarkTypes
<1>2. PICK node : node = LegacyWritten(jid, raw, m)
  OBVIOUS
<1>3. node.jid = jid /\ node.autojoin = raw /\ node.children = a
  BY <1>1, <1>2 DEF LegacyWritten
<1>4. node \in Conferences
  BY <1>1, <1>2 DEF LegacyWritten, Conferences
<1>5. AutoJoinValue(node) = m.autojoin
  <2>1. AutoJoinValue(node) <=> m.autojoin
    BY <1>3 DEF AutoJoinValue
  <2>2. AutoJoinValue(node) \in BOOLEAN /\ m.autojoin \in BOOLEAN
    BY MarkTypes DEF AutoJoinValue
  <2> QED
    BY <2>1, <2>2
<1>6. ChildText(node, "nick") = m.nick
  <2>1. PICK at : at = {i \in DOMAIN a : a[i].space = "bookmarks" /\ a[i].local = "nick"}
    OBVIOUS
  <2>2. ChildText(node, "nick") = IF at = {} THEN "" ELSE a[CHOOSE i \in at : \A j \in at : i <= j].text
    BY <1>3, <2>1 DEF ChildText
  <2>3. CASE m.nick = ""
    <3>1. a = <<>>
      BY <1>1, <2>3 DEF NickChildren
    <3>2. at = {}
      BY <2>1, <3>1
    <3> QED
      BY <2>2, <2>3, <3>2
  <2>4. CASE m.nick # ""
    <3>1. a = <<Child("bookmarks", "nick", m.nick)>>
      BY <1>1, <2>4 DEF NickChildren
    <3>2. DOMAIN a = {1} /\ a[1] = Child("bookmarks", "nick", m.nick)
      BY <3>1
    <3>3. at = {1}
      BY <2>1, <3>2 DEF Child
    <3>4. (CHOOSE i \in at : \A j \in at : i <= j) = 1
      BY <3>3
    <3>5. a[1].text = m.nick
      BY <3>2 DEF Child
    <3> QED
      BY <2>2, <3>3, <3>4, <3>5
  <2> QED
    BY <2>3, <2>4
<1>7. ParseLegacy(node) = [jid |-> jid, mark |-> [autojoin |-> m.autojoin, nick |-> m.nick, extensions |-> <<>>]]
  BY <1>3, <1>5, <1>6 DEF ParseLegacy
<1>8. [m EXCEPT !.extensions = <<>>] = [autojoin |-> m.autojoin, nick |-> m.nick, extensions |-> <<>>]
  BY MarkTypes
<1>9. Bare([jid |-> jid, mark |-> m]) = [jid |-> jid, mark |-> [m EXCEPT !.extensions = <<>>]]
  BY DEF Bare
<1> QED
  BY <1>2, <1>4, <1>7, <1>8, <1>9

LEMMA ListReadBack ==
    ASSUME NEW list \in Lists, NEW nodes, NEW raws,
           \A i \in DOMAIN list : raws[i] \in Raws /\ (list[i].mark.autojoin <=> raws[i] \in {"true", "1"}),
           nodes = [i \in DOMAIN list |-> LegacyWritten(list[i].jid, raws[i], list[i].mark)]
    PROVE  list \in MeantLists /\ nodes \in Seq(Conferences) /\ ReadLegacy(nodes) = BareList(list)
<1>1. list \in MeantLists
  BY BookmarksAssumption DEF MeantLists, MeantEntries
<1>2. PICK n \in Nat : DOMAIN list = 1..n
  BY <1>1 DEF MeantLists
<1>3. \A i \in 1..n : /\ list[i].jid \in Rooms \cup {NoRoom} /\ list[i].mark \in Marks
                      /\ list[i] = [jid |-> list[i].jid, mark |-> list[i].mark]
  <2> TAKE i \in 1..n
  <2>1. list[i] \in MeantEntries
    BY <1>1, <1>2 DEF MeantLists
  <2> QED
    BY <2>1 DEF MeantEntries
<1>4. \A i \in 1..n : nodes[i] \in Conferences /\ ParseLegacy(nodes[i]) = Bare(list[i])
  <2> TAKE i \in 1..n
  <2>1. PICK j, m, raw : j = list[i].jid /\ m = list[i].mark /\ raw = raws[i]
    OBVIOUS
  <2>2. /\ j \in Rooms \cup {NoRoom} /\ m \in Marks /\ list[i] = [jid |-> j, mark |-> m]
        /\ raw \in Raws /\ (m.autojoin <=> raw \in {"true", "1"})
    BY <1>2, <1>3, <2>1
  <2>3. nodes[i] = LegacyWritten(j, raw, m)
    BY <1>2, <2>1
  <2> QED
    BY <2>2, <2>3, LegacyReadBack
<1>5. nodes \in [1..n -> Conferences]
  BY <1>2, <1>4
<1>6. nodes \in Seq(Conferences)
  BY <1>5
<1>7. ReadLegacy(nodes) = BareList(list)
  <2>1. ReadLegacy(nodes) = [i \in 1..n |-> ParseLegacy(nodes[i])]
    BY <1>5 DEF ReadLegacy
  <2>2. BareList(list) = [i \in 1..n |-> Bare(list[i])]
    BY <1>2 DEF BareList
  <2> QED
    BY <1>4, <2>1, <2>2
<1> QED
  BY <1>1, <1>6, <1>7

-----------------------------------------------------------------------------
(* Bookmarks: the inductive invariant. *)

(* What is stored parses to the bookmarks k, without what storage forgets.  *)
ShowsRoom(item, mark) ==
    (item = NoItem <=> mark = NoMark) /\ (item # NoItem => ParseNative(item) = Surviving(mark))
Shows(conferences, its, k) ==
    /\ ReadLegacy(conferences) = BareList(k.legacy)
    /\ \A r \in Rooms : ShowsRoom(its[r], k.native[r])

(* A request asks for what it means.                                        *)
Means(r) ==
    /\ r.op = "set" => ReadLegacy(r.nodes) = BareList(r.meant)
    /\ r.op = "publish" => ShowsRoom(r.node, r.meant)

(* A call: its state s, what was kept while it was under way, and what is   *)
(* kept now.                                                                *)
CallStages == {"idle", "asked", "answered", "returned", "failed"}
GotList(result, k) == result = BareList(k.legacy)
GotRooms(result, k) == result = [r \in {q \in Rooms : k.native[q] # NoMark} |-> Surviving(k.native[r])]
CallFits(s, h, k) ==
    /\ s.at \in CallStages
    /\ s.at = "asked" /\ s.op \in Reads => k \in h
    /\ s.at = "answered" /\ s.op \in Reads => \E x \in h : Shows(s.response.private, s.response.items, x)
    /\ s.at = "returned" /\ s.op = "get" => \E x \in h : GotList(s.result, x)
    /\ s.at = "returned" /\ s.op = "items" => \E x \in h : GotRooms(s.result, x)

BookmarkTypes ==
    /\ DOMAIN bookmarkCall = BookmarkCalls /\ DOMAIN held = BookmarkCalls
    /\ nodeExists \in BOOLEAN /\ foreign \in 0..MaxForeign
    /\ DOMAIN roomItems = Rooms /\ kept \in Keeps
    /\ bookmarkOut \in Seq(Requests)
StoredInv == Shows(private, roomItems, kept)
Awaited(r, s) == Means(r) /\ s.at \in {"asked", "failed"} /\ (s.at = "asked" => s.op = r.op)
OutInv ==
    /\ \A i \in 1..Len(bookmarkOut) : Awaited(bookmarkOut[i], bookmarkCall[bookmarkOut[i].call])
    /\ \A i, j \in 1..Len(bookmarkOut) : bookmarkOut[i].call = bookmarkOut[j].call => i = j
CallsInv == \A c \in BookmarkCalls : CallFits(bookmarkCall[c], held[c], kept)

BookmarksInv == BookmarkTypes /\ StoredInv /\ OutInv /\ CallsInv
LEMMA RequestFacts ==
    ASSUME NEW r \in Requests
    PROVE  /\ r.call \in BookmarkCalls
           /\ r.op = "set" => r.meant \in MeantLists /\ r.nodes \in Seq(Conferences)
           /\ r.op = "publish" => r.room \in Rooms /\ r.meant \in Marks /\ r.node \in ItemNodes
           /\ r.op = "retract" => r.room \in Rooms
<1>1. CASE r \in SetRequests
  BY <1>1 DEF SetRequests
<1>2. CASE r \in PublishRequests
  BY <1>2 DEF PublishRequests
<1>3. CASE r \in RetractRequests
  BY <1>3 DEF RetractRequests
<1>4. CASE r \in PlainRequests
  BY <1>4 DEF PlainRequests
<1> QED
  BY <1>1, <1>2, <1>3, <1>4 DEF Requests

LEMMA KeepsFacts ==
    ASSUME NEW k \in Keeps
    PROVE  /\ k.legacy \in MeantLists /\ k.native \in [Rooms -> Marks \cup {NoMark}]
           /\ k = [legacy |-> k.legacy, native |-> k.native]
BY DEF Keeps

LEMMA BookmarksInvInit ==
    BookmarksInit => BookmarksInv
<1> SUFFICES ASSUME BookmarksInit PROVE BookmarksInv
  OBVIOUS
<1>1. <<>> \in MeantLists
  BY DEF MeantLists
<1>2. kept \in Keeps /\ kept.legacy = <<>> /\ \A r \in Rooms : kept.native[r] = NoMark
  BY <1>1 DEF BookmarksInit, Keeps
<1>3. BookmarkTypes
  <2>1. bookmarkOut \in Seq(Requests) /\ foreign \in 0..MaxForeign
    BY BookmarkBounds DEF BookmarksInit
  <2>2. DOMAIN bookmarkCall = BookmarkCalls /\ DOMAIN held = BookmarkCalls /\ DOMAIN roomItems = Rooms
    BY DEF BookmarksInit
  <2> QED
    BY <1>2, <2>1, <2>2 DEF BookmarksInit, BookmarkTypes
<1>4. StoredInv
  <2>1. ReadLegacy(private) = BareList(kept.legacy)
    BY <1>2 DEF BookmarksInit, ReadLegacy, BareList
  <2>2. \A r \in Rooms : ShowsRoom(roomItems[r], kept.native[r])
    BY <1>2 DEF BookmarksInit, ShowsRoom
  <2> QED
    BY <2>1, <2>2 DEF StoredInv, Shows
<1>5. OutInv
  BY DEF BookmarksInit, OutInv
<1>6. CallsInv
  BY DEF BookmarksInit, CallsInv, CallFits, NotCalled, CallStages
<1> QED
  BY <1>3, <1>4, <1>5, <1>6 DEF BookmarksInv

(* The call c changes to the stage s, with what was kept meanwhile h.       *)
Staged(c, s) == bookmarkCall' = [bookmarkCall EXCEPT ![c] = s]

LEMMA StagedCalls ==
    ASSUME BookmarkTypes, CallsInv, NEW c \in BookmarkCalls, NEW s, Staged(c, s), s.at # "idle",
           kept' = kept, DOMAIN held' = BookmarkCalls, CallFits(s, held'[c], kept),
           \A d \in BookmarkCalls \ {c} : held'[d] = held[d]
    PROVE  /\ DOMAIN bookmarkCall' = BookmarkCalls
           /\ CallsInv'
           /\ bookmarkCall'[c] = s /\ \A d \in BookmarkCalls : d # c => bookmarkCall'[d] = bookmarkCall[d]
<1>1. DOMAIN bookmarkCall = BookmarkCalls
  BY DEF BookmarkTypes
<1>2. DOMAIN bookmarkCall' = BookmarkCalls
  BY <1>1 DEF Staged
<1>3. bookmarkCall'[c] = s /\ \A d \in BookmarkCalls : d # c => bookmarkCall'[d] = bookmarkCall[d]
  BY <1>1 DEF Staged
<1>4. \A d \in BookmarkCalls : CallFits(bookmarkCall'[d], held'[d], kept)
  BY <1>3 DEF CallsInv
<1>5. CallsInv'
  BY <1>4 DEF CallsInv
<1> QED
  BY <1>2, <1>3, <1>5

(* A call that gives up, or that has no request on its way.                 *)
LEMMA StagedOut ==
    ASSUME BookmarkTypes, OutInv, NEW c \in BookmarkCalls, NEW s,
           bookmarkCall'[c] = s, \A d \in BookmarkCalls : d # c => bookmarkCall'[d] = bookmarkCall[d],
           s.at = "failed" \/ bookmarkCall[c].at \notin {"asked", "failed"}, bookmarkOut' = bookmarkOut
    PROVE  OutInv'
<1> SUFFICES ASSUME NEW i \in 1..Len(bookmarkOut)
             PROVE  Awaited(bookmarkOut[i], bookmarkCall'[bookmarkOut[i].call])
  <2>1. \A i, j \in 1..Len(bookmarkOut) : bookmarkOut[i].call = bookmarkOut[j].call => i = j
    BY DEF OutInv
  <2> QED
    BY <2>1 DEF OutInv
<1>1. PICK r : r = bookmarkOut[i]
  OBVIOUS
<1>2. r \in Requests
  BY <1>1 DEF BookmarkTypes
<1>3. r.call \in BookmarkCalls
  BY <1>2, RequestFacts
<1>4. Awaited(r, bookmarkCall[r.call])
  BY <1>1 DEF OutInv
<1>5. Awaited(r, bookmarkCall'[r.call])
  BY <1>3, <1>4 DEF Awaited
<1> QED
  BY <1>1, <1>5

LEMMA AsksKeeps ==
    ASSUME BookmarksInv, NEW c \in BookmarkCalls, NEW q \in Requests, q.call = c, Means(q), Asks(c, q)
    PROVE  BookmarksInv'
<1> USE DEF BookmarksInv
<1>1. PICK s : s = [at |-> "asked", op |-> q.op]
  OBVIOUS
<1>2. s.at = "asked" /\ s.op = q.op
  BY <1>1
<1>3. PICK h : h = IF q.op \in Reads THEN {kept} ELSE {}
  OBVIOUS
<1>4. /\ Begins(c) /\ Staged(c, s)
      /\ bookmarkOut' = Append(bookmarkOut, q)
      /\ held' = [held EXCEPT ![c] = h]
      /\ UNCHANGED <<private, roomItems, nodeExists, foreign, kept>>
  BY <1>1, <1>3 DEF Asks, Staged
<1>5. CallFits(s, h, kept)
  BY <1>2, <1>3 DEF CallFits, CallStages
<1>6. /\ DOMAIN held' = BookmarkCalls /\ held'[c] = h
      /\ \A d \in BookmarkCalls \ {c} : held'[d] = held[d]
  BY <1>4 DEF BookmarkTypes
<1>7. /\ DOMAIN bookmarkCall' = BookmarkCalls /\ CallsInv'
      /\ bookmarkCall'[c] = s /\ \A d \in BookmarkCalls : d # c => bookmarkCall'[d] = bookmarkCall[d]
  <2>1. CallFits(s, held'[c], kept) /\ s.at # "idle" /\ kept' = kept
    BY <1>2, <1>4, <1>5, <1>6
  <2> QED
    BY <1>4, <1>6, <2>1, StagedCalls
<1>8. bookmarkOut' \in Seq(Requests)
  BY <1>4, AppendProperties DEF BookmarkTypes
<1>9. BookmarkTypes'
  BY <1>4, <1>6, <1>7, <1>8 DEF BookmarkTypes
<1>10. StoredInv'
  BY <1>4 DEF StoredInv
<1>11. OutInv'
  <2>1. PICK n \in Nat : n = Len(bookmarkOut)
    BY DEF BookmarkTypes
  <2>2. /\ Len(bookmarkOut') = n + 1 /\ bookmarkOut'[n + 1] = q
        /\ \A j \in 1..n : bookmarkOut'[j] = bookmarkOut[j]
    BY <1>4, <2>1, AppendProperties DEF BookmarkTypes
  <2>0. \A i \in 1..n : bookmarkOut[i].call # c
    <3> TAKE i \in 1..n
    <3>1. Awaited(bookmarkOut[i], bookmarkCall[bookmarkOut[i].call])
      BY <2>1 DEF OutInv
    <3> QED
      BY <1>4, <3>1 DEF Begins, NotCalled, Awaited
  <2> SUFFICES ASSUME NEW i \in 1..(n + 1)
               PROVE  Awaited(bookmarkOut'[i], bookmarkCall'[bookmarkOut'[i].call])
    <3>1. \A i, j \in 1..n : bookmarkOut[i].call = bookmarkOut[j].call => i = j
      BY <2>1 DEF OutInv
    <3>2. \A i, j \in 1..(n + 1) : bookmarkOut'[i].call = bookmarkOut'[j].call => i = j
      <4> TAKE i \in 1..(n + 1), j \in 1..(n + 1)
      <4>1. (i \in 1..n \/ i = n + 1) /\ (j \in 1..n \/ j = n + 1)
        OBVIOUS
      <4> QED
        BY <2>0, <2>2, <3>1, <4>1
    <3> QED
      BY <2>2, <3>2 DEF OutInv
  <2>3. CASE i = n + 1
    <3>1. Awaited(q, bookmarkCall'[q.call])
      BY <1>2, <1>7 DEF Awaited
    <3> QED
      BY <2>2, <2>3, <3>1
  <2>4. CASE i \in 1..n
    <3>1. PICK r : r = bookmarkOut[i]
      OBVIOUS
    <3>2. r \in Requests
      BY <2>1, <2>4, <3>1 DEF BookmarkTypes
    <3>3. Awaited(r, bookmarkCall[r.call])
      BY <2>1, <2>4, <3>1 DEF OutInv
    <3>4. r.call # c
      BY <2>0, <2>4, <3>1
    <3>5. bookmarkCall'[r.call] = bookmarkCall[r.call]
      BY <1>7, <3>2, <3>4, RequestFacts
    <3> QED
      BY <2>2, <2>4, <3>1, <3>3, <3>5
  <2> QED
    BY <2>1, <2>2, <2>3, <2>4
<1> QED
  BY <1>7, <1>9, <1>10, <1>11

LEMMA RefusedKeeps ==
    ASSUME BookmarksInv, NEW c \in BookmarkCalls, Refused(c)
    PROVE  BookmarksInv'
<1> USE DEF BookmarksInv
<1>1. PICK s : s = [at |-> "failed"]
  OBVIOUS
<1>2. s.at = "failed"
  BY <1>1
<1>3. Staged(c, s) /\ UNCHANGED <<bookmarkOut, private, roomItems, nodeExists, foreign, kept, held>>
  BY <1>1 DEF Refused, Staged
<1>4. CallFits(s, held'[c], kept)
  BY <1>2 DEF CallFits, CallStages
<1>5. /\ DOMAIN bookmarkCall' = BookmarkCalls /\ CallsInv'
      /\ bookmarkCall'[c] = s /\ \A d \in BookmarkCalls : d # c => bookmarkCall'[d] = bookmarkCall[d]
  <2>1. DOMAIN held' = BookmarkCalls /\ s.at # "idle" /\ kept' = kept
    BY <1>2, <1>3 DEF BookmarkTypes
  <2>2. \A d \in BookmarkCalls \ {c} : held'[d] = held[d]
    BY <1>3
  <2> QED
    BY <1>3, <1>4, <2>1, <2>2, StagedCalls
<1>6. OutInv'
  BY <1>2, <1>3, <1>5, StagedOut
<1> QED
  BY <1>3, <1>5, <1>6 DEF BookmarkTypes, StoredInv

LEMMA GivesUpKeeps ==
    ASSUME BookmarksInv, NEW c \in BookmarkCalls, CallGivesUp(c)
    PROVE  BookmarksInv'
<1> USE DEF BookmarksInv
<1>1. PICK s : s = [at |-> "failed"]
  OBVIOUS
<1>2. s.at = "failed"
  BY <1>1
<1>3. /\ Staged(c, s) /\ held' = [held EXCEPT ![c] = {}]
      /\ UNCHANGED <<bookmarkOut, private, roomItems, nodeExists, foreign, kept>>
  BY <1>1 DEF CallGivesUp, Staged
<1>4. CallFits(s, held'[c], kept)
  BY <1>2 DEF CallFits, CallStages
<1>5. DOMAIN held' = BookmarkCalls /\ \A d \in BookmarkCalls \ {c} : held'[d] = held[d]
  BY <1>3 DEF BookmarkTypes
<1>6. /\ DOMAIN bookmarkCall' = BookmarkCalls /\ CallsInv'
      /\ bookmarkCall'[c] = s /\ \A d \in BookmarkCalls : d # c => bookmarkCall'[d] = bookmarkCall[d]
  <2>1. s.at # "idle" /\ kept' = kept
    BY <1>2, <1>3
  <2> QED
    BY <1>3, <1>4, <1>5, <2>1, StagedCalls
<1>7. OutInv'
  BY <1>2, <1>3, <1>6, StagedOut
<1> QED
  BY <1>3, <1>5, <1>6, <1>7 DEF BookmarkTypes, StoredInv

LEMMA ReturnsKeeps ==
    ASSUME BookmarksInv, NEW c \in BookmarkCalls, CallReturns(c)
    PROVE  BookmarksInv'
<1> USE DEF BookmarksInv
<1>1. PICK b : b = bookmarkCall[c]
  OBVIOUS
<1>2. PICK v : v = Result(c)
  OBVIOUS
<1>3. PICK s : s = [at |-> "returned", op |-> b.op, result |-> v]
  OBVIOUS
<1>4. s.at = "returned" /\ s.op = b.op /\ s.result = v
  BY <1>3
<1>5. b.at = "answered"
  BY <1>1 DEF CallReturns
<1>6. Staged(c, s) /\ UNCHANGED <<bookmarkOut, private, roomItems, nodeExists, foreign, kept, held>>
  BY <1>1, <1>2, <1>3 DEF CallReturns, Staged
<1>7. CallFits(s, held[c], kept)
  <2>1. CallFits(b, held[c], kept)
    BY <1>1 DEF CallsInv
  <2>2. CASE b.op = "get"
    <3>1. PICK x \in held[c] : Shows(b.response.private, b.response.items, x)
      BY <1>5, <2>1, <2>2 DEF CallFits, Reads
    <3>2. v = ReadLegacy(b.response.private)
      BY <1>1, <1>2, <2>2 DEF Result, ReadLegacy
    <3>3. GotList(v, x)
      BY <3>1, <3>2 DEF GotList, Shows
    <3> QED
      BY <1>4, <2>2, <3>3 DEF CallFits, CallStages
  <2>3. CASE b.op = "items"
    <3>1. PICK x \in held[c] : Shows(b.response.private, b.response.items, x)
      BY <1>5, <2>1, <2>3 DEF CallFits, Reads
    <3>2. PICK its, n : its = b.response.items /\ n = x.native
      OBVIOUS
    <3>3. v = [r \in {q \in Rooms : its[q] # NoItem} |-> ParseNative(its[r])]
      BY <1>1, <1>2, <2>3, <3>2 DEF Result, ItemIDs
    <3>4. \A r \in Rooms : /\ its[r] = NoItem <=> n[r] = NoMark
                           /\ its[r] # NoItem => ParseNative(its[r]) = Surviving(n[r])
      BY <3>1, <3>2 DEF Shows, ShowsRoom
    <3>5. v = [r \in {q \in Rooms : n[q] # NoMark} |-> Surviving(n[r])]
      BY <3>3, <3>4
    <3>6. GotRooms(v, x)
      BY <3>2, <3>5 DEF GotRooms
    <3> QED
      BY <1>4, <2>3, <3>6 DEF CallFits, CallStages
  <2>4. CASE b.op \notin {"get", "items"}
    BY <1>4, <2>4 DEF CallFits, CallStages
  <2> QED
    BY <2>2, <2>3, <2>4
<1>8. /\ DOMAIN bookmarkCall' = BookmarkCalls /\ CallsInv'
      /\ bookmarkCall'[c] = s /\ \A d \in BookmarkCalls : d # c => bookmarkCall'[d] = bookmarkCall[d]
  <2>1. DOMAIN held' = BookmarkCalls /\ s.at # "idle" /\ kept' = kept /\ CallFits(s, held'[c], kept)
    BY <1>4, <1>6, <1>7 DEF BookmarkTypes
  <2>2. \A d \in BookmarkCalls \ {c} : held'[d] = held[d]
    BY <1>6
  <2> QED
    BY <1>6, <2>1, <2>2, StagedCalls
<1>9. OutInv'
  <2>1. bookmarkCall[c].at \notin {"asked", "failed"} /\ bookmarkOut' = bookmarkOut
    BY <1>1, <1>5, <1>6
  <2> QED
    BY <1>8, <2>1, StagedOut
<1> QED
  BY <1>6, <1>8, <1>9 DEF BookmarkTypes, StoredInv
LEMMA HeldFits ==
    ASSUME CallsInv, Held
    PROVE  /\ DOMAIN held' = BookmarkCalls
           /\ \A c \in BookmarkCalls : /\ held[c] \subseteq held'[c]
                                       /\ CallFits(bookmarkCall[c], held'[c], kept')
<1>1. DOMAIN held' = BookmarkCalls
  BY DEF Held
<1>2. ASSUME NEW c \in BookmarkCalls
      PROVE  held[c] \subseteq held'[c] /\ CallFits(bookmarkCall[c], held'[c], kept')
  <2>1. PICK s, h, k : s = bookmarkCall[c] /\ h = held[c] /\ k = kept'
    OBVIOUS
  <2>2. CallFits(s, h, kept)
    BY <2>1 DEF CallsInv
  <2>3. held'[c] = IF s.at = "asked" /\ h # {} THEN h \cup {k} ELSE h
    BY <2>1 DEF Held
  <2>4. CASE s.at = "asked"
    <3>1. s.op \in Reads => k \in held'[c]
      BY <2>2, <2>3, <2>4 DEF CallFits
    <3> QED
      BY <2>1, <2>3, <2>4, <3>1 DEF CallFits, CallStages
  <2>5. CASE s.at # "asked"
    <3>1. held'[c] = h
      BY <2>3, <2>5
    <3>2. CallFits(s, h, k)
      BY <2>2, <2>5 DEF CallFits
    <3> QED
      BY <2>1, <3>1, <3>2
  <2> QED
    BY <2>4, <2>5
<1> QED
  BY <1>1, <1>2

LEMMA ServedOut ==
    ASSUME BookmarkTypes, OutInv, bookmarkOut # <<>>, bookmarkOut' = Tail(bookmarkOut),
           \A d \in BookmarkCalls : d # Head(bookmarkOut).call => bookmarkCall'[d] = bookmarkCall[d]
    PROVE  bookmarkOut' \in Seq(Requests) /\ OutInv'
<1>1. PICK n \in Nat : n = Len(bookmarkOut) /\ n # 0
  BY DEF BookmarkTypes
<1>2. /\ bookmarkOut' \in Seq(Requests) /\ Len(bookmarkOut') = n - 1
      /\ \A i \in 1..(n - 1) : bookmarkOut'[i] = bookmarkOut[i + 1]
  BY <1>1, HeadTailProperties DEF BookmarkTypes
<1>3. ASSUME NEW i \in 1..(n - 1) PROVE Awaited(bookmarkOut'[i], bookmarkCall'[bookmarkOut'[i].call])
  <2>1. i + 1 \in 1..n
    BY <1>1
  <2>2. PICK r : r = bookmarkOut[i + 1]
    OBVIOUS
  <2>3. r \in Requests
    BY <1>1, <2>1, <2>2 DEF BookmarkTypes
  <2>4. r.call \in BookmarkCalls
    BY <2>3, RequestFacts
  <2>5. Awaited(r, bookmarkCall[r.call])
    BY <1>1, <2>1, <2>2 DEF OutInv
  <2>6. r.call # Head(bookmarkOut).call
    <3>1. Head(bookmarkOut) = bookmarkOut[1] /\ 1 \in 1..n /\ i + 1 # 1
      BY <1>1 DEF BookmarkTypes
    <3> QED
      BY <1>1, <2>1, <2>2, <3>1 DEF OutInv
  <2>7. bookmarkCall'[r.call] = bookmarkCall[r.call]
    BY <2>4, <2>6
  <2> QED
    BY <1>2, <2>2, <2>5, <2>7
<1>4. ASSUME NEW i \in 1..(n - 1), NEW j \in 1..(n - 1), bookmarkOut'[i].call = bookmarkOut'[j].call PROVE i = j
  <2>1. i + 1 \in 1..n /\ j + 1 \in 1..n
    BY <1>1
  <2>2. i + 1 = j + 1
    BY <1>1, <1>2, <1>4, <2>1 DEF OutInv
  <2> QED
    BY <2>2
<1>5. OutInv'
  BY <1>2, <1>3, <1>4 DEF OutInv
<1> QED
  BY <1>2, <1>5

LEMMA FirstRequest ==
    ASSUME BookmarkTypes, OutInv, bookmarkOut # <<>>, NEW r, r = Head(bookmarkOut)
    PROVE  /\ r \in Requests /\ r.call \in BookmarkCalls /\ Means(r)
           /\ bookmarkCall[r.call].at \in {"asked", "failed"}
           /\ bookmarkCall[r.call].at = "asked" => bookmarkCall[r.call].op = r.op
<1>1. r = bookmarkOut[1] /\ 1 \in 1..Len(bookmarkOut)
  BY DEF BookmarkTypes
<1>2. r \in Requests
  BY <1>1 DEF BookmarkTypes
<1>3. Awaited(r, bookmarkCall[r.call])
  BY <1>1 DEF OutInv
<1> QED
  BY <1>2, <1>3, RequestFacts DEF Awaited

LEMMA DeclinesKeeps ==
    ASSUME BookmarksInv, ServerDeclines
    PROVE  BookmarksInv'
<1> USE DEF BookmarksInv
<1>1. PICK r : r = Head(bookmarkOut)
  OBVIOUS
<1>2. PICK c : c = r.call
  OBVIOUS
<1>3. c \in BookmarkCalls
  BY <1>1, <1>2, FirstRequest DEF ServerDeclines
<1>4. PICK s : s = [at |-> "failed"]
  OBVIOUS
<1>5. s.at = "failed"
  BY <1>4
<1>6. /\ bookmarkOut # <<>> /\ bookmarkOut' = Tail(bookmarkOut)
      /\ bookmarkCall' = IF InProgress(c) THEN [bookmarkCall EXCEPT ![c] = s] ELSE bookmarkCall
      /\ held' = [held EXCEPT ![c] = {}]
      /\ UNCHANGED <<private, roomItems, nodeExists, foreign, kept>>
  BY <1>1, <1>2, <1>4 DEF ServerDeclines
<1>7. DOMAIN bookmarkCall' = BookmarkCalls /\ DOMAIN held' = BookmarkCalls
  BY <1>6 DEF BookmarkTypes
<1>8. ASSUME NEW d \in BookmarkCalls
      PROVE  /\ d # c => bookmarkCall'[d] = bookmarkCall[d]
             /\ CallFits(bookmarkCall'[d], held'[d], kept)
  <2>1. CallFits(bookmarkCall[d], held[d], kept)
    BY DEF CallsInv
  <2>2. CASE d # c
    <3>1. bookmarkCall'[d] = bookmarkCall[d] /\ held'[d] = held[d]
      BY <1>6, <2>2 DEF BookmarkTypes
    <3> QED
      BY <2>1, <3>1
  <2>3. CASE d = c
    <3>1. bookmarkCall[c].at \in {"asked", "failed"}
      BY <1>1, <1>2, <1>6, FirstRequest
    <3>2. bookmarkCall'[d].at = "failed"
      BY <1>3, <1>5, <1>6, <2>3, <3>1 DEF InProgress, BookmarkTypes
    <3> QED
      BY <2>3, <3>2 DEF CallFits, CallStages
  <2> QED
    BY <2>2, <2>3
<1>9. bookmarkOut' \in Seq(Requests) /\ OutInv'
  BY <1>1, <1>2, <1>6, <1>8, ServedOut
<1>10. CallsInv'
  BY <1>6, <1>8 DEF CallsInv
<1>11. BookmarkTypes'
  BY <1>6, <1>7, <1>9 DEF BookmarkTypes
<1>12. StoredInv'
  BY <1>6 DEF StoredInv
<1> QED
  BY <1>9, <1>10, <1>11, <1>12
LEMMA PublishShows ==
    ASSUME NEW p, NEW its, DOMAIN its = Rooms, NEW k \in Keeps, Shows(p, its, k), NEW room \in Rooms,
           NEW item, NEW mark \in Marks \cup {NoMark}, ShowsRoom(item, mark), NEW its2, NEW k2,
           its2 = [its EXCEPT ![room] = item], k2 = [k EXCEPT !.native[room] = mark]
    PROVE  Shows(p, its2, k2) /\ k2 \in Keeps /\ DOMAIN its2 = Rooms
<1>1. PICK l, n : l = k.legacy /\ n = k.native
  OBVIOUS
<1>2. k = [legacy |-> l, native |-> n] /\ l \in MeantLists /\ n \in [Rooms -> Marks \cup {NoMark}]
  BY <1>1, KeepsFacts
<1>3. PICK n2 : n2 = [n EXCEPT ![room] = mark]
  OBVIOUS
<1>4. k2 = [legacy |-> l, native |-> n2]
  BY <1>2, <1>3
<1>5. n2 \in [Rooms -> Marks \cup {NoMark}]
  BY <1>2, <1>3
<1>6. k2 \in Keeps
  BY <1>2, <1>4, <1>5 DEF Keeps
<1>7. \A r \in Rooms : its2[r] = (IF r = room THEN item ELSE its[r]) /\ n2[r] = IF r = room THEN mark ELSE n[r]
  BY <1>2, <1>3
<1>8. \A r \in Rooms : ShowsRoom(its2[r], n2[r])
  <2>1. \A r \in Rooms : ShowsRoom(its[r], n[r])
    BY <1>1 DEF Shows
  <2> QED
    BY <1>7, <2>1
<1>9. ReadLegacy(p) = BareList(l)
  BY <1>1 DEF Shows
<1>10. k2.legacy = l /\ k2.native = n2
  BY <1>4
<1> QED
  BY <1>6, <1>8, <1>9, <1>10 DEF Shows

LEMMA Republished ==
    ASSUME kept \in Keeps, DOMAIN roomItems = Rooms, Shows(private, roomItems, kept), NEW room, room \in Rooms,
           NEW item, NEW mark, mark \in Marks \cup {NoMark}, ShowsRoom(item, mark),
           roomItems' = [roomItems EXCEPT ![room] = item], kept' = [kept EXCEPT !.native[room] = mark]
    PROVE  Shows(private, roomItems', kept') /\ kept' \in Keeps /\ DOMAIN roomItems' = Rooms
<1>1. PICK p, its, k, its2, k2 : p = private /\ its = roomItems /\ k = kept /\ its2 = roomItems' /\ k2 = kept'
  OBVIOUS
<1>2. k \in Keeps /\ DOMAIN its = Rooms /\ Shows(p, its, k)
  BY <1>1
<1>3. its2 = [its EXCEPT ![room] = item] /\ k2 = [k EXCEPT !.native[room] = mark]
  BY <1>1
<1>4. Shows(p, its2, k2) /\ k2 \in Keeps /\ DOMAIN its2 = Rooms
  <2>1. Shows(p, its2, k2)
    BY <1>2, <1>3, PublishShows
  <2>2. k2 \in Keeps
    <3>1. k.native \in [Rooms -> Marks \cup {NoMark}] /\ k.legacy \in MeantLists
      BY <1>2, KeepsFacts
    <3>2. k2 = [legacy |-> k.legacy, native |-> [k.native EXCEPT ![room] = mark]]
      BY <1>2, <1>3, KeepsFacts
    <3> QED
      BY <3>1, <3>2 DEF Keeps
  <2>3. DOMAIN its2 = Rooms
    BY <1>2, <1>3
  <2> QED
    BY <2>1, <2>2, <2>3
<1> QED
  BY <1>1, <1>4

LEMMA SetShows ==
    ASSUME NEW p, NEW its, NEW k \in Keeps, Shows(p, its, k), NEW p2, NEW list \in MeantLists,
           ReadLegacy(p2) = BareList(list), NEW k2, k2 = [k EXCEPT !.legacy = list]
    PROVE  Shows(p2, its, k2) /\ k2 \in Keeps
<1>1. PICK n : n = k.native
  OBVIOUS
<1>2. k2 = [legacy |-> list, native |-> n] /\ n \in [Rooms -> Marks \cup {NoMark}]
  BY <1>1, KeepsFacts
<1>3. k2 \in Keeps /\ k2.legacy = list /\ k2.native = n
  BY <1>2 DEF Keeps
<1> QED
  BY <1>1, <1>3 DEF Shows

LEMMA ClearShows ==
    ASSUME BookmarkTypes, StoredInv
    PROVE  Shows(private, NoItems, NoNative) /\ NoNative \in Keeps /\ DOMAIN NoItems = Rooms
<1>1. PICK l : l = kept.legacy
  OBVIOUS
<1>2. l \in MeantLists /\ kept = [legacy |-> l, native |-> kept.native]
  BY <1>1, KeepsFacts DEF BookmarkTypes
<1>3. PICK n : n = [r \in Rooms |-> NoMark]
  OBVIOUS
<1>4. n \in [Rooms -> Marks \cup {NoMark}] /\ \A r \in Rooms : n[r] = NoMark
  BY <1>3
<1>5. NoNative = [legacy |-> l, native |-> n]
  BY <1>2, <1>3 DEF NoNative
<1>6. NoNative \in Keeps /\ NoNative.legacy = l /\ NoNative.native = n
  BY <1>2, <1>4, <1>5 DEF Keeps
<1>7. ReadLegacy(private) = BareList(l)
  BY <1>1 DEF StoredInv, Shows
<1>8. \A r \in Rooms : ShowsRoom(NoItems[r], n[r])
  BY <1>4 DEF NoItems, ShowsRoom
<1> QED
  BY <1>6, <1>7, <1>8 DEF Shows, NoItems

(* Whatever the server does, what is stored parses to what was meant.       *)
LEMMA DoesShows ==
    ASSUME BookmarkTypes, StoredInv, NEW r \in Requests, Means(r), ServerDoes(r)
    PROVE  /\ Shows(private', roomItems', kept') /\ kept' \in Keeps /\ DOMAIN roomItems' = Rooms
           /\ nodeExists' \in BOOLEAN
           /\ r.op \in Reads => kept' = kept
<1>1. kept \in Keeps /\ DOMAIN roomItems = Rooms /\ nodeExists \in BOOLEAN /\ Shows(private, roomItems, kept)
  BY DEF BookmarkTypes, StoredInv
<1>2. CASE r.op = "set"
  <2>1. /\ private' = r.nodes /\ roomItems' = roomItems /\ nodeExists' = nodeExists
        /\ kept' = [kept EXCEPT !.legacy = r.meant]
    BY <1>2 DEF ServerDoes, Stored
  <2>2. r.meant \in MeantLists /\ ReadLegacy(r.nodes) = BareList(r.meant)
    BY <1>2, RequestFacts DEF Means
  <2>3. Shows(r.nodes, roomItems, kept') /\ kept' \in Keeps
    BY <1>1, <2>1, <2>2, SetShows
  <2> QED
    BY <1>1, <1>2, <2>1, <2>3 DEF Reads
<1>3. CASE r.op = "publish"
  <2>1. /\ private' = private /\ roomItems' = [roomItems EXCEPT ![r.room] = r.node] /\ nodeExists' = TRUE
        /\ kept' = [kept EXCEPT !.native[r.room] = r.meant]
    BY <1>3 DEF ServerDoes, Stored
  <2>2. r.room \in Rooms /\ r.meant \in Marks \cup {NoMark} /\ ShowsRoom(r.node, r.meant)
    BY <1>3, RequestFacts DEF Means
  <2>3. Shows(private, roomItems', kept') /\ kept' \in Keeps /\ DOMAIN roomItems' = Rooms
    BY <1>1, <2>1, <2>2, Republished
  <2> QED
    BY <1>1, <1>3, <2>1, <2>3 DEF Reads
<1>4. CASE r.op = "retract"
  <2>1. /\ private' = private /\ roomItems' = [roomItems EXCEPT ![r.room] = NoItem] /\ nodeExists' = nodeExists
        /\ kept' = [kept EXCEPT !.native[r.room] = NoMark]
    BY <1>4 DEF ServerDoes, Stored
  <2>2. r.room \in Rooms /\ NoMark \in Marks \cup {NoMark} /\ ShowsRoom(NoItem, NoMark)
    BY <1>4, RequestFacts DEF ShowsRoom
  <2>3. Shows(private, roomItems', kept') /\ kept' \in Keeps /\ DOMAIN roomItems' = Rooms
    BY <1>1, <2>1, <2>2, Republished
  <2> QED
    BY <1>1, <1>4, <2>1, <2>3 DEF Reads
<1>5. CASE r.op \in {"purge", "delete"}
  <2>1. /\ private' = private /\ roomItems' = NoItems /\ nodeExists' \in {nodeExists, FALSE} /\ kept' = NoNative
    BY <1>5 DEF ServerDoes, Stored
  <2>2. Shows(private, NoItems, NoNative) /\ NoNative \in Keeps /\ DOMAIN NoItems = Rooms
    BY ClearShows
  <2> QED
    BY <1>1, <1>5, <2>1, <2>2 DEF Reads
<1>6. CASE r.op = "create"
  <2>1. private' = private /\ roomItems' = roomItems /\ nodeExists' = TRUE /\ kept' = kept
    BY <1>6 DEF ServerDoes, Stored
  <2> QED
    BY <1>1, <2>1
<1>7. CASE r.op \notin {"set", "publish", "retract", "purge", "delete", "create"}
  <2>1. private' = private /\ roomItems' = roomItems /\ nodeExists' = nodeExists /\ kept' = kept
    BY <1>7 DEF ServerDoes
  <2> QED
    BY <1>1, <2>1
<1> QED
  BY <1>2, <1>3, <1>4, <1>5, <1>6, <1>7

LEMMA CompliesKeeps ==
    ASSUME BookmarksInv, ServerComplies
    PROVE  BookmarksInv'
<1> USE DEF BookmarksInv
<1>1. PICK r : r = Head(bookmarkOut)
  OBVIOUS
<1>2. PICK c : c = r.call
  OBVIOUS
<1>3. /\ r \in Requests /\ c \in BookmarkCalls /\ Means(r)
      /\ bookmarkCall[c].at = "asked" => bookmarkCall[c].op = r.op
  BY <1>1, <1>2, FirstRequest DEF ServerComplies
<1>4. PICK v : v = IF r.op \in Reads THEN [private |-> private, items |-> roomItems] ELSE "done"
  OBVIOUS
<1>5. /\ bookmarkOut # <<>> /\ bookmarkOut' = Tail(bookmarkOut)
      /\ ServerDoes(r) /\ Answered(r, v) /\ Held /\ foreign' = foreign
  BY <1>1, <1>4 DEF ServerComplies
<1>6. PICK s : s = [at |-> "answered", op |-> r.op, response |-> v]
  OBVIOUS
<1>7. s.at = "answered" /\ s.op = r.op /\ s.response = v
  BY <1>6
<1>8. bookmarkCall' = IF bookmarkCall[c].at = "asked" THEN [bookmarkCall EXCEPT ![c] = s] ELSE bookmarkCall
  BY <1>2, <1>5, <1>6 DEF Answered
<1>9. /\ Shows(private', roomItems', kept') /\ kept' \in Keeps /\ DOMAIN roomItems' = Rooms
      /\ nodeExists' \in BOOLEAN
      /\ r.op \in Reads => kept' = kept
  BY <1>3, <1>5, DoesShows
<1>10. /\ DOMAIN held' = BookmarkCalls
       /\ \A d \in BookmarkCalls : held[d] \subseteq held'[d] /\ CallFits(bookmarkCall[d], held'[d], kept')
  BY <1>5, HeldFits
<1>11. DOMAIN bookmarkCall' = BookmarkCalls /\ \A d \in BookmarkCalls : d # c => bookmarkCall'[d] = bookmarkCall[d]
  BY <1>8 DEF BookmarkTypes
<1>12. ASSUME bookmarkCall[c].at = "asked" PROVE CallFits(bookmarkCall'[c], held'[c], kept')
  <2>1. bookmarkCall'[c] = s
    BY <1>3, <1>8, <1>12 DEF BookmarkTypes
  <2>2. CallFits(s, held'[c], kept')
    <3>1. CASE r.op \in Reads
      <4>1. kept \in held[c]
        <5>1. CallFits(bookmarkCall[c], held[c], kept)
          BY <1>3 DEF CallsInv
        <5> QED
          BY <1>3, <1>12, <3>1, <5>1 DEF CallFits
      <4>2. v.private = private /\ v.items = roomItems
        BY <1>4, <3>1
      <4>3. Shows(v.private, v.items, kept) /\ kept \in held'[c]
        BY <1>3, <1>10, <4>1, <4>2 DEF StoredInv
      <4> QED
        BY <1>7, <4>3 DEF CallFits, CallStages
    <3>2. CASE r.op \notin Reads
      BY <1>7, <3>2 DEF CallFits, CallStages
    <3> QED
      BY <3>1, <3>2
  <2> QED
    BY <2>1, <2>2
<1>13. ASSUME bookmarkCall[c].at # "asked" PROVE CallFits(bookmarkCall'[c], held'[c], kept')
  BY <1>3, <1>8, <1>10, <1>13
<1>14. \A d \in BookmarkCalls : CallFits(bookmarkCall'[d], held'[d], kept')
  BY <1>10, <1>11, <1>12, <1>13
<1>15. CallsInv'
  BY <1>14 DEF CallsInv
<1>16. bookmarkOut' \in Seq(Requests) /\ OutInv'
  BY <1>1, <1>2, <1>5, <1>11, ServedOut
<1>17. BookmarkTypes'
  BY <1>5, <1>9, <1>10, <1>11, <1>16 DEF BookmarkTypes
<1>18. StoredInv'
  BY <1>9 DEF StoredInv
<1> QED
  BY <1>15, <1>16, <1>17, <1>18

LEMMA ForeignKeeps ==
    ASSUME BookmarksInv, NEW jid \in Rooms, NEW mark \in Marks, NEW raw \in {"1", "0"}, ForeignPublish(jid, mark, raw)
    PROVE  BookmarksInv'
<1> USE DEF BookmarksInv
<1>1. PICK item : item = [autojoin |-> raw, children |-> NickChildren(mark) \o mark.extensions]
  OBVIOUS
<1>2. /\ foreign < MaxForeign /\ foreign' = foreign + 1
      /\ mark.autojoin <=> raw \in {"true", "1"}
      /\ roomItems' = [roomItems EXCEPT ![jid] = item] /\ nodeExists' = TRUE
      /\ kept' = [kept EXCEPT !.native[jid] = mark]
      /\ Held /\ UNCHANGED <<bookmarkCall, bookmarkOut, private>>
  BY <1>1 DEF ForeignPublish
<1>3. item # NoItem /\ ParseNative(item) = Surviving(mark) /\ mark # NoMark
  <2>1. raw \in Raws
    BY DEF Raws
  <2> QED
    BY <1>1, <1>2, <2>1, NativeReadBack, MarkTypes
<1>4. ShowsRoom(item, mark)
  BY <1>3 DEF ShowsRoom
<1>5. Shows(private, roomItems', kept') /\ kept' \in Keeps /\ DOMAIN roomItems' = Rooms
  <2>1. kept \in Keeps /\ DOMAIN roomItems = Rooms /\ Shows(private, roomItems, kept) /\ mark \in Marks \cup {NoMark}
    BY DEF BookmarkTypes, StoredInv
  <2> QED
    BY <1>2, <1>4, <2>1, Republished
<1>6. /\ DOMAIN held' = BookmarkCalls
      /\ \A d \in BookmarkCalls : CallFits(bookmarkCall[d], held'[d], kept')
  BY <1>2, HeldFits
<1>7. CallsInv'
  BY <1>2, <1>6 DEF CallsInv
<1>8. BookmarkTypes'
  BY <1>2, <1>5, <1>6, BookmarkBounds DEF BookmarkTypes
<1>9. StoredInv'
  BY <1>2, <1>5 DEF StoredInv
<1>10. OutInv'
  BY <1>2 DEF OutInv
<1> QED
  BY <1>7, <1>8, <1>9, <1>10

LEMMA ForeignSetKeeps == ASSUME BookmarksInv, NEW list \in Lists, ForeignSet(list) PROVE BookmarksInv'
<1> USE DEF BookmarksInv
<1>1. PICK raws : raws = [i \in DOMAIN list |-> IF list[i].mark.autojoin THEN "1" ELSE "0"]
  OBVIOUS
<1>2. PICK nodes : nodes = [i \in DOMAIN list |-> LegacyWritten(list[i].jid, raws[i], list[i].mark)]
  OBVIOUS
<1>3. /\ foreign < MaxForeign /\ foreign' = foreign + 1
      /\ private' = nodes /\ kept' = [kept EXCEPT !.legacy = list]
      /\ Held /\ UNCHANGED <<bookmarkCall, bookmarkOut, roomItems, nodeExists>>
  BY <1>1, <1>2 DEF ForeignSet
<1>4. \A i \in DOMAIN list : raws[i] \in Raws /\ (list[i].mark.autojoin <=> raws[i] \in {"true", "1"})
  BY <1>1 DEF Raws
<1>5. list \in MeantLists /\ nodes \in Seq(Conferences) /\ ReadLegacy(nodes) = BareList(list)
  BY <1>2, <1>4, ListReadBack
<1>6. Shows(private', roomItems', kept') /\ kept' \in Keeps
  <2>1. kept \in Keeps /\ Shows(private, roomItems, kept)
    BY DEF BookmarkTypes, StoredInv
  <2> QED
    BY <1>3, <1>5, <2>1, SetShows
<1>7. /\ DOMAIN held' = BookmarkCalls
      /\ \A d \in BookmarkCalls : CallFits(bookmarkCall[d], held'[d], kept')
  BY <1>3, HeldFits
<1>8. CallsInv'
  BY <1>3, <1>7 DEF CallsInv
<1>9. BookmarkTypes'
  BY <1>3, <1>6, <1>7, BookmarkBounds DEF BookmarkTypes
<1>10. StoredInv' /\ OutInv'
  BY <1>3, <1>6 DEF StoredInv, OutInv
<1> QED
  BY <1>8, <1>9, <1>10
-----------------------------------------------------------------------------
(* Bookmarks: every step. *)

LEMMA BookmarksStep ==
    ASSUME BookmarksInv, [BookmarksNext]_bookmarkVars
    PROVE  BookmarksInv'
<1>1. ASSUME NEW c \in BookmarkCalls, NEW l \in Lists, LegacySet(c, l) PROVE BookmarksInv'
  <2>1. CASE \E i \in DOMAIN l : l[i].jid = NoRoom
    BY <1>1, <2>1, RefusedKeeps DEF LegacySet
  <2>2. CASE ~\E i \in DOMAIN l : l[i].jid = NoRoom
    <3>1. PICK nodes : nodes = [i \in DOMAIN l |-> LegacyNode(l[i].jid, l[i].mark)]
      OBVIOUS
    <3>7. PICK raws : raws = [i \in DOMAIN l |-> AutoJoinAttr(l[i].mark)]
      OBVIOUS
    <3>8. \A i \in DOMAIN l : raws[i] \in Raws /\ (l[i].mark.autojoin <=> raws[i] \in {"true", "1"})
      BY <3>7 DEF AutoJoinAttr, Raws
    <3>9. nodes = [i \in DOMAIN l |-> LegacyWritten(l[i].jid, raws[i], l[i].mark)]
      BY <3>1, <3>7 DEF LegacyNode
    <3>2. PICK q : q = [op |-> "set", call |-> c, nodes |-> nodes, meant |-> l]
      OBVIOUS
    <3>3. l \in MeantLists /\ nodes \in Seq(Conferences) /\ ReadLegacy(nodes) = BareList(l)
      BY <3>8, <3>9, ListReadBack
    <3>4. q \in SetRequests
      BY <3>2, <3>3 DEF SetRequests
    <3>5. q \in Requests /\ q.call = c /\ Means(q)
      BY <3>2, <3>3, <3>4 DEF Requests, Means
    <3>6. Asks(c, q)
      BY <1>1, <2>2, <3>1, <3>2 DEF LegacySet, PrivateSet
    <3> QED
      BY <3>5, <3>6, AsksKeeps
  <2> QED
    BY <2>1, <2>2
<1>2. ASSUME NEW c \in BookmarkCalls, NEW jid \in Rooms \cup {NoRoom}, NEW m \in Marks, NativePublish(c, jid, m)
      PROVE  BookmarksInv'
  <2>1. CASE jid = NoRoom
    BY <1>2, <2>1, RefusedKeeps DEF NativePublish
  <2>2. CASE jid # NoRoom
    <3>1. PICK node : node = NativeNode(m)
      OBVIOUS
    <3>2. PICK q : q = [op |-> "publish", call |-> c, room |-> jid, node |-> node, meant |-> m]
      OBVIOUS
    <3>3. node \in ItemNodes /\ ShowsRoom(node, m)
      <4>1. PICK raw : raw = AutoJoinAttr(m)
        OBVIOUS
      <4>2. raw \in Raws /\ (m.autojoin <=> raw \in {"true", "1"})
        BY <4>1, MarkTypes DEF AutoJoinAttr, Raws
      <4>3. node = [autojoin |-> raw, children |-> NickChildren(m) \o m.extensions]
        BY <3>1, <4>1 DEF NativeNode
      <4>4. node \in ItemNodes /\ node # NoItem /\ ParseNative(node) = Surviving(m) /\ m # NoMark
        BY <4>2, <4>3, NativeReadBack, MarkTypes
      <4> QED
        BY <4>4 DEF ShowsRoom
    <3>4. q \in PublishRequests
      BY <2>2, <3>2, <3>3 DEF PublishRequests
    <3>5. q \in Requests /\ q.call = c /\ Means(q)
      BY <3>2, <3>3, <3>4 DEF Requests, Means
    <3>6. Asks(c, q)
      BY <1>2, <2>2, <3>1, <3>2 DEF NativePublish, PubSubPublish
    <3> QED
      BY <3>5, <3>6, AsksKeeps
  <2> QED
    BY <2>1, <2>2
<1>3. ASSUME NEW c \in BookmarkCalls, NEW jid \in Rooms, NativeDelete(c, jid) PROVE BookmarksInv'
  <2>1. PICK q : q = [op |-> "retract", call |-> c, room |-> jid]
    OBVIOUS
  <2>2. q \in RetractRequests
    BY <2>1 DEF RetractRequests
  <2>3. q \in Requests /\ q.call = c /\ Means(q)
    BY <2>1, <2>2 DEF Requests, Means
  <2>4. Asks(c, q)
    BY <1>3, <2>1 DEF NativeDelete, PubSubRetract
  <2> QED
    BY <2>3, <2>4, AsksKeeps
<1>4. ASSUME NEW c \in BookmarkCalls, NEW o \in {"get", "items", "purge", "delete", "create"},
             Asks(c, [op |-> o, call |-> c])
      PROVE  BookmarksInv'
  <2>1. PICK q : q = [op |-> o, call |-> c]
    OBVIOUS
  <2>2. q \in PlainRequests
    BY <2>1 DEF PlainRequests
  <2>3. q \in Requests /\ q.call = c /\ Means(q)
    BY <2>1, <2>2 DEF Requests, Means
  <2>4. Asks(c, q)
    BY <1>4, <2>1
  <2> QED
    BY <2>3, <2>4, AsksKeeps
<1>5. ASSUME NEW c \in BookmarkCalls,
             LegacyGet(c) \/ NativeGet(c) \/ PubSubPurge(c) \/ PubSubDeleteNode(c) \/ PubSubCreateNode(c)
      PROVE  BookmarksInv'
  <2>1. CASE LegacyGet(c)
    BY <1>4, <2>1 DEF LegacyGet, PrivateGet
  <2>2. CASE NativeGet(c)
    BY <1>4, <2>2 DEF NativeGet, PubSubGetItems
  <2>3. CASE PubSubPurge(c)
    BY <1>4, <2>3 DEF PubSubPurge
  <2>4. CASE PubSubDeleteNode(c)
    BY <1>4, <2>4 DEF PubSubDeleteNode
  <2>5. CASE PubSubCreateNode(c)
    BY <1>4, <2>5 DEF PubSubCreateNode
  <2> QED
    BY <1>5, <2>1, <2>2, <2>3, <2>4, <2>5
<1>6. CASE UNCHANGED bookmarkVars
  <2>1. UNCHANGED <<bookmarkCall, bookmarkOut, private, roomItems, nodeExists, foreign, kept, held>>
    BY <1>6 DEF bookmarkVars
  <2> QED
    BY <2>1 DEF BookmarksInv, BookmarkTypes, StoredInv, OutInv, CallsInv
<1> QED
  BY <1>1, <1>2, <1>3, <1>5, <1>6, CompliesKeeps, DeclinesKeeps, ForeignKeeps,
     ForeignSetKeeps, ReturnsKeeps, GivesUpKeeps
     DEF BookmarksNext

(* The invariant holds: what private storage and the node keep always       *)
(* parses to the bookmarks that were meant, and a read under way was there  *)
(* while what it answers was kept.                                          *)
THEOREM BookmarksInvHolds == BookmarksSpec => []BookmarksInv
BY BookmarksInvInit, BookmarksStep, PTL DEF BookmarksSpec

(* The contents of the storage, and what each read has seen.                *)
StorageTypes ==
    /\ private \in Seq(Conferences) /\ roomItems \in [Rooms -> ItemNodes \cup {NoItem}]
    /\ held \in [BookmarkCalls -> SUBSET Keeps]

(* A read that is under way may have seen what is kept now.                 *)
LEMMA HeldTypes ==
    ASSUME held \in [BookmarkCalls -> SUBSET Keeps], kept' \in Keeps, Held
    PROVE  held' \in [BookmarkCalls -> SUBSET Keeps]
BY DEF Held

(* A request and another client's write leave the storage well-formed.      *)
LEMMA StorageStep ==
    ASSUME BookmarksInv, BookmarksInv', StorageTypes, [BookmarksNext]_bookmarkVars
    PROVE  StorageTypes'
<1>0. kept \in Keeps /\ kept' \in Keeps /\ bookmarkOut \in Seq(Requests)
  BY DEF BookmarksInv, BookmarkTypes
<1>1. CASE UNCHANGED <<private, roomItems, held>>
  BY <1>1 DEF StorageTypes
<1>2. ASSUME NEW c \in BookmarkCalls, NEW h \in SUBSET Keeps, held' = [held EXCEPT ![c] = h],
             UNCHANGED <<private, roomItems>>
      PROVE  StorageTypes'
  BY <1>2 DEF StorageTypes
<1>3. ASSUME NEW c \in BookmarkCalls, NEW q, Asks(c, q) PROVE StorageTypes'
  <2>1. (IF q.op \in Reads THEN {kept} ELSE {}) \in SUBSET Keeps
    BY <1>0
  <2> QED
    BY <1>2, <1>3, <2>1 DEF Asks
<1>4. ASSUME NEW c \in BookmarkCalls, NEW l \in Lists, LegacySet(c, l) PROVE StorageTypes'
  BY <1>1, <1>3, <1>4 DEF LegacySet, PrivateSet, Refused
<1>5. ASSUME NEW c \in BookmarkCalls, NEW jid, NEW m, NativePublish(c, jid, m) PROVE StorageTypes'
  BY <1>1, <1>3, <1>5 DEF NativePublish, PubSubPublish, Refused
<1>6. ASSUME NEW c \in BookmarkCalls, NEW jid, NativeDelete(c, jid) PROVE StorageTypes'
  BY <1>3, <1>6 DEF NativeDelete, PubSubRetract
<1>7. ASSUME NEW c \in BookmarkCalls,
             LegacyGet(c) \/ NativeGet(c) \/ PubSubPurge(c) \/ PubSubDeleteNode(c) \/ PubSubCreateNode(c)
      PROVE  StorageTypes'
  BY <1>3, <1>7 DEF LegacyGet, PrivateGet, NativeGet, PubSubGetItems, PubSubPurge, PubSubDeleteNode,
                    PubSubCreateNode
<1>8. ASSUME NEW c \in BookmarkCalls, CallReturns(c) \/ CallGivesUp(c) PROVE StorageTypes'
  BY <1>1, <1>2, <1>8 DEF CallReturns, CallGivesUp
<1>9. CASE ServerComplies
  <2>1. held' \in [BookmarkCalls -> SUBSET Keeps]
    BY <1>0, <1>9, HeldTypes DEF ServerComplies, StorageTypes
  <2>2. PICK q : q = Head(bookmarkOut)
    OBVIOUS
  <2>3. q \in Requests /\ ServerDoes(q)
    BY <1>0, <1>9, <2>2 DEF ServerComplies
  <2>4. /\ q.op = "set" => q.nodes \in Seq(Conferences)
        /\ q.op = "publish" => q.node \in ItemNodes
    BY <2>3, RequestFacts
  <2>5. /\ private' \in {private, q.nodes} /\ (private' # private => q.op = "set")
        /\ \/ roomItems' = roomItems \/ roomItems' = NoItems
           \/ q.op = "publish" /\ roomItems' = [roomItems EXCEPT ![q.room] = q.node]
           \/ roomItems' = [roomItems EXCEPT ![q.room] = NoItem]
    BY <2>3 DEF ServerDoes, Stored
  <2>6. private' \in Seq(Conferences)
    BY <2>4, <2>5 DEF StorageTypes
  <2>7. roomItems' \in [Rooms -> ItemNodes \cup {NoItem}]
    BY <2>4, <2>5 DEF StorageTypes, NoItems
  <2> QED
    BY <2>1, <2>6, <2>7 DEF StorageTypes
<1>10. CASE ServerDeclines
  <2>1. PICK q : q = Head(bookmarkOut)
    OBVIOUS
  <2>2. q \in Requests
    BY <1>0, <1>10, <2>1 DEF ServerDeclines
  <2>3. q.call \in BookmarkCalls /\ {} \in SUBSET Keeps
    BY <2>2, RequestFacts
  <2>4. held' = [held EXCEPT ![q.call] = {}] /\ UNCHANGED <<private, roomItems>>
    BY <1>10, <2>1 DEF ServerDeclines
  <2> QED
    BY <1>2, <2>3, <2>4
<1>11. ASSUME NEW jid \in Rooms, NEW mark \in Marks, NEW raw \in {"1", "0"}, ForeignPublish(jid, mark, raw)
       PROVE  StorageTypes'
  <2>1. held' \in [BookmarkCalls -> SUBSET Keeps]
    BY <1>0, <1>11, HeldTypes DEF ForeignPublish, StorageTypes
  <2>2. PICK item : item = [autojoin |-> raw, children |-> NickChildren(mark) \o mark.extensions]
    OBVIOUS
  <2>3. item \in ItemNodes
    <3>1. raw \in Raws
      BY DEF Raws
    <3>2. mark.autojoin <=> raw \in {"true", "1"}
      BY <1>11 DEF ForeignPublish
    <3> QED
      BY <2>2, <3>1, <3>2, NativeReadBack, MarkTypes
  <2>4. roomItems' = [roomItems EXCEPT ![jid] = item] /\ UNCHANGED private
    BY <1>11, <2>2 DEF ForeignPublish
  <2> QED
    BY <2>1, <2>3, <2>4 DEF StorageTypes
<1>12. ASSUME NEW list \in Lists, ForeignSet(list) PROVE StorageTypes'
  <2>1. held' \in [BookmarkCalls -> SUBSET Keeps]
    BY <1>0, <1>12, HeldTypes DEF ForeignSet, StorageTypes
  <2>2. PICK raws : raws = [i \in DOMAIN list |-> IF list[i].mark.autojoin THEN "1" ELSE "0"]
    OBVIOUS
  <2>3. PICK nodes : nodes = [i \in DOMAIN list |-> LegacyWritten(list[i].jid, raws[i], list[i].mark)]
    OBVIOUS
  <2>4. \A i \in DOMAIN list : raws[i] \in Raws /\ (list[i].mark.autojoin <=> raws[i] \in {"true", "1"})
    BY <2>2 DEF Raws
  <2>5. nodes \in Seq(Conferences)
    BY <2>3, <2>4, ListReadBack
  <2>6. private' = nodes /\ UNCHANGED roomItems
    BY <1>12, <2>2, <2>3 DEF ForeignSet
  <2> QED
    BY <2>1, <2>5, <2>6 DEF StorageTypes
<1>13. UNCHANGED bookmarkVars => UNCHANGED <<private, roomItems, held>>
  BY DEF bookmarkVars
<1> QED
  BY <1>1, <1>4, <1>5, <1>6, <1>7, <1>8, <1>9, <1>10, <1>11, <1>12, <1>13 DEF BookmarksNext

(* Each call is at one of its stages; every request on its way, the private *)
(* storage, the items of the node and what each read has seen kept are well *)
(* formed, whatever the calls and the other clients write                   *)
(* (storage_upload.go:93-129, 161-193, 225-270).                            *)
THEOREM BookmarksTypesHold == BookmarksSpec => []BookmarksTypeOK
<1>1. BookmarksInv /\ StorageTypes => BookmarksTypeOK
  <2> SUFFICES ASSUME BookmarksInv, StorageTypes PROVE BookmarksTypeOK
    OBVIOUS
  <2>1. \A c \in BookmarkCalls : bookmarkCall[c].at \in {"idle", "asked", "answered", "returned", "failed"}
    BY DEF BookmarksInv, CallsInv, CallFits, CallStages
  <2> QED
    BY <2>1 DEF BookmarksInv, BookmarkTypes, StorageTypes, BookmarksTypeOK
<1>2. BookmarksInit => StorageTypes
  BY DEF BookmarksInit, StorageTypes
<1>3. BookmarksInv /\ BookmarksInv' /\ StorageTypes /\ [BookmarksNext]_bookmarkVars => StorageTypes'
  BY StorageStep
<1> QED
  BY <1>1, <1>2, <1>3, BookmarksInvHolds, PTL DEF BookmarksSpec

(* A Get that succeeds returns the bookmarks as they were kept at one       *)
(* moment of the call and, but for the extensions that storage loses, as    *)
(* they were meant, for any rooms, bookmarks, lists, calls and changes by   *)
(* other clients (storage_upload.go:93-129, 161-193, 225-270).              *)
THEOREM BookmarksExactHolds == BookmarksSpec => []BookmarksExact
<1>1. BookmarksInv => BookmarksExact
  <2> SUFFICES ASSUME BookmarksInv, NEW c \in BookmarkCalls, bookmarkCall[c].at = "returned"
               PROVE  /\ bookmarkCall[c].op = "get" => \E k \in held[c] : GotList(bookmarkCall[c].result, k)
                      /\ bookmarkCall[c].op = "items" => \E k \in held[c] : GotRooms(bookmarkCall[c].result, k)
    BY DEF BookmarksExact, GotList, BareList, GotRooms
  <2>1. CallFits(bookmarkCall[c], held[c], kept)
    BY DEF BookmarksInv, CallsInv
  <2> QED
    BY <2>1 DEF CallFits
<1> QED
  BY <1>1, BookmarksInvHolds, PTL

-----------------------------------------------------------------------------
(* The store: its inductive invariant. *)

PCs == {"idle", "read", "generate", "persist", "marshal", "write", "writing", "rename",
        "done", "failed"}
Persisting == {"marshal", "write", "writing", "rename"}  \* between Lock and Unlock of persistMu
HasSnap == {"write", "writing", "rename"}

(* A call and its locals.                                                   *)
Call == [pc : PCs, key : Keys \cup {""}, change : 0..MaxPuts, id : DeviceIDs \cup {0},
         before : DeviceIDs \cup {0}, snap : Data, counts : BOOLEAN]

(* The file is never torn, and each call's locals have their types.         *)
StoreTypes ==
    /\ memory \in Data /\ disk \in Data /\ tmp \in Data \cup {Torn}
    /\ persisting \in StoreCalls \cup {Nobody}
    /\ storeCall \in [StoreCalls -> Call]
    /\ \A c \in StoreCalls : storeCall[c].change # 0 => storeCall[c].key \in Keys
    /\ confirmed \in [Keys -> 0..MaxPuts]
    /\ inProcess \subseteq DeviceIDs /\ returned \subseteq DeviceIDs
    /\ puts \in 0..MaxPuts /\ crashes \in 0..MaxCrashes /\ diskFails \in 0..MaxDiskFails

(* One call at a time is in persist, and it is the one that has the mutex.  *)
Serialized == \A c \in StoreCalls : storeCall[c].pc \in Persisting => persisting = c

(* What is reported as done is in the file, and what is in the file is in   *)
(* the memory, or a later change of the same key.                           *)
Layers ==
    \A k \in Keys : /\ confirmed[k] <= disk.at[k]
                    /\ disk.at[k] <= memory.at[k]
                    /\ memory.at[k] <= puts

(* A snapshot that is being written lies between the file and the memory.   *)
Snapshots ==
    \A c \in StoreCalls : storeCall[c].pc \in HasSnap =>
        \A k \in Keys : /\ disk.at[k] <= storeCall[c].snap.at[k]
                        /\ storeCall[c].snap.at[k] <= memory.at[k]

(* The change of a call is in the memory until the snapshot is taken, and   *)
(* in the snapshot from then on; OwnDeviceID makes no change of a key.      *)
ChangeCarried ==
    \A c \in StoreCalls : storeCall[c].change # 0 =>
        /\ storeCall[c].pc \notin {"read", "generate"}
        /\ storeCall[c].pc \in {"persist", "marshal"}
              => storeCall[c].change <= memory.at[storeCall[c].key]
        /\ storeCall[c].pc \in HasSnap
              => storeCall[c].change <= storeCall[c].snap.at[storeCall[c].key]

(* What is renamed is the snapshot of the call that renames it.             *)
TmpWhole == \A c \in StoreCalls : storeCall[c].pc = "rename" => tmp = storeCall[c].snap

(* The inductive invariant of the file.                                     *)
FileInv == StoreTypes /\ Serialized /\ Layers /\ Snapshots /\ ChangeCarried /\ TmpWhole

(* A file that was written in part is not one that OpenJSONStore can read   *)
(* (store.go:143-173).                                                      *)
LEMMA TornIsNoData == Torn \notin Data
<1> SUFFICES ASSUME Torn \in Data PROVE FALSE
  OBVIOUS
<1>1. DOMAIN Torn = {"own", "at"}
  BY DEF Data
<1>2. DOMAIN Torn = {"torn"}
  BY DEF Torn
<1> QED
  BY <1>1, <1>2

LEMMA EmptyIsData == Empty \in Data
BY StoreAssumption DEF Empty, Data

LEMMA IdleIsCall == IdleCall \in Call /\ IdleCall.pc = "idle" /\ IdleCall.change = 0 /\ IdleCall.id = 0
<1>1. IdleCall \in Call
  BY StoreAssumption, EmptyIsData DEF Call, IdleCall, PCs
<1> QED
  BY <1>1 DEF IdleCall

(* A step of one call to its next point leaves its locals and the other     *)
(* calls alone.                                                             *)
LEMMA GoToKeeps ==
  ASSUME storeCall \in [StoreCalls -> Call], NEW c \in StoreCalls, NEW p \in PCs, GoTo(c, p)
  PROVE  /\ storeCall' \in [StoreCalls -> Call]
         /\ \A d \in StoreCalls : d # c => storeCall'[d] = storeCall[d]
         /\ storeCall'[c].pc = p
         /\ storeCall'[c].key = storeCall[c].key /\ storeCall'[c].change = storeCall[c].change
         /\ storeCall'[c].id = storeCall[c].id /\ storeCall'[c].snap = storeCall[c].snap
         /\ storeCall'[c].counts = storeCall[c].counts
<1> DEFINE r == [storeCall[c] EXCEPT !.pc = p]
<1>1. /\ r \in Call /\ r.pc = p
      /\ r.key = storeCall[c].key /\ r.change = storeCall[c].change
      /\ r.id = storeCall[c].id /\ r.snap = storeCall[c].snap /\ r.counts = storeCall[c].counts
  BY DEF Call
<1>2. storeCall' = [storeCall EXCEPT ![c] = r]
  BY DEF GoTo
<1> HIDE DEF r
<1> QED
  BY <1>1, <1>2

(* A call that enters persist with its change (store.go:211-233).           *)
LEMMA PutCall ==
  ASSUME StoreTypes, NEW c \in StoreCalls, NEW k \in Keys, Put(c, k)
  PROVE  /\ storeCall' \in [StoreCalls -> Call]
         /\ \A d \in StoreCalls : d # c => storeCall'[d] = storeCall[d]
         /\ storeCall'[c].pc = "persist" /\ storeCall'[c].key = k
         /\ storeCall'[c].change = puts + 1 /\ storeCall'[c].id = 0
<1> DEFINE r == [IdleCall EXCEPT !.pc = "persist", !.key = k, !.change = puts + 1]
<1>1. puts + 1 \in 0..MaxPuts
  BY StoreAssumption DEF Put, StoreTypes
<1>2. r \in Call /\ r.pc = "persist" /\ r.key = k /\ r.change = puts + 1 /\ r.id = 0
  BY <1>1, IdleIsCall DEF Call, PCs
<1>3. storeCall' = [storeCall EXCEPT ![c] = r]
  BY DEF Put
<1> HIDE DEF r
<1> QED
  BY <1>2, <1>3 DEF StoreTypes

(* The calls under way when an ID is set keep their place but count no      *)
(* longer as returning the ID of this period.                               *)
LEMMA SetOwnCall ==
  ASSUME StoreTypes, NEW c \in StoreCalls, NEW i \in DeviceIDs, SetOwnDeviceID(c, i)
  PROVE  /\ storeCall' \in [StoreCalls -> Call]
         /\ storeCall'[c].pc = "persist" /\ storeCall'[c].change = 0 /\ storeCall'[c].id = 0
         /\ \A d \in StoreCalls : d # c =>
               /\ storeCall'[d].pc = storeCall[d].pc /\ storeCall'[d].key = storeCall[d].key
               /\ storeCall'[d].change = storeCall[d].change
               /\ storeCall'[d].snap = storeCall[d].snap
               /\ storeCall'[d].id = storeCall[d].id /\ storeCall'[d].counts = FALSE
<1> DEFINE r == [IdleCall EXCEPT !.pc = "persist"]
           s(d) == [storeCall[d] EXCEPT !.counts = FALSE]
<1>1. r \in Call /\ r.pc = "persist" /\ r.change = 0 /\ r.id = 0
  BY IdleIsCall DEF Call, PCs
<1>2. ASSUME NEW d \in StoreCalls
      PROVE  /\ s(d) \in Call /\ s(d).pc = storeCall[d].pc /\ s(d).key = storeCall[d].key
             /\ s(d).change = storeCall[d].change /\ s(d).snap = storeCall[d].snap
             /\ s(d).id = storeCall[d].id /\ s(d).counts = FALSE
  BY DEF StoreTypes, Call
<1>3. storeCall' = [d \in StoreCalls |-> IF d = c THEN r ELSE s(d)]
  BY DEF SetOwnDeviceID
<1> HIDE DEF r, s
<1> QED
  BY <1>1, <1>2, <1>3

(* OwnDeviceID begins (store.go:235-238).                                   *)
LEMMA OwnCall ==
  ASSUME StoreTypes, NEW c \in StoreCalls, OwnDeviceID(c)
  PROVE  /\ storeCall' \in [StoreCalls -> Call]
         /\ \A d \in StoreCalls : d # c => storeCall'[d] = storeCall[d]
         /\ storeCall'[c].pc = "read" /\ storeCall'[c].change = 0 /\ storeCall'[c].id = 0
<1> DEFINE r == [IdleCall EXCEPT !.pc = "read", !.before = memory.own]
<1>1. memory.own \in DeviceIDs \cup {0}
  BY DEF StoreTypes, Data
<1>2. r \in Call /\ r.pc = "read" /\ r.change = 0 /\ r.id = 0
  BY <1>1, IdleIsCall DEF Call, PCs
<1>3. storeCall' = [storeCall EXCEPT ![c] = r]
  BY DEF OwnDeviceID
<1> HIDE DEF r
<1> QED
  BY <1>2, <1>3 DEF StoreTypes

(* A call that has an ID in hand persists it or returns (store.go:239-249). *)
LEMMA OwnNextCall ==
  ASSUME StoreTypes, NEW c \in StoreCalls, NEW i \in DeviceIDs, OwnNext(c, i)
  PROVE  /\ storeCall' \in [StoreCalls -> Call]
         /\ \A d \in StoreCalls : d # c => storeCall'[d] = storeCall[d]
         /\ storeCall'[c].pc \in {"persist", "done"} /\ storeCall'[c].key = storeCall[c].key
         /\ storeCall'[c].change = storeCall[c].change /\ storeCall'[c].id = i
         /\ storeCall'[c].counts = storeCall[c].counts
         /\ confirmed' = confirmed
         /\ \/ UNCHANGED <<returned, inProcess>>
            \/ /\ storeCall[c].counts = TRUE
               /\ returned' = returned \cup {i} /\ inProcess' = inProcess \cup {i}
<1> DEFINE r(p) == [storeCall[c] EXCEPT !.id = i, !.pc = p]
<1>1. ASSUME NEW p \in {"persist", "done"}
      PROVE  /\ r(p) \in Call /\ r(p).pc = p /\ r(p).key = storeCall[c].key
             /\ r(p).change = storeCall[c].change /\ r(p).id = i
             /\ r(p).counts = storeCall[c].counts
  BY ZenonT(40) DEF StoreTypes, Call, PCs
<1>2. PICK p \in {"persist", "done"} : storeCall' = [storeCall EXCEPT ![c] = r(p)]
  BY DEF OwnNext
<1>3. storeCall[c].counts \in BOOLEAN
  BY DEF StoreTypes, Call
<1>4. /\ confirmed' = confirmed
      /\ \/ UNCHANGED <<returned, inProcess>>
         \/ /\ storeCall[c].counts = TRUE
            /\ returned' = returned \cup {i} /\ inProcess' = inProcess \cup {i}
  BY <1>3 DEF OwnNext, Returns, storeHistory
<1> HIDE DEF r
<1> QED
  BY <1>1, <1>2, <1>4 DEF StoreTypes

(* The snapshot that persist takes under mu (store.go:175-185).             *)
LEMMA MarshalCall ==
  ASSUME StoreTypes, NEW c \in StoreCalls, Marshal(c)
  PROVE  /\ storeCall' \in [StoreCalls -> Call]
         /\ \A d \in StoreCalls : d # c => storeCall'[d] = storeCall[d]
         /\ storeCall'[c].pc = "write" /\ storeCall'[c].snap = memory
         /\ storeCall'[c].key = storeCall[c].key /\ storeCall'[c].change = storeCall[c].change
         /\ storeCall'[c].id = storeCall[c].id /\ storeCall'[c].counts = storeCall[c].counts
<1> DEFINE r == [storeCall[c] EXCEPT !.snap = memory, !.pc = "write"]
<1>1. /\ r \in Call /\ r.pc = "write" /\ r.snap = memory /\ r.key = storeCall[c].key
      /\ r.change = storeCall[c].change /\ r.id = storeCall[c].id
      /\ r.counts = storeCall[c].counts
  BY ZenonT(40) DEF StoreTypes, Call, PCs
<1>2. storeCall' = [storeCall EXCEPT ![c] = r]
  BY DEF Marshal
<1> HIDE DEF r
<1> QED
  BY <1>1, <1>2 DEF StoreTypes

(* The change that a step makes in the memory keeps its type.               *)
LEMMA MemoryTypes ==
  ASSUME StoreTypes
  PROVE  /\ \A k \in Keys : puts < MaxPuts /\ PutInMemory(k) =>
               /\ memory' \in Data /\ memory'.own = memory.own
               /\ memory'.at = [memory.at EXCEPT ![k] = puts + 1]
         /\ \A i \in DeviceIDs : memory' = [memory EXCEPT !.own = i] =>
               memory' \in Data /\ memory'.own = i /\ memory'.at = memory.at
<1>1. memory \in Data /\ memory.at \in [Keys -> 0..MaxPuts]
  BY DEF StoreTypes, Data
<1>2. ASSUME NEW k \in Keys, puts < MaxPuts, PutInMemory(k)
      PROVE  /\ memory' \in Data /\ memory'.own = memory.own
             /\ memory'.at = [memory.at EXCEPT ![k] = puts + 1]
  <2>1. puts + 1 \in 0..MaxPuts
    BY <1>2, StoreAssumption DEF StoreTypes
  <2>2. [memory.at EXCEPT ![k] = puts + 1] \in [Keys -> 0..MaxPuts]
    BY <1>1, <2>1
  <2> QED
    BY <1>1, <1>2, <2>2 DEF PutInMemory, Data
<1>3. ASSUME NEW i \in DeviceIDs, memory' = [memory EXCEPT !.own = i]
      PROVE  memory' \in Data /\ memory'.own = i /\ memory'.at = memory.at
  BY <1>1, <1>3 DEF Data
<1> QED
  BY <1>2, <1>3

LEMMA FieldTypes ==
  /\ \A d \in Data : d.own \in DeviceIDs \cup {0} /\ d.at \in [Keys -> 0..MaxPuts]
  /\ \A r \in Call : /\ r.pc \in PCs /\ r.change \in 0..MaxPuts /\ r.snap \in Data
                     /\ r.id \in DeviceIDs \cup {0} /\ r.counts \in BOOLEAN
BY DEF Data, Call

(* OpenJSONStore without a file.                                            *)
LEMMA InitFileInv == StoreInit => FileInv
<1> SUFFICES ASSUME StoreInit PROVE FileInv
  OBVIOUS
<1> USE StoreAssumption, EmptyIsData, IdleIsCall DEF StoreInit
<1>1. StoreTypes
  BY DEF StoreTypes
<1>2. Layers
  BY DEF Layers, Empty
<1>3. Serialized /\ Snapshots /\ ChangeCarried /\ TmpWhole
  BY DEF Serialized, Snapshots, ChangeCarried, TmpWhole, Persisting, HasSnap
<1> QED
  BY <1>1, <1>2, <1>3 DEF FileInv

(* MemoryStore's change and the start of persist (store.go:45-130,          *)
(* 211-233): the change is the latest of its key.                           *)
LEMMA PutStep == ASSUME FileInv, NEW c \in StoreCalls, NEW k \in Keys, Put(c, k) PROVE FileInv'
<1> USE StoreAssumption DEF FileInv
<1>1. /\ memory' \in Data /\ memory'.at = [memory.at EXCEPT ![k] = puts + 1]
      /\ memory.at \in [Keys -> 0..MaxPuts] /\ puts' = puts + 1 /\ puts \in Nat
      /\ UNCHANGED <<disk, tmp, persisting, confirmed, returned, inProcess, crashes, diskFails>>
      /\ puts + 1 \in 0..MaxPuts
  BY MemoryTypes, FieldTypes DEF Put, StoreTypes, storeHistory
<1>2. /\ storeCall' \in [StoreCalls -> Call]
      /\ \A d \in StoreCalls : d # c => storeCall'[d] = storeCall[d]
      /\ storeCall'[c].pc = "persist" /\ storeCall'[c].key = k
      /\ storeCall'[c].change = puts + 1
  BY PutCall
<1>3. StoreTypes'
  BY <1>1, <1>2 DEF StoreTypes
<1>4. Layers'
  BY <1>1, FieldTypes DEF StoreTypes, Layers
<1>5. Serialized' /\ TmpWhole'
  BY <1>1, <1>2 DEF Serialized, TmpWhole, Persisting
<1>6. \A x \in Keys : memory.at[x] <= memory'.at[x]
  BY <1>1 DEF Layers
<1>7. Snapshots'
  <2> SUFFICES ASSUME NEW d \in StoreCalls, storeCall'[d].pc \in HasSnap, NEW x \in Keys
               PROVE  /\ disk'.at[x] <= storeCall'[d].snap.at[x]
                      /\ storeCall'[d].snap.at[x] <= memory'.at[x]
    BY DEF Snapshots
  <2>1. d # c /\ storeCall'[d] = storeCall[d]
    BY <1>2 DEF HasSnap
  <2>2. storeCall[d].snap.at[x] \in Nat /\ memory.at[x] \in Nat /\ memory'.at[x] \in Nat
    BY <1>1, FieldTypes DEF StoreTypes
  <2> QED
    BY <1>1, <1>6, <2>1, <2>2 DEF Snapshots
<1>8. ChangeCarried'
  <2> SUFFICES ASSUME NEW d \in StoreCalls, storeCall'[d].change # 0
               PROVE  /\ storeCall'[d].pc \notin {"read", "generate"}
                      /\ storeCall'[d].pc \in {"persist", "marshal"}
                            => storeCall'[d].change <= memory'.at[storeCall'[d].key]
                      /\ storeCall'[d].pc \in HasSnap
                            => storeCall'[d].change <= storeCall'[d].snap.at[storeCall'[d].key]
    BY DEF ChangeCarried
  <2>1. CASE d = c
    BY <1>1, <1>2, <2>1 DEF HasSnap
  <2>2. CASE d # c
    <3>1. storeCall'[d] = storeCall[d] /\ storeCall[d].change \in Nat /\ storeCall[d].key \in Keys
      BY <1>2, <2>2, FieldTypes DEF StoreTypes
    <3>2. memory.at[storeCall[d].key] \in Nat /\ memory'.at[storeCall[d].key] \in Nat
      BY <1>1, <3>1, FieldTypes
    <3> QED
      BY <1>6, <3>1, <3>2 DEF ChangeCarried
  <2> QED
    BY <2>1, <2>2
<1> QED
  BY <1>3, <1>4, <1>5, <1>7, <1>8

(* A step of one call that leaves the memory's keys, the file and the       *)
(* temporary file alone, and takes the call neither into persist nor past   *)
(* the snapshot, keeps the invariant.                                       *)
LEMMA OutsideStep ==
  ASSUME FileInv, StoreTypes', UNCHANGED <<disk, tmp, persisting, confirmed>>, puts' >= puts,
         memory'.at = memory.at,
         \A d \in StoreCalls :
            \/ storeCall'[d].change = 0 /\ storeCall'[d].pc \notin Persisting
            \/ storeCall'[d].pc \in {"idle", "done", "failed"}
            \/ /\ storeCall'[d].pc = storeCall[d].pc /\ storeCall'[d].key = storeCall[d].key
               /\ storeCall'[d].change = storeCall[d].change
               /\ storeCall'[d].snap = storeCall[d].snap
  PROVE  FileInv'
<1> USE DEF FileInv
<1>1. Layers'
  BY FieldTypes, StoreAssumption DEF Layers, StoreTypes
<1>2. Serialized' /\ TmpWhole'
  BY DEF Serialized, TmpWhole, Persisting
<1>3. Snapshots'
  BY DEF Snapshots, HasSnap, Persisting
<1>4. ChangeCarried'
  BY DEF ChangeCarried, HasSnap, Persisting
<1> QED
  BY <1>1, <1>2, <1>3, <1>4

(* OwnDeviceID and SetOwnDeviceID change no key (store.go:58-92, 235-258).  *)
LEMMA OwnSteps ==
  ASSUME FileInv, NEW c \in StoreCalls,
         \/ OwnDeviceID(c) \/ OwnRead(c)
         \/ \E i \in DeviceIDs : SetOwnDeviceID(c, i) \/ OwnGenerate(c, i)
  PROVE  FileInv'
<1> USE StoreAssumption DEF storeHistory, storeBounds
<1>0. StoreTypes /\ ChangeCarried
  BY DEF FileInv
<1>1. CASE OwnDeviceID(c)
  <2>1. StoreTypes'
    BY <1>0, <1>1, OwnCall DEF OwnDeviceID, StoreTypes
  <2>2. UNCHANGED <<memory, disk, tmp, persisting, confirmed, puts>> /\ puts' >= puts
    BY <1>0, <1>1 DEF OwnDeviceID, StoreTypes
  <2> QED
    BY <1>0, <1>1, <2>1, <2>2, OwnCall, OutsideStep DEF Persisting
<1>2. CASE OwnRead(c)
  <2>1. UNCHANGED <<memory, disk, tmp, persisting, puts, crashes, diskFails>>
        /\ storeCall[c].change = 0 /\ puts' >= puts
    BY <1>0, <1>2 DEF OwnRead, At, ChangeCarried, StoreTypes
  <2>2. CASE memory.own # 0
    <3>1. memory.own \in DeviceIDs /\ OwnNext(c, memory.own)
      BY <1>0, <1>2, <2>2, FieldTypes DEF OwnRead, StoreTypes
    <3>2. /\ storeCall' \in [StoreCalls -> Call]
          /\ \A d \in StoreCalls : d # c => storeCall'[d] = storeCall[d]
          /\ storeCall'[c].pc \in {"persist", "done"}
          /\ storeCall'[c].change = storeCall[c].change
          /\ confirmed' = confirmed
          /\ \/ UNCHANGED <<returned, inProcess>>
             \/ returned' = returned \cup {memory.own} /\ inProcess' = inProcess \cup {memory.own}
      BY <1>0, <3>1, OwnNextCall
    <3>3. StoreTypes'
      BY <1>0, <2>1, <3>1, <3>2 DEF StoreTypes
    <3> QED
      BY <2>1, <3>2, <3>3, OutsideStep DEF Persisting
  <2>3. CASE memory.own = 0
    <3>1. GoTo(c, "generate") /\ UNCHANGED <<confirmed, returned, inProcess>>
      BY <1>2, <2>3 DEF OwnRead
    <3>2. /\ storeCall' \in [StoreCalls -> Call]
          /\ \A d \in StoreCalls : d # c => storeCall'[d] = storeCall[d]
          /\ storeCall'[c].pc = "generate" /\ storeCall'[c].change = storeCall[c].change
      BY <1>0, <3>1, GoToKeeps DEF StoreTypes, PCs
    <3>3. StoreTypes'
      BY <1>0, <2>1, <3>1, <3>2 DEF StoreTypes
    <3> QED
      BY <2>1, <3>1, <3>2, <3>3, OutsideStep DEF Persisting
  <2> QED
    BY <2>2, <2>3
<1>3. ASSUME NEW i \in DeviceIDs, SetOwnDeviceID(c, i) PROVE FileInv'
  <2>1. /\ memory' \in Data /\ memory'.at = memory.at /\ puts' \in 0..MaxPuts /\ puts' >= puts
        /\ UNCHANGED <<disk, tmp, persisting, confirmed, crashes, diskFails>>
        /\ returned' = {} /\ inProcess' = {}
    BY <1>0, <1>3, MemoryTypes DEF SetOwnDeviceID, StoreTypes
  <2>2. StoreTypes'
    BY <1>0, <1>3, <2>1, SetOwnCall DEF StoreTypes
  <2> QED
    BY <1>0, <1>3, <2>1, <2>2, SetOwnCall, OutsideStep DEF Persisting
<1>4. ASSUME NEW i \in DeviceIDs, OwnGenerate(c, i) PROVE FileInv'
  <2>1. /\ memory' \in Data /\ memory'.at = memory.at /\ memory'.own \in DeviceIDs
        /\ UNCHANGED <<disk, tmp, persisting, puts, crashes, diskFails>>
        /\ OwnNext(c, memory'.own) /\ storeCall[c].change = 0 /\ puts' >= puts
    <3>1. memory' = [memory EXCEPT !.own = IF memory.own = 0 THEN i ELSE memory.own]
      BY <1>4 DEF OwnGenerate
    <3>2. (IF memory.own = 0 THEN i ELSE memory.own) \in DeviceIDs
      BY <1>0, FieldTypes DEF StoreTypes
    <3> QED
      BY <1>0, <1>4, <3>1, <3>2, MemoryTypes DEF OwnGenerate, At, ChangeCarried, StoreTypes
  <2>2. /\ storeCall' \in [StoreCalls -> Call]
        /\ \A d \in StoreCalls : d # c => storeCall'[d] = storeCall[d]
        /\ storeCall'[c].pc \in {"persist", "done"}
        /\ storeCall'[c].change = storeCall[c].change
        /\ confirmed' = confirmed
        /\ \/ UNCHANGED <<returned, inProcess>>
           \/ returned' = returned \cup {memory'.own} /\ inProcess' = inProcess \cup {memory'.own}
    BY <1>0, <2>1, OwnNextCall
  <2>3. StoreTypes'
    BY <1>0, <2>1, <2>2 DEF StoreTypes
  <2> QED
    BY <2>1, <2>2, <2>3, OutsideStep DEF Persisting
<1> QED
  BY <1>1, <1>2, <1>3, <1>4

(* LockPersist, Marshal and the write of the temporary file                 *)
(* (store.go:175-200): the mutex keeps other calls out of the file.         *)
LEMMA WriteSteps ==
  ASSUME FileInv, NEW c \in StoreCalls,
         LockPersist(c) \/ Marshal(c) \/ WriteBegin(c) \/ WriteEnd(c)
  PROVE  FileInv'
<1> USE StoreAssumption DEF storeHistory, storeBounds, At
<1>0. StoreTypes /\ Serialized /\ Layers /\ Snapshots /\ ChangeCarried /\ TmpWhole
  BY DEF FileInv
<1>1. CASE LockPersist(c)
  <2>1. /\ storeCall' \in [StoreCalls -> Call]
        /\ \A d \in StoreCalls : d # c => storeCall'[d] = storeCall[d]
        /\ storeCall'[c].pc = "marshal" /\ storeCall'[c].key = storeCall[c].key
        /\ storeCall'[c].change = storeCall[c].change
    BY <1>0, <1>1, GoToKeeps DEF LockPersist, StoreTypes, PCs
  <2>2. /\ UNCHANGED <<memory, disk, tmp, confirmed, returned, inProcess, puts, crashes, diskFails>>
        /\ persisting' = c /\ persisting = Nobody /\ storeCall[c].pc = "persist"
    BY <1>1 DEF LockPersist
  <2>3. StoreTypes' /\ Layers'
    BY <1>0, <2>1, <2>2 DEF StoreTypes, Layers
  <2>4. Serialized' /\ TmpWhole'
    BY <1>0, <2>1, <2>2 DEF Serialized, TmpWhole, Persisting
  <2>5. Snapshots' /\ ChangeCarried'
    BY <1>0, <2>1, <2>2 DEF Snapshots, ChangeCarried, HasSnap
  <2> QED
    BY <2>3, <2>4, <2>5 DEF FileInv
<1>2. CASE Marshal(c)
  <2>1. /\ storeCall' \in [StoreCalls -> Call]
        /\ \A d \in StoreCalls : d # c => storeCall'[d] = storeCall[d]
        /\ storeCall'[c].pc = "write" /\ storeCall'[c].snap = memory
        /\ storeCall'[c].key = storeCall[c].key /\ storeCall'[c].change = storeCall[c].change
    BY <1>0, <1>2, MarshalCall
  <2>2. /\ UNCHANGED <<memory, disk, tmp, persisting, confirmed, returned, inProcess, puts,
                       crashes, diskFails>>
        /\ storeCall[c].pc = "marshal"
    BY <1>2 DEF Marshal
  <2>3. StoreTypes' /\ Layers'
    BY <1>0, <2>1, <2>2 DEF StoreTypes, Layers
  <2>4. Serialized' /\ TmpWhole'
    BY <1>0, <2>1, <2>2 DEF Serialized, TmpWhole, Persisting
  <2>5. \A k \in Keys : memory.at[k] <= memory.at[k] /\ disk.at[k] <= memory.at[k]
    BY <1>0, FieldTypes DEF StoreTypes, Layers
  <2>6. Snapshots'
    BY <1>0, <2>1, <2>2, <2>5 DEF Snapshots, HasSnap
  <2>7. ChangeCarried'
    BY <1>0, <2>1, <2>2 DEF ChangeCarried, HasSnap
  <2> QED
    BY <2>3, <2>4, <2>6, <2>7 DEF FileInv
<1>3. CASE WriteBegin(c) \/ WriteEnd(c)
  <2>1. PICK p \in {"writing", "rename"} :
          /\ GoTo(c, p)
          /\ p = "writing" => storeCall[c].pc = "write" /\ tmp' = Torn
          /\ p = "rename" => storeCall[c].pc = "writing" /\ tmp' = storeCall[c].snap
    BY <1>3 DEF WriteBegin, WriteEnd
  <2>2. /\ storeCall' \in [StoreCalls -> Call]
        /\ \A d \in StoreCalls : d # c => storeCall'[d] = storeCall[d]
        /\ storeCall'[c].pc = p /\ storeCall'[c].snap = storeCall[c].snap
        /\ storeCall'[c].key = storeCall[c].key /\ storeCall'[c].change = storeCall[c].change
    BY <1>0, <2>1, GoToKeeps DEF StoreTypes, PCs
  <2>3. UNCHANGED <<memory, disk, persisting, confirmed, returned, inProcess, puts, crashes, diskFails>>
    BY <1>3 DEF WriteBegin, WriteEnd
  <2>4. StoreTypes' /\ Layers'
    BY <1>0, <2>1, <2>2, <2>3, FieldTypes DEF StoreTypes, Layers
  <2>5. \A d \in StoreCalls : d # c => storeCall'[d].pc \notin Persisting
    BY <1>0, <2>1, <2>2 DEF Serialized, Persisting
  <2>6. Serialized' /\ TmpWhole'
    BY <1>0, <2>1, <2>2, <2>3, <2>5 DEF Serialized, TmpWhole, Persisting
  <2>7. Snapshots' /\ ChangeCarried'
    BY <1>0, <2>1, <2>2, <2>3 DEF Snapshots, ChangeCarried, HasSnap
  <2> QED
    BY <2>4, <2>6, <2>7 DEF FileInv
<1> QED
  BY <1>1, <1>2, <1>3

(* The rename that ends persist (store.go:200-210) puts a snapshot in the   *)
(* place of the file that has the call's change and all that was there.     *)
LEMMA RenameStep == ASSUME FileInv, NEW c \in StoreCalls, Rename(c) PROVE FileInv'
<1> USE StoreAssumption DEF storeHistory, storeBounds, At
<1>0. StoreTypes /\ Serialized /\ Layers /\ Snapshots /\ ChangeCarried /\ TmpWhole
  BY DEF FileInv
<1>1. /\ storeCall' \in [StoreCalls -> Call]
      /\ \A d \in StoreCalls : d # c => storeCall'[d] = storeCall[d]
      /\ storeCall'[c].pc = "done" /\ storeCall'[c].change = storeCall[c].change
      /\ storeCall'[c].key = storeCall[c].key
  BY <1>0, GoToKeeps DEF Rename, StoreTypes, PCs
<1>2. /\ disk' = storeCall[c].snap /\ disk' \in Data /\ persisting' = Nobody
      /\ UNCHANGED <<memory, tmp, puts, crashes, diskFails>>
      /\ storeCall[c].pc = "rename"
      /\ storeCall[c].change \in 0..MaxPuts
  BY <1>0, FieldTypes DEF Rename, TmpWhole, StoreTypes
<1>3. confirmed' = IF storeCall[c].change # 0 /\ confirmed[storeCall[c].key] < storeCall[c].change
                   THEN [confirmed EXCEPT ![storeCall[c].key] = storeCall[c].change] ELSE confirmed
  BY DEF Rename
<1>4. inProcess' \subseteq DeviceIDs /\ returned' \subseteq DeviceIDs
  BY <1>0, FieldTypes DEF Rename, Returns, StoreTypes
<1>5. StoreTypes'
  <2>1. confirmed' \in [Keys -> 0..MaxPuts]
    BY <1>0, <1>2, <1>3 DEF StoreTypes
  <2> QED
    BY <1>0, <1>1, <1>2, <1>4, <2>1 DEF StoreTypes
<1>6. Layers'
  <2> SUFFICES ASSUME NEW k \in Keys
               PROVE  /\ confirmed'[k] <= disk'.at[k] /\ disk'.at[k] <= memory'.at[k]
                      /\ memory'.at[k] <= puts'
    BY DEF Layers
  <2>1. /\ disk.at[k] <= disk'.at[k] /\ disk'.at[k] <= memory.at[k]
    BY <1>0, <1>2 DEF Snapshots, HasSnap
  <2>2. disk.at[k] \in Nat /\ disk'.at[k] \in Nat /\ confirmed[k] \in Nat
    BY <1>0, <1>2, FieldTypes DEF StoreTypes
  <2>3. \/ confirmed'[k] = confirmed[k]
        \/ /\ storeCall[c].change # 0 /\ k = storeCall[c].key
           /\ confirmed'[k] = storeCall[c].change
    BY <1>0, <1>3 DEF StoreTypes
  <2>4. storeCall[c].change # 0 => storeCall[c].change <= disk'.at[storeCall[c].key]
    BY <1>0, <1>2 DEF ChangeCarried, HasSnap
  <2>5. confirmed[k] <= disk.at[k] /\ memory.at[k] <= puts
    BY <1>0 DEF Layers
  <2>6. confirmed'[k] <= disk'.at[k]
    BY <2>1, <2>2, <2>3, <2>4, <2>5
  <2> QED
    BY <1>2, <2>1, <2>5, <2>6
<1>7. \A d \in StoreCalls : storeCall'[d].pc \notin Persisting
  BY <1>0, <1>1, <1>2 DEF Serialized, Persisting
<1>8. Serialized' /\ Snapshots' /\ TmpWhole'
  BY <1>7 DEF Serialized, Snapshots, TmpWhole, Persisting, HasSnap
<1>9. ChangeCarried'
  BY <1>0, <1>1, <1>2, <1>7 DEF ChangeCarried, HasSnap, Persisting
<1> QED
  BY <1>5, <1>6, <1>8, <1>9 DEF FileInv

(* The error return of persist, the next call, and the death of the process *)
(* (store.go:143-210): nothing is taken from the file.                      *)
LEMMA EndSteps ==
  ASSUME FileInv, (\E c \in StoreCalls : DiskFails(c) \/ StoreAgain(c)) \/ CrashAndOpen
  PROVE  FileInv'
<1> USE StoreAssumption DEF storeHistory, storeBounds
<1>0. StoreTypes /\ Serialized /\ Layers /\ Snapshots /\ ChangeCarried /\ TmpWhole
  BY DEF FileInv
<1>1. ASSUME NEW c \in StoreCalls, DiskFails(c) PROVE FileInv'
  <2>1. /\ storeCall' \in [StoreCalls -> Call]
        /\ \A d \in StoreCalls : d # c => storeCall'[d] = storeCall[d]
        /\ storeCall'[c].pc = "failed" /\ storeCall'[c].change = storeCall[c].change
        /\ storeCall'[c].key = storeCall[c].key
    BY <1>0, <1>1, GoToKeeps DEF DiskFails, StoreTypes, PCs
  <2>2. /\ UNCHANGED <<memory, disk, tmp, confirmed, returned, inProcess, puts, crashes>>
        /\ diskFails' \in 0..MaxDiskFails /\ persisting' = Nobody
        /\ storeCall[c].pc \in HasSnap
    BY <1>0, <1>1 DEF DiskFails, StoreTypes, HasSnap
  <2>3. StoreTypes' /\ Layers'
    BY <1>0, <2>1, <2>2 DEF StoreTypes, Layers
  <2>4. \A d \in StoreCalls : storeCall'[d].pc \notin Persisting
    BY <1>0, <2>1, <2>2 DEF Serialized, Persisting, HasSnap
  <2>5. Serialized' /\ Snapshots' /\ TmpWhole'
    BY <2>4 DEF Serialized, Snapshots, TmpWhole, Persisting, HasSnap
  <2>6. ChangeCarried'
    BY <1>0, <2>1, <2>2, <2>4 DEF ChangeCarried, HasSnap, Persisting
  <2> QED
    BY <2>3, <2>5, <2>6 DEF FileInv
<1>2. ASSUME NEW c \in StoreCalls, StoreAgain(c) PROVE FileInv'
  <2>1. /\ storeCall' = [storeCall EXCEPT ![c] = IdleCall]
        /\ UNCHANGED <<memory, disk, tmp, persisting, confirmed, returned, inProcess, puts,
                       crashes, diskFails>>
    BY <1>2 DEF StoreAgain
  <2>2. /\ storeCall' \in [StoreCalls -> Call] /\ storeCall'[c] = IdleCall
        /\ \A d \in StoreCalls : d # c => storeCall'[d] = storeCall[d]
    BY <1>0, <2>1, IdleIsCall DEF StoreTypes
  <2>3. StoreTypes' /\ puts' >= puts
    BY <1>0, <2>1, <2>2, IdleIsCall DEF StoreTypes
  <2> QED
    BY <2>1, <2>2, <2>3, IdleIsCall, OutsideStep
<1>3. CASE CrashAndOpen
  <2>1. /\ memory' = disk /\ persisting' = Nobody /\ inProcess' = {}
        /\ storeCall' = [c \in StoreCalls |-> IdleCall]
        /\ UNCHANGED <<disk, tmp, confirmed, returned, puts, diskFails>>
        /\ crashes' \in 0..MaxCrashes
    BY <1>0, <1>3 DEF CrashAndOpen, StoreTypes
  <2>2. StoreTypes'
    BY <1>0, <2>1, IdleIsCall DEF StoreTypes
  <2>3. Layers'
    BY <1>0, <2>1, FieldTypes DEF StoreTypes, Layers
  <2>4. Serialized' /\ Snapshots' /\ TmpWhole' /\ ChangeCarried'
    BY <2>1, IdleIsCall DEF Serialized, Snapshots, TmpWhole, ChangeCarried, Persisting, HasSnap
  <2> QED
    BY <2>2, <2>3, <2>4 DEF FileInv
<1> QED
  BY <1>1, <1>2, <1>3

(* Every step of a call, of the disk and of the process keeps the           *)
(* invariant of the file.                                                   *)
LEMMA NextFileInv == FileInv /\ [StoreNext]_storeVars => FileInv'
<1> SUFFICES ASSUME FileInv, [StoreNext]_storeVars PROVE FileInv'
  OBVIOUS
<1>1. CASE UNCHANGED storeVars
  BY <1>1 DEF storeVars, storeHistory, storeBounds, FileInv, StoreTypes, Serialized, Layers,
              Snapshots, ChangeCarried, TmpWhole
<1> QED
  BY <1>1, PutStep, OwnSteps, WriteSteps, RenameStep, EndSteps DEF StoreNext

LEMMA FileInvHolds == StoreSpec => []FileInv
<1>1. StoreInit => FileInv
  BY InitFileInv
<1>2. FileInv /\ [StoreNext]_storeVars => FileInv'
  BY NextFileInv
<1> QED
  BY <1>1, <1>2, PTL DEF StoreSpec

(* The store's state is well typed in every state: the type invariant.      *)
THEOREM StoreTypeCorrect == StoreSpec => []StoreTypeOK
<1>1. FileInv => StoreTypeOK
  BY FieldTypes DEF FileInv, StoreTypes, StoreTypeOK, PCs
<1> QED
  BY <1>1, FileInvHolds, PTL

(* The file is never torn and has every change that a call reported as      *)
(* done, or a later one of that key, whatever calls overlap, wherever the   *)
(* disk fails and whenever the process dies (store.go:175-210).             *)
THEOREM AckedChangesDurable == StoreSpec => []AckedDurable
<1>1. FileInv => AckedDurable
  BY TornIsNoData DEF FileInv, StoreTypes, Layers, AckedDurable
<1> QED
  BY <1>1, FileInvHolds, PTL

(* A step changes the file only by the rename that ends persist.            *)
LEMMA OnlyRenameWrites == [StoreNext]_storeVars => disk' = disk \/ \E c \in StoreCalls : Rename(c)
BY DEF StoreNext, storeVars, OwnDeviceID, OwnRead, LockPersist, Marshal, WriteBegin, WriteEnd,
       DiskFails, StoreAgain, Put, SetOwnDeviceID, OwnGenerate, CrashAndOpen

(* No step takes a key of the file back to an older value: a call that took *)
(* its snapshot early does not overwrite what a later one has written,      *)
(* since the snapshot is taken after the mutex (store.go:175-210).          *)
THEOREM FileNeverGoesBack == StoreSpec => [][\A k \in Keys : disk.at[k] <= disk'.at[k]]_storeVars
<1>1. FileInv /\ [StoreNext]_storeVars => [\A k \in Keys : disk.at[k] <= disk'.at[k]]_storeVars
  <2> SUFFICES ASSUME FileInv, [StoreNext]_storeVars, NEW k \in Keys PROVE disk.at[k] <= disk'.at[k]
    OBVIOUS
  <2>1. CASE disk' = disk
    BY <2>1, FieldTypes DEF FileInv, StoreTypes
  <2>2. ASSUME NEW c \in StoreCalls, Rename(c) PROVE disk.at[k] <= disk'.at[k]
    BY <2>2 DEF Rename, At, FileInv, TmpWhole, Snapshots, HasSnap
  <2> QED
    BY <2>1, <2>2, OnlyRenameWrites
<1> QED
  BY <1>1, FileInvHolds, PTL DEF StoreSpec

-----------------------------------------------------------------------------
(* The own device ID. *)

(* What this process returned since an ID was last set is the ID in the     *)
(* memory, and so is the ID of each call that is still to return one.       *)
OwnInv ==
    /\ \A i \in inProcess : i = memory.own
    /\ \A c \in StoreCalls :
          /\ storeCall[c].pc \in {"read", "generate"} => storeCall[c].id = 0
          /\ /\ storeCall[c].pc \in Persisting \cup {"persist"}
             /\ storeCall[c].id # 0 /\ storeCall[c].counts = TRUE
             => storeCall[c].id = memory.own

(* Every step keeps it: the ID changes only when one is set, or when there  *)
(* was none, and then no call has one (store.go:58-92, 235-258).            *)
LEMMA NextOwnInv == FileInv /\ OwnInv /\ [StoreNext]_storeVars => OwnInv'
<1> SUFFICES ASSUME FileInv, OwnInv, [StoreNext]_storeVars PROVE OwnInv'
  OBVIOUS
<1> USE StoreAssumption DEF storeHistory, storeBounds, At
<1>0. StoreTypes /\ memory.own \in DeviceIDs \cup {0}
  BY FieldTypes DEF FileInv, StoreTypes
<1>1. ASSUME NEW c \in StoreCalls, NEW k \in Keys, Put(c, k) PROVE OwnInv'
  <2>1. memory'.own = memory.own /\ inProcess' = inProcess
    BY <1>0, <1>1, MemoryTypes DEF Put
  <2> QED
    BY <1>0, <1>1, <2>1, PutCall DEF OwnInv, Persisting
<1>2. ASSUME NEW c \in StoreCalls, NEW i \in DeviceIDs, SetOwnDeviceID(c, i) PROVE OwnInv'
  <2>1. inProcess' = {}
    BY <1>2 DEF SetOwnDeviceID
  <2>2. storeCall'[c].id = 0 /\ storeCall'[c].pc = "persist"
    BY <1>0, <1>2, SetOwnCall
  <2>3. ASSUME NEW d \in StoreCalls, d # c
        PROVE  /\ storeCall'[d].pc = storeCall[d].pc /\ storeCall'[d].id = storeCall[d].id
               /\ storeCall'[d].counts = FALSE
    BY <1>0, <1>2, <2>3, SetOwnCall
  <2> QED
    BY <2>1, <2>2, <2>3 DEF OwnInv
<1>3. ASSUME NEW c \in StoreCalls, OwnDeviceID(c) PROVE OwnInv'
  <2>1. memory' = memory /\ inProcess' = inProcess
    BY <1>3 DEF OwnDeviceID
  <2> QED
    BY <1>0, <1>3, <2>1, OwnCall DEF OwnInv, Persisting
<1>4. ASSUME NEW c \in StoreCalls, OwnRead(c) PROVE OwnInv'
  <2>1. memory' = memory /\ storeCall[c].pc = "read"
    BY <1>4 DEF OwnRead
  <2>2. CASE memory.own # 0
    <3>1. memory.own \in DeviceIDs /\ OwnNext(c, memory.own)
      BY <1>0, <1>4, <2>2 DEF OwnRead
    <3>2. /\ \A d \in StoreCalls : d # c => storeCall'[d] = storeCall[d]
          /\ storeCall'[c].pc \in {"persist", "done"} /\ storeCall'[c].id = memory.own
          /\ inProcess' = inProcess \/ inProcess' = inProcess \cup {memory.own}
      BY <1>0, <3>1, OwnNextCall
    <3> QED
      BY <2>1, <3>2 DEF OwnInv
  <2>3. CASE memory.own = 0
    <3>1. GoTo(c, "generate") /\ inProcess' = inProcess
      BY <1>4, <2>3 DEF OwnRead
    <3>2. /\ \A d \in StoreCalls : d # c => storeCall'[d] = storeCall[d]
          /\ storeCall'[c].pc = "generate" /\ storeCall'[c].id = storeCall[c].id
      BY <1>0, <3>1, GoToKeeps DEF StoreTypes, PCs
    <3> QED
      BY <2>1, <3>1, <3>2 DEF OwnInv, Persisting
  <2> QED
    BY <2>2, <2>3
<1>5. ASSUME NEW c \in StoreCalls, NEW i \in DeviceIDs, OwnGenerate(c, i) PROVE OwnInv'
  <2> DEFINE j == IF memory.own = 0 THEN i ELSE memory.own
  <2>1. j \in DeviceIDs /\ memory' = [memory EXCEPT !.own = j]
    BY <1>0, <1>5 DEF OwnGenerate
  <2>2. memory'.own = j /\ OwnNext(c, j)
    BY <1>0, <1>5, <2>1, MemoryTypes DEF OwnGenerate
  <2>3. /\ \A d \in StoreCalls : d # c => storeCall'[d] = storeCall[d]
        /\ storeCall'[c].pc \in {"persist", "done"} /\ storeCall'[c].id = j
        /\ inProcess' = inProcess \/ inProcess' = inProcess \cup {j}
    BY <1>0, <2>1, <2>2, OwnNextCall
  <2>4. memory.own # 0 => j = memory.own
    OBVIOUS
  <2>5. \A x \in inProcess : x = j
    BY <1>0, <2>4 DEF OwnInv, StoreTypes
  <2> HIDE DEF j
  <2> QED
    BY <2>2, <2>3, <2>4, <2>5 DEF OwnInv
<1>6. ASSUME NEW c \in StoreCalls, LockPersist(c) PROVE OwnInv'
  <2>1. memory' = memory /\ inProcess' = inProcess /\ storeCall[c].pc = "persist"
    BY <1>6 DEF LockPersist
  <2>2. /\ \A d \in StoreCalls : d # c => storeCall'[d] = storeCall[d]
        /\ storeCall'[c].pc = "marshal" /\ storeCall'[c].id = storeCall[c].id
        /\ storeCall'[c].counts = storeCall[c].counts
    BY <1>0, <1>6, GoToKeeps DEF LockPersist, StoreTypes, PCs
  <2> QED
    BY <2>1, <2>2 DEF OwnInv, Persisting
<1>7. ASSUME NEW c \in StoreCalls, Marshal(c) PROVE OwnInv'
  <2>1. memory' = memory /\ inProcess' = inProcess /\ storeCall[c].pc = "marshal"
    BY <1>7 DEF Marshal
  <2> QED
    BY <1>0, <1>7, <2>1, MarshalCall DEF OwnInv, Persisting
<1>8. ASSUME NEW c \in StoreCalls, WriteBegin(c) \/ WriteEnd(c) PROVE OwnInv'
  <2>1. memory' = memory /\ inProcess' = inProcess /\ storeCall[c].pc \in Persisting
    BY <1>8 DEF WriteBegin, WriteEnd, Persisting
  <2>2. /\ \A d \in StoreCalls : d # c => storeCall'[d] = storeCall[d]
        /\ storeCall'[c].pc \in {"writing", "rename"} /\ storeCall'[c].id = storeCall[c].id
        /\ storeCall'[c].counts = storeCall[c].counts
    BY <1>0, <1>8, GoToKeeps DEF WriteBegin, WriteEnd, StoreTypes, PCs
  <2> QED
    BY <2>1, <2>2 DEF OwnInv, Persisting
<1>9. ASSUME NEW c \in StoreCalls, Rename(c) PROVE OwnInv'
  <2>1. memory' = memory /\ storeCall[c].pc \in Persisting
    BY <1>9 DEF Rename, Persisting
  <2>2. /\ \A d \in StoreCalls : d # c => storeCall'[d] = storeCall[d]
        /\ storeCall'[c].pc = "done"
    BY <1>0, <1>9, GoToKeeps DEF Rename, StoreTypes, PCs
  <2>3. \A i \in inProcess' : i = memory.own
    <3>1. storeCall[c].counts \in BOOLEAN
      BY <1>0, FieldTypes DEF StoreTypes
    <3>2. \/ inProcess' = inProcess
          \/ /\ storeCall[c].id # 0 /\ storeCall[c].counts = TRUE
             /\ inProcess' = inProcess \cup {storeCall[c].id}
      BY <1>9, <3>1 DEF Rename, Returns
    <3> QED
      BY <2>1, <3>2 DEF OwnInv
  <2> QED
    BY <2>1, <2>2, <2>3 DEF OwnInv, Persisting
<1>10. ASSUME NEW c \in StoreCalls, DiskFails(c) PROVE OwnInv'
  <2>1. memory' = memory /\ inProcess' = inProcess
    BY <1>10 DEF DiskFails
  <2>2. /\ \A d \in StoreCalls : d # c => storeCall'[d] = storeCall[d]
        /\ storeCall'[c].pc = "failed"
    BY <1>0, <1>10, GoToKeeps DEF DiskFails, StoreTypes, PCs
  <2> QED
    BY <2>1, <2>2 DEF OwnInv, Persisting
<1>11. ASSUME NEW c \in StoreCalls, StoreAgain(c) PROVE OwnInv'
  <2>1. memory' = memory /\ inProcess' = inProcess /\ storeCall' = [storeCall EXCEPT ![c] = IdleCall]
    BY <1>11 DEF StoreAgain
  <2>2. /\ \A d \in StoreCalls : d # c => storeCall'[d] = storeCall[d]
        /\ storeCall'[c].pc = "idle"
    BY <1>0, <2>1, IdleIsCall DEF StoreTypes
  <2> QED
    BY <2>1, <2>2 DEF OwnInv, Persisting
<1>12. CASE CrashAndOpen
  <2>1. inProcess' = {} /\ \A c \in StoreCalls : storeCall'[c].pc = "idle"
    BY <1>12, IdleIsCall DEF CrashAndOpen
  <2> QED
    BY <2>1 DEF OwnInv, Persisting
<1>13. CASE UNCHANGED storeVars
  BY <1>13 DEF storeVars, OwnInv
<1> QED
  BY <1>1, <1>2, <1>3, <1>4, <1>5, <1>6, <1>7, <1>8, <1>9, <1>10, <1>11, <1>12, <1>13 DEF StoreNext

(* All calls of OwnDeviceID in one process return the same ID until another *)
(* is set, also those that find none at the same time (store.go:58-81,      *)
(* 235-249).                                                                *)
THEOREM OwnDeviceIDAgrees == StoreSpec => []OwnAgrees
<1>1. StoreInit => OwnInv
  BY IdleIsCall DEF StoreInit, OwnInv, Persisting
<1>2. FileInv /\ OwnInv /\ [StoreNext]_storeVars => OwnInv'
  BY NextOwnInv
<1>3. OwnInv => OwnAgrees
  <2> SUFFICES ASSUME OwnInv PROVE Cardinality(inProcess) <= 1
    BY DEF OwnAgrees
  <2>1. inProcess \in SUBSET {memory.own}
    BY DEF OwnInv
  <2>2. IsFiniteSet({memory.own}) /\ Cardinality({memory.own}) = 1
    BY FS_Singleton
  <2> QED
    BY <2>1, <2>2, FS_Subset
<1> QED
  BY <1>1, <1>2, <1>3, FileInvHolds, PTL DEF StoreSpec

-----------------------------------------------------------------------------
(* The manager: types. *)

TrustTypes ==
    /\ trust \in [Devices -> Levels \cup {NoLevel}]
    /\ bundles \in SUBSET Devices /\ sessions \in SUBSET Devices
    /\ call \in [Encrypts -> EncryptRecord]
    /\ allowed \in [Encrypts -> SUBSET Devices] /\ changes \in [Encrypts -> Nat]
    /\ decisions \in 0..MaxDecisions
ListTypes ==
    /\ lists \in [Accounts -> ListRecord]
    /\ published \in [Accounts -> SUBSET Devices]
    /\ events \in Seq(EventRecord)
    /\ fetch \in [Callers -> FetchRecord]
    /\ publishing \in [Publishes -> {"idle", "fetch", "publish", "store", "over"}]
    /\ toPublish \in [Publishes -> SUBSET Devices]
    /\ standing \in SUBSET Devices /\ informed \in BOOLEAN /\ listNews \in 0..MaxListNews
ManagerTypes == TrustTypes /\ ListTypes

(* What the fields of a call are, and that a call with other fields is one. *)
LEMMA EncryptFields ==
    ASSUME NEW r \in EncryptRecord
    PROVE  /\ r.pc \in CallPcs /\ r.accounts \in SUBSET Accounts /\ r.targets \in SUBSET Devices
           /\ r.device \in Devices /\ r.scan \in SUBSET Devices /\ r.recipients \in SUBSET Devices
BY DEF EncryptRecord

LEMMA EncryptUpdate ==
    ASSUME NEW r \in EncryptRecord, NEW pc \in CallPcs, NEW accounts \in SUBSET Accounts,
           NEW targets \in SUBSET Devices, NEW device \in Devices
    PROVE  /\ [r EXCEPT !.pc = pc] \in EncryptRecord
           /\ [r EXCEPT !.pc = pc, !.accounts = accounts] \in EncryptRecord
           /\ [r EXCEPT !.targets = targets, !.accounts = accounts] \in EncryptRecord
           /\ [r EXCEPT !.pc = pc, !.device = device, !.targets = targets] \in EncryptRecord
BY DEF EncryptRecord

LEMMA EncryptScans ==
    ASSUME NEW r \in EncryptRecord, NEW pc \in CallPcs, NEW scan \in SUBSET Devices
    PROVE  [r EXCEPT !.pc = pc, !.scan = scan] \in EncryptRecord /\ [r EXCEPT !.scan = scan] \in EncryptRecord
BY DEF EncryptRecord

LEMMA EncryptWraps ==
    ASSUME NEW r \in EncryptRecord, NEW pc \in CallPcs, NEW recipients \in SUBSET Devices
    PROVE  [r EXCEPT !.pc = pc, !.recipients = recipients] \in EncryptRecord
BY DEF EncryptRecord

(* Nothing is cached, called or decided.                                    *)
LEMMA InitTypes == ManagerInit => ManagerTypes
<1> SUFFICES ASSUME ManagerInit PROVE ManagerTypes
  OBVIOUS
<1> USE ManagerAssumption
<1>1. IdleEncrypt \in EncryptRecord
  BY DEF IdleEncrypt, EncryptRecord, CallPcs
<1>2. TrustTypes
  <2>1. trust \in [Devices -> Levels \cup {NoLevel}]
    BY DEF ManagerInit, Levels
  <2>2. call \in [Encrypts -> EncryptRecord]
    BY <1>1 DEF ManagerInit
  <2>3. allowed \in [Encrypts -> SUBSET Devices] /\ changes \in [Encrypts -> Nat]
    BY DEF ManagerInit
  <2> QED
    BY <2>1, <2>2, <2>3 DEF ManagerInit, TrustTypes
<1>3. ListTypes
  <2>1. lists \in [Accounts -> ListRecord]
    BY DEF ManagerInit, ListRecord, NoList
  <2>2. published \in [Accounts -> SUBSET Devices]
    BY DEF ManagerInit
  <2>3. events \in Seq(EventRecord)
    BY DEF ManagerInit
  <2>4. fetch \in [Callers -> FetchRecord]
    BY DEF ManagerInit, FetchRecord
  <2>5. toPublish \in [Publishes -> SUBSET Devices]
    BY DEF ManagerInit
  <2>6. publishing \in [Publishes -> {"idle", "fetch", "publish", "store", "over"}]
    BY DEF ManagerInit
  <2>7. standing \in SUBSET Devices
    BY <2>2 DEF ManagerInit
  <2>8. informed \in BOOLEAN /\ listNews \in 0..MaxListNews
    BY DEF ManagerInit
  <2> QED
    BY <2>1, <2>2, <2>3, <2>4, <2>5, <2>6, <2>7, <2>8 DEF ListTypes
<1> QED
  BY <1>2, <1>3 DEF ManagerTypes

(* A fetch under way, and its account and its answer.                       *)
LEMMA FetchFields ==
    ASSUME NEW r \in FetchRecord
    PROVE  /\ r.at \in {"asked", "answered"} => r.account \in Accounts
           /\ r.at = "answered" => r.devices \in SUBSET Devices
BY DEF FetchRecord, NoFetch

LEMMA FetchMakes ==
    /\ NoFetch \in FetchRecord
    /\ \A j \in Accounts : [at |-> "asked", account |-> j] \in FetchRecord
    /\ \A j \in Accounts, d \in SUBSET Devices :
           [at |-> "answered", account |-> j, devices |-> d] \in FetchRecord
BY DEF FetchRecord

LEMMA ListMakes ==
    /\ \A d \in SUBSET Devices : List(d) \in ListRecord
    /\ \A r \in ListRecord : r.devices \in SUBSET Devices /\ [r EXCEPT !.fresh = FALSE] \in ListRecord
BY DEF List, ListRecord

(* The parts of Next that leave the lists, or the calls, alone.             *)
LEMMA EncryptLeaves ==
    ASSUME NEW e \in Encrypts, EncryptNext(e)
    PROVE  /\ UNCHANGED <<trust, changes, decisions, publishing, toPublish, published, events,
                          listNews, standing, informed>>
BY DEF EncryptNext, EncryptMessage, CollectCached, CollectAsk, CollectFetched, CollectFails,
       NextTarget, EffectiveTrust, ReadKnown, ScanTrust, EnsureSession, BuildSession, WrapKey, SkipDevice,
       storeData

LEMMA OthersLeave ==
    ASSUME \/ \E c \in Callers : ServerGives(c)
           \/ \E p \in Publishes : PublishNext(p)
           \/ ListsNext
    PROVE  UNCHANGED <<trust, bundles, sessions, call, allowed, changes, decisions>>
BY DEF ServerGives, PublishNext, PublishDeviceList, PublishFetched, PublishUnfetched,
       ServerPublishes, PublishStore, PublishFails, ListsNext, HandlePubSub, ListExpires,
       OtherPublishes, OtherSpoils, storeData

(* A step of EncryptMessage in terms of its record.                         *)
LEMMA EncryptTypes ==
    ASSUME ManagerTypes, NEW e \in Encrypts, EncryptNext(e)
    PROVE  /\ call' \in [Encrypts -> EncryptRecord] /\ bundles' \in SUBSET Devices
           /\ sessions' \in SUBSET Devices /\ allowed' \in [Encrypts -> SUBSET Devices]
<1> USE ManagerAssumption
<1> USE DEF ManagerTypes, TrustTypes
<1>0. /\ call[e] \in EncryptRecord /\ IdleEncrypt \in EncryptRecord
      /\ {"collect", "targets", "trust", "known", "scan", "session", "build", "wrap", "over"}
             \subseteq CallPcs
  BY DEF IdleEncrypt, EncryptRecord, CallPcs
<1>1. /\ call[e].accounts \in SUBSET Accounts /\ call[e].targets \in SUBSET Devices
      /\ call[e].device \in Devices /\ call[e].scan \in SUBSET Devices
      /\ call[e].recipients \in SUBSET Devices
  BY <1>0, EncryptFields
<1>2. ASSUME NEW r \in EncryptRecord, call' = [call EXCEPT ![e] = r]
      PROVE  call' \in [Encrypts -> EncryptRecord]
  BY <1>2
<1>3. ASSUME NEW j \in Accounts \ {Own}, EncryptMessage(e, {j})
      PROVE  call' \in [Encrypts -> EncryptRecord] /\ allowed' \in [Encrypts -> SUBSET Devices]
  <2>1. {j} \cup {Own} \in SUBSET Accounts
    OBVIOUS
  <2>2. [IdleEncrypt EXCEPT !.pc = "collect", !.accounts = {j} \cup {Own}] \in EncryptRecord
    BY <1>0, <2>1, EncryptUpdate, EncryptFields
  <2> QED
    BY <1>2, <1>3, <2>2 DEF EncryptMessage
<1>4. ASSUME NEW j, NEW d \in SUBSET Devices, Collected(e, j, d)
      PROVE  call' \in [Encrypts -> EncryptRecord]
  <2>1. /\ call[e].targets \cup (d \ {Me}) \in SUBSET Devices
        /\ call[e].accounts \ {j} \in SUBSET Accounts
    BY <1>1
  <2>2. [call[e] EXCEPT !.targets = call[e].targets \cup (d \ {Me}), !.accounts = call[e].accounts \ {j}]
            \in EncryptRecord
    BY <1>0, <1>1, <2>1, EncryptUpdate
  <2>3. call' = [call EXCEPT ![e] = [call[e] EXCEPT !.targets = call[e].targets \cup (d \ {Me}),
                                                    !.accounts = call[e].accounts \ {j}]]
    BY <1>4 DEF Collected
  <2> QED
    BY <1>2, <2>2, <2>3
<1>5. ASSUME NEW j \in Accounts, CollectCached(e, j) PROVE call' \in [Encrypts -> EncryptRecord]
  <2>1. lists[j].devices \in SUBSET Devices
    BY ListMakes DEF ListTypes
  <2> QED
    BY <1>4, <1>5, <2>1 DEF CollectCached
<1>6. ASSUME CollectFetched(e) PROVE call' \in [Encrypts -> EncryptRecord]
  <2>1. fetch[e] \in FetchRecord /\ fetch[e].at = "answered"
    BY <1>6 DEF ListTypes, Callers, CollectFetched, FetchApply
  <2> QED
    BY <1>4, <1>6, <2>1, FetchFields DEF CollectFetched
<1>7. ASSUME CollectFails(e) PROVE call' \in [Encrypts -> EncryptRecord]
  BY <1>4, <1>7 DEF CollectFails
<1>8. ASSUME NEW pc \in CallPcs, call' = [call EXCEPT ![e].pc = pc]
      PROVE  call' \in [Encrypts -> EncryptRecord]
  BY <1>0, <1>1, <1>2, <1>8, EncryptUpdate
<1>9. ASSUME NextTarget(e) PROVE call' \in [Encrypts -> EncryptRecord]
  <2>1. ASSUME NEW a \in call[e].targets,
               call' = [call EXCEPT ![e].pc = "trust", ![e].device = a, ![e].targets = @ \ {a}]
        PROVE  call' \in [Encrypts -> EncryptRecord]
    <3>1. a \in Devices /\ call[e].targets \ {a} \in SUBSET Devices
      BY <1>1
    <3>2. [call[e] EXCEPT !.pc = "trust", !.device = a, !.targets = call[e].targets \ {a}] \in EncryptRecord
      BY <1>0, <1>1, <3>1, EncryptUpdate
    <3> QED
      BY <1>2, <2>1, <3>2
  <2> QED
    BY <1>0, <1>8, <1>9, <2>1 DEF NextTarget
<1>10. ASSUME NEW ok, Judged(e, ok) PROVE call' \in [Encrypts -> EncryptRecord]
  BY <1>0, <1>8, <1>10 DEF Judged
<1>11. ASSUME EffectiveTrust(e) PROVE call' \in [Encrypts -> EncryptRecord]
  <2>1. \/ call' = [call EXCEPT ![e].pc = "known"]
        \/ Judged(e, Level(call[e].device) \in {"trusted", "verified"})
        \/ Judged(e, TRUE)
        \/ Judged(e, FALSE)
    BY <1>11, Zenon DEF EffectiveTrust
  <2> QED
    BY <1>0, <1>8, <1>10, <2>1
<1>22. ASSUME ReadKnown(e) PROVE call' \in [Encrypts -> EncryptRecord]
  <2>1. KnownAddresses(JIDOf[call[e].device]) \in SUBSET Devices
    BY DEF KnownAddresses
  <2>2. [call[e] EXCEPT !.pc = "scan", !.scan = KnownAddresses(JIDOf[call[e].device])] \in EncryptRecord
    BY <1>0, <2>1, EncryptScans
  <2>3. call' = [call EXCEPT ![e] = [call[e] EXCEPT !.pc = "scan",
                                       !.scan = KnownAddresses(JIDOf[call[e].device])]]
    BY <1>22 DEF ReadKnown
  <2> QED
    BY <1>2, <2>2, <2>3
<1>12. ASSUME ScanTrust(e) PROVE call' \in [Encrypts -> EncryptRecord]
  <2>1. ASSUME NEW b, call' = [call EXCEPT ![e].scan = @ \ {b}] PROVE call' \in [Encrypts -> EncryptRecord]
    <3>1. call[e].scan \ {b} \in SUBSET Devices
      BY <1>1
    <3>2. [call[e] EXCEPT !.scan = call[e].scan \ {b}] \in EncryptRecord
      BY <1>0, <3>1, EncryptScans
    <3> QED
      BY <1>2, <2>1, <3>2
  <2> QED
    BY <1>10, <1>12, <2>1 DEF ScanTrust
<1>13. ASSUME EnsureSession(e) PROVE call' \in [Encrypts -> EncryptRecord] /\ bundles' \in SUBSET Devices
  BY <1>0, <1>1, <1>8, <1>13 DEF EnsureSession
<1>14. ASSUME BuildSession(e) PROVE call' \in [Encrypts -> EncryptRecord] /\ sessions' \in SUBSET Devices
  BY <1>0, <1>1, <1>8, <1>14 DEF BuildSession
<1>15. ASSUME WrapKey(e) PROVE call' \in [Encrypts -> EncryptRecord]
  <2>1. call[e].recipients \cup {call[e].device} \in SUBSET Devices
    BY <1>1
  <2>2. [call[e] EXCEPT !.pc = "targets", !.recipients = call[e].recipients \cup {call[e].device}]
           \in EncryptRecord
    BY <1>0, <2>1, EncryptWraps
  <2>3. call' = [call EXCEPT ![e] = [call[e] EXCEPT !.pc = "targets",
                                       !.recipients = call[e].recipients \cup {call[e].device}]]
    BY <1>15 DEF WrapKey
  <2> QED
    BY <1>2, <2>2, <2>3
<1>16. ASSUME SkipDevice(e) PROVE call' \in [Encrypts -> EncryptRecord]
  BY <1>0, <1>8, <1>16 DEF SkipDevice
<1>17. ASSUME NEW j \in Accounts, CollectAsk(e, j) PROVE UNCHANGED call
  BY <1>17 DEF CollectAsk
<1>18. call' \in [Encrypts -> EncryptRecord]
  BY <1>3, <1>5, <1>6, <1>7, <1>9, <1>11, <1>12, <1>13, <1>14, <1>15, <1>16, <1>17, <1>22
     DEF EncryptNext
<1>19. bundles' \in SUBSET Devices
  BY <1>13 DEF EncryptNext, EncryptMessage, CollectCached, CollectAsk, CollectFetched, CollectFails,
       NextTarget, EffectiveTrust, ReadKnown, ScanTrust, BuildSession, WrapKey, SkipDevice, storeData
<1>20. sessions' \in SUBSET Devices
  BY <1>14 DEF EncryptNext, EncryptMessage, CollectCached, CollectAsk, CollectFetched, CollectFails,
       NextTarget, EffectiveTrust, ReadKnown, ScanTrust, EnsureSession, WrapKey, SkipDevice
<1>21. allowed' \in [Encrypts -> SUBSET Devices]
  BY <1>3 DEF EncryptNext, CollectCached, CollectAsk, CollectFetched, CollectFails,
       NextTarget, EffectiveTrust, ReadKnown, ScanTrust, EnsureSession, BuildSession, WrapKey, SkipDevice
<1> QED
  BY <1>18, <1>19, <1>20, <1>21

(* The lists, the fetches and the publications keep their types.            *)
LEMMA NextListTypes == ManagerTypes /\ ManagerNext => ListTypes'
<1> SUFFICES ASSUME ManagerTypes, ManagerNext PROVE ListTypes'
  OBVIOUS
<1> USE ManagerAssumption
<1> USE DEF ManagerTypes, ListTypes
<1>1. ASSUME NEW c \in Callers, NEW r \in FetchRecord, fetch' = [fetch EXCEPT ![c] = r]
      PROVE  fetch' \in [Callers -> FetchRecord]
  BY <1>1
<1>2. ASSUME NEW c \in Callers, ServerGives(c) PROVE ListTypes'
  <2>1. fetch[c] \in FetchRecord /\ fetch[c].account \in Accounts
    BY <1>2, FetchFields DEF ServerGives
  <2>2. published[fetch[c].account] \in SUBSET Devices
    BY <2>1
  <2>3. fetch' \in [Callers -> FetchRecord]
    BY <1>1, <1>2, <2>1, <2>2, FetchMakes DEF ServerGives
  <2> QED
    BY <1>2, <2>3 DEF ServerGives, storeData
<1>3. ASSUME NEW c \in Callers, NEW j \in Accounts, FetchAsk(c, j)
      PROVE  fetch' \in [Callers -> FetchRecord]
  BY <1>1, <1>3, FetchMakes DEF FetchAsk
<1>4. ASSUME NEW c \in Callers, FetchFails(c) PROVE fetch' \in [Callers -> FetchRecord]
  BY <1>1, <1>4, FetchMakes DEF FetchFails
<1>5. ASSUME NEW c \in Callers, FetchApply(c)
      PROVE  /\ fetch' \in [Callers -> FetchRecord] /\ lists' \in [Accounts -> ListRecord]
             /\ fetch[c].devices \in SUBSET Devices
  <2>1. fetch[c] \in FetchRecord /\ fetch[c].at = "answered"
    BY <1>5 DEF FetchApply
  <2>2. fetch[c].account \in Accounts /\ fetch[c].devices \in SUBSET Devices
    BY <2>1, FetchFields
  <2>3. lists' \in [Accounts -> ListRecord]
    BY <1>5, <2>2, ListMakes DEF FetchApply
  <2> QED
    BY <1>1, <1>5, <2>2, <2>3, FetchMakes DEF FetchApply
<1>6. ASSUME NEW e \in Encrypts, EncryptNext(e) PROVE ListTypes'
  <2>1. e \in Callers
    BY DEF Callers
  <2>2. \/ UNCHANGED <<fetch, lists>>
        \/ \E j \in Accounts : FetchAsk(e, j) /\ UNCHANGED lists
        \/ FetchFails(e) /\ UNCHANGED lists
        \/ FetchApply(e)
    BY <1>6 DEF EncryptNext, EncryptMessage, CollectCached, CollectAsk, CollectFetched, CollectFails,
       NextTarget, EffectiveTrust, ReadKnown, ScanTrust, EnsureSession, BuildSession, WrapKey, SkipDevice,
       storeData
  <2>3. fetch' \in [Callers -> FetchRecord] /\ lists' \in [Accounts -> ListRecord]
    BY <1>3, <1>4, <1>5, <2>1, <2>2
  <2> QED
    BY <1>6, <2>3, EncryptLeaves
<1>7. ASSUME NEW p \in Publishes, PublishNext(p) PROVE ListTypes'
  <2>1. p \in Callers /\ lists[Own].devices \in SUBSET Devices /\ {Me} \in SUBSET Devices
    BY ListMakes DEF Callers
  <2>2. CASE PublishDeviceList(p)
    <3>1. fetch' \in [Callers -> FetchRecord]
      BY <1>3, <2>1, <2>2 DEF PublishDeviceList
    <3>2. toPublish' \in [Publishes -> SUBSET Devices]
      BY <2>1, <2>2 DEF PublishDeviceList
    <3>3. publishing' \in [Publishes -> {"idle", "fetch", "publish", "store", "over"}]
      BY <2>2 DEF PublishDeviceList
    <3> QED
      BY <2>2, <3>1, <3>2, <3>3 DEF PublishDeviceList, storeData
  <2>3. CASE PublishFetched(p)
    <3>1. fetch' \in [Callers -> FetchRecord] /\ lists' \in [Accounts -> ListRecord]
      BY <1>5, <2>1, <2>3 DEF PublishFetched
    <3>2. toPublish' \in [Publishes -> SUBSET Devices]
      BY <1>5, <2>1, <2>3 DEF PublishFetched
    <3> QED
      BY <2>3, <3>1, <3>2 DEF PublishFetched
  <2>4. CASE PublishUnfetched(p)
    <3>1. fetch' \in [Callers -> FetchRecord]
      BY <1>4, <2>1, <2>4 DEF PublishUnfetched
    <3>2. informed' \in BOOLEAN
      BY <2>4, Zenon DEF PublishUnfetched
    <3> QED
      BY <2>4, <3>1, <3>2 DEF PublishUnfetched, storeData
  <2>5. ListToPublish(p) \in SUBSET Devices
    BY <2>1 DEF ListToPublish
  <2>6. CASE ServerPublishes(p)
    <3>1. published' \in [Accounts -> SUBSET Devices]
      BY <2>5, <2>6 DEF ServerPublishes
    <3>2. Event(Own, ListToPublish(p)) \in EventRecord
      BY <2>5 DEF Event, EventRecord
    <3>3. events' \in Seq(EventRecord)
      BY <2>6, <3>2 DEF ServerPublishes
    <3> QED
      BY <2>6, <3>1, <3>3 DEF ServerPublishes, storeData
  <2>7. CASE PublishStore(p)
    <3>1. lists' \in [Accounts -> ListRecord]
      BY <2>5, <2>7, ListMakes DEF PublishStore
    <3> QED
      BY <2>7, <3>1 DEF PublishStore
  <2>8. CASE PublishFails(p)
    BY <2>8 DEF PublishFails, storeData
  <2> QED
    BY <1>7, <2>2, <2>3, <2>4, <2>6, <2>7, <2>8 DEF PublishNext
<1>8. ASSUME HandlePubSub PROVE ListTypes'
  <2>1. Head(events) \in EventRecord /\ events' \in Seq(EventRecord)
    BY <1>8 DEF HandlePubSub
  <2>2. Head(events).account \in Accounts /\ Head(events).devices \in SUBSET Devices
    BY <2>1 DEF EventRecord
  <2>3. lists' \in [Accounts -> ListRecord]
    BY <1>8, <2>2, ListMakes DEF HandlePubSub
  <2> QED
    BY <1>8, <2>1, <2>3 DEF HandlePubSub
<1>9. ASSUME NEW j \in Accounts, ListExpires(j) PROVE ListTypes'
  <2>1. lists' = [lists EXCEPT ![j] = [lists[j] EXCEPT !.fresh = FALSE]]
    BY <1>9 DEF ListExpires
  <2>2. lists' \in [Accounts -> ListRecord]
    BY <2>1, ListMakes
  <2> QED
    BY <1>9, <2>2 DEF ListExpires
<1>10. ASSUME NEW a \in Devices \ {Me}, OtherPublishes(a) PROVE ListTypes'
  <2>1. PICK j \in Accounts : j = JIDOf[a]
    OBVIOUS
  <2>2. PICK now : now = IF a \in published[j] THEN published[j] \ {a} ELSE published[j] \cup {a}
    OBVIOUS
  <2>3. now \in SUBSET Devices
    BY <2>2
  <2>4. /\ published' = [published EXCEPT ![j] = now]
        /\ events' = Append(events, Event(j, now))
        /\ standing' = IF j = Own THEN standing \cap now ELSE standing
    BY <1>10, <2>1, <2>2 DEF OtherPublishes
  <2>5. published' \in [Accounts -> SUBSET Devices] /\ standing' \in SUBSET Devices
    BY <2>3, <2>4
  <2>6. Event(j, now) \in EventRecord
    BY <2>3 DEF Event, EventRecord
  <2>7. events' \in Seq(EventRecord)
    BY <2>4, <2>6
  <2>8. listNews' \in 0..MaxListNews
    BY <1>10 DEF OtherPublishes
  <2> QED
    BY <1>10, <2>5, <2>7, <2>8 DEF OtherPublishes, storeData
<1>11. ASSUME SessionsNext PROVE ListTypes'
  BY <1>11 DEF SessionsNext, HandleEncrypted, SetTrust, storeData
<1>12. ASSUME NEW j \in Accounts, OtherSpoils(j) PROVE ListTypes'
  <2>1. published' \in [Accounts -> SUBSET Devices] /\ standing' \in SUBSET Devices
    BY <1>12 DEF OtherSpoils
  <2>2. listNews' \in 0..MaxListNews
    BY <1>12 DEF OtherSpoils
  <2> QED
    BY <1>12, <2>1, <2>2 DEF OtherSpoils, storeData
<1> QED
  BY <1>2, <1>6, <1>7, <1>8, <1>9, <1>10, <1>11, <1>12
     DEF ManagerNext, EncryptingNext, PublishingNext, ListsNext, Callers

(* So do the decisions, the sessions and the calls of EncryptMessage.       *)
LEMMA NextTrustTypes == ManagerTypes /\ ManagerNext => TrustTypes'
<1> SUFFICES ASSUME ManagerTypes, ManagerNext PROVE TrustTypes'
  OBVIOUS
<1>1. ASSUME NEW e \in Encrypts, EncryptNext(e) PROVE TrustTypes'
  BY <1>1, EncryptLeaves, EncryptTypes DEF ManagerTypes, TrustTypes
<1>2. CASE UNCHANGED <<trust, bundles, sessions, call, allowed, changes, decisions>>
  BY <1>2 DEF ManagerTypes, TrustTypes
<1>3. ASSUME NEW a \in Devices, HandleEncrypted(a) PROVE TrustTypes'
  BY <1>3 DEF HandleEncrypted, ManagerTypes, TrustTypes, storeData
<1>4. ASSUME NEW a \in Devices, NEW level \in Levels, SetTrust(a, level) PROVE TrustTypes'
  <2>1. trust' \in [Devices -> Levels \cup {NoLevel}]
    BY <1>4 DEF SetTrust, ManagerTypes, TrustTypes
  <2>2. changes' \in [Encrypts -> Nat]
    BY <1>4 DEF SetTrust, ManagerTypes, TrustTypes
  <2>3. allowed' \in [Encrypts -> SUBSET Devices]
    <3>1. PICK now : now = {b \in Devices : Trusted(b)'}
      OBVIOUS
    <3>2. now \in SUBSET Devices
      BY <3>1
    <3>3. allowed' = [e \in Encrypts |-> IF Running(e) THEN allowed[e] \cup now ELSE allowed[e]]
      BY <1>4, <3>1 DEF SetTrust
    <3> QED
      BY <3>2, <3>3 DEF ManagerTypes, TrustTypes
  <2>4. decisions' \in 0..MaxDecisions
    BY <1>4, ManagerAssumption DEF SetTrust, ManagerTypes, TrustTypes
  <2> QED
    BY <1>4, <2>1, <2>2, <2>3, <2>4 DEF SetTrust, ManagerTypes, TrustTypes
<1> QED
  BY <1>1, <1>2, <1>3, <1>4, OthersLeave
     DEF ManagerNext, EncryptingNext, PublishingNext, SessionsNext, Callers

-----------------------------------------------------------------------------
(* EncryptMessage respects trust. *)

(* The addresses of the device's account that are still to be read: all of  *)
(* them, until the known ones have been asked for.                          *)
ToRead(c) == IF c.pc = "known" THEN {b \in Devices : JIDOf[b] = JIDOf[c.device]} ELSE c.scan

(* While they are read, the device is allowed already, or it is undecided   *)
(* and no address that is not left to read is verified; or a decision has   *)
(* changed that, and the read will find a verified address.                 *)
ScanSound(e) ==
    \/ call[e].device \in allowed[e]
    \/ /\ Level(call[e].device) = "undecided"
       /\ \A b \in Devices : JIDOf[b] = JIDOf[call[e].device] /\ b \notin ToRead(call[e])
              => trust[b] # "verified"
    \/ changes[e] = 1 /\ \E b \in ToRead(call[e]) : trust[b] = "verified"

(* What is trusted now is allowed; after at most one decision so is whom    *)
(* the key is wrapped for, and the device that is past effectiveTrust.      *)
Guarded(e) ==
    /\ Running(e) => \A a \in Devices : Trusted(a) => a \in allowed[e]
    /\ changes[e] <= 1 =>
         /\ call[e].recipients \subseteq allowed[e]
         /\ call[e].pc \in {"session", "build", "wrap"} => call[e].device \in allowed[e]
         /\ call[e].pc \in {"known", "scan"} => Policy = "blind-before-verification" /\ ScanSound(e)
TrustInv == \A e \in Encrypts : Guarded(e)

(* A call has not begun.                                                    *)
LEMMA InitTrustInv == ManagerInit => TrustInv
BY DEF ManagerInit, TrustInv, Guarded, Running, IdleEncrypt

(* A step of one call leaves the others'.                                   *)
LEMMA OneCall ==
    ASSUME ManagerTypes, TrustInv, NEW e \in Encrypts, NEW r, NEW al, UNCHANGED <<trust, changes>>,
           call' = [call EXCEPT ![e] = r], allowed' = [allowed EXCEPT ![e] = al],
           r.pc \notin {"idle", "over"} => \A a \in Devices : Trusted(a) => a \in al,
           changes[e] <= 1 =>
             /\ r.recipients \subseteq al
             /\ r.pc \in {"session", "build", "wrap"} => r.device \in al
             /\ r.pc \in {"known", "scan"} =>
                  /\ Policy = "blind-before-verification"
                  /\ \/ r.device \in al
                     \/ /\ Level(r.device) = "undecided"
                        /\ \A b \in Devices : JIDOf[b] = JIDOf[r.device] /\ b \notin ToRead(r)
                               => trust[b] # "verified"
                     \/ changes[e] = 1 /\ \E b \in ToRead(r) : trust[b] = "verified"
    PROVE  TrustInv'
<1> SUFFICES ASSUME NEW f \in Encrypts PROVE Guarded(f)'
  BY DEF TrustInv
<1>1. \A a \in Devices : Trusted(a)' <=> Trusted(a)
  BY DEF Trusted, Level
<1>2. call'[e] = r /\ allowed'[e] = al
  BY DEF ManagerTypes, TrustTypes
<1>3. CASE f # e
  <2>1. call'[f] = call[f] /\ allowed'[f] = allowed[f] /\ changes'[f] = changes[f]
    BY <1>3 DEF ManagerTypes, TrustTypes
  <2>2. Guarded(f)
    BY DEF TrustInv
  <2> QED
    BY <2>1, <2>2 DEF Guarded, ScanSound, Running, Trusted, Level, ToRead
<1>4. CASE f = e
  <2>1. Running(e)' => \A a \in Devices : Trusted(a)' => a \in allowed'[e]
    BY <1>1, <1>2 DEF Running
  <2>2. changes'[e] <= 1 =>
           /\ r.recipients \subseteq al
           /\ r.pc \in {"session", "build", "wrap"} => r.device \in al
           /\ r.pc \in {"known", "scan"} => Policy = "blind-before-verification" /\ ScanSound(e)'
    BY <1>2 DEF ScanSound, Level
  <2> QED
    BY <1>2, <1>4, <2>1, <2>2 DEF Guarded
<1> QED
  BY <1>3, <1>4

(* The levels a device can be read with.                                    *)
LEMMA TrustLevels ==
    ASSUME ManagerTypes, NEW a \in Devices
    PROVE  Level(a) \in {"trusted", "verified"} => Trusted(a)
BY DEF Trusted

(* The call goes on to another point.                                       *)
MovedTo(c, pc) == [c EXCEPT !.pc = pc]
LEMMA AtFields ==
    ASSUME NEW c \in EncryptRecord, NEW pc
    PROVE  /\ MovedTo(c, pc).pc = pc /\ MovedTo(c, pc).device = c.device /\ MovedTo(c, pc).scan = c.scan
           /\ MovedTo(c, pc).recipients = c.recipients
BY DEF MovedTo, EncryptRecord

(* Every step of EncryptMessage keeps it (manager.go:327-390, 484-518).     *)
LEMMA EncryptTrust == ASSUME ManagerTypes, TrustInv, NEW e \in Encrypts, EncryptNext(e) PROVE TrustInv'
<1> USE ManagerAssumption
<1>0. call \in [Encrypts -> EncryptRecord] /\ call[e] \in EncryptRecord
      /\ allowed \in [Encrypts -> SUBSET Devices] /\ trust \in [Devices -> Levels \cup {NoLevel}]
  BY DEF ManagerTypes, TrustTypes
<1>1. PICK c : c = call[e]
  OBVIOUS
<1>2. PICK al : al = allowed[e]
  OBVIOUS
<1>3. /\ c.device \in Devices /\ c.scan \in SUBSET Devices /\ c.targets \in SUBSET Devices
      /\ c \in EncryptRecord
  BY <1>0, <1>1, EncryptFields
<1>4. /\ c.pc \notin {"idle", "over"} => \A a \in Devices : Trusted(a) => a \in al
      /\ changes[e] <= 1 =>
           /\ c.recipients \subseteq al
           /\ c.pc \in {"session", "build", "wrap"} => c.device \in al
           /\ c.pc \in {"known", "scan"} =>
                /\ Policy = "blind-before-verification"
                /\ \/ c.device \in al
                   \/ /\ Level(c.device) = "undecided"
                      /\ \A b \in Devices : JIDOf[b] = JIDOf[c.device] /\ b \notin ToRead(c)
                             => trust[b] # "verified"
                   \/ changes[e] = 1 /\ \E b \in ToRead(c) : trust[b] = "verified"
  BY <1>1, <1>2 DEF TrustInv, Guarded, ScanSound, Running
<1>5. UNCHANGED <<trust, changes>>
  BY EncryptLeaves
<1>6. allowed' = allowed => allowed' = [allowed EXCEPT ![e] = al]
  BY <1>0, <1>2
<1>7. ASSUME NEW j \in Accounts \ {Own}, EncryptMessage(e, {j}) PROVE TrustInv'
  <2>1. PICK r : r = [IdleEncrypt EXCEPT !.pc = "collect", !.accounts = {j} \cup {Own}]
    OBVIOUS
  <2>2. r.pc = "collect" /\ r.recipients = {}
    BY <2>1 DEF IdleEncrypt
  <2>3. PICK now : now = {a \in Devices : Trusted(a)}
    OBVIOUS
  <2>4. call' = [call EXCEPT ![e] = r] /\ allowed' = [allowed EXCEPT ![e] = now]
    BY <1>7, <2>1, <2>3 DEF EncryptMessage
  <2> QED
    BY <1>5, <2>2, <2>3, <2>4, OneCall
<1>8. ASSUME NEW r, call' = [call EXCEPT ![e] = r], UNCHANGED allowed,
             c.pc \notin {"idle", "over"}, r.recipients = c.recipients,
             r.pc \in {"collect", "targets", "trust", "over"}
      PROVE  TrustInv'
  BY <1>4, <1>5, <1>6, <1>8, OneCall
<1>9. ASSUME NEW j, NEW d, Collected(e, j, d), c.pc = "collect", UNCHANGED allowed PROVE TrustInv'
  <2>1. PICK r : r = [c EXCEPT !.targets = c.targets \cup (d \ {Me}), !.accounts = c.accounts \ {j}]
    OBVIOUS
  <2>2. r.pc = c.pc /\ r.recipients = c.recipients
    BY <1>3, <2>1 DEF EncryptRecord
  <2>3. call' = [call EXCEPT ![e] = r]
    BY <1>1, <1>9, <2>1 DEF Collected
  <2> QED
    BY <1>8, <1>9, <2>2, <2>3
<1>10. ASSUME \/ \E j \in Accounts : CollectCached(e, j)
              \/ CollectFetched(e) \/ CollectFails(e)
       PROVE  TrustInv'
  BY <1>1, <1>9, <1>10 DEF CollectCached, CollectFetched, CollectFails
<1>11. ASSUME NEW pc, call' = [call EXCEPT ![e].pc = pc] PROVE call' = [call EXCEPT ![e] = MovedTo(c, pc)]
  BY <1>1, <1>11 DEF MovedTo
<1>12. ASSUME NEW pc \in {"targets", "over"}, c.pc \notin {"idle", "over"}, UNCHANGED allowed,
              call' = [call EXCEPT ![e].pc = pc]
       PROVE  TrustInv'
  <2>1. PICK r : r = MovedTo(c, pc)
    OBVIOUS
  <2>2. r.pc = pc /\ r.recipients = c.recipients
    BY <1>3, <2>1, AtFields
  <2>3. call' = [call EXCEPT ![e] = r]
    BY <1>11, <1>12, <2>1
  <2> QED
    BY <1>8, <1>12, <2>2, <2>3
<1>13. ASSUME NextTarget(e) PROVE TrustInv'
  <2>1. c.pc \in {"collect", "targets"} /\ UNCHANGED allowed
    BY <1>1, <1>13 DEF NextTarget
  <2>2. ASSUME NEW a,
               call' = [call EXCEPT ![e].pc = "trust", ![e].device = a, ![e].targets = @ \ {a}]
        PROVE  TrustInv'
    <3>1. PICK r : r = [c EXCEPT !.pc = "trust", !.device = a, !.targets = c.targets \ {a}]
      OBVIOUS
    <3>2. r.pc = "trust" /\ r.recipients = c.recipients
      BY <1>3, <3>1 DEF EncryptRecord
    <3>3. call' = [call EXCEPT ![e] = r]
      BY <1>1, <2>2, <3>1
    <3> QED
      BY <1>8, <2>1, <3>2, <3>3
  <2>3. CASE call' = [call EXCEPT ![e].pc = "over"]
    BY <1>12, <2>1, <2>3
  <2> QED
    BY <1>13, <2>2, <2>3 DEF NextTarget
<1>14. ASSUME NEW ok, Judged(e, ok), UNCHANGED allowed, c.pc \in {"trust", "scan"},
              ok /\ changes[e] <= 1 => c.device \in al
       PROVE  TrustInv'
  <2>1. CASE ok
    <3>1. call' = [call EXCEPT ![e].pc = "session"]
      BY <1>14, <2>1 DEF Judged
    <3>2. PICK r : r = MovedTo(c, "session")
      OBVIOUS
    <3>3. r.pc = "session" /\ r.device = c.device /\ r.recipients = c.recipients
      BY <1>3, <3>2, AtFields
    <3>4. call' = [call EXCEPT ![e] = r]
      BY <1>11, <3>1, <3>2
    <3> QED
      BY <1>4, <1>5, <1>6, <1>14, <2>1, <3>3, <3>4, OneCall
  <2>2. CASE ~ok
    <3>1. call' = [call EXCEPT ![e].pc = "targets"]
      BY <1>14, <2>2 DEF Judged
    <3> QED
      BY <1>12, <1>14, <3>1
  <2> QED
    BY <2>1, <2>2
<1>15. ASSUME EffectiveTrust(e) PROVE TrustInv'
  <2>1. c.pc = "trust" /\ UNCHANGED allowed
    BY <1>1, <1>15 DEF EffectiveTrust
  <2>2. Trusted(c.device) => c.device \in al
    BY <1>3, <1>4, <2>1
  <2>3. CASE Level(c.device) # "undecided"
    <3>1. Judged(e, Level(c.device) \in {"trusted", "verified"})
      BY <1>1, <1>15, <2>3 DEF EffectiveTrust
    <3>2. Level(c.device) \in {"trusted", "verified"} => c.device \in al
      BY <1>3, <2>2, TrustLevels
    <3> QED
      BY <1>14, <2>1, <3>1, <3>2
  <2>4. CASE Level(c.device) = "undecided" /\ Policy = "trust-all"
    <3>1. Judged(e, TRUE)
      BY <1>1, <1>15, <2>4 DEF EffectiveTrust
    <3>2. c.device \in al
      BY <2>2, <2>4 DEF Trusted
    <3> QED
      BY <1>14, <2>1, <3>1, <3>2
  <2>5. CASE Level(c.device) = "undecided" /\ Policy = "manual"
    <3>1. Judged(e, FALSE)
      BY <1>1, <1>15, <2>5 DEF EffectiveTrust
    <3> QED
      BY <1>14, <2>1, <3>1
  <2>6. CASE Level(c.device) = "undecided" /\ Policy = "blind-before-verification"
    <3>1. PICK r : r = MovedTo(c, "known")
      OBVIOUS
    <3>2. r.pc = "known" /\ r.device = c.device /\ r.recipients = c.recipients
      BY <1>3, <3>1, AtFields
    <3>3. call' = [call EXCEPT ![e].pc = "known"]
      BY <1>1, <1>15, <2>6 DEF EffectiveTrust
    <3>4. call' = [call EXCEPT ![e] = r]
      BY <1>11, <3>1, <3>3
    <3>5. \A b \in Devices : JIDOf[b] = JIDOf[r.device] => b \in ToRead(r)
      BY <3>2 DEF ToRead
    <3>6. /\ r.pc \notin {"idle", "over"} => \A a \in Devices : Trusted(a) => a \in al
          /\ changes[e] <= 1 => r.recipients \subseteq al
      BY <1>4, <2>1, <3>2
    <3>7. /\ Level(r.device) = "undecided" /\ r.pc = "known"
          /\ \A b \in Devices : JIDOf[b] = JIDOf[r.device] /\ b \notin ToRead(r) => trust[b] # "verified"
      BY <2>6, <3>2, <3>5
    <3> QED
      BY <1>5, <1>6, <2>1, <2>6, <3>4, <3>6, <3>7, OneCall
  <2> QED
    BY <2>3, <2>4, <2>5, <2>6
<1>21. ASSUME ReadKnown(e) PROVE TrustInv'
  <2>1. c.pc = "known" /\ UNCHANGED allowed
    BY <1>1, <1>21 DEF ReadKnown
  <2>2. PICK known : known = KnownAddresses(JIDOf[c.device])
    OBVIOUS
  <2>3. PICK r : r = [c EXCEPT !.pc = "scan", !.scan = known]
    OBVIOUS
  <2>4. /\ r.pc = "scan" /\ r.scan = known /\ r.device = c.device
        /\ r.recipients = c.recipients
    BY <1>3, <2>3 DEF EncryptRecord
  <2>5. call' = [call EXCEPT ![e] = r]
    BY <1>1, <1>21, <2>2, <2>3 DEF ReadKnown
  <2>6. ToRead(r) = known /\ known \subseteq Devices
    BY <2>2, <2>4 DEF ToRead, KnownAddresses
  <2>7. \A b \in Devices : JIDOf[b] = JIDOf[c.device] /\ trust[b] = "verified" => b \in known
    BY <2>2 DEF KnownAddresses, NoLevel
  <2>8. /\ r.pc \notin {"idle", "over"} => \A a \in Devices : Trusted(a) => a \in al
        /\ changes[e] <= 1 => r.recipients \subseteq al /\ Policy = "blind-before-verification"
    BY <1>4, <2>1, <2>4
  <2>9. \A b \in ToRead(c) : b \in Devices /\ JIDOf[b] = JIDOf[c.device]
    BY <2>1 DEF ToRead
  <2>10. ASSUME changes[e] <= 1
         PROVE  \/ r.device \in al
                \/ /\ Level(r.device) = "undecided"
                   /\ \A x \in Devices : JIDOf[x] = JIDOf[r.device] /\ x \notin ToRead(r)
                          => trust[x] # "verified"
                \/ changes[e] = 1 /\ \E x \in ToRead(r) : trust[x] = "verified"
    BY <1>4, <2>1, <2>4, <2>6, <2>7, <2>9, <2>10
  <2> QED
    BY <1>5, <1>6, <2>1, <2>4, <2>5, <2>8, <2>10, OneCall
<1>16. ASSUME ScanTrust(e) PROVE TrustInv'
  <2>1. c.pc = "scan" /\ UNCHANGED allowed
    BY <1>1, <1>16 DEF ScanTrust
  <2>2. CASE c.scan = {} /\ Judged(e, TRUE)
    <3>1. changes[e] <= 1 => c.device \in al
      <4>0. ToRead(c) = {}
        BY <2>1, <2>2 DEF ToRead
      <4>1. SUFFICES ASSUME changes[e] <= 1, Level(c.device) = "undecided",
                            \A b \in Devices : JIDOf[b] = JIDOf[c.device] => trust[b] # "verified",
                            Policy = "blind-before-verification"
                     PROVE  c.device \in al
        BY <1>4, <2>1, <4>0
      <4>2. Trusted(c.device)
        BY <4>1 DEF Trusted
      <4> QED
        BY <1>3, <1>4, <2>1, <4>2
    <3> QED
      BY <1>14, <2>1, <2>2, <3>1
  <2>3. ASSUME NEW b \in c.scan, Judged(e, FALSE) PROVE TrustInv'
    BY <1>14, <2>1, <2>3
  <2>4. ASSUME NEW b \in c.scan, trust[b] # "verified", call' = [call EXCEPT ![e].scan = @ \ {b}]
        PROVE  TrustInv'
    <3>1. PICK r : r = [c EXCEPT !.scan = c.scan \ {b}]
      OBVIOUS
    <3>2. /\ r.pc = "scan" /\ r.scan = c.scan \ {b} /\ r.device = c.device
          /\ r.recipients = c.recipients
      BY <1>3, <2>1, <3>1 DEF EncryptRecord
    <3>3. call' = [call EXCEPT ![e] = r]
      BY <1>1, <2>4, <3>1
    <3>4. /\ r.pc \notin {"idle", "over"} => \A a \in Devices : Trusted(a) => a \in al
          /\ changes[e] <= 1 => r.recipients \subseteq al /\ Policy = "blind-before-verification"
      BY <1>4, <2>1, <3>2
    <3>5. ASSUME changes[e] <= 1
          PROVE  \/ r.device \in al
                 \/ /\ Level(r.device) = "undecided"
                    /\ \A x \in Devices : JIDOf[x] = JIDOf[r.device] /\ x \notin ToRead(r)
                           => trust[x] # "verified"
                 \/ changes[e] = 1 /\ \E x \in ToRead(r) : trust[x] = "verified"
      <4>1. ToRead(r) = c.scan \ {b} /\ ToRead(c) = c.scan
        BY <2>1, <3>2 DEF ToRead
      <4> QED
        BY <1>4, <2>1, <2>4, <3>2, <3>5, <4>1
    <3> QED
      BY <1>5, <1>6, <2>1, <3>2, <3>3, <3>4, <3>5, OneCall
  <2> QED
    BY <1>1, <1>16, <2>2, <2>3, <2>4 DEF ScanTrust
<1>17. ASSUME EnsureSession(e) \/ BuildSession(e) PROVE TrustInv'
  <2>1. /\ c.pc \in {"session", "build"} /\ UNCHANGED allowed
        /\ \E pc \in {"build", "wrap"} : call' = [call EXCEPT ![e].pc = pc]
    BY <1>1, <1>17 DEF EnsureSession, BuildSession
  <2>2. PICK pc \in {"build", "wrap"} : call' = [call EXCEPT ![e].pc = pc]
    BY <2>1
  <2>3. PICK r : r = MovedTo(c, pc)
    OBVIOUS
  <2>4. r.pc = pc /\ r.device = c.device /\ r.recipients = c.recipients
    BY <1>3, <2>3, AtFields
  <2>5. call' = [call EXCEPT ![e] = r]
    BY <1>11, <2>2, <2>3
  <2>6. /\ r.pc \notin {"idle", "over"} => \A a \in Devices : Trusted(a) => a \in al
        /\ changes[e] <= 1 => r.recipients \subseteq al /\ r.device \in al
        /\ r.pc \notin {"known", "scan"}
    BY <1>4, <2>1, <2>4
  <2> QED
    BY <1>5, <1>6, <2>1, <2>5, <2>6, OneCall
<1>18. ASSUME WrapKey(e) PROVE TrustInv'
  <2>1. c.pc = "wrap" /\ UNCHANGED allowed
    BY <1>1, <1>18 DEF WrapKey
  <2>2. PICK r : r = [c EXCEPT !.pc = "targets", !.recipients = c.recipients \cup {c.device}]
    OBVIOUS
  <2>3. r.pc = "targets" /\ r.recipients = c.recipients \cup {c.device}
    BY <1>3, <2>2 DEF EncryptRecord
  <2>4. call' = [call EXCEPT ![e] = r]
    BY <1>1, <1>18, <2>2 DEF WrapKey
  <2> QED
    BY <1>4, <1>5, <1>6, <2>1, <2>3, <2>4, OneCall
<1>19. ASSUME SkipDevice(e) PROVE TrustInv'
  BY <1>1, <1>12, <1>19 DEF SkipDevice
<1>20. ASSUME NEW j \in Accounts, CollectAsk(e, j) PROVE TrustInv'
  BY <1>20 DEF CollectAsk, TrustInv, Guarded, ScanSound, Running, Trusted, Level, storeData,
          ToRead
<1> QED
  BY <1>7, <1>10, <1>13, <1>15, <1>16, <1>17, <1>18, <1>19, <1>20, <1>21 DEF EncryptNext

(* A decision of the user: what it makes trusted is allowed from then on,   *)
(* and the first one within a call does not deceive a scan.                 *)
LEMMA DecisionTrust ==
    ASSUME ManagerTypes, TrustInv, NEW x \in Devices, NEW level \in Levels, SetTrust(x, level)
    PROVE  TrustInv'
<1> SUFFICES ASSUME NEW e \in Encrypts PROVE Guarded(e)'
  BY DEF TrustInv
<1> USE ManagerAssumption
<1>0. /\ call[e] \in EncryptRecord /\ allowed \in [Encrypts -> SUBSET Devices]
      /\ trust \in [Devices -> Levels \cup {NoLevel}] /\ changes \in [Encrypts -> Nat]
  BY DEF ManagerTypes, TrustTypes
<1>1. PICK now : now = {b \in Devices : Trusted(b)'}
  OBVIOUS
<1>2. /\ trust' = [trust EXCEPT ![x] = level] /\ UNCHANGED call
      /\ changes'[e] = IF Running(e) THEN changes[e] + 1 ELSE changes[e]
      /\ allowed'[e] = IF Running(e) THEN allowed[e] \cup now ELSE allowed[e]
  BY <1>1 DEF SetTrust
<1>3. Guarded(e) /\ (Running(e)' <=> Running(e))
  BY <1>2 DEF TrustInv, Running
<1>4. Running(e)' => \A a \in Devices : Trusted(a)' => a \in allowed'[e]
  BY <1>1, <1>2, <1>3
<1>5. allowed[e] \subseteq allowed'[e]
  BY <1>2
<1>6. changes'[e] <= 1 => changes[e] <= 1 /\ (Running(e) => changes[e] = 0)
  BY <1>0, <1>2
<1>7. ASSUME changes'[e] <= 1
      PROVE  /\ call'[e].recipients \subseteq allowed'[e]
             /\ call'[e].pc \in {"session", "build", "wrap"} => call'[e].device \in allowed'[e]
  BY <1>2, <1>3, <1>5, <1>6, <1>7 DEF Guarded
<1>8. ASSUME changes'[e] <= 1, call'[e].pc \in {"known", "scan"}
      PROVE  Policy = "blind-before-verification" /\ ScanSound(e)'
  <2>1. PICK d : d = call[e].device
    OBVIOUS
  <2>2. PICK scan : scan = ToRead(call[e]) /\ scan = ToRead(call'[e])
    BY <1>2
  <2>3. d \in Devices /\ scan \subseteq Devices
    BY <1>0, <2>1, <2>2, EncryptFields DEF ToRead
  <2>4. Running(e) /\ changes[e] = 0 /\ changes'[e] = 1 /\ call[e].pc \in {"known", "scan"}
    BY <1>2, <1>6, <1>8 DEF Running
  <2>5. /\ Policy = "blind-before-verification"
        /\ \/ d \in allowed[e]
           \/ /\ Level(d) = "undecided"
              /\ \A b \in Devices : JIDOf[b] = JIDOf[d] /\ b \notin scan => trust[b] # "verified"
    BY <1>3, <2>1, <2>2, <2>4 DEF Guarded, ScanSound
  <2>6. SUFFICES ASSUME d \notin allowed'[e]
                 PROVE  \/ /\ Level(d)' = "undecided"
                           /\ \A b \in Devices : JIDOf[b] = JIDOf[d] /\ b \notin scan
                                  => trust'[b] # "verified"
                        \/ \E b \in scan : trust'[b] = "verified"
    BY <1>2, <2>1, <2>2, <2>4, <2>5 DEF ScanSound, Level
  <2>7. /\ Level(d) = "undecided" /\ ~Trusted(d)
        /\ \A b \in Devices : JIDOf[b] = JIDOf[d] /\ b \notin scan => trust[b] # "verified"
    BY <1>3, <1>5, <2>3, <2>4, <2>5, <2>6 DEF Guarded
  <2>8. PICK b \in scan : trust[b] = "verified" /\ JIDOf[b] = JIDOf[d]
    BY <2>5, <2>7 DEF Trusted
  <2>9. CASE trust'[b] = "verified"
    BY <2>9
  <2>10. CASE trust'[b] # "verified"
    <3>1. x = b /\ level # "verified"
      BY <1>0, <1>2, <2>3, <2>8, <2>10
    <3>2. d # x
      BY <2>7, <2>8, <3>1 DEF Level, NoLevel
    <3>3. trust'[d] = trust[d]
      BY <1>0, <1>2, <2>3, <3>2
    <3>4. Level(d)' = "undecided"
      BY <2>7, <3>3 DEF Level
    <3>5. ASSUME NEW a \in Devices, JIDOf[a] = JIDOf[d], a \notin scan PROVE trust'[a] # "verified"
      BY <1>0, <1>2, <2>7, <3>1, <3>5
    <3> QED
      BY <3>4, <3>5
  <2> QED
    BY <2>9, <2>10
<1> QED
  BY <1>4, <1>7, <1>8 DEF Guarded

(* Every step keeps it.                                                     *)
LEMMA NextTrustInv == ManagerTypes /\ TrustInv /\ ManagerNext => TrustInv'
<1> SUFFICES ASSUME ManagerTypes, TrustInv, ManagerNext PROVE TrustInv'
  OBVIOUS
<1>1. CASE UNCHANGED <<trust, call, allowed, changes>>
  BY <1>1 DEF TrustInv, Guarded, ScanSound, Running, Trusted, Level, ToRead
<1>2. ASSUME NEW a \in Devices, HandleEncrypted(a) PROVE UNCHANGED <<trust, call, allowed, changes>>
  BY <1>2 DEF HandleEncrypted, storeData
<1> QED
  BY <1>1, <1>2, OthersLeave, EncryptTrust, DecisionTrust
     DEF ManagerNext, EncryptingNext, PublishingNext, SessionsNext, Callers

(* The types are kept by every step, and stuttering.                        *)
LEMMA NextTypes == ManagerTypes /\ [ManagerNext]_managerVars => ManagerTypes'
<1> SUFFICES ASSUME ManagerTypes, [ManagerNext]_managerVars PROVE ManagerTypes'
  OBVIOUS
<1>1. CASE ManagerNext
  BY <1>1, NextListTypes, NextTrustTypes DEF ManagerTypes
<1>2. CASE UNCHANGED managerVars
  BY <1>2 DEF managerVars, storeData, ManagerTypes, TrustTypes, ListTypes
<1> QED
  BY <1>1, <1>2

(* The store, the sessions, the calls of EncryptMessage with their locals,  *)
(* the fetches and publications, the published lists, the notifications and *)
(* the histories keep their types: a stored or fetched list, a target and a *)
(* recipient is always a device (manager.go:150-200, 310-390, 462-518).     *)
THEOREM ManagerTypeCorrect == ManagerSpec => []ManagerTypeOK
<1>1. ManagerTypes => ManagerTypeOK
  BY DEF ManagerTypes, TrustTypes, ListTypes, ManagerTypeOK
<1> QED
  BY <1>1, InitTypes, NextTypes, PTL DEF ManagerSpec

(* EncryptMessage wraps the key only for devices that the policy trusted at *)
(* some moment of the call, though it reads the levels one by one, as long  *)
(* as no more than one decision falls into the call (manager.go:351-372,    *)
(* 484-518).                                                                *)
THEOREM EncryptsToTrusted == ManagerSpec => []TrustRespected
<1>1. ManagerTypes /\ TrustInv => TrustRespected
  BY DEF TrustInv, Guarded, TrustRespected
<1>2. ManagerTypes /\ TrustInv /\ [ManagerNext]_managerVars => ManagerTypes' /\ TrustInv'
  <2> SUFFICES ASSUME ManagerTypes, TrustInv, [ManagerNext]_managerVars PROVE ManagerTypes' /\ TrustInv'
    OBVIOUS
  <2>1. UNCHANGED managerVars => TrustInv'
    BY DEF managerVars, storeData, TrustInv, Guarded, ScanSound, Running, Trusted, Level, ToRead
  <2> QED
    BY <2>1, NextTypes, NextTrustInv
<1> QED
  BY <1>1, <1>2, InitTypes, InitTrustInv, PTL DEF ManagerSpec

-----------------------------------------------------------------------------
(* PublishDeviceList keeps the account's devices. *)

(* Every list of the account, wherever it is on its way, holds the standing *)
(* devices: each was once the server's, and those devices were on it since  *)
(* before.  Only a publication that falls back on nothing breaks the chain. *)
HoldsAll(d) == informed = TRUE => standing \subseteq d

FetchesOwn == \A p \in Publishes : fetch[p] # NoFetch =>
    publishing[p] = "fetch" /\ fetch[p].at \in {"asked", "answered"} /\ fetch[p].account = Own
ListKept ==
    /\ lists[Own].known = TRUE => HoldsAll(lists[Own].devices)
    /\ lists[Own].known # TRUE => lists[Own].devices = {}
EventsKept == \A i \in 1..Len(events) : events[i].account = Own => HoldsAll(events[i].devices)
FetchKept(c) == fetch[c].at = "answered" /\ fetch[c].account = Own => HoldsAll(fetch[c].devices)
KeptBy(p) ==
    /\ publishing[p] \in {"publish", "store"} => HoldsAll(toPublish[p])
    /\ publishing[p] = "fetch" => toPublish[p] = {} \/ HoldsAll(toPublish[p])
PublishInv ==
    /\ FetchesOwn /\ ListKept /\ EventsKept /\ HoldsAll(published[Own])
    /\ \A c \in Callers : FetchKept(c)
    /\ \A p \in Publishes : KeptBy(p)

(* The account's devices are published, and no publication has begun.       *)
LEMMA InitPublishInv == ManagerInit => PublishInv
<1> SUFFICES ASSUME ManagerInit PROVE PublishInv
  OBVIOUS
<1>1. \A c \in Callers : fetch[c] = NoFetch /\ NoFetch.at # "answered"
  BY DEF ManagerInit, NoFetch
<1>2. \A p \in Publishes : publishing[p] = "idle" /\ p \in Callers
  BY DEF ManagerInit, Callers
<1>3. standing = published[Own] /\ events = <<>>
  BY DEF ManagerInit
<1>4. lists[Own] = NoList /\ NoList.known = FALSE /\ NoList.devices = {}
  BY ManagerAssumption DEF ManagerInit, NoList
<1>5. FetchesOwn /\ ListKept
  BY <1>1, <1>2, <1>4 DEF FetchesOwn, ListKept
<1>6. EventsKept /\ HoldsAll(published[Own])
  BY <1>3 DEF EventsKept, HoldsAll
<1>7. (\A c \in Callers : FetchKept(c)) /\ (\A p \in Publishes : KeptBy(p))
  BY <1>1, <1>2 DEF FetchKept, KeptBy
<1> QED
  BY <1>5, <1>6, <1>7 DEF PublishInv

(* The cache is given a list that holds the devices, or another account's.  *)
LEMMA ListPut ==
    ASSUME ManagerTypes, ListKept, UNCHANGED <<standing, informed>>, NEW j \in Accounts, NEW d,
           lists' = [lists EXCEPT ![j] = List(d)], j = Own => HoldsAll(d)
    PROVE  ListKept'
<1>1. lists \in [Accounts -> ListRecord] /\ Own \in Accounts
  BY ManagerAssumption DEF ManagerTypes, ListTypes
<1>2. CASE j = Own
  <2>1. lists'[Own] = List(d)
    BY <1>1, <1>2
  <2>2. lists'[Own].known = TRUE /\ lists'[Own].devices = d
    BY <2>1 DEF List
  <2> QED
    BY <1>2, <2>2 DEF ListKept, HoldsAll
<1>3. CASE j # Own
  <2>1. lists'[Own] = lists[Own]
    BY <1>1, <1>3
  <2> QED
    BY <2>1 DEF ListKept, HoldsAll
<1> QED
  BY <1>2, <1>3

(* A fetch begins, fails, or is applied (manager.go:176-201).               *)
Fetching(c) == \/ UNCHANGED <<fetch, lists>>
               \/ \E j \in Accounts : FetchAsk(c, j) /\ UNCHANGED lists
               \/ FetchFails(c) /\ UNCHANGED lists
               \/ FetchApply(c)
LEMMA FetchStep ==
    ASSUME ManagerTypes, PublishInv, NEW c \in Callers, Fetching(c), UNCHANGED <<standing, informed>>
    PROVE  ListKept' /\ \A b \in Callers : FetchKept(b)' /\ (b # c => fetch'[b] = fetch[b])
<1>1. fetch \in [Callers -> FetchRecord]
  BY DEF ManagerTypes, ListTypes
<1>2. \A b \in Callers : b # c => fetch'[b] = fetch[b]
  BY <1>1 DEF Fetching, FetchAsk, FetchFails, FetchApply
<1>3. fetch'[c] = fetch[c] \/ fetch'[c].at # "answered"
  BY <1>1 DEF Fetching, FetchAsk, FetchFails, FetchApply, NoFetch
<1>4. ASSUME NEW b \in Callers PROVE FetchKept(b)'
  <2>1. FetchKept(b)
    BY DEF PublishInv
  <2> QED
    BY <1>2, <1>3, <2>1 DEF FetchKept, HoldsAll
<1>5. ListKept'
  <2>1. CASE UNCHANGED lists
    BY <2>1 DEF PublishInv, ListKept, HoldsAll
  <2>2. CASE FetchApply(c)
    <3>1. fetch[c] \in FetchRecord /\ fetch[c].at = "answered"
      BY <1>1, <2>2 DEF FetchApply
    <3>2. PICK j \in Accounts : j = fetch[c].account
      BY <3>1, FetchFields
    <3>3. PICK d : d = fetch[c].devices
      OBVIOUS
    <3>4. lists' = [lists EXCEPT ![j] = List(d)]
      BY <2>2, <3>2, <3>3 DEF FetchApply
    <3>5. j = Own => HoldsAll(d)
      BY <3>1, <3>2, <3>3 DEF PublishInv, FetchKept
    <3>6. ListKept
      BY DEF PublishInv
    <3> QED
      BY <3>4, <3>5, <3>6, ListPut
  <2> QED
    BY <2>1, <2>2 DEF Fetching
<1> QED
  BY <1>2, <1>4, <1>5

(* A call of EncryptMessage only fetches.                                   *)
LEMMA EncryptionKeeps == ASSUME ManagerTypes, PublishInv, NEW e \in Encrypts, EncryptNext(e) PROVE PublishInv'
<1>1. UNCHANGED <<publishing, toPublish, published, events, standing, informed>>
  BY EncryptLeaves
<1>2. e \in Callers /\ Publishes \subseteq Callers /\ e \notin Publishes
  BY ManagerAssumption DEF Callers
<1>3. Fetching(e)
  BY DEF Fetching, EncryptNext, EncryptMessage, CollectCached, CollectAsk, CollectFetched,
         CollectFails, NextTarget, EffectiveTrust, ReadKnown, ScanTrust, EnsureSession,
         BuildSession, WrapKey, SkipDevice, storeData
<1>4. ListKept' /\ \A b \in Callers : FetchKept(b)' /\ (b # e => fetch'[b] = fetch[b])
  BY <1>1, <1>2, <1>3, FetchStep
<1>5. FetchesOwn'
  BY <1>1, <1>2, <1>4 DEF PublishInv, FetchesOwn
<1>6. EventsKept' /\ HoldsAll(published[Own])' /\ \A p \in Publishes : KeptBy(p)'
  BY <1>1 DEF PublishInv, EventsKept, KeptBy, HoldsAll
<1> QED
  BY <1>4, <1>5, <1>6 DEF PublishInv

(* PublishDeviceList up to its request: the list comes from the cache, from *)
(* the fetch, or, if that fails, again from the cache (manager.go:156-161). *)
LEMMA GatheringKeeps ==
    ASSUME ManagerTypes, PublishInv, NEW p \in Publishes,
           PublishDeviceList(p) \/ PublishFetched(p) \/ PublishUnfetched(p)
    PROVE  PublishInv'
<1>0. /\ p \in Callers /\ Publishes \subseteq Callers /\ fetch \in [Callers -> FetchRecord]
      /\ publishing \in [Publishes -> {"idle", "fetch", "publish", "store", "over"}]
      /\ toPublish \in [Publishes -> SUBSET Devices] /\ informed \in BOOLEAN
      /\ UNCHANGED <<standing, published, events>> /\ Own \in Accounts
  BY ManagerAssumption
     DEF Callers, ManagerTypes, ListTypes, PublishDeviceList, PublishFetched, PublishUnfetched
<1>1. KeptBy(p) /\ FetchKept(p) /\ ListKept
  BY <1>0 DEF PublishInv
<1>2. \A q \in Publishes \ {p} : publishing'[q] = publishing[q] /\ toPublish'[q] = toPublish[q]
  BY <1>0 DEF PublishDeviceList, PublishFetched, PublishUnfetched
<1>3. informed' = TRUE => informed = TRUE
  BY <1>0, Zenon DEF PublishDeviceList, PublishFetched, PublishUnfetched
<1>4. Fetching(p)
  BY <1>0 DEF Fetching, PublishDeviceList, PublishFetched, PublishUnfetched, storeData
<1>5. FetchesOwn' /\ KeptBy(p)'
  <2>1. CASE PublishDeviceList(p)
    <3>1. /\ toPublish'[p] = lists[Own].devices /\ informed' = informed /\ publishing[p] = "idle"
          /\ \/ publishing'[p] = "publish" /\ lists[Own].known = TRUE /\ fetch' = fetch
             \/ publishing'[p] = "fetch" /\ FetchAsk(p, Own)
      BY <1>0, <2>1 DEF PublishDeviceList
    <3>2. KeptBy(p)'
      BY <1>0, <1>1, <3>1 DEF ListKept, KeptBy, HoldsAll
    <3>3. fetch[p] = NoFetch
      BY <3>1 DEF PublishInv, FetchesOwn
    <3>4. \/ fetch'[p] = NoFetch
          \/ publishing'[p] = "fetch" /\ fetch'[p] = [at |-> "asked", account |-> Own]
      BY <1>0, <3>1, <3>3 DEF FetchAsk
    <3>5. \A q \in Publishes : q # p => fetch'[q] = fetch[q]
      BY <1>0, <3>1 DEF FetchAsk
    <3>6. FetchesOwn'
      BY <1>2, <3>4, <3>5 DEF PublishInv, FetchesOwn
    <3> QED
      BY <3>2, <3>6
  <2>2. CASE PublishFetched(p)
    <3>1. /\ toPublish'[p] = fetch[p].devices /\ publishing'[p] = "publish" /\ informed' = informed
          /\ fetch[p].at = "answered" /\ fetch'[p] = NoFetch
          /\ \A q \in Publishes : q # p => fetch'[q] = fetch[q]
      BY <1>0, <2>2 DEF PublishFetched, FetchApply
    <3>2. fetch[p].account = Own
      BY <3>1 DEF PublishInv, FetchesOwn, NoFetch
    <3>3. KeptBy(p)'
      BY <1>0, <1>1, <3>1, <3>2 DEF KeptBy, FetchKept, HoldsAll
    <3>4. FetchesOwn'
      BY <1>2, <3>1 DEF PublishInv, FetchesOwn
    <3> QED
      BY <3>3, <3>4
  <2>3. CASE PublishUnfetched(p)
    <3>1. /\ toPublish'[p] = toPublish[p] /\ publishing'[p] = "publish" /\ publishing[p] = "fetch"
          /\ fetch'[p] = NoFetch
          /\ \A q \in Publishes : q # p => fetch'[q] = fetch[q]
      BY <1>0, <2>3 DEF PublishUnfetched, FetchFails
    <3>2. informed' = TRUE => toPublish[p] # {}
      BY <2>3, Zenon DEF PublishUnfetched
    <3>3. KeptBy(p)'
      BY <1>0, <1>1, <1>3, <3>1, <3>2 DEF KeptBy, HoldsAll
    <3>4. FetchesOwn'
      BY <1>2, <3>1 DEF PublishInv, FetchesOwn
    <3> QED
      BY <3>3, <3>4
  <2> QED
    BY <2>1, <2>2, <2>3
<1>6. ListKept' /\ \A b \in Callers : FetchKept(b)'
  <2>1. CASE UNCHANGED informed
    BY <1>0, <1>4, <2>1, FetchStep
  <2>2. CASE PublishUnfetched(p)
    <3>1. lists' = lists /\ fetch'[p] = NoFetch /\ NoFetch.at # "answered"
          /\ \A b \in Callers : b # p => fetch'[b] = fetch[b]
      BY <1>0, <2>2 DEF PublishUnfetched, FetchFails, storeData, NoFetch
    <3>2. ListKept'
      BY <1>0, <1>1, <1>3, <3>1 DEF ListKept, HoldsAll
    <3>3. ASSUME NEW b \in Callers PROVE FetchKept(b)'
      <4>1. FetchKept(b)
        BY DEF PublishInv
      <4> QED
        BY <1>0, <1>3, <3>1, <4>1 DEF FetchKept, HoldsAll
    <3> QED
      BY <3>2, <3>3
  <2> QED
    BY <2>1, <2>2 DEF PublishDeviceList, PublishFetched
<1>7. EventsKept' /\ HoldsAll(published[Own])'
  BY <1>0, <1>3 DEF PublishInv, EventsKept, HoldsAll
<1>8. \A q \in Publishes : KeptBy(q)'
  BY <1>0, <1>2, <1>3, <1>5 DEF PublishInv, KeptBy, HoldsAll
<1> QED
  BY <1>5, <1>6, <1>7, <1>8 DEF PublishInv

(* An event more, that holds the devices or is of another account.          *)
LEMMA EventAppended ==
    ASSUME ManagerTypes, EventsKept, NEW j \in Accounts, NEW d \in SUBSET Devices,
           events' = Append(events, Event(j, d)), informed' = informed, standing' \subseteq standing,
           j = Own => (informed = TRUE => standing' \subseteq d)
    PROVE  EventsKept'
<1>1. events \in Seq(EventRecord)
  BY DEF ManagerTypes, ListTypes
<1>2. PICK v : v = Event(j, d)
  OBVIOUS
<1>3. v.account = j /\ v.devices = d
  BY <1>2 DEF Event
<1>4. /\ Len(events') = Len(events) + 1 /\ Len(events) \in Nat /\ events'[Len(events) + 1] = v
      /\ \A i \in 1..Len(events) : events'[i] = events[i]
  BY <1>1, <1>2
<1>5. ASSUME NEW i \in 1..Len(events'), events'[i].account = Own, informed' = TRUE
      PROVE  standing' \subseteq events'[i].devices
  <2>1. CASE i = Len(events) + 1
    BY <1>3, <1>4, <1>5, <2>1
  <2>2. CASE i # Len(events) + 1
    <3>1. i \in 1..Len(events)
      BY <1>4, <2>2
    <3>2. events[i].account = Own /\ events'[i] = events[i]
      BY <1>4, <1>5, <3>1
    <3>3. standing \subseteq events[i].devices
      BY <1>5, <3>1, <3>2 DEF EventsKept, HoldsAll
    <3> QED
      BY <3>2, <3>3
  <2> QED
    BY <2>1, <2>2
<1> QED
  BY <1>5 DEF EventsKept, HoldsAll

(* The request reaches the server, its response the store, or it fails      *)
(* (manager.go:162-170).                                                    *)
LEMMA PublicationKeeps ==
    ASSUME ManagerTypes, PublishInv, NEW p \in Publishes,
           ServerPublishes(p) \/ PublishStore(p) \/ PublishFails(p)
    PROVE  PublishInv'
<1> USE ManagerAssumption
<1>0. /\ publishing \in [Publishes -> {"idle", "fetch", "publish", "store", "over"}]
      /\ toPublish \in [Publishes -> SUBSET Devices] /\ published \in [Accounts -> SUBSET Devices]
      /\ UNCHANGED <<standing, informed, toPublish, fetch>>
  BY DEF ManagerTypes, ListTypes, ServerPublishes, PublishStore, PublishFails
<1>1. /\ publishing[p] \in {"publish", "store"} /\ publishing'[p] \in {"store", "over"}
      /\ publishing'[p] = "store" => publishing[p] = "publish"
      /\ \A q \in Publishes : q # p => publishing'[q] = publishing[q]
  BY <1>0 DEF ServerPublishes, PublishStore, PublishFails
<1>2. PICK d : d = ListToPublish(p)
  OBVIOUS
<1>3. d \in SUBSET Devices /\ HoldsAll(toPublish[p]) /\ HoldsAll(d)
  BY <1>0, <1>1, <1>2 DEF ListToPublish, PublishInv, KeptBy, HoldsAll
<1>4. \A q \in Publishes : KeptBy(q)'
  BY <1>0, <1>1 DEF PublishInv, KeptBy, HoldsAll
<1>5. fetch[p] = NoFetch
  BY <1>1 DEF PublishInv, FetchesOwn
<1>6. FetchesOwn' /\ \A c \in Callers : FetchKept(c)'
  BY <1>0, <1>1, <1>5 DEF PublishInv, FetchesOwn, FetchKept, HoldsAll
<1>7. CASE ServerPublishes(p)
  <2>1. /\ published'[Own] = d /\ lists' = lists /\ events' = Append(events, Event(Own, d))
    BY <1>0, <1>2, <1>7 DEF ServerPublishes, storeData
  <2>2. EventsKept'
    BY <1>0, <1>3, <2>1, EventAppended DEF PublishInv, HoldsAll
  <2>3. ListKept' /\ HoldsAll(published[Own])'
    BY <1>0, <1>3, <2>1 DEF PublishInv, ListKept, HoldsAll
  <2> QED
    BY <1>4, <1>6, <2>2, <2>3 DEF PublishInv
<1>8. CASE PublishStore(p) \/ PublishFails(p)
  <2>1. /\ UNCHANGED <<published, events>>
        /\ lists' = lists \/ lists' = [lists EXCEPT ![Own] = List(d)]
    BY <1>2, <1>8 DEF PublishStore, PublishFails, storeData
  <2>2. ListKept
    BY DEF PublishInv
  <2>3. ListKept'
    <3>1. CASE lists' = lists
      BY <1>0, <2>2, <3>1 DEF ListKept, HoldsAll
    <3>2. CASE lists' = [lists EXCEPT ![Own] = List(d)]
      BY <1>0, <1>3, <2>2, <3>2, ListPut
    <3> QED
      BY <2>1, <3>1, <3>2
  <2>4. EventsKept' /\ HoldsAll(published[Own])'
    BY <1>0, <2>1 DEF PublishInv, EventsKept, HoldsAll
  <2> QED
    BY <1>4, <1>6, <2>3, <2>4 DEF PublishInv
<1> QED
  BY <1>7, <1>8

(* The server answers a fetch with what is published.                       *)
LEMMA AnswerKeeps == ASSUME ManagerTypes, PublishInv, NEW c \in Callers, ServerGives(c) PROVE PublishInv'
<1>1. /\ UNCHANGED <<lists, events, publishing, toPublish, published, standing, informed>>
      /\ fetch \in [Callers -> FetchRecord] /\ Publishes \subseteq Callers
  BY DEF ServerGives, ManagerTypes, ListTypes, Callers, storeData
<1>2. PICK r : r = [at |-> "answered", account |-> fetch[c].account,
                    devices |-> published[fetch[c].account]]
  OBVIOUS
<1>3. /\ r.at = "answered" /\ r.account = fetch[c].account
      /\ r.devices = published[fetch[c].account] /\ fetch[c].at = "asked"
  BY <1>2 DEF ServerGives
<1>4. fetch'[c] = r /\ \A q \in Callers : q # c => fetch'[q] = fetch[q]
  BY <1>1, <1>2 DEF ServerGives
<1>5. fetch[c] # NoFetch
  BY <1>3 DEF NoFetch
<1>6. FetchesOwn'
  BY <1>1, <1>3, <1>4, <1>5 DEF PublishInv, FetchesOwn
<1>7. ASSUME NEW b \in Callers PROVE FetchKept(b)'
  <2>1. HoldsAll(published[Own]) /\ FetchKept(b)
    BY DEF PublishInv
  <2> QED
    BY <1>1, <1>3, <1>4, <2>1 DEF FetchKept, HoldsAll
<1>8. /\ ListKept' /\ EventsKept' /\ HoldsAll(published[Own])'
      /\ \A p \in Publishes : KeptBy(p)'
  BY <1>1 DEF PublishInv, ListKept, EventsKept, KeptBy, HoldsAll
<1> QED
  BY <1>6, <1>7, <1>8 DEF PublishInv

(* The reader applies an event; a list grows old (manager.go:462-483).      *)
LEMMA ReaderKeeps ==
    ASSUME ManagerTypes, PublishInv, HandlePubSub \/ \E j \in Accounts : ListExpires(j)
    PROVE  PublishInv'
<1> USE ManagerAssumption
<1>0. /\ UNCHANGED <<fetch, publishing, toPublish, published, standing, informed>>
      /\ lists \in [Accounts -> ListRecord] /\ events \in Seq(EventRecord)
  BY DEF HandlePubSub, ListExpires, ManagerTypes, ListTypes
<1>1. /\ FetchesOwn' /\ HoldsAll(published[Own])'
      /\ (\A c \in Callers : FetchKept(c)') /\ (\A p \in Publishes : KeptBy(p)')
  BY <1>0 DEF PublishInv, FetchesOwn, FetchKept, KeptBy, HoldsAll
<1>2. ListKept /\ EventsKept
  BY DEF PublishInv
<1>3. CASE HandlePubSub
  <2>1. /\ events # <<>> /\ Head(events) = events[1] /\ Len(events) \in Nat /\ Len(events) # 0
        /\ Head(events) \in EventRecord
    BY <1>0, <1>3 DEF HandlePubSub
  <2>2. PICK j \in Accounts : j = Head(events).account
    BY <2>1 DEF EventRecord
  <2>3. PICK d : d = Head(events).devices
    OBVIOUS
  <2>4. lists' = [lists EXCEPT ![j] = List(d)] /\ events' = Tail(events)
    BY <1>3, <2>2, <2>3 DEF HandlePubSub
  <2>5. j = Own => HoldsAll(d)
    <3>1. 1 \in 1..Len(events)
      BY <2>1
    <3> QED
      BY <1>2, <2>1, <2>2, <2>3, <3>1 DEF EventsKept
  <2>6. ListKept'
    BY <1>0, <1>2, <2>4, <2>5, ListPut
  <2>7. EventsKept'
    <3>1. \A i \in 1..Len(events') : i + 1 \in 1..Len(events) /\ events'[i] = events[i + 1]
      BY <1>0, <2>1, <2>4
    <3> QED
      BY <1>0, <1>2, <3>1 DEF EventsKept, HoldsAll
  <2> QED
    BY <1>1, <2>6, <2>7 DEF PublishInv
<1>4. ASSUME NEW j \in Accounts, ListExpires(j) PROVE PublishInv'
  <2>1. lists'[Own].known = lists[Own].known /\ lists'[Own].devices = lists[Own].devices
    <3>1. lists' = [lists EXCEPT ![j] = [lists[j] EXCEPT !.fresh = FALSE]]
      BY <1>4 DEF ListExpires
    <3>2. PICK r : r = [lists[j] EXCEPT !.fresh = FALSE]
      OBVIOUS
    <3>3. r.known = lists[j].known /\ r.devices = lists[j].devices
      BY <1>0, <3>2 DEF ListRecord
    <3>4. lists'[Own] = IF j = Own THEN r ELSE lists[Own]
      BY <1>0, <3>1, <3>2
    <3> QED
      BY <3>3, <3>4
  <2>2. UNCHANGED events
    BY <1>4 DEF ListExpires
  <2>3. ListKept' /\ EventsKept'
    BY <1>0, <1>2, <2>1, <2>2 DEF ListKept, EventsKept, HoldsAll
  <2> QED
    BY <1>1, <2>3 DEF PublishInv
<1> QED
  BY <1>3, <1>4

(* Another client publishes: what it takes off is no longer standing.       *)
LEMMA OtherKeeps ==
    ASSUME ManagerTypes, PublishInv,
           (\E a \in Devices \ {Me} : OtherPublishes(a)) \/ (\E j \in Accounts : OtherSpoils(j))
    PROVE  PublishInv'
<1> USE ManagerAssumption
<1>0. /\ UNCHANGED <<fetch, publishing, toPublish, lists, informed>>
      /\ published \in [Accounts -> SUBSET Devices] /\ standing \in SUBSET Devices
  BY DEF OtherPublishes, OtherSpoils, ManagerTypes, ListTypes, storeData
<1>1. PICK j \in Accounts, now \in SUBSET Devices :
          /\ published' = [published EXCEPT ![j] = now]
          /\ standing' \subseteq standing /\ (j = Own => standing' \subseteq now)
          /\ events' = events \/ events' = Append(events, Event(j, now))
  <2>1. ASSUME NEW a \in Devices \ {Me}, OtherPublishes(a)
        PROVE  \E j \in Accounts, now \in SUBSET Devices :
                   /\ published' = [published EXCEPT ![j] = now]
                   /\ standing' \subseteq standing /\ (j = Own => standing' \subseteq now)
                   /\ events' = events \/ events' = Append(events, Event(j, now))
    <3>1. PICK j \in Accounts : j = JIDOf[a]
      OBVIOUS
    <3>2. PICK now : now = IF a \in published[j] THEN published[j] \ {a} ELSE published[j] \cup {a}
      OBVIOUS
    <3>3. now \in SUBSET Devices
      BY <1>0, <3>2
    <3>4. /\ published' = [published EXCEPT ![j] = now] /\ events' = Append(events, Event(j, now))
          /\ standing' = IF j = Own THEN standing \cap now ELSE standing
      BY <2>1, <3>1, <3>2 DEF OtherPublishes
    <3>5. standing' \subseteq standing /\ (j = Own => standing' \subseteq now)
      BY <3>4
    <3> QED
      BY <3>3, <3>4, <3>5
  <2>2. ASSUME NEW j \in Accounts, OtherSpoils(j)
        PROVE  \E i \in Accounts, now \in SUBSET Devices :
                   /\ published' = [published EXCEPT ![i] = now]
                   /\ standing' \subseteq standing /\ (i = Own => standing' \subseteq now)
                   /\ events' = events \/ events' = Append(events, Event(i, now))
    <3>1. /\ published' = [published EXCEPT ![j] = {}] /\ events' = events
          /\ standing' \subseteq standing /\ (j = Own => standing' \subseteq {})
      BY <2>2 DEF OtherSpoils
    <3> QED
      BY <3>1
  <2> QED
    BY <2>1, <2>2
<1>2. HoldsAll(published[Own])'
  BY <1>0, <1>1 DEF PublishInv, HoldsAll
<1>3. EventsKept
  BY DEF PublishInv
<1>4. EventsKept'
  <2>1. CASE events' = events
    BY <1>0, <1>1, <1>3, <2>1 DEF EventsKept, HoldsAll
  <2>2. CASE events' = Append(events, Event(j, now))
    BY <1>0, <1>1, <1>3, <2>2, EventAppended
  <2> QED
    BY <1>1, <2>1, <2>2
<1>5. /\ FetchesOwn' /\ ListKept'
      /\ (\A c \in Callers : FetchKept(c)') /\ (\A p \in Publishes : KeptBy(p)')
  BY <1>0, <1>1 DEF PublishInv, FetchesOwn, ListKept, FetchKept, KeptBy, HoldsAll
<1> QED
  BY <1>2, <1>4, <1>5 DEF PublishInv

(* Every step keeps it.                                                     *)
LEMMA NextPublishInv == ManagerTypes /\ PublishInv /\ [ManagerNext]_managerVars => PublishInv'
<1> SUFFICES ASSUME ManagerTypes, PublishInv, [ManagerNext]_managerVars PROVE PublishInv'
  OBVIOUS
<1>1. CASE UNCHANGED <<fetch, publishing, toPublish, published, lists, events, standing, informed>>
  BY <1>1 DEF PublishInv, FetchesOwn, ListKept, EventsKept, FetchKept, KeptBy, HoldsAll
<1>2. SessionsNext \/ UNCHANGED managerVars
          => UNCHANGED <<fetch, publishing, toPublish, published, lists, events, standing, informed>>
  BY DEF SessionsNext, HandleEncrypted, SetTrust, managerVars, storeData
<1>3. ASSUME NEW p \in Publishes, PublishNext(p) PROVE PublishInv'
  BY <1>3, GatheringKeeps, PublicationKeeps DEF PublishNext
<1> QED
  BY <1>1, <1>2, <1>3, EncryptionKeeps, AnswerKeeps, ReaderKeeps, OtherKeeps
     DEF ManagerNext, EncryptingNext, PublishingNext, ListsNext, Callers

(* However publications overlap, go by old lists, or fall back on one after *)
(* a failed fetch, no device that was on the account's list from the start  *)
(* is taken off it by PublishDeviceList, as long as none had to fall back   *)
(* on an empty list (manager.go:156-170, 176-199, 462-483).                 *)
THEOREM PublishingKeepsDevices == ManagerSpec => []DevicesKept
<1>1. ManagerTypes /\ PublishInv => DevicesKept
  <2> SUFFICES ASSUME ManagerTypes, PublishInv, informed PROVE standing \subseteq published[Own]
    BY DEF DevicesKept
  <2>1. informed = TRUE
    BY Zenon DEF ManagerTypes, ListTypes
  <2> QED
    BY <2>1 DEF PublishInv, HoldsAll
<1>2. ManagerTypes /\ PublishInv /\ [ManagerNext]_managerVars => ManagerTypes' /\ PublishInv'
  BY NextTypes, NextPublishInv
<1> QED
  BY <1>1, <1>2, InitTypes, InitPublishInv, PTL DEF ManagerSpec
=============================================================================
