-------------------------- MODULE RegistriesProofs --------------------------
(***************************************************************************)
(* Proofs about what the application shares with its plugins: Plugins, for *)
(* any names, dependencies (cycles among them), goroutines, calls and      *)
(* failures; MessageExtensions, for any messages, copies and calls; and    *)
(* Disco, for any features and any LocalInfos.  The last two share what is *)
(* proved about Go's slices.                                               *)
(***************************************************************************)
EXTENDS Plugins, MessageExtensions, Disco, SelectionsProofs

-----------------------------------------------------------------------------
(* Stacks. *)

(* What is left of a sequence without its last element.                     *)
LEMMA FrontLast ==
    ASSUME NEW S, NEW s \in Seq(S), s # <<>>
    PROVE  /\ Len(s) \in Nat /\ Len(s) > 0 /\ Last(s) = s[Len(s)] /\ Last(s) \in S
           /\ Front(s) \in Seq(S) /\ Len(Front(s)) = Len(s) - 1
           /\ \A i \in 1..(Len(s) - 1) : Front(s)[i] = s[i]
<1>1. Len(s) \in Nat /\ Len(s) > 0
  OBVIOUS
<1>2. Last(s) = s[Len(s)] /\ Last(s) \in S
  BY <1>1 DEF Last
<1>3. PICK m \in Nat : m = Len(s) - 1
  BY <1>1
<1>4. Front(s) = SubSeq(s, 1, m)
  BY <1>3 DEF Front
<1>5. \A i \in 1..m : s[i] \in S
  BY <1>1, <1>3
<1>6. Len(SubSeq(s, 1, m)) = m /\ \A i \in 1..m : SubSeq(s, 1, m)[i] = s[i]
  BY <1>1, <1>3
<1>7. SubSeq(s, 1, m) \in Seq(S)
  BY <1>1, <1>3, <1>5
<1> QED
  BY <1>1, <1>2, <1>3, <1>4, <1>6, <1>7

(* The last element is replaced, and another one may be pushed.             *)
LEMMA TopReplaced ==
    ASSUME NEW S, NEW s \in Seq(S), s # <<>>, NEW f \in S
    PROVE  /\ Append(Front(s), f) \in Seq(S) /\ Len(Append(Front(s), f)) = Len(s)
           /\ Append(Front(s), f)[Len(s)] = f
           /\ \A i \in 1..(Len(s) - 1) : Append(Front(s), f)[i] = s[i]
<1>1. PICK p : p = Front(s)
  OBVIOUS
<1>2. /\ p \in Seq(S) /\ Len(p) = Len(s) - 1 /\ Len(s) \in Nat
      /\ \A i \in 1..(Len(s) - 1) : p[i] = s[i]
  BY <1>1, FrontLast
<1> QED
  BY <1>1, <1>2

LEMMA ReplacedAndPushed ==
    ASSUME NEW S, NEW s \in Seq(S), s # <<>>, NEW f \in S, NEW g \in S
    PROVE  /\ Append(Append(Front(s), f), g) \in Seq(S)
           /\ Len(Append(Append(Front(s), f), g)) = Len(s) + 1
           /\ Append(Append(Front(s), f), g)[Len(s)] = f
           /\ Append(Append(Front(s), f), g)[Len(s) + 1] = g
           /\ \A i \in 1..(Len(s) - 1) : Append(Append(Front(s), f), g)[i] = s[i]
<1>1. PICK p : p = Append(Front(s), f)
  OBVIOUS
<1>2. /\ p \in Seq(S) /\ Len(p) = Len(s) /\ p[Len(s)] = f
      /\ \A i \in 1..(Len(s) - 1) : p[i] = s[i]
  BY <1>1, TopReplaced
<1>3. Len(s) \in Nat /\ Len(s) > 0
  BY FrontLast
<1>4. PICK r : r = Append(p, g)
  OBVIOUS
<1>5. /\ r \in Seq(S) /\ Len(r) = Len(s) + 1 /\ r[Len(s)] = f /\ r[Len(s) + 1] = g
      /\ \A i \in 1..(Len(s) - 1) : r[i] = s[i]
  BY <1>2, <1>3, <1>4
<1> QED
  BY <1>1, <1>4, <1>5, Zenon

-----------------------------------------------------------------------------
(* Types. *)

MarkedPcs == {"deps", "init", "publish", "leave"}
Types ==
    /\ factories \in SUBSET Names /\ loading \in SUBSET Names
    /\ DOMAIN loaded \in SUBSET Names
    /\ order \in Seq(Names) /\ snapshot \in Seq(Names) /\ shut \in Seq(Names)
    /\ stack \in [Threads -> Seq(Frame)]
    /\ result \in [Threads -> Results \cup {NoResult}]
    /\ instances \in Nat /\ calls \in 0..MaxCalls /\ fails \in 0..MaxFails
    /\ closer \in {"idle", "shutting", "done"}

(* The fields of frames and results.                                        *)
LEMMA FrameFields ==
    ASSUME NEW f \in Frame
    PROVE  /\ f.name \in Names /\ f.inst \in Nat /\ f.todo \in Seq(Names)
           /\ f.error \in {"none", "cyclic", "unknown", "initError"}
           /\ f.pc \in {"load", "enter", "deps", "init", "publish", "leave"}
BY DEF Frame

LEMMA NewFrames ==
    ASSUME NEW n \in Names, NEW i \in Nat, NEW pc \in {"load", "enter"}
    PROVE  /\ NewFrame(n, i, pc) \in Frame /\ NewFrame(n, i, pc).name = n
           /\ NewFrame(n, i, pc).inst = i /\ NewFrame(n, i, pc).todo = Deps[n]
           /\ NewFrame(n, i, pc).pc = pc
BY DepsAssumption DEF NewFrame, Frame

LEMMA FrameAt ==
    ASSUME NEW f \in Frame, NEW pc \in MarkedPcs
    PROVE  /\ [f EXCEPT !.pc = pc] \in Frame /\ [f EXCEPT !.pc = pc].name = f.name
           /\ [f EXCEPT !.pc = pc].inst = f.inst /\ [f EXCEPT !.pc = pc].todo = f.todo
           /\ [f EXCEPT !.pc = pc].pc = pc
BY DEF Frame, MarkedPcs

LEMMA FrameFails ==
    ASSUME NEW f \in Frame, NEW er \in {"cyclic", "unknown", "initError"}
    PROVE  /\ [f EXCEPT !.pc = "leave", !.error = er] \in Frame
           /\ [f EXCEPT !.pc = "leave", !.error = er].name = f.name
           /\ [f EXCEPT !.pc = "leave", !.error = er].inst = f.inst
           /\ [f EXCEPT !.pc = "leave", !.error = er].pc = "leave"
           /\ [f EXCEPT !.pc = "leave", !.error = er].error = er
BY DEF Frame

LEMMA FrameGoesOn ==
    ASSUME NEW f \in Frame, NEW rest \in Seq(Names)
    PROVE  /\ [f EXCEPT !.todo = rest] \in Frame /\ [f EXCEPT !.todo = rest].name = f.name
           /\ [f EXCEPT !.todo = rest].inst = f.inst /\ [f EXCEPT !.todo = rest].pc = f.pc
           /\ [f EXCEPT !.todo = rest].todo = rest
BY DEF Frame

LEMMA Resulting ==
    ASSUME NEW n \in Names, NEW k \in {"ok", "cyclic", "unknown", "initError"}
    PROVE  [kind |-> k, name |-> n] \in Results /\ [kind |-> k, name |-> n].kind = k
BY DEF Results

-----------------------------------------------------------------------------
(* The inductive invariant. *)

Failing(r) == r.kind \in {"cyclic", "unknown", "initError"}

(* How many dependencies a frame has loaded, or is about to, and that what  *)
(* it has still to load are the others.                                     *)
Done(f) == Len(Deps[f.name]) - Len(f.todo)
Rest(f) == /\ Len(f.todo) <= Len(Deps[f.name])
           /\ \A k \in 1..Len(f.todo) : f.todo[k] = Deps[f.name][Done(f) + k]

(* What a frame says about the plugins in L that are loaded, when there are *)
(* m instances: its own is not yet, or after Use has published it, loaded;  *)
(* its dependencies are, the last one that was begun excepted.              *)
Fine(f, L, m) ==
    /\ f.pc # "load" => f.inst \in 1..m
    /\ f.pc \in {"load", "enter"} => f.todo = Deps[f.name]
    /\ f.pc \in {"deps", "init", "publish"} => f.name \notin L
    /\ f.pc = "leave" /\ f.error = "none" => f.name \in L
    /\ f.pc \in {"init", "publish"} => \A k \in 1..Len(Deps[f.name]) : Deps[f.name][k] \in L
    /\ f.pc = "deps" => Rest(f) /\ \A k \in 1..(Done(f) - 1) : Deps[f.name][k] \in L
FineStack(s, L, m) == \A i \in 1..Len(s) : Fine(s[i], L, m)

(* A frame below another one waits for it, as the last dependency it began. *)
Linked(s) ==
    \A i \in 1..(Len(s) - 1) :
        s[i].pc = "deps" /\ (Done(s[i]) > 0 => s[i + 1].name = Deps[s[i].name][Done(s[i])])

(* The innermost frame has that dependency loaded, or sees its error.       *)
Waited(s, r, L) ==
    s # <<>> /\ s[Len(s)].pc = "deps" /\ Done(s[Len(s)]) > 0 =>
        Failing(r) \/ Deps[s[Len(s)].name][Done(s[Len(s)])] \in L

FramesInv == \A t \in Threads : /\ FineStack(stack[t], DOMAIN loaded, instances) /\ Linked(stack[t])
                                /\ Waited(stack[t], result[t], DOMAIN loaded)

(* The i-th frame of s is a Use of n that has marked n in loading.          *)
Marks(s, i, n) == i \in 1..Len(s) /\ s[i].name = n /\ s[i].pc \in MarkedPcs

(* A mark is of one Use under way, and each of them has one.                *)
MarksInv ==
    /\ \A n \in loading : \E t \in Threads, i \in Nat : Marks(stack[t], i, n)
    /\ \A t \in Threads, i \in Nat, n \in Names : Marks(stack[t], i, n) => n \in loading
    /\ \A t, u \in Threads, i, k \in Nat, n \in Names :
           Marks(stack[t], i, n) /\ Marks(stack[u], k, n) => t = u /\ i = k

(* A sequence of names, each after all that it depends on.                  *)
DepsFirst(s) == \A i \in 1..Len(s) : \A d \in Names :
                 DependsOn(s[i], d) => \E k \in 1..(i - 1) : s[k] = d
Distinct(s) == \A i, k \in 1..Len(s) : s[i] = s[k] => i = k
OrderInv ==
    /\ Distinct(order) /\ DepsFirst(order)
    /\ \A n \in Names : n \in DOMAIN loaded <=> \E i \in 1..Len(order) : order[i] = n
    /\ \A n \in DOMAIN loaded : loaded[n] \in 1..instances

(* What shutdown has still to shut down is sorted, what it has shut down is *)
(* in the opposite order.                                                   *)
Shutting(s, h) ==
    /\ Distinct(s) /\ DepsFirst(s) /\ Distinct(h)
    /\ \A i \in 1..Len(h), k \in 1..Len(s) : h[i] # s[k]
    /\ \A i \in 1..Len(h) : \A d \in Names : DependsOn(h[i], d) =>
           \/ \E k \in 1..Len(s) : s[k] = d
           \/ \E k \in (i + 1)..Len(h) : h[k] = d
ShutInv == Shutting(snapshot, shut) /\ (closer = "idle" => shut = <<>>)

PInv == Types /\ FramesInv /\ MarksInv /\ OrderInv /\ ShutInv

-----------------------------------------------------------------------------
(* What the steps on a stack keep. *)

(* More plugins loaded and more instances made.                             *)
LEMMA FineGrows ==
    ASSUME NEW f \in Frame, NEW L, NEW K, L \subseteq K, NEW m \in Nat, NEW n \in Nat, m <= n,
           Fine(f, L, m), f.pc \in {"deps", "init", "publish"} => f.name \notin K
    PROVE  Fine(f, K, n)
<1>1. f.pc # "load" => f.inst \in 1..n
  BY DEF Fine
<1>2. f.pc = "deps" => \A k \in 1..(Done(f) - 1) : Deps[f.name][k] \in K
  BY DEF Fine
<1>3. f.pc \in {"init", "publish"} => \A k \in 1..Len(Deps[f.name]) : Deps[f.name][k] \in K
  BY DEF Fine
<1> QED
  BY <1>1, <1>2, <1>3 DEF Fine

(* A Load or a Use returns.                                                 *)
LEMMA ReturnKeeps ==
    ASSUME NEW s \in Seq(Frame), s # <<>>, NEW L, NEW m, FineStack(s, L, m), Linked(s),
           NEW r, Failing(r) \/ Last(s).name \in L
    PROVE  /\ Front(s) \in Seq(Frame) /\ FineStack(Front(s), L, m) /\ Linked(Front(s))
           /\ Waited(Front(s), r, L)
<1>1. PICK p : p = Front(s)
  OBVIOUS
<1>2. /\ p \in Seq(Frame) /\ Len(p) = Len(s) - 1 /\ Len(s) \in Nat /\ Len(s) > 0
      /\ \A i \in 1..(Len(s) - 1) : p[i] = s[i]
      /\ Last(s) = s[Len(s)]
  BY <1>1, FrontLast
<1>3. FineStack(p, L, m)
  BY <1>2 DEF FineStack
<1>4. Linked(p)
  BY <1>2 DEF Linked
<1>5. Waited(p, r, L)
  <2> SUFFICES ASSUME p # <<>>, p[Len(p)].pc = "deps", Done(p[Len(p)]) > 0
               PROVE  Failing(r) \/ Deps[p[Len(p)].name][Done(p[Len(p)])] \in L
    BY DEF Waited
  <2>1. Len(p) \in 1..(Len(s) - 1) /\ Len(p) + 1 = Len(s) /\ p[Len(p)] = s[Len(p)]
    BY <1>2
  <2>2. s[Len(p) + 1].name = Deps[s[Len(p)].name][Done(s[Len(p)])]
    BY <2>1 DEF Linked
  <2> QED
    BY <1>2, <2>1, <2>2
<1> QED
  BY <1>1, <1>2, <1>3, <1>4, <1>5

(* The innermost frame goes on.                                             *)
LEMMA TopReplaceKeeps ==
    ASSUME NEW s \in Seq(Frame), s # <<>>, NEW L, NEW m, Linked(s),
           \A i \in 1..(Len(s) - 1) : Fine(s[i], L, m),
           NEW f \in Frame, Fine(f, L, m), f.name = Last(s).name,
           NEW r, f.pc = "deps" => Done(f) = 0
    PROVE  /\ Append(Front(s), f) \in Seq(Frame) /\ FineStack(Append(Front(s), f), L, m)
           /\ Linked(Append(Front(s), f)) /\ Waited(Append(Front(s), f), r, L)
<1>1. PICK p : p = Append(Front(s), f)
  OBVIOUS
<1>2. /\ p \in Seq(Frame) /\ Len(p) = Len(s) /\ p[Len(s)] = f
      /\ \A i \in 1..(Len(s) - 1) : p[i] = s[i]
  BY <1>1, TopReplaced
<1>3. Len(s) \in Nat /\ Len(s) > 0 /\ Last(s) = s[Len(s)]
  BY FrontLast
<1>4. FineStack(p, L, m)
  BY <1>2, <1>3 DEF FineStack
<1>5. Linked(p)
  <2> SUFFICES ASSUME NEW i \in 1..(Len(s) - 1)
               PROVE  /\ p[i].pc = "deps"
                      /\ Done(p[i]) > 0 => p[i + 1].name = Deps[p[i].name][Done(p[i])]
    BY <1>2 DEF Linked
  <2>1. p[i] = s[i] /\ p[i + 1].name = s[i + 1].name
    BY <1>2, <1>3
  <2> QED
    BY <2>1 DEF Linked
<1>6. Waited(p, r, L)
  BY <1>2, <1>3 DEF Waited
<1> QED
  BY <1>1, <1>2, <1>4, <1>5, <1>6

(* Use calls Load for its next dependency.                                  *)
LEMMA PushKeeps ==
    ASSUME NEW s \in Seq(Frame), s # <<>>, NEW L, NEW m, Linked(s),
           \A i \in 1..(Len(s) - 1) : Fine(s[i], L, m),
           NEW f \in Frame, Fine(f, L, m), f.name = Last(s).name, f.pc = "deps",
           NEW g \in Frame, Fine(g, L, m), g.pc = "load", g.name = Deps[f.name][Done(f)], NEW r
    PROVE  /\ Append(Append(Front(s), f), g) \in Seq(Frame)
           /\ FineStack(Append(Append(Front(s), f), g), L, m)
           /\ Linked(Append(Append(Front(s), f), g)) /\ Waited(Append(Append(Front(s), f), g), r, L)
<1>1. PICK p : p = Append(Append(Front(s), f), g)
  OBVIOUS
<1>2. /\ p \in Seq(Frame) /\ Len(p) = Len(s) + 1 /\ p[Len(s)] = f /\ p[Len(s) + 1] = g
      /\ \A i \in 1..(Len(s) - 1) : p[i] = s[i]
  BY <1>1, ReplacedAndPushed, SMTT(20)
<1>3. Len(s) \in Nat /\ Len(s) > 0 /\ Last(s) = s[Len(s)]
  BY FrontLast
<1>4. FineStack(p, L, m)
  BY <1>2, <1>3 DEF FineStack
<1>5. Linked(p)
  <2> SUFFICES ASSUME NEW i \in 1..Len(s)
               PROVE  /\ p[i].pc = "deps"
                      /\ Done(p[i]) > 0 => p[i + 1].name = Deps[p[i].name][Done(p[i])]
    BY <1>2, <1>3 DEF Linked
  <2>1. CASE i = Len(s)
    BY <1>2, <1>3, <2>1
  <2>2. CASE i # Len(s)
    <3>1. i \in 1..(Len(s) - 1) /\ p[i] = s[i] /\ p[i + 1].name = s[i + 1].name
      BY <1>2, <1>3, <2>2
    <3> QED
      BY <3>1 DEF Linked
  <2> QED
    BY <2>1, <2>2
<1>6. Waited(p, r, L)
  BY <1>2, <1>3 DEF Waited
<1> QED
  BY <1>1, <1>2, <1>4, <1>5, <1>6

(* Which marks a stack has after its steps.                                 *)
LEMMA MarksReturn ==
    ASSUME NEW s \in Seq(Frame), s # <<>>
    PROVE  \A i \in Nat, n \in Names : Marks(Front(s), i, n) <=> Marks(s, i, n) /\ i # Len(s)
<1>1. PICK p : p = Front(s)
  OBVIOUS
<1>2. /\ Len(p) = Len(s) - 1 /\ Len(s) \in Nat /\ Len(s) > 0
      /\ \A i \in 1..(Len(s) - 1) : p[i] = s[i]
  BY <1>1, FrontLast
<1>3. \A i \in Nat, n \in Names : Marks(p, i, n) <=> Marks(s, i, n) /\ i # Len(s)
  BY <1>2 DEF Marks
<1> QED
  BY <1>1, <1>3

LEMMA MarksReplace ==
    ASSUME NEW s \in Seq(Frame), s # <<>>, NEW f \in Frame
    PROVE  \A i \in Nat, n \in Names : Marks(Append(Front(s), f), i, n) <=>
               IF i = Len(s) THEN f.name = n /\ f.pc \in MarkedPcs ELSE Marks(s, i, n)
<1>1. PICK p : p = Append(Front(s), f)
  OBVIOUS
<1>2. /\ Len(p) = Len(s) /\ p[Len(s)] = f
      /\ \A i \in 1..(Len(s) - 1) : p[i] = s[i]
  BY <1>1, TopReplaced
<1>3. Len(s) \in Nat /\ Len(s) > 0
  BY FrontLast
<1>4. \A i \in Nat, n \in Names : Marks(p, i, n) <=>
               IF i = Len(s) THEN f.name = n /\ f.pc \in MarkedPcs ELSE Marks(s, i, n)
  BY <1>2, <1>3 DEF Marks
<1> QED
  BY <1>1, <1>4

LEMMA MarksPush ==
    ASSUME NEW s \in Seq(Frame), s # <<>>, NEW f \in Frame, NEW g \in Frame, g.pc = "load",
           f.name = Last(s).name, f.pc \in MarkedPcs, Last(s).pc \in MarkedPcs
    PROVE  \A i \in Nat, n \in Names : Marks(Append(Append(Front(s), f), g), i, n) <=> Marks(s, i, n)
<1>1. PICK p : p = Append(Append(Front(s), f), g)
  OBVIOUS
<1>2. /\ Len(p) = Len(s) + 1 /\ p[Len(s)] = f /\ p[Len(s) + 1] = g
      /\ \A i \in 1..(Len(s) - 1) : p[i] = s[i]
  BY <1>1, ReplacedAndPushed
<1>3. Len(s) \in Nat /\ Len(s) > 0 /\ Last(s) = s[Len(s)] /\ g.pc \notin MarkedPcs
  BY FrontLast DEF MarkedPcs
<1>4. \A i \in Nat, n \in Names : Marks(p, i, n) <=> Marks(s, i, n)
  BY <1>2, <1>3 DEF Marks
<1> QED
  BY <1>1, <1>4

(* A step that sets and clears no mark.                                     *)
LEMMA MarksKept ==
    ASSUME Types, MarksInv, UNCHANGED loading, NEW t \in Threads, NEW s \in Seq(Frame),
           stack' = [stack EXCEPT ![t] = s],
           \A i \in Nat, n \in Names : Marks(s, i, n) <=> Marks(stack[t], i, n)
    PROVE  MarksInv'
<1>1. \A u \in Threads, i \in Nat, n \in Names : Marks(stack'[u], i, n) <=> Marks(stack[u], i, n)
  BY DEF Types
<1>2. loading \in SUBSET Names
  BY DEF Types
<1> QED
  BY <1>1, <1>2 DEF MarksInv

(* Use marks the plugin, which had no mark.                                 *)
SetsMark(t, m, n) ==
    \A u \in Threads, i \in Nat, k \in Names :
        Marks(stack'[u], i, k) <=> (u = t /\ i = m /\ k = n) \/ Marks(stack[u], i, k)
LEMMA MarkSet ==
    ASSUME Types, MarksInv, NEW t \in Threads, NEW m \in Nat, NEW n \in Names,
           n \notin loading, loading' = loading \cup {n}, SetsMark(t, m, n)
    PROVE  MarksInv'
<1>1. \A u \in Threads, i \in Nat, k \in Names :
          Marks(stack'[u], i, k) <=> (u = t /\ i = m /\ k = n) \/ Marks(stack[u], i, k)
  BY DEF SetsMark
<1>2. loading \in SUBSET Names
  BY DEF Types
<1>3. \A k \in loading' : \E u \in Threads, i \in Nat : Marks(stack'[u], i, k)
  BY <1>1, <1>2 DEF MarksInv
<1>4. \A u \in Threads, i \in Nat, k \in Names : Marks(stack'[u], i, k) => k \in loading'
  BY <1>1 DEF MarksInv
<1>5. \A u, v \in Threads, i, j \in Nat, k \in Names :
          Marks(stack'[u], i, k) /\ Marks(stack'[v], j, k) => u = v /\ i = j
  BY <1>1 DEF MarksInv
<1> QED
  BY <1>3, <1>4, <1>5 DEF MarksInv

(* The deferred function takes the mark of the Use that returns.            *)
ClearsMark(t, m) ==
    \A u \in Threads, i \in Nat, k \in Names :
        Marks(stack'[u], i, k) <=> Marks(stack[u], i, k) /\ ~(u = t /\ i = m)
LEMMA MarkCleared ==
    ASSUME Types, MarksInv, NEW t \in Threads, NEW m \in Nat, NEW n \in Names,
           Marks(stack[t], m, n), loading' = loading \ {n}, ClearsMark(t, m)
    PROVE  MarksInv'
<1>1. \A u \in Threads, i \in Nat, k \in Names :
          Marks(stack'[u], i, k) <=> Marks(stack[u], i, k) /\ ~(u = t /\ i = m)
  BY DEF ClearsMark
<1>2. loading \in SUBSET Names
  BY DEF Types
<1>3. \A k \in Names : Marks(stack[t], m, k) => k = n
  BY DEF Marks
<1>4. \A k \in loading' : \E u \in Threads, i \in Nat : Marks(stack'[u], i, k)
  BY <1>1, <1>2, <1>3 DEF MarksInv
<1>5. \A u \in Threads, i \in Nat, k \in Names : Marks(stack'[u], i, k) => k \in loading'
  BY <1>1 DEF MarksInv
<1>6. \A u, v \in Threads, i, j \in Nat, k \in Names :
          Marks(stack'[u], i, k) /\ Marks(stack'[v], j, k) => u = v /\ i = j
  BY <1>1 DEF MarksInv
<1> QED
  BY <1>4, <1>5, <1>6 DEF MarksInv

(* A step of one goroutine that publishes nothing.                          *)
LEMMA FramesKept ==
    ASSUME Types, FramesInv, NEW t \in Threads, NEW s \in Seq(Frame), NEW r,
           stack' = [stack EXCEPT ![t] = s], result' = [result EXCEPT ![t] = r],
           UNCHANGED loaded, instances' \in Nat, instances <= instances',
           FineStack(s, DOMAIN loaded, instances'), Linked(s), Waited(s, r, DOMAIN loaded)
    PROVE  FramesInv'
<1> SUFFICES ASSUME NEW u \in Threads
             PROVE  /\ FineStack(stack'[u], DOMAIN loaded, instances') /\ Linked(stack'[u])
                    /\ Waited(stack'[u], result'[u], DOMAIN loaded)
  BY DEF FramesInv
<1>1. CASE u = t
  BY <1>1 DEF Types
<1>2. CASE u # t
  <2>1. stack'[u] = stack[u] /\ result'[u] = result[u] /\ stack[u] \in Seq(Frame)
    BY <1>2 DEF Types
  <2>2. /\ FineStack(stack[u], DOMAIN loaded, instances) /\ Linked(stack[u])
        /\ Waited(stack[u], result[u], DOMAIN loaded)
    BY DEF FramesInv
  <2>3. FineStack(stack[u], DOMAIN loaded, instances')
    <3> SUFFICES ASSUME NEW i \in 1..Len(stack[u])
                 PROVE  Fine(stack[u][i], DOMAIN loaded, instances')
      BY DEF FineStack
    <3>1. stack[u][i] \in Frame /\ Fine(stack[u][i], DOMAIN loaded, instances)
      BY <2>1, <2>2 DEF FineStack
    <3>2. stack[u][i].pc \in {"deps", "init", "publish"} => stack[u][i].name \notin DOMAIN loaded
      BY <3>1 DEF Fine
    <3> QED
      BY <3>1, <3>2, FineGrows DEF Types
  <2> QED
    BY <2>1, <2>2, <2>3
<1> QED
  BY <1>1, <1>2

-----------------------------------------------------------------------------
(* Every step keeps the invariant. *)

(* Nothing is loaded and nothing under way.                                 *)
LEMMA InitPInv == Init => PInv
<1> SUFFICES ASSUME Init PROVE PInv
  OBVIOUS
<1>1. stack \in [Threads -> Seq(Frame)] /\ \A t \in Threads : stack[t] = <<>> /\ Len(stack[t]) = 0
  BY DEF Init
<1>2. DOMAIN loaded = {}
  BY DEF Init
<1>3. Types
  <2>1. result \in [Threads -> Results \cup {NoResult}]
    BY DEF Init
  <2>2. order \in Seq(Names) /\ snapshot \in Seq(Names) /\ shut \in Seq(Names)
    BY DEF Init
  <2>3. instances \in Nat /\ calls \in 0..MaxCalls /\ fails \in 0..MaxFails
    BY BoundsAssumption DEF Init
  <2>4. /\ factories \in SUBSET Names /\ loading \in SUBSET Names /\ DOMAIN loaded \in SUBSET Names
        /\ closer \in {"idle", "shutting", "done"}
    BY <1>2, RegisteredAssumption DEF Init
  <2> QED
    BY <1>1, <2>1, <2>2, <2>3, <2>4 DEF Types
<1>4. FramesInv
  BY <1>1 DEF FramesInv, FineStack, Linked, Waited
<1>5. MarksInv
  BY <1>1 DEF Init, MarksInv, Marks
<1>6. Len(order) = 0 /\ Len(snapshot) = 0 /\ Len(shut) = 0 /\ shut = <<>>
  BY DEF Init
<1>7. OrderInv
  BY <1>2, <1>6 DEF OrderInv, DepsFirst, Distinct
<1>8. ShutInv
  BY <1>6 DEF ShutInv, Shutting, DepsFirst, Distinct
<1> QED
  BY <1>3, <1>4, <1>5, <1>7, <1>8 DEF PInv

(* A step of goroutine t that publishes nothing.                            *)
LEMMA StepKeeps ==
    ASSUME PInv, NEW t \in Threads, NEW s \in Seq(Frame), NEW r \in Results \cup {NoResult},
           stack' = [stack EXCEPT ![t] = s], result' = [result EXCEPT ![t] = r],
           UNCHANGED <<factories, loaded, order, snapshot, closer, shut>>,
           instances' \in Nat, instances <= instances', loading' \in SUBSET Names,
           calls' \in 0..MaxCalls, fails' \in 0..MaxFails,
           FineStack(s, DOMAIN loaded, instances'), Linked(s), Waited(s, r, DOMAIN loaded), MarksInv'
    PROVE  PInv'
<1>1. Types'
  BY DEF PInv, Types
<1>2. FramesInv'
  BY FramesKept DEF PInv
<1>3. OrderInv'
  <2>1. \A n \in DOMAIN loaded : loaded[n] \in 1..instances'
    BY DEF PInv, Types, OrderInv
  <2> QED
    BY <2>1 DEF PInv, OrderInv, DepsFirst, Distinct
<1>4. ShutInv'
  BY DEF PInv, ShutInv, Shutting, DepsFirst, Distinct
<1> QED
  BY <1>1, <1>2, <1>3, <1>4 DEF PInv

(* What is known of the innermost frame.                                    *)
LEMMA TopFacts ==
    ASSUME PInv, NEW t \in Threads, stack[t] # <<>>
    PROVE  /\ stack[t] \in Seq(Frame) /\ Top(t) = Last(stack[t]) /\ Top(t) \in Frame
           /\ Top(t) = stack[t][Len(stack[t])] /\ Len(stack[t]) \in Nat /\ Len(stack[t]) > 0
           /\ Top(t).name \in Names /\ Top(t).inst \in Nat
           /\ Fine(Top(t), DOMAIN loaded, instances)
           /\ FineStack(stack[t], DOMAIN loaded, instances) /\ Linked(stack[t])
           /\ \A i \in 1..(Len(stack[t]) - 1) : Fine(stack[t][i], DOMAIN loaded, instances)
           /\ instances \in Nat /\ calls \in 0..MaxCalls /\ fails \in 0..MaxFails
           /\ result[t] \in Results \cup {NoResult} /\ loading \in SUBSET Names
<1>1. stack[t] \in Seq(Frame)
  BY DEF PInv, Types
<1>2. /\ Len(stack[t]) \in Nat /\ Len(stack[t]) > 0 /\ Last(stack[t]) = stack[t][Len(stack[t])]
      /\ Last(stack[t]) \in Frame
  BY <1>1, FrontLast
<1>3. FineStack(stack[t], DOMAIN loaded, instances) /\ Linked(stack[t])
  BY DEF PInv, FramesInv
<1>4. /\ Fine(Last(stack[t]), DOMAIN loaded, instances)
      /\ \A i \in 1..(Len(stack[t]) - 1) : Fine(stack[t][i], DOMAIN loaded, instances)
  BY <1>2, <1>3 DEF FineStack
<1>5. /\ instances \in Nat /\ calls \in 0..MaxCalls /\ fails \in 0..MaxFails
      /\ result[t] \in Results \cup {NoResult} /\ loading \in SUBSET Names
  BY DEF PInv, Types
<1> QED
  BY <1>1, <1>2, <1>3, <1>4, <1>5, FrameFields DEF Top

(* A Load or a Use whose frame has no mark returns.                         *)
LEMMA ReturnStep ==
    ASSUME PInv, NEW t \in Threads, stack[t] # <<>>, Top(t).pc \notin MarkedPcs,
           NEW kind \in {"ok", "cyclic", "unknown", "initError"}, Return(t, kind),
           kind = "ok" => Top(t).name \in DOMAIN loaded,
           UNCHANGED <<manager, instances, calls, fails, snapshot, closer, shut>>
    PROVE  PInv'
<1>1. /\ stack[t] \in Seq(Frame) /\ Top(t) = Last(stack[t]) /\ Top(t).name \in Names
      /\ FineStack(stack[t], DOMAIN loaded, instances) /\ Linked(stack[t])
      /\ instances \in Nat /\ calls \in 0..MaxCalls /\ fails \in 0..MaxFails
      /\ loading \in SUBSET Names /\ Top(t) = stack[t][Len(stack[t])] /\ Len(stack[t]) \in Nat
  BY TopFacts
<1>2. PICK s : s = Front(stack[t])
  OBVIOUS
<1>3. PICK r : r = [kind |-> kind, name |-> Top(t).name]
  OBVIOUS
<1>4. r \in Results /\ r.kind = kind
  BY <1>1, <1>3, Resulting
<1>5. Failing(r) \/ Last(stack[t]).name \in DOMAIN loaded
  BY <1>1, <1>4 DEF Failing
<1>6. /\ s \in Seq(Frame) /\ FineStack(s, DOMAIN loaded, instances) /\ Linked(s)
      /\ Waited(s, r, DOMAIN loaded)
  BY <1>1, <1>2, <1>5, ReturnKeeps
<1>7. stack' = [stack EXCEPT ![t] = s] /\ result' = [result EXCEPT ![t] = r]
  BY <1>2, <1>3 DEF Return
<1>8. \A i \in Nat, n \in Names : Marks(s, i, n) <=> Marks(stack[t], i, n)
  <2>1. \A n \in Names : ~Marks(stack[t], Len(stack[t]), n)
    BY <1>1 DEF Marks
  <2> QED
    BY <1>1, <1>2, <2>1, MarksReturn
<1>9. UNCHANGED <<factories, loaded, loading, order>>
  BY DEF manager
<1>10. MarksInv'
  BY <1>6, <1>7, <1>8, <1>9, MarksKept DEF PInv
<1>11. /\ instances' \in Nat /\ instances <= instances' /\ loading' \in SUBSET Names
       /\ calls' \in 0..MaxCalls /\ fails' \in 0..MaxFails
       /\ FineStack(s, DOMAIN loaded, instances') /\ r \in Results \cup {NoResult}
  BY <1>1, <1>4, <1>6, <1>9
<1> QED
  BY <1>6, <1>7, <1>9, <1>10, <1>11, StepKeeps

(* The innermost frame goes on, and is marked after as before.              *)
LEMMA FrameStep ==
    ASSUME PInv, NEW t \in Threads, stack[t] # <<>>, NEW f \in Frame, f.name = Top(t).name,
           f.pc \in MarkedPcs <=> Top(t).pc \in MarkedPcs, f.pc # "deps",
           SetTop(t, f), NEW r \in Results \cup {NoResult}, result' = [result EXCEPT ![t] = r],
           UNCHANGED <<manager, snapshot, closer, shut>>, instances' \in Nat, instances <= instances',
           calls' \in 0..MaxCalls, fails' \in 0..MaxFails, Fine(f, DOMAIN loaded, instances')
    PROVE  PInv'
<1>1. /\ stack[t] \in Seq(Frame) /\ Top(t) = Last(stack[t]) /\ Linked(stack[t])
      /\ Top(t) = stack[t][Len(stack[t])] /\ Len(stack[t]) \in Nat /\ Len(stack[t]) > 0
      /\ \A i \in 1..(Len(stack[t]) - 1) : Fine(stack[t][i], DOMAIN loaded, instances)
      /\ instances \in Nat /\ loading \in SUBSET Names
  BY TopFacts
<1>2. PICK s : s = Append(Front(stack[t]), f)
  OBVIOUS
<1>3. \A i \in 1..(Len(stack[t]) - 1) : Fine(stack[t][i], DOMAIN loaded, instances')
  <2> SUFFICES ASSUME NEW i \in 1..(Len(stack[t]) - 1)
               PROVE  Fine(stack[t][i], DOMAIN loaded, instances')
    OBVIOUS
  <2>1. stack[t][i] \in Frame /\ Fine(stack[t][i], DOMAIN loaded, instances)
    BY <1>1
  <2>2. stack[t][i].pc \in {"deps", "init", "publish"} => stack[t][i].name \notin DOMAIN loaded
    BY <2>1 DEF Fine
  <2> QED
    BY <1>1, <2>1, <2>2, FineGrows
<1>4. /\ s \in Seq(Frame) /\ FineStack(s, DOMAIN loaded, instances') /\ Linked(s)
      /\ Waited(s, r, DOMAIN loaded)
  BY <1>1, <1>2, <1>3, TopReplaceKeeps
<1>5. stack' = [stack EXCEPT ![t] = s]
  BY <1>2 DEF SetTop
<1>6. \A i \in Nat, n \in Names : Marks(s, i, n) <=> Marks(stack[t], i, n)
  <2>1. \A n \in Names : Marks(stack[t], Len(stack[t]), n) <=> f.name = n /\ f.pc \in MarkedPcs
    BY <1>1 DEF Marks
  <2> QED
    BY <1>1, <1>2, <2>1, MarksReplace
<1>7. UNCHANGED <<factories, loaded, loading, order>>
  BY DEF manager
<1>8. MarksInv'
  BY <1>4, <1>5, <1>6, <1>7, MarksKept DEF PInv
<1> QED
  BY <1>1, <1>4, <1>5, <1>7, <1>8, StepKeeps

(* The application calls Load or Use.                                       *)
LEMMA CallStep ==
    ASSUME PInv, NEW t \in Threads, NEW n \in Names, CallLoad(t, n) \/ CallUse(t, n)
    PROVE  PInv'
<1>1. /\ stack[t] = <<>> /\ stack[t] \in Seq(Frame) /\ instances \in Nat /\ loading \in SUBSET Names
      /\ calls < MaxCalls /\ calls' = calls + 1 /\ calls \in 0..MaxCalls /\ fails \in 0..MaxFails
      /\ UNCHANGED <<manager, fails, snapshot, closer, shut>>
  BY DEF CallLoad, CallUse, Call, PInv, Types
<1>2. PICK f : f = IF CallLoad(t, n) THEN NewFrame(n, 0, "load") ELSE NewFrame(n, instances + 1, "enter")
  OBVIOUS
<1>3. /\ f \in Frame /\ f.pc \in {"load", "enter"} /\ f.todo = Deps[f.name]
      /\ f.pc = "enter" => f.inst = instances + 1 /\ instances' = instances + 1
      /\ f.pc = "load" => UNCHANGED instances
  BY <1>1, <1>2, NewFrames DEF CallLoad, CallUse
<1>4. instances' \in Nat /\ instances <= instances' /\ calls' \in 0..MaxCalls /\ fails' \in 0..MaxFails
  BY <1>1, <1>3, BoundsAssumption
<1>5. PICK s : s = <<f>>
  OBVIOUS
<1>6. s \in Seq(Frame) /\ Len(s) = 1 /\ s[1] = f
  BY <1>3, <1>5
<1>7. stack' = [stack EXCEPT ![t] = s] /\ result' = [result EXCEPT ![t] = NoResult]
  BY <1>2, <1>5 DEF CallLoad, CallUse, Call
<1>8. Fine(f, DOMAIN loaded, instances')
  BY <1>1, <1>3 DEF Fine
<1>9. FineStack(s, DOMAIN loaded, instances') /\ Linked(s) /\ Waited(s, NoResult, DOMAIN loaded)
  BY <1>3, <1>6, <1>8 DEF FineStack, Linked, Waited
<1>10. UNCHANGED <<factories, loaded, loading, order>>
  BY <1>1 DEF manager
<1>11. \A i \in Nat, k \in Names : Marks(s, i, k) <=> Marks(stack[t], i, k)
  BY <1>1, <1>3, <1>6 DEF Marks, MarkedPcs
<1>12. MarksInv'
  BY <1>6, <1>7, <1>10, <1>11, MarksKept DEF PInv
<1>13. NoResult \in Results \cup {NoResult} /\ loading' \in SUBSET Names
  BY <1>1, <1>10
<1> QED
  BY <1>1, <1>4, <1>6, <1>7, <1>9, <1>10, <1>12, <1>13, StepKeeps

(* Load finds the plugin, its factory or neither.                           *)
LEMMA LoadStep == ASSUME PInv, NEW t \in Threads, Load(t) PROVE PInv'
<1>1. /\ stack[t] # <<>> /\ Top(t).pc = "load" /\ "load" \notin MarkedPcs /\ "enter" \notin MarkedPcs
      /\ UNCHANGED <<manager, calls, fails, snapshot, closer, shut>>
  BY DEF Load, At, MarkedPcs
<1>2. /\ Top(t).name \in Names /\ instances \in Nat /\ calls \in 0..MaxCalls /\ fails \in 0..MaxFails
      /\ result[t] \in Results \cup {NoResult} /\ result \in [Threads -> Results \cup {NoResult}]
  BY <1>1, TopFacts DEF PInv, Types
<1>3. CASE Return(t, "ok") /\ IsLoaded(Top(t).name) /\ UNCHANGED instances
  BY <1>1, <1>3, ReturnStep DEF IsLoaded
<1>4. CASE Return(t, "unknown") /\ UNCHANGED instances
  BY <1>1, <1>4, ReturnStep
<1>5. CASE /\ instances' = instances + 1 /\ UNCHANGED result
           /\ SetTop(t, NewFrame(Top(t).name, instances + 1, "enter"))
  <2>1. PICK f : f = NewFrame(Top(t).name, instances + 1, "enter")
    OBVIOUS
  <2>2. /\ f \in Frame /\ f.pc = "enter" /\ f.name = Top(t).name /\ f.todo = Deps[f.name]
        /\ f.inst = instances + 1
    BY <1>2, <2>1, NewFrames
  <2>3. Fine(f, DOMAIN loaded, instances')
    BY <1>2, <1>5, <2>2 DEF Fine
  <2>4. result' = [result EXCEPT ![t] = result[t]]
    BY <1>2, <1>5
  <2>5. instances' \in Nat /\ instances <= instances' /\ calls' \in 0..MaxCalls /\ fails' \in 0..MaxFails
    BY <1>1, <1>2, <1>5
  <2> QED
    BY <1>1, <1>2, <1>5, <2>1, <2>2, <2>3, <2>4, <2>5, FrameStep
<1> QED
  BY <1>3, <1>4, <1>5 DEF Load

(* Use finds the plugin loaded or being loaded, or marks it.                *)
LEMMA EnterStep == ASSUME PInv, NEW t \in Threads, UseEnter(t) PROVE PInv'
<1>1. /\ stack[t] # <<>> /\ Top(t).pc = "enter" /\ "enter" \notin MarkedPcs
      /\ UNCHANGED <<factories, loaded, order, instances, calls, fails, snapshot, closer, shut>>
  BY DEF UseEnter, At, MarkedPcs
<1>2. /\ Top(t).name \in Names /\ Top(t) \in Frame /\ instances \in Nat /\ calls \in 0..MaxCalls
      /\ fails \in 0..MaxFails /\ loading \in SUBSET Names
      /\ result[t] \in Results \cup {NoResult} /\ result \in [Threads -> Results \cup {NoResult}]
      /\ stack[t] \in Seq(Frame) /\ Top(t) = Last(stack[t]) /\ Linked(stack[t])
      /\ Top(t) = stack[t][Len(stack[t])] /\ Len(stack[t]) \in Nat /\ Len(stack[t]) > 0
      /\ Fine(Top(t), DOMAIN loaded, instances)
      /\ \A i \in 1..(Len(stack[t]) - 1) : Fine(stack[t][i], DOMAIN loaded, instances)
  BY <1>1, TopFacts DEF PInv, Types
<1>3. CASE IsLoaded(Top(t).name) /\ Return(t, "ok") /\ UNCHANGED loading
  BY <1>1, <1>3, ReturnStep DEF IsLoaded, manager
<1>4. CASE Return(t, "cyclic") /\ UNCHANGED loading
  BY <1>1, <1>4, ReturnStep DEF manager
<1>5. CASE /\ ~IsLoaded(Top(t).name) /\ Top(t).name \notin loading
           /\ loading' = loading \cup {Top(t).name} /\ UNCHANGED result
           /\ SetTop(t, [Top(t) EXCEPT !.pc = "deps"])
  <2>1. PICK f : f = [Top(t) EXCEPT !.pc = "deps"]
    OBVIOUS
  <2>2. /\ f \in Frame /\ f.pc = "deps" /\ f.name = Top(t).name /\ f.todo = Top(t).todo
        /\ f.inst = Top(t).inst /\ "deps" \in MarkedPcs
    BY <1>2, <2>1, FrameAt DEF MarkedPcs
  <2>3. f.todo = Deps[f.name] /\ f.inst \in 1..instances
    BY <1>1, <1>2, <2>2 DEF Fine
  <2>4. Deps[f.name] \in Seq(Names)
    BY <1>2, <2>2, DepsAssumption
  <2>5. Done(f) = 0 /\ Rest(f)
    BY <2>3, <2>4 DEF Done, Rest
  <2>6. Fine(f, DOMAIN loaded, instances)
    BY <1>5, <2>2, <2>3, <2>5 DEF Fine, IsLoaded
  <2>7. PICK s : s = Append(Front(stack[t]), f)
    OBVIOUS
  <2>8. /\ s \in Seq(Frame) /\ FineStack(s, DOMAIN loaded, instances) /\ Linked(s)
        /\ Waited(s, result[t], DOMAIN loaded)
    BY <1>1, <1>2, <2>2, <2>5, <2>6, <2>7, TopReplaceKeeps
  <2>9. stack' = [stack EXCEPT ![t] = s] /\ result' = [result EXCEPT ![t] = result[t]]
    BY <1>2, <1>5, <2>1, <2>7 DEF SetTop
  <2>10. PICK m \in Nat : m = Len(stack[t])
    BY <1>2
  <2>11. \A k \in Names : ~Marks(stack[t], m, k)
    BY <1>1, <1>2, <2>10 DEF Marks
  <2>12. PICK n \in Names : n = Top(t).name
    BY <1>2
  <2>13. \A i \in Nat, k \in Names : Marks(s, i, k) <=> (i = m /\ k = n) \/ Marks(stack[t], i, k)
    <3>1. \A i \in Nat, k \in Names : Marks(s, i, k) <=>
              IF i = Len(stack[t]) THEN f.name = k /\ f.pc \in MarkedPcs ELSE Marks(stack[t], i, k)
      BY <1>1, <1>2, <2>2, <2>7, MarksReplace
    <3> QED
      BY <2>2, <2>10, <2>11, <2>12, <3>1
  <2>14. MarksInv'
    <3>1. n \notin loading /\ loading' = loading \cup {n}
      BY <1>5, <2>12
    <3>2. SetsMark(t, m, n)
      BY <2>9, <2>13 DEF SetsMark, PInv, Types
    <3> QED
      BY <3>1, <3>2, MarkSet DEF PInv
  <2>15. /\ instances' \in Nat /\ instances <= instances' /\ loading' \in SUBSET Names
         /\ calls' \in 0..MaxCalls /\ fails' \in 0..MaxFails
         /\ FineStack(s, DOMAIN loaded, instances')
    BY <1>1, <1>2, <1>5, <2>8
  <2> QED
    BY <1>1, <1>2, <2>8, <2>9, <2>14, <2>15, StepKeeps
<1> QED
  BY <1>3, <1>4, <1>5 DEF UseEnter

(* What is known of a Use that loads its dependencies.                      *)
LEMMA DepsFacts ==
    ASSUME NEW f \in Frame, NEW L, NEW m \in Nat, f.pc = "deps", Fine(f, L, m)
    PROVE  /\ Deps[f.name] \in Seq(Names) /\ f.todo \in Seq(Names)
           /\ Len(Deps[f.name]) \in Nat /\ Len(f.todo) \in Nat /\ Len(f.todo) <= Len(Deps[f.name])
           /\ Done(f) \in Nat /\ Done(f) = Len(Deps[f.name]) - Len(f.todo)
           /\ f.inst \in 1..m /\ f.name \notin L /\ Rest(f)
           /\ \A k \in 1..(Done(f) - 1) : Deps[f.name][k] \in L
<1>1. f.name \in Names /\ f.todo \in Seq(Names)
  BY FrameFields
<1>2. Deps[f.name] \in Seq(Names)
  BY <1>1, DepsAssumption
<1>3. f.inst \in 1..m /\ f.name \notin L /\ Rest(f)
  BY DEF Fine
<1>4. \A k \in 1..(Done(f) - 1) : Deps[f.name][k] \in L
  BY DEF Fine
<1>5. Len(f.todo) <= Len(Deps[f.name])
  BY <1>3 DEF Rest
<1>6. Len(Deps[f.name]) \in Nat /\ Len(f.todo) \in Nat
  BY <1>1, <1>2
<1>7. Done(f) \in Nat /\ Done(f) = Len(Deps[f.name]) - Len(f.todo)
  BY <1>5, <1>6 DEF Done
<1> QED
  BY <1>1, <1>2, <1>3, <1>4, <1>5, <1>6, <1>7

(* Use takes the next dependency from what it has still to load.            *)
LEMMA NextDep ==
    ASSUME NEW f \in Frame, NEW g \in Frame, Rest(f), f.todo \in Seq(Names), f.todo # <<>>,
           Deps[f.name] \in Seq(Names), g.name = f.name, g.todo = Tail(f.todo)
    PROVE  /\ Done(f) \in Nat /\ Done(g) = Done(f) + 1 /\ Rest(g)
           /\ Head(f.todo) = Deps[f.name][Done(f) + 1]
<1>1. PICK ds : ds = Deps[f.name]
  OBVIOUS
<1>2. PICK s : s = f.todo
  OBVIOUS
<1>3. PICK r : r = Tail(s)
  OBVIOUS
<1>4. PICK a \in Nat : a = Len(ds)
  BY <1>1
<1>5. PICK b \in Nat : b = Len(s)
  BY <1>2
<1>6. b <= a /\ b > 0 /\ s \in Seq(Names) /\ s # <<>>
  BY <1>1, <1>2, <1>4, <1>5 DEF Rest
<1>7. Len(r) = b - 1 /\ Head(s) = s[1] /\ \A k \in 1..(b - 1) : r[k] = s[k + 1]
  BY <1>3, <1>5, <1>6
<1>8. Done(f) = a - b
  BY <1>1, <1>2, <1>4, <1>5 DEF Done
<1>9. \A k \in 1..b : s[k] = ds[(a - b) + k]
  BY <1>1, <1>2, <1>4, <1>5, <1>8 DEF Rest
<1>10. Done(g) = a - (b - 1)
  BY <1>1, <1>2, <1>3, <1>4, <1>7 DEF Done
<1>11. \A k \in 1..(b - 1) : r[k] = ds[(a - (b - 1)) + k]
  <2> SUFFICES ASSUME NEW k \in 1..(b - 1) PROVE r[k] = ds[(a - (b - 1)) + k]
    OBVIOUS
  <2>1. k + 1 \in 1..b /\ (a - b) + (k + 1) = (a - (b - 1)) + k
    BY <1>6
  <2> QED
    BY <1>7, <1>9, <2>1
<1>12. Rest(g)
  BY <1>1, <1>2, <1>3, <1>4, <1>6, <1>7, <1>10, <1>11 DEF Rest
<1>13. Head(s) = ds[(a - b) + 1]
  BY <1>6, <1>7, <1>9
<1> QED
  BY <1>1, <1>2, <1>6, <1>8, <1>10, <1>12, <1>13

(* Use sees the error of a dependency, is done with them, or loads another. *)
LEMMA DepsStep == ASSUME PInv, NEW t \in Threads, UseDeps(t) PROVE PInv'
<1>1. /\ stack[t] # <<>> /\ Top(t).pc = "deps" /\ {"deps", "init", "leave"} \subseteq MarkedPcs
      /\ UNCHANGED <<manager, instances, calls, fails, snapshot, closer, shut>>
      /\ result' = [result EXCEPT ![t] = NoResult]
  BY DEF UseDeps, At, MarkedPcs
<1>2. /\ Top(t).name \in Names /\ Top(t) \in Frame /\ instances \in Nat /\ calls \in 0..MaxCalls
      /\ fails \in 0..MaxFails /\ loading \in SUBSET Names
      /\ stack[t] \in Seq(Frame) /\ Top(t) = Last(stack[t]) /\ Linked(stack[t])
      /\ Top(t) = stack[t][Len(stack[t])] /\ Len(stack[t]) \in Nat /\ Len(stack[t]) > 0
      /\ Fine(Top(t), DOMAIN loaded, instances)
      /\ \A i \in 1..(Len(stack[t]) - 1) : Fine(stack[t][i], DOMAIN loaded, instances)
  BY <1>1, TopFacts
<1>3. PICK f \in Frame : f = Top(t)
  BY <1>2
<1>4. PICK ds : ds = Deps[f.name]
  OBVIOUS
<1>5. /\ ds \in Seq(Names) /\ Len(ds) \in Nat /\ f.todo \in Seq(Names) /\ Len(f.todo) \in Nat
      /\ Len(f.todo) <= Len(ds) /\ Done(f) \in Nat /\ Done(f) = Len(ds) - Len(f.todo)
      /\ f.inst \in 1..instances /\ f.name \notin DOMAIN loaded /\ Rest(f)
      /\ \A k \in 1..(Done(f) - 1) : ds[k] \in DOMAIN loaded
  <2>1. f.pc = "deps" /\ Fine(f, DOMAIN loaded, instances)
    BY <1>1, <1>2, <1>3
  <2> QED
    BY <1>2, <1>4, <2>1, DepsFacts
<1>6. Failed(t) <=> Failing(result[t])
  BY DEF Failed, Failing
<1>7. Done(f) > 0 => Failing(result[t]) \/ ds[Done(f)] \in DOMAIN loaded
  BY <1>1, <1>2, <1>3, <1>4 DEF PInv, FramesInv, Waited
<1>8. /\ instances' \in Nat /\ instances <= instances' /\ calls' \in 0..MaxCalls
      /\ fails' \in 0..MaxFails /\ NoResult \in Results \cup {NoResult} /\ instances' = instances
  BY <1>1, <1>2
<1>9. CASE Failed(t)
  <2>1. PICK er : er = result[t].kind
    OBVIOUS
  <2>2. er \in {"cyclic", "unknown", "initError"}
    BY <1>9, <2>1 DEF Failed
  <2>3. PICK g : g = [f EXCEPT !.pc = "leave", !.error = er]
    OBVIOUS
  <2>4. g \in Frame /\ g.name = f.name /\ g.inst = f.inst /\ g.pc = "leave" /\ g.error = er
    BY <2>2, <2>3, FrameFails
  <2>5. Fine(g, DOMAIN loaded, instances')
    BY <1>5, <1>8, <2>2, <2>4 DEF Fine
  <2>6. SetTop(t, g)
    BY <1>3, <1>9, <2>1, <2>3 DEF UseDeps, SetTop
  <2> QED
    BY <1>1, <1>2, <1>3, <1>8, <2>4, <2>5, <2>6, FrameStep
<1>10. CASE ~Failed(t) /\ f.todo = <<>>
  <2>1. PICK g : g = [f EXCEPT !.pc = "init"]
    OBVIOUS
  <2>2. g \in Frame /\ g.name = f.name /\ g.inst = f.inst /\ g.pc = "init"
    BY <1>1, <2>1, FrameAt
  <2>3. \A k \in 1..Len(ds) : ds[k] \in DOMAIN loaded
    <3>1. Done(f) = Len(ds)
      BY <1>5, <1>10
    <3> QED
      BY <1>5, <1>6, <1>7, <1>10, <3>1
  <2>4. Fine(g, DOMAIN loaded, instances')
    BY <1>4, <1>5, <1>8, <2>2, <2>3 DEF Fine
  <2>5. SetTop(t, g)
    BY <1>3, <1>10, <2>1 DEF UseDeps, SetTop
  <2> QED
    BY <1>1, <1>2, <1>3, <1>8, <2>2, <2>4, <2>5, FrameStep
<1>11. CASE ~Failed(t) /\ f.todo # <<>>
  <2>1. PICK rest : rest = Tail(f.todo)
    OBVIOUS
  <2>2. /\ rest \in Seq(Names) /\ Len(rest) = Len(f.todo) - 1 /\ Len(f.todo) > 0
        /\ \A k \in 1..Len(rest) : rest[k] = f.todo[k + 1]
        /\ Head(f.todo) = f.todo[1] /\ Head(f.todo) \in Names
    BY <1>5, <1>11, <2>1
  <2>3. PICK g : g = [f EXCEPT !.todo = rest]
    OBVIOUS
  <2>4. g \in Frame /\ g.name = f.name /\ g.inst = f.inst /\ g.pc = "deps" /\ g.todo = rest
    BY <1>1, <1>3, <2>2, <2>3, FrameGoesOn
  <2>5. PICK h : h = NewFrame(Head(f.todo), 0, "load")
    OBVIOUS
  <2>6. h \in Frame /\ h.name = Head(f.todo) /\ h.pc = "load" /\ h.todo = Deps[h.name]
    BY <2>2, <2>5, NewFrames
  <2>7. Done(g) = Done(f) + 1 /\ Rest(g) /\ Head(f.todo) = ds[Done(f) + 1]
    BY <1>4, <1>5, <1>11, <2>1, <2>4, NextDep
  <2>9. \A k \in 1..(Done(g) - 1) : Deps[g.name][k] \in DOMAIN loaded
    <3>1. \A k \in 1..Done(f) : ds[k] \in DOMAIN loaded
      BY <1>5, <1>6, <1>7, <1>11
    <3>2. Done(g) - 1 = Done(f)
      BY <1>5, <2>7
    <3> QED
      BY <1>4, <2>4, <3>1, <3>2
  <2>10. Fine(g, DOMAIN loaded, instances) /\ Fine(h, DOMAIN loaded, instances)
    BY <1>5, <2>4, <2>6, <2>7, <2>9 DEF Fine
  <2>11. h.name = Deps[g.name][Done(g)]
    BY <1>4, <2>4, <2>6, <2>7
  <2>12. PICK s : s = Append(Append(Front(stack[t]), g), h)
    OBVIOUS
  <2>13. /\ s \in Seq(Frame) /\ FineStack(s, DOMAIN loaded, instances) /\ Linked(s)
         /\ Waited(s, NoResult, DOMAIN loaded)
    BY <1>1, <1>2, <1>3, <2>4, <2>6, <2>10, <2>11, <2>12, PushKeeps
  <2>14. stack' = [stack EXCEPT ![t] = s]
    <3>1. stack' = [stack EXCEPT ![t] = Append(Append(Front(@), [f EXCEPT !.todo = Tail(@)]),
                                               NewFrame(Head(f.todo), 0, "load"))]
      BY <1>3, <1>11 DEF UseDeps
    <3> QED
      BY <2>1, <2>3, <2>5, <2>12, <3>1
  <2>15. \A i \in Nat, n \in Names : Marks(s, i, n) <=> Marks(stack[t], i, n)
    <3>1. /\ g.name = Last(stack[t]).name /\ g.pc \in MarkedPcs /\ Last(stack[t]).pc \in MarkedPcs
          /\ stack[t] \in Seq(Frame) /\ stack[t] # <<>> /\ g \in Frame /\ h \in Frame /\ h.pc = "load"
      BY <1>1, <1>2, <1>3, <2>4, <2>6
    <3> QED
      BY <2>12, <3>1, MarksPush
  <2>16. UNCHANGED <<factories, loaded, loading, order>>
    BY <1>1 DEF manager
  <2>17. MarksInv'
    BY <2>13, <2>14, <2>15, <2>16, MarksKept DEF PInv
  <2>18. FineStack(s, DOMAIN loaded, instances') /\ loading' \in SUBSET Names
    BY <1>2, <1>8, <2>13, <2>16
  <2> QED
    BY <1>1, <1>8, <2>13, <2>14, <2>16, <2>17, <2>18, StepKeeps
<1> QED
  BY <1>9, <1>10, <1>11

(* Init succeeds or fails.                                                  *)
LEMMA UseInitStep == ASSUME PInv, NEW t \in Threads, UseInit(t) PROVE PInv'
<1>1. /\ stack[t] # <<>> /\ Top(t).pc = "init" /\ {"init", "publish", "leave"} \subseteq MarkedPcs
      /\ UNCHANGED <<manager, result, instances, calls, snapshot, closer, shut>>
  BY DEF UseInit, At, MarkedPcs
<1>2. /\ Top(t).name \in Names /\ Top(t) \in Frame /\ instances \in Nat /\ calls \in 0..MaxCalls
      /\ fails \in 0..MaxFails /\ result[t] \in Results \cup {NoResult}
      /\ result \in [Threads -> Results \cup {NoResult}]
      /\ Fine(Top(t), DOMAIN loaded, instances)
  BY <1>1, TopFacts DEF PInv, Types
<1>3. /\ instances' \in Nat /\ instances <= instances' /\ calls' \in 0..MaxCalls
      /\ instances' = instances /\ result' = [result EXCEPT ![t] = result[t]]
  BY <1>1, <1>2
<1>4. CASE SetTop(t, [Top(t) EXCEPT !.pc = "publish"]) /\ UNCHANGED fails
  <2>1. PICK g : g = [Top(t) EXCEPT !.pc = "publish"]
    OBVIOUS
  <2>2. g \in Frame /\ g.name = Top(t).name /\ g.inst = Top(t).inst /\ g.pc = "publish"
    BY <1>1, <1>2, <2>1, FrameAt
  <2>3. Fine(g, DOMAIN loaded, instances')
    BY <1>1, <1>2, <1>3, <2>2 DEF Fine
  <2>4. SetTop(t, g) /\ fails' \in 0..MaxFails
    BY <1>2, <1>4, <2>1
  <2> QED
    BY <1>1, <1>2, <1>3, <2>2, <2>3, <2>4, FrameStep
<1>5. CASE /\ fails < MaxFails /\ fails' = fails + 1
           /\ SetTop(t, [Top(t) EXCEPT !.pc = "leave", !.error = "initError"])
  <2>1. PICK g : g = [Top(t) EXCEPT !.pc = "leave", !.error = "initError"]
    OBVIOUS
  <2>2. g \in Frame /\ g.name = Top(t).name /\ g.inst = Top(t).inst /\ g.pc = "leave" /\ g.error = "initError"
    BY <1>1, <1>2, <2>1, FrameFails
  <2>3. Fine(g, DOMAIN loaded, instances')
    BY <1>1, <1>2, <1>3, <2>2 DEF Fine
  <2>4. SetTop(t, g) /\ fails' \in 0..MaxFails
    BY <1>2, <1>5, <2>1, BoundsAssumption
  <2> QED
    BY <1>1, <1>2, <1>3, <2>2, <2>3, <2>4, FrameStep
<1> QED
  BY <1>4, <1>5 DEF UseInit

(* The deferred function clears the mark, and Use returns.                  *)
LEMMA LeaveStep == ASSUME PInv, NEW t \in Threads, UseLeave(t) PROVE PInv'
<1>1. /\ stack[t] # <<>> /\ Top(t).pc = "leave" /\ "leave" \in MarkedPcs
      /\ UNCHANGED <<factories, loaded, order, instances, calls, fails, snapshot, closer, shut>>
      /\ loading' = loading \ {Top(t).name}
  BY DEF UseLeave, At, MarkedPcs
<1>2. /\ stack[t] \in Seq(Frame) /\ Top(t) = Last(stack[t]) /\ Top(t).name \in Names
      /\ FineStack(stack[t], DOMAIN loaded, instances) /\ Linked(stack[t]) /\ Top(t) \in Frame
      /\ Fine(Top(t), DOMAIN loaded, instances)
      /\ instances \in Nat /\ calls \in 0..MaxCalls /\ fails \in 0..MaxFails
      /\ loading \in SUBSET Names /\ Top(t) = stack[t][Len(stack[t])] /\ Len(stack[t]) \in Nat
      /\ Len(stack[t]) > 0
  BY <1>1, TopFacts
<1>3. PICK kind : kind = IF Top(t).error = "none" THEN "ok" ELSE Top(t).error
  OBVIOUS
<1>4. /\ kind \in {"ok", "cyclic", "unknown", "initError"}
      /\ kind = "ok" => Top(t).name \in DOMAIN loaded
  BY <1>1, <1>2, <1>3, FrameFields DEF Fine
<1>5. PICK s : s = Front(stack[t])
  OBVIOUS
<1>6. PICK r : r = [kind |-> kind, name |-> Top(t).name]
  OBVIOUS
<1>7. r \in Results /\ r.kind = kind
  BY <1>2, <1>4, <1>6, Resulting
<1>8. Failing(r) \/ Last(stack[t]).name \in DOMAIN loaded
  BY <1>2, <1>4, <1>7 DEF Failing
<1>9. /\ s \in Seq(Frame) /\ FineStack(s, DOMAIN loaded, instances) /\ Linked(s)
      /\ Waited(s, r, DOMAIN loaded)
  BY <1>1, <1>2, <1>5, <1>8, ReturnKeeps
<1>10. stack' = [stack EXCEPT ![t] = s] /\ result' = [result EXCEPT ![t] = r]
  BY <1>3, <1>5, <1>6 DEF UseLeave, Return
<1>11. PICK m \in Nat : m = Len(stack[t])
  BY <1>2
<1>12. \A i \in Nat, k \in Names : Marks(s, i, k) <=> Marks(stack[t], i, k) /\ i # m
  BY <1>1, <1>2, <1>5, <1>11, MarksReturn
<1>13. ClearsMark(t, m)
  BY <1>10, <1>12 DEF ClearsMark, PInv, Types
<1>14. Marks(stack[t], m, Top(t).name)
  BY <1>1, <1>2, <1>11 DEF Marks
<1>15. MarksInv'
  BY <1>1, <1>2, <1>13, <1>14, MarkCleared DEF PInv
<1>16. /\ instances' \in Nat /\ instances <= instances' /\ loading' \in SUBSET Names
       /\ calls' \in 0..MaxCalls /\ fails' \in 0..MaxFails
       /\ FineStack(s, DOMAIN loaded, instances') /\ r \in Results \cup {NoResult}
  BY <1>1, <1>2, <1>7, <1>9
<1> QED
  BY <1>1, <1>9, <1>10, <1>15, <1>16, StepKeeps
(* A plugin whose dependencies are all listed is listed last.               *)
LEMMA OrderGrows ==
    ASSUME NEW s \in Seq(Names), NEW n \in Names, Distinct(s), DepsFirst(s),
           \A i \in 1..Len(s) : s[i] # n,
           \A d \in Names : DependsOn(n, d) => \E i \in 1..Len(s) : s[i] = d
    PROVE  /\ Append(s, n) \in Seq(Names) /\ Distinct(Append(s, n)) /\ DepsFirst(Append(s, n))
           /\ \A d \in Names : (\E i \in 1..Len(Append(s, n)) : Append(s, n)[i] = d) <=>
                               d = n \/ \E i \in 1..Len(s) : s[i] = d
<1>1. PICK p : p = Append(s, n)
  OBVIOUS
<1>2. PICK m \in Nat : m = Len(s)
  OBVIOUS
<1>3. p \in Seq(Names) /\ Len(p) = m + 1 /\ p[m + 1] = n /\ \A i \in 1..m : p[i] = s[i]
  BY <1>1, <1>2
<1>4. Distinct(p)
  BY <1>2, <1>3 DEF Distinct
<1>5. DepsFirst(p)
  <2> SUFFICES ASSUME NEW i \in 1..(m + 1), NEW d \in Names, DependsOn(p[i], d)
               PROVE  \E k \in 1..(i - 1) : p[k] = d
    BY <1>3 DEF DepsFirst
  <2>1. CASE i = m + 1
    BY <1>2, <1>3, <2>1
  <2>2. CASE i # m + 1
    <3>1. i \in 1..m /\ p[i] = s[i]
      BY <1>3, <2>2
    <3>2. PICK k \in 1..(i - 1) : s[k] = d
      BY <1>2, <3>1 DEF DepsFirst
    <3>3. p[k] = d
      BY <1>3, <3>1, <3>2
    <3> QED
      BY <3>3
  <2> QED
    BY <2>1, <2>2
<1>6. \A d \in Names : (\E i \in 1..Len(p) : p[i] = d) <=> d = n \/ \E i \in 1..m : s[i] = d
  BY <1>3
<1> QED
  BY <1>1, <1>2, <1>3, <1>4, <1>5, <1>6

(* Use publishes its plugin: the other frames are of other plugins, and the *)
(* list stays sorted.                                                       *)
LEMMA PublishStep == ASSUME PInv, NEW t \in Threads, UsePublish(t) PROVE PInv'
<1>1. /\ stack[t] # <<>> /\ Top(t).pc = "publish" /\ {"publish", "leave"} \subseteq MarkedPcs
      /\ UNCHANGED <<factories, loading, result, instances, calls, fails, snapshot, closer, shut>>
  BY DEF UsePublish, At, MarkedPcs
<1>2. /\ Top(t).name \in Names /\ Top(t) \in Frame /\ instances \in Nat
      /\ stack[t] \in Seq(Frame) /\ Top(t) = Last(stack[t]) /\ Linked(stack[t])
      /\ Top(t) = stack[t][Len(stack[t])] /\ Len(stack[t]) \in Nat /\ Len(stack[t]) > 0
      /\ Fine(Top(t), DOMAIN loaded, instances)
  BY <1>1, TopFacts
<1>3. PICK f \in Frame : f = Top(t)
  BY <1>2
<1>4. PICK n \in Names : n = f.name
  BY <1>2, <1>3
<1>5. PICK L : L = DOMAIN loaded
  OBVIOUS
<1>6. PICK K : K = L \cup {n}
  OBVIOUS
<1>7. n \notin L /\ f.inst \in 1..instances /\ \A k \in 1..Len(Deps[n]) : Deps[n][k] \in L
  BY <1>1, <1>2, <1>3, <1>4, <1>5 DEF Fine
<1>8. PICK g : g = [f EXCEPT !.pc = "leave"]
  OBVIOUS
<1>9. g \in Frame /\ g.name = n /\ g.inst = f.inst /\ g.pc = "leave"
  BY <1>1, <1>4, <1>8, FrameAt
<1>10. PICK s : s = Append(Front(stack[t]), g)
  OBVIOUS
<1>11. /\ stack' = [stack EXCEPT ![t] = s] /\ order' = Append(order, n)
       /\ loaded' = [k \in K |-> IF k = n THEN f.inst ELSE loaded[k]]
  BY <1>3, <1>4, <1>5, <1>6, <1>8, <1>10 DEF UsePublish, SetTop
<1>12. DOMAIN loaded' = K /\ L \subseteq K
  BY <1>6, <1>11
<1>13. Marks(stack[t], Len(stack[t]), n)
  BY <1>1, <1>2, <1>3, <1>4 DEF Marks
<1>14. ASSUME NEW u \in Threads, NEW i \in 1..Len(stack[u]), u # t \/ i # Len(stack[t])
       PROVE  Fine(stack[u][i], K, instances)
  <2>1. stack[u] \in Seq(Frame)
    BY DEF PInv, Types
  <2>2. i \in Nat /\ stack[u][i] \in Frame
    BY <2>1
  <2>3. FineStack(stack[u], L, instances)
    BY <1>5 DEF PInv, FramesInv
  <2>4. Fine(stack[u][i], L, instances)
    BY <2>3 DEF FineStack
  <2>5. ASSUME stack[u][i].pc \in {"deps", "init", "publish"} PROVE stack[u][i].name \notin K
    <3>1. stack[u][i].name \notin L
      BY <2>4, <2>5 DEF Fine
    <3>2. stack[u][i].pc \in MarkedPcs
      BY <2>5 DEF MarkedPcs
    <3>3. stack[u][i].name = n => Marks(stack[u], i, n)
      BY <3>2 DEF Marks
    <3>4. ~Marks(stack[u], i, n)
      BY <1>2, <1>13, <1>14, <2>2 DEF PInv, MarksInv
    <3> QED
      BY <1>6, <3>1, <3>3, <3>4
  <2> QED
    BY <1>2, <1>12, <2>2, <2>4, <2>5, FineGrows
<1>15. Fine(g, K, instances)
  BY <1>6, <1>7, <1>9 DEF Fine
<1>16. s \in Seq(Frame) /\ FineStack(s, K, instances) /\ Linked(s) /\ Waited(s, result[t], K)
  <2>1. \A i \in 1..(Len(stack[t]) - 1) : Fine(stack[t][i], K, instances)
    BY <1>2, <1>14
  <2>2. g.name = Last(stack[t]).name /\ (g.pc = "deps" => Done(g) = 0)
    BY <1>2, <1>3, <1>4, <1>9
  <2> QED
    BY <1>1, <1>2, <1>9, <1>10, <1>15, <2>1, <2>2, TopReplaceKeeps
<1>17. FramesInv'
  <2> SUFFICES ASSUME NEW u \in Threads
               PROVE  /\ FineStack(stack'[u], K, instances) /\ Linked(stack'[u])
                      /\ Waited(stack'[u], result[u], K)
    BY <1>1, <1>12 DEF FramesInv
  <2>1. CASE u = t
    BY <1>11, <1>16, <2>1 DEF PInv, Types
  <2>2. CASE u # t
    <3>1. stack'[u] = stack[u]
      BY <1>11, <2>2 DEF PInv, Types
    <3>2. FineStack(stack[u], K, instances)
      BY <1>14, <2>2 DEF FineStack
    <3>3. Linked(stack[u]) /\ Waited(stack[u], result[u], L)
      BY <1>5 DEF PInv, FramesInv
    <3>4. Waited(stack[u], result[u], K)
      BY <1>12, <3>3 DEF Waited
    <3> QED
      BY <3>1, <3>2, <3>3, <3>4
  <2> QED
    BY <2>1, <2>2
<1>18. MarksInv'
  <2>1. \A i \in Nat, k \in Names : Marks(s, i, k) <=> Marks(stack[t], i, k)
    <3>1. \A k \in Names : Marks(stack[t], Len(stack[t]), k) <=> g.name = k /\ g.pc \in MarkedPcs
      BY <1>1, <1>2, <1>3, <1>4, <1>9 DEF Marks
    <3> QED
      BY <1>1, <1>2, <1>9, <1>10, <3>1, MarksReplace
  <2> QED
    BY <1>1, <1>11, <1>16, <2>1, MarksKept DEF PInv
<1>19. order' \in Seq(Names) /\ OrderInv'
  <2>1. order \in Seq(Names) /\ Distinct(order) /\ DepsFirst(order)
    BY DEF PInv, Types, OrderInv
  <2>2. \A d \in Names : d \in L <=> \E i \in 1..Len(order) : order[i] = d
    BY <1>5 DEF PInv, OrderInv
  <2>3. \A i \in 1..Len(order) : order[i] # n
    BY <1>7, <2>2
  <2>4. \A d \in Names : DependsOn(n, d) => \E i \in 1..Len(order) : order[i] = d
    <3> SUFFICES ASSUME NEW d \in Names, DependsOn(n, d) PROVE d \in L
      BY <2>2
    <3>1. Deps[n] \in Seq(Names)
      BY DepsAssumption
    <3>2. DOMAIN Deps[n] = 1..Len(Deps[n])
      BY <3>1
    <3> QED
      BY <1>7, <3>2 DEF DependsOn
  <2>5. /\ order' \in Seq(Names) /\ Distinct(order') /\ DepsFirst(order')
        /\ \A d \in Names : (\E i \in 1..Len(order') : order'[i] = d) <=>
                            d = n \/ \E i \in 1..Len(order) : order[i] = d
    BY <1>11, <2>1, <2>3, <2>4, OrderGrows
  <2>6. \A d \in Names : d \in DOMAIN loaded' <=> \E i \in 1..Len(order') : order'[i] = d
    BY <1>6, <1>12, <2>2, <2>5
  <2>7. \A d \in DOMAIN loaded' : loaded'[d] \in 1..instances'
    BY <1>1, <1>5, <1>6, <1>7, <1>11 DEF PInv, OrderInv
  <2> QED
    BY <2>5, <2>6, <2>7 DEF OrderInv, Distinct, DepsFirst
<1>20. Types'
  <2>1. stack' \in [Threads -> Seq(Frame)]
    BY <1>11, <1>16 DEF PInv, Types
  <2>2. DOMAIN loaded' \in SUBSET Names
    BY <1>5, <1>6, <1>12 DEF PInv, Types
  <2> QED
    BY <1>1, <1>19, <2>1, <2>2 DEF PInv, Types
<1>21. ShutInv'
  BY <1>1 DEF PInv, ShutInv, Shutting, Distinct, DepsFirst
<1> QED
  BY <1>17, <1>18, <1>19, <1>20, <1>21 DEF PInv
(* shutdown, and what registers a factory, leave the manager as it is.      *)
LEMMA ManagerKept ==
    ASSUME PInv, UNCHANGED <<loaded, loading, order, stack, result, instances>>
    PROVE  FramesInv' /\ MarksInv' /\ OrderInv'
<1>1. FramesInv'
  BY DEF PInv, FramesInv
<1>2. MarksInv'
  BY DEF PInv, MarksInv
<1>3. OrderInv'
  BY DEF PInv, OrderInv, Distinct, DepsFirst
<1> QED
  BY <1>1, <1>2, <1>3

LEMMA RegisterStep == ASSUME PInv, NEW n \in Names, RegisterFactory(n) PROVE PInv'
<1>1. FramesInv' /\ MarksInv' /\ OrderInv'
  BY ManagerKept DEF RegisterFactory
<1>2. Types'
  BY DEF PInv, Types, RegisterFactory
<1>3. ShutInv'
  BY DEF PInv, ShutInv, Shutting, Distinct, DepsFirst, RegisterFactory
<1> QED
  BY <1>1, <1>2, <1>3 DEF PInv

(* shutdown copies the sorted list.                                         *)
LEMMA BeginStep == ASSUME PInv, ShutdownBegin PROVE PInv'
<1>1. FramesInv' /\ MarksInv' /\ OrderInv'
  BY ManagerKept DEF ShutdownBegin, manager
<1>2. Types'
  BY DEF PInv, Types, ShutdownBegin, manager
<1>3. /\ Distinct(order) /\ DepsFirst(order) /\ shut = <<>> /\ shut' = shut /\ snapshot' = order
      /\ closer' # "idle"
  BY DEF PInv, OrderInv, ShutInv, ShutdownBegin
<1>4. Len(shut) = 0
  BY <1>3
<1>5. Distinct(snapshot') /\ DepsFirst(snapshot') /\ Distinct(shut')
  BY <1>3, <1>4 DEF Distinct, DepsFirst
<1>6. ShutInv'
  BY <1>3, <1>4, <1>5 DEF ShutInv, Shutting, Distinct, DepsFirst
<1> QED
  BY <1>1, <1>2, <1>6 DEF PInv

LEMMA EndStep == ASSUME PInv, ShutdownEnd PROVE PInv'
<1>1. FramesInv' /\ MarksInv' /\ OrderInv'
  BY ManagerKept DEF ShutdownEnd, manager
<1>2. Types'
  BY DEF PInv, Types, ShutdownEnd, manager
<1>3. ShutInv'
  BY DEF PInv, ShutInv, Shutting, Distinct, DepsFirst, ShutdownEnd
<1> QED
  BY <1>1, <1>2, <1>3 DEF PInv

(* The last plugin of a sorted list moves behind those already shut down.   *)
LEMMA ShutMoves ==
    ASSUME NEW s \in Seq(Names), NEW h \in Seq(Names), s # <<>>, Shutting(s, h)
    PROVE  Shutting(Front(s), Append(h, Last(s)))
<1> PICK p : p = Front(s)
  OBVIOUS
<1> PICK q : q = Append(h, Last(s))
  OBVIOUS
<1>1. PICK m \in Nat : m = Len(h)
  OBVIOUS
<1>2. PICK l \in Nat : l + 1 = Len(s)
  <2>1. Len(s) \in Nat /\ Len(s) > 0
    OBVIOUS
  <2>2. Len(s) - 1 \in Nat /\ (Len(s) - 1) + 1 = Len(s)
    BY <2>1
  <2> QED
    BY <2>2
<1>3. Len(p) = l /\ Last(s) = s[l + 1] /\ \A i \in 1..l : p[i] = s[i]
  <2>1. Len(p) = Len(s) - 1 /\ Last(s) = s[Len(s)] /\ \A i \in 1..(Len(s) - 1) : p[i] = s[i]
    BY FrontLast
  <2> QED
    BY <1>2, <2>1
<1>4. Len(q) = m + 1 /\ q[m + 1] = s[l + 1] /\ \A i \in 1..m : q[i] = h[i]
  BY <1>1, <1>3
<1>5. Distinct(p)
  BY <1>2, <1>3 DEF Shutting, Distinct
<1>6. DepsFirst(p)
  <2> SUFFICES ASSUME NEW i \in 1..l, NEW d \in Names, DependsOn(p[i], d)
               PROVE  \E k \in 1..(i - 1) : p[k] = d
    BY <1>3 DEF DepsFirst
  <2>1. i \in 1..Len(s) /\ DependsOn(s[i], d)
    BY <1>2, <1>3
  <2>2. PICK k \in 1..(i - 1) : s[k] = d
    BY <2>1 DEF Shutting, DepsFirst
  <2> QED
    BY <1>3, <2>2
<1>7. Distinct(q)
  BY <1>1, <1>2, <1>4 DEF Shutting, Distinct
<1>8. \A i \in 1..(m + 1), k \in 1..l : q[i] # p[k]
  BY <1>1, <1>2, <1>3, <1>4 DEF Shutting, Distinct
<1>9. ASSUME NEW i \in 1..(m + 1), NEW d \in Names, DependsOn(q[i], d)
      PROVE  \/ \E k \in 1..l : p[k] = d
             \/ \E k \in (i + 1)..(m + 1) : q[k] = d
  <2>1. CASE i = m + 1
    <3>1. PICK k \in 1..((l + 1) - 1) : s[k] = d
      BY <1>2, <1>4, <1>9, <2>1 DEF Shutting, DepsFirst
    <3> QED
      BY <1>3, <3>1
  <2>2. CASE i # m + 1
    <3>1. i \in 1..m /\ DependsOn(h[i], d)
      BY <1>4, <1>9, <2>2
    <3>2. CASE \E k \in 1..(l + 1) : s[k] = d
      <4>1. PICK k \in 1..(l + 1) : s[k] = d
        BY <3>2
      <4>2. CASE k = l + 1
        BY <1>4, <3>1, <4>1, <4>2
      <4>3. CASE k # l + 1
        BY <1>3, <4>1, <4>3
      <4> QED
        BY <4>2, <4>3
    <3>3. CASE \E k \in (i + 1)..m : h[k] = d
      BY <1>4, <3>1, <3>3
    <3> QED
      BY <1>1, <1>2, <3>1, <3>2, <3>3 DEF Shutting
  <2> QED
    BY <2>1, <2>2
<1>10. Shutting(p, q)
  <2>1. \A i \in 1..Len(q), k \in 1..Len(p) : q[i] # p[k]
    BY <1>3, <1>4, <1>8
  <2>2. \A i \in 1..Len(q) : \A d \in Names : DependsOn(q[i], d) =>
            \/ \E k \in 1..Len(p) : p[k] = d
            \/ \E k \in (i + 1)..Len(q) : q[k] = d
    BY <1>3, <1>4, <1>9
  <2> QED
    BY <1>5, <1>6, <1>7, <2>1, <2>2 DEF Shutting
<1> QED
  BY <1>10

LEMMA NextStep == ASSUME PInv, ShutdownNext PROVE PInv'
<1>1. FramesInv' /\ MarksInv' /\ OrderInv'
  BY ManagerKept DEF ShutdownNext, manager
<1>2. snapshot \in Seq(Names) /\ shut \in Seq(Names) /\ snapshot # <<>> /\ closer' # "idle"
  BY DEF PInv, Types, ShutdownNext
<1>3. Last(snapshot) \in Names /\ Front(snapshot) \in Seq(Names)
  BY <1>2, FrontLast
<1>4. shut' = Append(shut, Last(snapshot)) /\ snapshot' = Front(snapshot)
  BY DEF ShutdownNext
<1>5. snapshot' \in Seq(Names) /\ shut' \in Seq(Names)
  BY <1>2, <1>3, <1>4
<1>6. Types'
  BY <1>5 DEF PInv, Types, ShutdownNext, manager
<1>7. Shutting(snapshot, shut)
  BY DEF PInv, ShutInv
<1>8. Shutting(snapshot', shut')
  BY <1>2, <1>4, <1>7, ShutMoves
<1>9. ShutInv'
  BY <1>2, <1>8 DEF ShutInv
<1> QED
  BY <1>1, <1>6, <1>9 DEF PInv

LEMMA NextPInv == PInv /\ [Next]_vars => PInv'
<1> SUFFICES ASSUME PInv, [Next]_vars PROVE PInv'
  OBVIOUS
<1>1. CASE UNCHANGED vars
  <2>1. FramesInv' /\ MarksInv' /\ OrderInv'
    BY <1>1, ManagerKept DEF vars, manager
  <2>2. Types'
    BY <1>1 DEF PInv, Types, vars, manager
  <2>3. ShutInv'
    BY <1>1 DEF PInv, ShutInv, Shutting, Distinct, DepsFirst, vars
  <2> QED
    BY <2>1, <2>2, <2>3 DEF PInv
<1>2. ASSUME NEW n \in Names, RegisterFactory(n) PROVE PInv'
  BY <1>2, RegisterStep
<1>3. ASSUME NEW t \in Threads, Run(t) PROVE PInv'
  BY <1>3, LoadStep, EnterStep, DepsStep, UseInitStep, PublishStep, LeaveStep DEF Run
<1>4. ASSUME NEW t \in Threads, NEW n \in Names, CallLoad(t, n) \/ CallUse(t, n) PROVE PInv'
  BY <1>4, CallStep
<1>5. CASE ShutdownBegin \/ ShutdownNext \/ ShutdownEnd
  BY <1>5, BeginStep, NextStep, EndStep
<1> QED
  BY <1>1, <1>2, <1>3, <1>4, <1>5 DEF Next

LEMMA AlwaysPInv == Spec => []PInv
BY InitPInv, NextPInv, PTL DEF Spec

-----------------------------------------------------------------------------
(* The theorems. *)

(* The manager's maps, list and marks are of plugin names, an instance that *)
(* is loaded is one that was made, and a goroutine's frames are well formed *)
(* (plugin.go:22-29).                                                       *)
THEOREM PluginsTypeCorrect == Spec => []TypeOK
<1>1. PInv => TypeOK
  BY DEF PInv, Types, OrderInv, TypeOK
<1> QED
  BY <1>1, AlwaysPInv, PTL

(* A mark in loading always belongs to a Use under way, whatever fails in   *)
(* Load, Use or Init (plugin.go:88).                                        *)
THEOREM LoadingIsHeld == Spec => []LoadingHeld
<1>1. PInv => LoadingHeld
  <2> SUFFICES ASSUME PInv, NEW n \in loading
               PROVE  \E t \in Threads : \E i \in DOMAIN stack[t] :
                          /\ stack[t][i].name = n
                          /\ stack[t][i].pc \in {"deps", "init", "publish", "leave"}
    BY DEF LoadingHeld
  <2>1. PICK t \in Threads, i \in Nat : Marks(stack[t], i, n)
    BY DEF PInv, MarksInv
  <2>2. stack[t] \in Seq(Frame)
    BY DEF PInv, Types
  <2>3. i \in DOMAIN stack[t]
    BY <2>1, <2>2 DEF Marks
  <2> QED
    BY <2>1, <2>3 DEF Marks, MarkedPcs
<1> QED
  BY <1>1, AlwaysPInv, PTL

(* Init of a plugin runs only when all it depends on is loaded, whatever    *)
(* other goroutines load (plugin.go:95-101).                                *)
THEOREM InitFindsItsDeps == Spec => []InitFindsDeps
<1>1. PInv => InitFindsDeps
  <2> SUFFICES ASSUME PInv, NEW t \in Threads, At(t, "init"), NEW d \in Range(Deps[Top(t).name])
               PROVE  IsLoaded(d)
    BY DEF InitFindsDeps
  <2>1. stack[t] # <<>> /\ Top(t).pc = "init"
    BY DEF At
  <2>2. Top(t).name \in Names /\ Fine(Top(t), DOMAIN loaded, instances)
    BY <2>1, TopFacts
  <2>3. PICK ds : ds = Deps[Top(t).name]
    OBVIOUS
  <2>4. ds \in Seq(Names) /\ \A k \in 1..Len(ds) : ds[k] \in DOMAIN loaded
    BY <2>1, <2>2, <2>3, DepsAssumption DEF Fine
  <2>5. PICK k \in DOMAIN ds : d = ds[k]
    BY <2>3 DEF Range
  <2> QED
    BY <2>4, <2>5 DEF IsLoaded
<1> QED
  BY <1>1, AlwaysPInv, PTL

(* The place of an element of a sequence that has it once.                  *)
LEMMA PositionIs ==
    ASSUME NEW s \in Seq(Names), Distinct(s), NEW i \in 1..Len(s)
    PROVE  Position(s[i], s) = i
<1>1. DOMAIN s = 1..Len(s)
  OBVIOUS
<1>2. PICK k : k = Position(s[i], s)
  OBVIOUS
<1>3. \E j \in DOMAIN s : s[j] = s[i]
  BY <1>1
<1>4. k \in DOMAIN s /\ s[k] = s[i]
  BY <1>2, <1>3 DEF Position
<1> QED
  BY <1>1, <1>2, <1>4 DEF Distinct

(* order has every loaded plugin once, after the plugins it depends on      *)
(* (plugin.go:86-101).                                                      *)
THEOREM OrderIsTopological == Spec => []OrderTopological
<1>1. ASSUME PInv PROVE OrderTopological
  <2>1. order \in Seq(Names) /\ DOMAIN order = 1..Len(order) /\ DOMAIN loaded \in SUBSET Names
    BY <1>1 DEF PInv, Types
  <2>2. Distinct(order) /\ DepsFirst(order)
    BY <1>1 DEF PInv, OrderInv
  <2>3. \A n \in Names : n \in DOMAIN loaded <=> \E i \in 1..Len(order) : order[i] = n
    BY <1>1 DEF PInv, OrderInv
  <2>4. IsInjective(order)
    BY <2>1, <2>2 DEF IsInjective, Distinct
  <2>5. Range(order) = DOMAIN loaded
    <3>1. \A n \in Range(order) : n \in DOMAIN loaded
      BY <2>1, <2>3 DEF Range
    <3>2. \A n \in DOMAIN loaded : n \in Range(order)
      BY <2>1, <2>3 DEF Range
    <3> QED
      BY <3>1, <3>2
  <2>6. ASSUME NEW n \in DOMAIN loaded, NEW d \in DOMAIN loaded, DependsOn(n, d)
        PROVE  Position(d, order) < Position(n, order)
    <3>1. PICK i \in 1..Len(order) : order[i] = n
      BY <2>1, <2>3
    <3>2. PICK k \in 1..(i - 1) : order[k] = d
      BY <2>1, <2>2, <2>6, <3>1 DEF DepsFirst
    <3>3. k \in 1..Len(order) /\ Len(order) \in Nat
      BY <2>1, <3>1, <3>2
    <3>4. Position(n, order) = i /\ Position(d, order) = k
      BY <2>1, <2>2, <3>1, <3>2, <3>3, PositionIs
    <3> QED
      BY <3>1, <3>2, <3>3, <3>4
  <2> QED
    BY <2>4, <2>5, <2>6 DEF OrderTopological
<1> QED
  BY <1>1, AlwaysPInv, PTL

(* A plugin is shut down before those it depends on, and none twice, beside *)
(* goroutines that go on loading (plugin.go:163-175).                       *)
THEOREM ShutdownIsReversed == Spec => []ShutdownReversed
<1>1. ASSUME PInv PROVE ShutdownReversed
  <2>1. shut \in Seq(Names) /\ DOMAIN shut = 1..Len(shut) /\ Len(shut) \in Nat
    BY <1>1 DEF PInv, Types
  <2>2. Distinct(shut) /\ \A i \in 1..Len(shut), k \in 1..Len(snapshot) : shut[i] # snapshot[k]
    BY <1>1 DEF PInv, ShutInv, Shutting
  <2>3. IsInjective(shut)
    BY <2>1, <2>2 DEF IsInjective, Distinct
  <2>4. ASSUME NEW n \in Range(shut), NEW d \in Range(shut), DependsOn(n, d)
        PROVE  Position(n, shut) < Position(d, shut)
    <3>1. PICK i \in 1..Len(shut) : shut[i] = n
      BY <2>1 DEF Range
    <3>2. PICK j \in 1..Len(shut) : shut[j] = d
      BY <2>1 DEF Range
    <3>3. d \in Names
      BY <2>1, <3>2
    <3>4. \/ \E k \in 1..Len(snapshot) : snapshot[k] = d
          \/ \E k \in (i + 1)..Len(shut) : shut[k] = d
      BY <1>1, <2>4, <3>1, <3>3 DEF PInv, ShutInv, Shutting
    <3>5. PICK k \in (i + 1)..Len(shut) : shut[k] = d
      BY <2>2, <3>2, <3>4
    <3>6. k \in 1..Len(shut) /\ i < k
      BY <2>1, <3>1, <3>5
    <3>7. Position(n, shut) = i /\ Position(d, shut) = k
      BY <2>1, <2>2, <3>1, <3>5, <3>6, PositionIs
    <3> QED
      BY <3>6, <3>7
  <2> QED
    BY <2>3, <2>4 DEF ShutdownReversed
<1> QED
  BY <1>1, AlwaysPInv, PTL

-----------------------------------------------------------------------------
(* Slices: what they show, and what append does to the others. *)

Slices == [array : Nat, len : Nat]
Fits(heap, x) == x \in Slices /\ x.array \in 1..Len(heap) /\ x.len <= Len(heap[x.array])

(* x shows no cell that an append to y writes.                              *)
Apart(x, y) == x.array # y.array \/ x.len <= y.len

LEMMA SliceIs ==
    ASSUME NEW a \in Nat, NEW n \in Nat
    PROVE  Slice(a, n) \in Slices /\ Slice(a, n).array = a /\ Slice(a, n).len = n
BY DEF Slice, Slices

LEMMA ShownIs ==
    ASSUME NEW S, NEW heap \in Seq(Seq(S)), NEW x, Fits(heap, x)
    PROVE  /\ heap[x.array] \in Seq(S) /\ x.len \in Nat
           /\ Shown(heap, x) \in Seq(S) /\ Len(Shown(heap, x)) = x.len
           /\ \A i \in 1..x.len : i \in 1..Len(heap[x.array]) /\ Shown(heap, x)[i] = heap[x.array][i]
<1>1. x.array \in 1..Len(heap) /\ x.len \in Nat /\ x.len <= Len(heap[x.array])
  BY DEF Fits, Slices
<1>2. PICK a \in Seq(S) : a = heap[x.array]
  BY <1>1
<1>3. PICK n \in Nat : n = x.len /\ n <= Len(a)
  BY <1>1, <1>2
<1>4. Shown(heap, x) = SubSeq(a, 1, n)
  BY <1>2, <1>3 DEF Shown
<1>5. 1 \in 1..(Len(a) + 1) /\ n \in 0..Len(a) /\ n \in (1 - 1)..Len(a)
  BY <1>3
<1>6. /\ SubSeq(a, 1, n) \in Seq(S) /\ Len(SubSeq(a, 1, n)) = n
      /\ \A i \in 1..n : SubSeq(a, 1, n)[i] = a[i]
  BY <1>3, <1>5
<1> QED
  BY <1>2, <1>3, <1>4, <1>6

(* The same, with what it rests on and what it says under names.            *)
SliceOf(x, heap, S) == heap \in Seq(Seq(S)) /\ Fits(heap, x)
Contents(t, x, heap, S) ==
    t \in Seq(S) /\ Len(t) = x.len /\ \A i \in 1..x.len : t[i] = heap[x.array][i]

LEMMA ShownCells ==
    ASSUME NEW S, NEW heap, NEW x, SliceOf(x, heap, S)
    PROVE  Contents(Shown(heap, x), x, heap, S)
<1>1. heap \in Seq(Seq(S)) /\ Fits(heap, x)
  BY DEF SliceOf
<1>2. /\ Shown(heap, x) \in Seq(S) /\ Len(Shown(heap, x)) = x.len
      /\ \A i \in 1..x.len : Shown(heap, x)[i] = heap[x.array][i]
  BY <1>1, ShownIs
<1> QED
  BY <1>2 DEF Contents

(* Two slices that have the same length and cells show the same.            *)
SameCells(heap, x, heap2, y) == x.len = y.len /\ \A i \in 1..x.len : heap2[y.array][i] = heap[x.array][i]

LEMMA SameShown ==
    ASSUME NEW S, NEW heap \in Seq(Seq(S)), NEW x, Fits(heap, x),
           NEW heap2 \in Seq(Seq(S)), NEW y, Fits(heap2, y),
           SameCells(heap, x, heap2, y)
    PROVE  Shown(heap2, y) = Shown(heap, x)
<1>1. PICK u \in Seq(S) : u = Shown(heap, x) /\ Len(u) = x.len /\ \A i \in 1..x.len : u[i] = heap[x.array][i]
  BY ShownIs
<1>2. PICK v \in Seq(S) : v = Shown(heap2, y) /\ Len(v) = y.len /\ \A i \in 1..y.len : v[i] = heap2[y.array][i]
  BY ShownIs
<1>3. Len(u) = Len(v) /\ \A i \in 1..Len(u) : u[i] = v[i]
  BY <1>1, <1>2 DEF SameCells
<1>4. u = v
  BY <1>3, SeqEqual
<1> QED
  BY <1>1, <1>2, <1>4

LEMMA SpareIs ==
    ASSUME NEW S, NEW n \in Nat, NEW zero \in S
    PROVE  Spare(n, zero) \in Seq(S) /\ Len(Spare(n, zero)) = n
<1>1. Spare(n, zero) \in [1..n -> S]
  BY DEF Spare
<1> QED
  BY <1>1

(* append: the slice shows one element more, the array of every other slice *)
(* is there as it was, but for the cell after the slice.                    *)
LEMMA AppendToIs ==
    ASSUME NEW S, NEW heap \in Seq(Seq(S)), NEW x, Fits(heap, x), NEW v \in S, NEW zero \in S,
           NEW done, done = AppendTo(heap, x, v, zero)
    PROVE  /\ done.heap \in Seq(Seq(S)) /\ Fits(done.heap, done.slice)
           /\ Shown(done.heap, done.slice) = Append(Shown(heap, x), v)
           /\ \A y : Fits(heap, y) => Fits(done.heap, y)
           /\ \A y : Fits(heap, y) /\ Apart(y, x) =>
                 Shown(done.heap, y) = Shown(heap, y) /\ Apart(y, done.slice)
<1>0. x.array \in Nat /\ x.len \in Nat
  BY DEF Fits, Slices
<1>1. PICK a \in Nat, n \in Nat : a = x.array /\ n = x.len
  BY <1>0
<1>2. a \in 1..Len(heap) /\ n \in Nat /\ n <= Len(heap[a]) /\ heap[a] \in Seq(S)
  BY <1>1 DEF Fits, Slices
<1>3. PICK old \in Seq(S) : old = heap[a]
  BY <1>2
<1>4. PICK h \in Nat : h = Len(heap)
  OBVIOUS
<1>5. PICK u \in Seq(S) : u = Shown(heap, x) /\ Len(u) = n /\ \A i \in 1..n : u[i] = old[i]
  BY <1>1, <1>3, ShownIs
<1>6. PICK w : w = Append(u, v)
  OBVIOUS
<1>7. w \in Seq(S) /\ Len(w) = n + 1 /\ w[n + 1] = v /\ \A i \in 1..n : w[i] = u[i]
  <2>1. /\ Append(u, v) \in Seq(S) /\ Len(Append(u, v)) = Len(u) + 1
        /\ \A i \in 1..Len(u) : Append(u, v)[i] = u[i]
        /\ Append(u, v)[Len(u) + 1] = v
    BY AppendProperties
  <2> QED
    BY <1>5, <1>6, <2>1
<1>8. CASE n < Len(old)
  <2>1. PICK g : g = [heap EXCEPT ![a][n + 1] = v]
    OBVIOUS
  <2>2. PICK new : new = [old EXCEPT ![n + 1] = v]
    OBVIOUS
  <2>3. n + 1 \in 1..Len(old)
    BY <1>2, <1>8
  <2>4. /\ new \in Seq(S) /\ Len(new) = Len(old) /\ new[n + 1] = v
        /\ \A i \in 1..Len(old) : i # n + 1 => new[i] = old[i]
    BY <2>2, <2>3, ExceptSeq
  <2>5. g = [heap EXCEPT ![a] = new]
    BY <1>2, <1>3, <2>1, <2>2
  <2>6. /\ g \in Seq(Seq(S)) /\ Len(g) = h /\ g[a] = new
        /\ \A b \in 1..h : b # a => g[b] = heap[b]
    BY <1>2, <1>4, <2>4, <2>5, ExceptSeq
  <2>7. done.heap = g /\ done.slice = Slice(a, n + 1)
    BY <1>1, <1>3, <1>8, <2>1 DEF AppendTo
  <2>8. PICK z : z = Slice(a, n + 1)
    OBVIOUS
  <2>9. z \in Slices /\ z.array = a /\ z.len = n + 1
    <3>1. a \in Nat /\ n + 1 \in Nat
      BY <1>2
    <3> QED
      BY <2>8, <3>1, SliceIs
  <2>10. Fits(g, z)
    BY <1>2, <1>4, <2>3, <2>4, <2>6, <2>9 DEF Fits
  <2>11. Shown(g, z) = w
    <3>1. PICK t \in Seq(S) : t = Shown(g, z) /\ Len(t) = n + 1 /\ \A i \in 1..(n + 1) : t[i] = new[i]
      <4>1. /\ Shown(g, z) \in Seq(S) /\ Len(Shown(g, z)) = z.len
            /\ \A i \in 1..z.len : Shown(g, z)[i] = g[z.array][i]
        <5>1. SliceOf(z, g, S)
          BY <2>6, <2>10 DEF SliceOf
        <5>2. Contents(Shown(g, z), z, g, S)
          BY <5>1, ShownCells
        <5> QED
          BY <5>2 DEF Contents
      <4> QED
        BY <2>6, <2>9, <4>1
    <3>2. \A i \in 1..(n + 1) : t[i] = w[i]
      <4> TAKE i \in 1..(n + 1)
      <4>1. CASE i = n + 1
        BY <1>7, <2>4, <3>1, <4>1
      <4>2. CASE i # n + 1
        <5>1. i \in 1..n /\ i \in 1..Len(old)
          BY <1>2, <1>8, <4>2
        <5> QED
          BY <1>5, <1>7, <2>4, <3>1, <4>2, <5>1
      <4> QED
        BY <4>1, <4>2
    <3>3. t = w
      BY <1>2, <1>7, <3>1, <3>2, SeqEqual
    <3> QED
      BY <3>1, <3>3
  <2>12. ASSUME NEW y, Fits(heap, y)
         PROVE  Fits(g, y) /\ (Apart(y, x) => Shown(g, y) = Shown(heap, y) /\ Apart(y, z))
    <3>1. y.array \in 1..h /\ y.len \in Nat /\ y \in Slices /\ y.len <= Len(heap[y.array])
      BY <1>4, <2>12 DEF Fits, Slices
    <3>2. Len(g[y.array]) = Len(heap[y.array])
      BY <1>3, <2>4, <2>6, <3>1
    <3>3. Fits(g, y)
      BY <2>6, <3>1, <3>2 DEF Fits
    <3>4. ASSUME Apart(y, x) PROVE \A i \in 1..y.len : g[y.array][i] = heap[y.array][i]
      <4>1. CASE y.array # a
        BY <2>6, <3>1, <4>1
      <4>2. CASE y.array = a
        <5>1. y.len <= n
          BY <1>1, <3>4, <4>2 DEF Apart
        <5>2. \A i \in 1..y.len : i \in 1..Len(old) /\ i # n + 1
          BY <1>2, <1>3, <3>1, <5>1
        <5> QED
          BY <1>3, <2>4, <2>6, <4>2, <5>2
      <4> QED
        BY <4>1, <4>2
    <3>5. Apart(y, x) => Shown(g, y) = Shown(heap, y)
      <4> HAVE Apart(y, x)
      <4>1. SameCells(heap, y, g, y)
        BY <3>4 DEF SameCells
      <4> QED
        BY <2>6, <2>12, <3>3, <4>1, SameShown
    <3>6. Apart(y, x) => Apart(y, z)
      BY <1>1, <1>2, <2>9, <2>12, <3>1 DEF Apart
    <3> QED
      BY <3>3, <3>5, <3>6
  <2> QED
    BY <1>5, <1>6, <2>6, <2>7, <2>8, <2>10, <2>11, <2>12
<1>9. CASE ~(n < Len(old))
  <2>1. n = Len(old)
    BY <1>2, <1>3, <1>9
  <2>2. PICK s \in Nat : s = Grown(Len(old)) - Len(old) - 1
    <3>1. Grown(n) = IF n = 0 THEN 1 ELSE 2 * n
      BY DEF Grown
    <3>2. Grown(n) - n - 1 \in Nat
      BY <3>1
    <3> QED
      BY <2>1, <3>2
  <2>3. PICK e \in Seq(S) : e = Spare(s, zero) /\ Len(e) = s
    BY SpareIs
  <2>4. PICK o \in Seq(S) : o = Append(old, v)
    BY AppendProperties
  <2>5. o \in Seq(S) /\ Len(o) = n + 1 /\ o[n + 1] = v /\ \A i \in 1..n : o[i] = old[i]
    BY <2>1, <2>4, AppendProperties
  <2>6. PICK new : new = o \o e
    OBVIOUS
  <2>7. new \in Seq(S) /\ Len(new) = n + 1 + s /\ \A i \in 1..(n + 1) : new[i] = o[i]
    <3>1. PICK k \in Nat : k = n + 1
      BY <1>2
    <3>2. k = Len(o) /\ s = Len(e)
      BY <2>3, <2>5, <3>1
    <3>3. new \in Seq(S) /\ Len(new) = k + s /\ \A i \in 1..k : new[i] = o[i]
      BY <2>6, <3>2, ConcatParts
    <3> QED
      BY <3>1, <3>3
  <2>8. PICK g : g = Append(heap, new)
    OBVIOUS
  <2>9. /\ g \in Seq(Seq(S)) /\ Len(g) = h + 1 /\ g[h + 1] = new
        /\ \A b \in 1..h : g[b] = heap[b]
    BY <1>4, <2>7, <2>8, AppendProperties
  <2>10. done.heap = g /\ done.slice = Slice(h + 1, n + 1)
    BY <1>1, <1>3, <1>4, <1>9, <2>2, <2>3, <2>4, <2>6, <2>8 DEF AppendTo
  <2>11. PICK z : z = Slice(h + 1, n + 1)
    OBVIOUS
  <2>12. z \in Slices /\ z.array = h + 1 /\ z.len = n + 1
    <3>1. h + 1 \in Nat /\ n + 1 \in Nat
      BY <1>2
    <3> QED
      BY <2>11, <3>1, SliceIs
  <2>13. Fits(g, z)
    <3>1. n + 1 <= Len(new)
      BY <1>2, <2>7
    <3> QED
      BY <1>4, <2>9, <2>12, <3>1 DEF Fits
  <2>14. Shown(g, z) = w
    <3>1. PICK t \in Seq(S) : t = Shown(g, z) /\ Len(t) = n + 1 /\ \A i \in 1..(n + 1) : t[i] = new[i]
      <4>1. /\ Shown(g, z) \in Seq(S) /\ Len(Shown(g, z)) = z.len
            /\ \A i \in 1..z.len : Shown(g, z)[i] = g[z.array][i]
        <5>1. SliceOf(z, g, S)
          BY <2>9, <2>13 DEF SliceOf
        <5>2. Contents(Shown(g, z), z, g, S)
          BY <5>1, ShownCells
        <5> QED
          BY <5>2 DEF Contents
      <4>2. g[z.array] = new /\ z.len = n + 1
        BY <2>9, <2>12
      <4> QED
        BY <4>1, <4>2
    <3>2. \A i \in 1..(n + 1) : t[i] = w[i]
      <4> TAKE i \in 1..(n + 1)
      <4>1. i = n + 1 \/ i \in 1..n
        BY <1>2
      <4> QED
        <5>1. t[i] = o[i]
          BY <2>7, <3>1
        <5>2. o[i] = w[i]
          <6>1. CASE i = n + 1
            BY <1>7, <2>5, <6>1
          <6>2. CASE i \in 1..n
            BY <1>5, <1>7, <2>5, <6>2
          <6> QED
            BY <4>1, <6>1, <6>2
        <5> QED
          BY <5>1, <5>2
    <3>3. t = w
      BY <1>2, <1>7, <3>1, <3>2, SeqEqual
    <3> QED
      BY <3>1, <3>3
  <2>15. ASSUME NEW y, Fits(heap, y)
         PROVE  Fits(g, y) /\ (Apart(y, x) => Shown(g, y) = Shown(heap, y) /\ Apart(y, z))
    <3>1. y.array \in 1..h /\ y.len \in Nat /\ y \in Slices /\ y.len <= Len(heap[y.array])
      BY <1>4, <2>15 DEF Fits, Slices
    <3>2. g[y.array] = heap[y.array]
      BY <2>9, <3>1
    <3>3. Fits(g, y)
      BY <1>4, <2>9, <3>1, <3>2 DEF Fits
    <3>4. Shown(g, y) = Shown(heap, y)
      <4>1. SameCells(heap, y, g, y)
        BY <3>2 DEF SameCells
      <4> QED
        BY <2>9, <2>15, <3>3, <4>1, SameShown
    <3>5. Apart(y, z)
      BY <1>4, <2>12, <3>1 DEF Apart
    <3> QED
      BY <3>3, <3>4, <3>5
  <2> QED
    BY <1>5, <1>6, <2>9, <2>10, <2>11, <2>13, <2>14, <2>15
<1> QED
  BY <1>8, <1>9

LEMMA CloneOfIs ==
    ASSUME NEW S, NEW heap \in Seq(Seq(S)), NEW x, Fits(heap, x), NEW done, done = CloneOf(heap, x)
    PROVE  /\ done.heap \in Seq(Seq(S)) /\ Fits(done.heap, done.slice)
           /\ Shown(done.heap, done.slice) = Shown(heap, x)
           /\ \A y : Fits(heap, y) => Fits(done.heap, y) /\ Shown(done.heap, y) = Shown(heap, y)
<1>1. PICK h \in Nat : h = Len(heap)
  OBVIOUS
<1>2. PICK u \in Seq(S) : u = Shown(heap, x) /\ Len(u) = x.len /\ \A i \in 1..x.len : u[i] = heap[x.array][i]
  BY ShownIs
<1>3. PICK g : g = Append(heap, u)
  OBVIOUS
<1>4. /\ g \in Seq(Seq(S)) /\ Len(g) = h + 1 /\ g[h + 1] = u
      /\ \A b \in 1..h : g[b] = heap[b]
  BY <1>1, <1>3, AppendProperties
<1>5. x.len \in Nat
  BY DEF Fits, Slices
<1>6. PICK z : z = Slice(h + 1, x.len)
  OBVIOUS
<1>7. z \in Slices /\ z.array = h + 1 /\ z.len = x.len
  BY <1>5, <1>6, SliceIs
<1>8. Fits(g, z)
  BY <1>2, <1>4, <1>5, <1>7 DEF Fits
<1>9. Shown(g, z) = Shown(heap, x)
  <2>1. SameCells(heap, x, g, z)
    BY <1>2, <1>4, <1>7 DEF SameCells
  <2> QED
    BY <1>4, <1>8, <2>1, SameShown
<1>10. ASSUME NEW y, Fits(heap, y) PROVE Fits(g, y) /\ Shown(g, y) = Shown(heap, y)
  <2>1. y.array \in 1..h /\ g[y.array] = heap[y.array]
    BY <1>1, <1>4, <1>10 DEF Fits
  <2>2. Fits(g, y)
    BY <1>4, <1>10, <2>1 DEF Fits
  <2>3. SameCells(heap, y, g, y)
    BY <2>1 DEF SameCells
  <2> QED
    BY <1>4, <1>10, <2>2, <2>3, SameShown
<1>11. done.heap = g /\ done.slice = z
  BY <1>1, <1>2, <1>3, <1>6 DEF CloneOf
<1> QED
  BY <1>4, <1>8, <1>9, <1>10, <1>11

-----------------------------------------------------------------------------
(* Message extensions: the kinds. *)


OneName == {Correction, JSON, OriginID, EncryptionInfo, Spoiler, OccupantID, Reply, Retraction,
            Reactions, DirectMUCInvite, Receipt, Attention, StanzaID, Reference, Mention, FallbackBody}

LEMMA OneLocal ==
    ASSUME NEW k \in OneName
    PROVE  \E l : k.locals = <<l>>
BY DEF OneName, Kind, Correction, JSON, OriginID, EncryptionInfo, Spoiler, OccupantID, Reply, Retraction,
   Reactions, DirectMUCInvite, Receipt, Attention, StanzaID, Reference, Mention, FallbackBody

(* Every kind has local names.                                              *)
LEMMA KindShapes ==
    ASSUME NEW k \in AllKinds
    PROVE  \E n \in Nat : n > 0 /\ DOMAIN k.locals = 1..n
<1>1. CASE k \in OneName
  <2>1. PICK l : k.locals = <<l>>
    BY <1>1, OneLocal
  <2>2. DOMAIN <<l>> = 1..1
    OBVIOUS
  <2> QED
    BY <2>1, <2>2
<1>2. CASE k = ChatState
  <2>1. DOMAIN k.locals = 1..5
    BY <1>2 DEF ChatState, Kind
  <2> QED
    BY <2>1
<1>3. CASE k \in {Marker, Hint}
  <2>1. DOMAIN k.locals = 1..4
    BY <1>3 DEF Marker, Hint, Kind
  <2> QED
    BY <2>1
<1> QED
  BY <1>1, <1>2, <1>3 DEF AllKinds, ExclusiveKinds, PlainKinds, OnceKinds, MoreKinds, OneName

(* A name belongs to one kind.                                              *)
LEMMA Spaces ==
    /\ ChatState.space = "chatstates" /\ Correction.space = "message-correct"
    /\ Marker.space = "chat-markers" /\ JSON.space = "json" /\ OriginID.space = "sid"
    /\ EncryptionInfo.space = "eme" /\ Spoiler.space = "spoiler"
    /\ OccupantID.space = "occupant-id" /\ Reactions.space = "reactions"
    /\ DirectMUCInvite.space = "conference" /\ Reply.space = "reply"
    /\ Retraction.space = "message-retract" /\ Receipt.space = "receipts"
    /\ Hint.space = "hints" /\ Attention.space = "attention" /\ StanzaID.space = "sid"
    /\ Reference.space = "reference" /\ Mention.space = "mention" /\ FallbackBody.space = "fallback"
BY DEF Kind, ChatState, Correction, Marker, JSON, OriginID, EncryptionInfo, Spoiler,
   OccupantID, Reply, Retraction, Reactions, DirectMUCInvite, Receipt, Hint,
   Attention, StanzaID, Reference, Mention, FallbackBody

LEMMA EveryKind ==
    AllKinds = {ChatState, Correction, Marker, JSON, OriginID, EncryptionInfo, Spoiler, OccupantID,
                Reactions, DirectMUCInvite, Reply, Retraction, Receipt, Hint, Attention, StanzaID,
                Reference, Mention, FallbackBody}
BY DEF AllKinds, ExclusiveKinds, PlainKinds, OnceKinds, MoreKinds

LEMMA SpacesNamed ==
    ASSUME NEW k \in AllKinds
    PROVE  k.space # ""
<1>1. k.space \in {"chatstates", "message-correct", "chat-markers", "json", "sid", "eme", "spoiler",
                   "occupant-id", "reactions", "conference", "reply", "message-retract", "receipts",
                   "hints", "attention", "reference", "mention", "fallback"}
  BY Spaces, EveryKind
<1> QED
  BY <1>1

LEMMA SpacesApart ==
    ASSUME NEW k \in AllKinds \ {StanzaID}, NEW q \in AllKinds \ {StanzaID}, k.space = q.space
    PROVE  k = q
BY Spaces, EveryKind

LEMMA StanzaIDApart ==
    ASSUME NEW k \in AllKinds, NEW x, OfKind(x, k), OfKind(x, StanzaID)
    PROVE  k = StanzaID
<1>1. StanzaID.space = "sid" /\ StanzaID.locals = <<"stanza-id">>
  BY DEF StanzaID, Kind
<1>2. x.space = "sid" /\ x.local = "stanza-id"
  <2>1. Range(<<"stanza-id">>) = {"stanza-id"}
    BY DEF Range
  <2> QED
    BY <1>1, <2>1 DEF OfKind
<1>3. OriginID.space = "sid" /\ OriginID.locals = <<"origin-id">>
  BY DEF OriginID, Kind
<1>4. Range(<<"origin-id">>) = {"origin-id"}
  BY DEF Range
<1>5. k # OriginID
  BY <1>2, <1>3, <1>4 DEF OfKind
<1>6. k.space = OriginID.space
  BY <1>2, <1>3 DEF OfKind
<1>7. OriginID \in AllKinds /\ OriginID # StanzaID
  BY <1>1, <1>3 DEF AllKinds, ExclusiveKinds, PlainKinds
<1> QED
  BY <1>5, <1>6, <1>7, SpacesApart

LEMMA KindsApart ==
    ASSUME NEW k \in AllKinds, NEW q \in AllKinds, NEW x, OfKind(x, k), OfKind(x, q)
    PROVE  k = q
<1>1. CASE k = StanzaID \/ q = StanzaID
  BY <1>1, StanzaIDApart
<1>2. CASE k # StanzaID /\ q # StanzaID
  <2>1. k.space = q.space
    BY DEF OfKind
  <2> QED
    BY <1>2, <2>1, SpacesApart
<1> QED
  BY <1>1, <1>2

-----------------------------------------------------------------------------
(* Message extensions: what getters find in a sequence of nodes. *)

Named(s, space, local) == {i \in DOMAIN s : s[i].space = space /\ s[i].local = local}
FirstOf(s, space, local) ==
    IF Named(s, space, local) = {} THEN NoNode
    ELSE s[CHOOSE i \in Named(s, space, local) : \A j \in Named(s, space, local) : i <= j]
There(s, kind) == {i \in DOMAIN kind.locals : FirstOf(s, kind.space, kind.locals[i]) # NoNode}
GetIn(s, kind) ==
    IF There(s, kind) = {} THEN NoNode
    ELSE FirstOf(s, kind.space, kind.locals[CHOOSE i \in There(s, kind) : \A j \in There(s, kind) : i <= j])
OfMore(x) == \E k \in MoreKinds : OfKind(x, k)
MoreIn(s) == Only(s, {i \in DOMAIN s : OfMore(s[i])})

LEMMA GettersRead ==
    ASSUME NEW m \in Messages
    PROVE  /\ \A space, local : Extension(m, space, local) = FirstOf(Nodes(m), space, local)
           /\ \A k : Get(m, k) = GetIn(Nodes(m), k)
           /\ All(m, MoreKinds) = MoreIn(Nodes(m))
<1>1. \A space, local : Extension(m, space, local) = FirstOf(Nodes(m), space, local)
  BY DEF Extension, FirstOf, Named
<1>2. \A k : Get(m, k) = GetIn(Nodes(m), k)
  <2> TAKE k
  <2>1. {i \in DOMAIN k.locals : Extension(m, k.space, k.locals[i]) # NoNode} = There(Nodes(m), k)
    BY <1>1 DEF There
  <2> QED
    BY <1>1, <2>1 DEF Get, GetIn
<1>3. All(m, MoreKinds) = MoreIn(Nodes(m))
  BY DEF All, MoreIn, OfMore
<1> QED
  BY <1>1, <1>2, <1>3

LEMMA LeastPosition ==
    ASSUME NEW n \in Nat, NEW I \in SUBSET (1..n), I # {}
    PROVE  \E i \in I : \A j \in I : i <= j
<1>1. PICK m, g : m \in Nat /\ Enumerates(g, m, I)
  <2>1. PICK s : s = [i \in 1..n |-> i]
    OBVIOUS
  <2>2. PICK m, g : m \in Nat /\ Enumerates(g, m, I) /\ Only(s, I) = Picked(s, g, m)
    BY OnlyLists
  <2> QED
    BY <2>2
<1>2. 1 \in 1..m /\ m \in Nat
  <2>1. PICK i : i \in I
    OBVIOUS
  <2>2. PICK k \in 1..m : g[k] = i
    BY <1>1, <2>1 DEF Enumerates
  <2> QED
    BY <1>1
<1>3. g[1] \in I /\ I \subseteq Nat
  BY <1>1, <1>2 DEF Enumerates
<1>4. ASSUME NEW j \in I PROVE g[1] <= j
  <2>1. PICK k \in 1..m : g[k] = j
    BY <1>1 DEF Enumerates
  <2>2. k = 1 \/ 1 < k
    BY <1>2
  <2>3. 1 < k => g[1] < g[k]
    BY <1>1, <1>2 DEF Enumerates
  <2>4. g[1] \in Nat /\ g[k] \in Nat
    BY <1>3, <2>1
  <2> QED
    BY <2>1, <2>2, <2>3, <2>4
<1> QED
  BY <1>3, <1>4

(* The first node of a name: i is its position.                             *)
LEMMA FirstAt ==
    ASSUME NEW S, NEW s \in Seq(S), NEW space, NEW local, NEW i \in Named(s, space, local),
           \A j \in Named(s, space, local) : i <= j
    PROVE  FirstOf(s, space, local) = s[i]
<1>1. PICK I : I = Named(s, space, local)
  OBVIOUS
<1>2. I \in SUBSET Nat
  BY <1>1 DEF Named
<1>3. \A j \in I : (\A h \in I : j <= h) => j = i
  BY <1>1, <1>2
<1>4. (CHOOSE j \in I : \A h \in I : j <= h) = i
  BY <1>1, <1>3
<1> QED
  BY <1>1, <1>4 DEF FirstOf

LEMMA FirstThere ==
    ASSUME NEW S, NEW s \in Seq(S), NEW space, NEW local, Named(s, space, local) # {}
    PROVE  \E i \in Named(s, space, local) :
              (\A j \in Named(s, space, local) : i <= j) /\ FirstOf(s, space, local) = s[i]
<1>1. PICK n \in Nat : Named(s, space, local) \in SUBSET (1..n)
  <2>1. Len(s) \in Nat /\ DOMAIN s = 1..Len(s)
    OBVIOUS
  <2> QED
    BY <2>1 DEF Named
<1>2. PICK i \in Named(s, space, local) : \A j \in Named(s, space, local) : i <= j
  BY <1>1, LeastPosition
<1> QED
  BY <1>2, FirstAt

(* What is filtered out under other names does not matter to a getter.      *)
LEMMA FirstOnly ==
    ASSUME NEW S, NEW s \in Seq(S), NEW I \in SUBSET (1..Len(s)), NEW space, NEW local,
           Named(s, space, local) \subseteq I, NEW t, t = Only(s, I)
    PROVE  FirstOf(t, space, local) = FirstOf(s, space, local)
<1>1. PICK n \in Nat : n = Len(s) /\ I \in SUBSET (1..n)
  OBVIOUS
<1>2. PICK m, g : m \in Nat /\ Enumerates(g, m, I) /\ Only(s, I) = Picked(s, g, m)
  BY <1>1, OnlyLists
<1>3. /\ \A k \in 1..m : g[k] \in I /\ g[k] \in Nat
      /\ \A k, h \in 1..m : k < h => g[k] < g[h]
      /\ \A i \in I : \E k \in 1..m : g[k] = i
  <2>1. I \subseteq Nat
    BY <1>1
  <2>2. Enumerates(g, m, I)
    BY <1>2
  <2> QED
    BY <2>1, <2>2 DEF Enumerates
<1>4. t \in Seq(S)
  BY OnlyInSeq
<1>5. DOMAIN t = 1..m /\ \A k \in 1..m : t[k] = s[g[k]]
  BY <1>2 DEF Picked
<1>6. \A k \in 1..m : k \in Named(t, space, local) <=> g[k] \in Named(s, space, local)
  BY <1>1, <1>3, <1>5 DEF Named
<1>7. Named(t, space, local) \subseteq 1..m
  BY <1>5 DEF Named
<1>8. CASE Named(s, space, local) = {}
  <2>1. Named(t, space, local) = {}
    BY <1>6, <1>7, <1>8
  <2> QED
    BY <1>8, <2>1 DEF FirstOf
<1>9. CASE Named(s, space, local) # {}
  <2>1. PICK i \in Named(s, space, local) :
           (\A j \in Named(s, space, local) : i <= j) /\ FirstOf(s, space, local) = s[i]
    BY <1>9, FirstThere
  <2>2. PICK k \in 1..m : g[k] = i
    BY <1>3, <2>1
  <2>3. k \in Named(t, space, local)
    BY <1>6, <2>1, <2>2
  <2>4. ASSUME NEW j \in Named(t, space, local) PROVE k <= j
    <3>1. j \in 1..m /\ g[j] \in Named(s, space, local)
      BY <1>6, <1>7
    <3>2. g[k] <= g[j] /\ g[k] \in Nat /\ g[j] \in Nat
      BY <1>3, <2>1, <2>2, <3>1
    <3>3. j < k => g[j] < g[k]
      BY <1>3, <3>1
    <3> QED
      BY <1>2, <3>1, <3>2, <3>3
  <2>5. FirstOf(t, space, local) = t[k]
    BY <1>4, <2>3, <2>4, FirstAt
  <2> QED
    BY <1>5, <2>1, <2>2, <2>5
<1> QED
  BY <1>8, <1>9

Longer(t, s, v) == t = Append(s, v)
Sought(v, space, local) == v.space = space /\ v.local = local

LEMMA FirstAppendOther ==
    ASSUME NEW S, NEW s \in Seq(S), NEW v \in S, NEW space, NEW local, ~Sought(v, space, local),
           NEW t, Longer(t, s, v)
    PROVE  FirstOf(t, space, local) = FirstOf(s, space, local)
<1>1. PICK n \in Nat : n = Len(s) /\ DOMAIN s = 1..n
  OBVIOUS
<1>2. /\ t \in Seq(S) /\ DOMAIN t = 1..(n + 1) /\ t[n + 1] = v
      /\ \A i \in 1..n : t[i] = s[i]
  BY <1>1, AppendProperties DEF Longer
<1>3. Named(s, space, local) \subseteq 1..n /\ Named(t, space, local) \subseteq 1..(n + 1)
  BY <1>1, <1>2 DEF Named
<1>4. \A i \in 1..n : i \in Named(t, space, local) <=> i \in Named(s, space, local)
  BY <1>1, <1>2 DEF Named
<1>5. n + 1 \in Named(t, space, local) <=> Sought(v, space, local)
  BY <1>2 DEF Named, Sought
<1>6. CASE Named(s, space, local) # {}
  <2>1. PICK i \in Named(s, space, local) :
           (\A j \in Named(s, space, local) : i <= j) /\ FirstOf(s, space, local) = s[i]
    BY <1>6, FirstThere
  <2>2. i \in 1..n /\ i \in Named(t, space, local)
    BY <1>3, <1>4, <2>1
  <2>3. \A j \in Named(t, space, local) : i <= j
    <3> TAKE j \in Named(t, space, local)
    <3>1. j \in 1..n \/ j = n + 1
      BY <1>3
    <3> QED
      BY <1>4, <2>1, <2>2, <3>1
  <2>4. FirstOf(t, space, local) = t[i]
    BY <1>2, <2>2, <2>3, FirstAt
  <2> QED
    BY <1>2, <1>6, <2>1, <2>2, <2>4
<1>7. CASE Named(s, space, local) = {}
  <2>1. Named(t, space, local) = {}
    <3> SUFFICES ASSUME NEW j \in Named(t, space, local) PROVE FALSE
      OBVIOUS
    <3>1. j \in 1..n \/ j = n + 1
      BY <1>3
    <3> QED
      BY <1>4, <1>5, <1>7, <3>1
  <2> QED
    BY <1>7, <2>1 DEF FirstOf
<1> QED
  BY <1>6, <1>7

LEMMA FirstAppendNew ==
    ASSUME NEW S, NEW s \in Seq(S), NEW v \in S, NEW space, NEW local, Sought(v, space, local),
           Named(s, space, local) = {}, NEW t, Longer(t, s, v)
    PROVE  FirstOf(t, space, local) = v
<1>1. PICK n \in Nat : n = Len(s) /\ DOMAIN s = 1..n
  OBVIOUS
<1>2. /\ t \in Seq(S) /\ DOMAIN t = 1..(n + 1) /\ t[n + 1] = v
      /\ \A i \in 1..n : t[i] = s[i]
  BY <1>1, AppendProperties DEF Longer
<1>3. Named(s, space, local) \subseteq 1..n /\ Named(t, space, local) \subseteq 1..(n + 1)
  BY <1>1, <1>2 DEF Named
<1>4. \A i \in 1..n : i \in Named(t, space, local) <=> i \in Named(s, space, local)
  BY <1>1, <1>2 DEF Named
<1>5. n + 1 \in Named(t, space, local) <=> Sought(v, space, local)
  BY <1>2 DEF Named, Sought
<1>6. \A j \in Named(t, space, local) : n + 1 <= j
  <2> TAKE j \in Named(t, space, local)
  <2>1. j \in 1..n \/ j = n + 1
    BY <1>3
  <2> QED
    BY <1>4, <2>1
<1>7. FirstOf(t, space, local) = t[n + 1]
  <2>1. PICK k : k = n + 1
    OBVIOUS
  <2>2. k \in Named(t, space, local) /\ \A j \in Named(t, space, local) : k <= j
    BY <1>5, <1>6, <2>1
  <2>3. t \in Seq(S)
    BY <1>2
  <2>4. FirstOf(t, space, local) = t[k]
    BY <2>2, <2>3, FirstAt
  <2> QED
    BY <2>1, <2>4
<1> QED
  BY <1>2, <1>7
NotOf(k) == {x \in AllNodes : ~OfKind(x, k)}
NodesOfMore == {x \in AllNodes : OfMore(x)}

LEMMA NodeIs ==
    ASSUME NEW k \in AllKinds, NEW l \in Range(k.locals), NEW v \in AnyValue
    PROVE  Node(k, l, v) \in AllNodes /\ OfKind(Node(k, l, v), k) /\ Node(k, l, v).local = l
<1>1. l \in AnyLocal
  BY DEF AnyLocal
<1>2. Node(k, l, v) \in AllNodes
  BY <1>1 DEF AllNodes
<1>3. Node(k, l, v).space = k.space /\ Node(k, l, v).local = l
  BY DEF Node
<1> QED
  BY <1>2, <1>3 DEF OfKind

LEMMA FirstFound ==
    ASSUME NEW k \in AllKinds, NEW s \in Seq(AllNodes), NEW l
    PROVE  FirstOf(s, k.space, l) # NoNode <=> Named(s, k.space, l) # {}
<1>1. CASE Named(s, k.space, l) = {}
  BY <1>1 DEF FirstOf
<1>2. CASE Named(s, k.space, l) # {}
  <2>1. PICK i \in Named(s, k.space, l) : FirstOf(s, k.space, l) = s[i]
    BY <1>2, FirstThere
  <2>2. s[i].space = k.space
    BY <2>1 DEF Named
  <2>3. k.space # ""
    BY SpacesNamed
  <2>4. NoNode.space = ""
    BY DEF NoNode
  <2> QED
    BY <1>2, <2>1, <2>2, <2>3, <2>4
<1> QED
  BY <1>1, <1>2

HasNone(s, k) == \A i \in DOMAIN s : ~OfKind(s[i], k)

LEMMA NoneNamed ==
    ASSUME NEW k \in AllKinds, NEW s, HasNone(s, k), NEW l \in Range(k.locals)
    PROVE  Named(s, k.space, l) = {}
BY DEF HasNone, Named, OfKind

LEMMA GetNone ==
    ASSUME NEW k \in AllKinds, NEW s \in Seq(AllNodes), HasNone(s, k)
    PROVE  GetIn(s, k) = NoNode
<1>1. There(s, k) = {}
  <2> SUFFICES ASSUME NEW i \in There(s, k) PROVE FALSE
    OBVIOUS
  <2>1. i \in DOMAIN k.locals /\ FirstOf(s, k.space, k.locals[i]) # NoNode
    BY DEF There
  <2>2. k.locals[i] \in Range(k.locals)
    BY <2>1 DEF Range
  <2>3. Named(s, k.space, k.locals[i]) = {}
    BY <2>2, NoneNamed
  <2> QED
    BY <2>1, <2>3, FirstFound
<1> QED
  BY <1>1 DEF GetIn

SameFirst(s, t, k) == \A l \in Range(k.locals) : FirstOf(t, k.space, l) = FirstOf(s, k.space, l)

LEMMA GetSame ==
    ASSUME NEW k \in AllKinds, NEW s, NEW t, SameFirst(s, t, k)
    PROVE  GetIn(t, k) = GetIn(s, k)
<1>1. \A i \in DOMAIN k.locals : FirstOf(t, k.space, k.locals[i]) = FirstOf(s, k.space, k.locals[i])
  BY DEF SameFirst, Range
<1>2. There(t, k) = There(s, k)
  BY <1>1 DEF There
<1>3. CASE There(s, k) = {}
  BY <1>2, <1>3 DEF GetIn
<1>4. CASE There(s, k) # {}
  <2>1. PICK n \in Nat : DOMAIN k.locals = 1..n
    BY KindShapes
  <2>2. There(s, k) \in SUBSET (1..n)
    BY <2>1 DEF There
  <2>3. \E i \in There(s, k) : \A j \in There(s, k) : i <= j
    BY <1>4, <2>2, LeastPosition
  <2>4. PICK c : c = CHOOSE i \in There(s, k) : \A j \in There(s, k) : i <= j
    OBVIOUS
  <2>5. c \in There(s, k)
    BY <2>3, <2>4
  <2>6. c \in DOMAIN k.locals
    BY <2>5 DEF There
  <2>7. GetIn(s, k) = FirstOf(s, k.space, k.locals[c]) /\ GetIn(t, k) = FirstOf(t, k.space, k.locals[c])
    BY <1>2, <1>4, <2>4 DEF GetIn
  <2> QED
    BY <1>1, <2>6, <2>7
<1> QED
  BY <1>3, <1>4

LEMMA GetOnly ==
    ASSUME NEW k \in AllKinds, NEW q \in AllKinds, k # q, NEW s \in Seq(AllNodes),
           NEW t, t = Only(s, IndicesOf(s, NotOf(q)))
    PROVE  GetIn(t, k) = GetIn(s, k)
<1>1. ASSUME NEW l \in Range(k.locals) PROVE FirstOf(t, k.space, l) = FirstOf(s, k.space, l)
  <2>1. PICK I : I = IndicesOf(s, NotOf(q)) /\ I \in SUBSET (1..Len(s))
    BY IndicesAre
  <2>2. Named(s, k.space, l) \subseteq I
    <3> SUFFICES ASSUME NEW i \in Named(s, k.space, l) PROVE i \in I
      OBVIOUS
    <3>1. i \in 1..Len(s) /\ s[i] \in AllNodes /\ OfKind(s[i], k)
      BY <1>1 DEF Named, OfKind
    <3>2. ~OfKind(s[i], q)
      BY <3>1, KindsApart
    <3> QED
      BY <2>1, <3>1, <3>2 DEF IndicesOf, NotOf
  <2> QED
    BY <2>1, <2>2, FirstOnly
<1> QED
  BY <1>1, GetSame DEF SameFirst

LEMMA GetAppendOther ==
    ASSUME NEW k \in AllKinds, NEW s \in Seq(AllNodes), NEW v \in AllNodes, ~OfKind(v, k),
           NEW t, t = Append(s, v)
    PROVE  GetIn(t, k) = GetIn(s, k)
<1>1. ASSUME NEW l \in Range(k.locals) PROVE FirstOf(t, k.space, l) = FirstOf(s, k.space, l)
  <2>1. ~Sought(v, k.space, l)
    BY <1>1 DEF OfKind, Sought
  <2>2. Longer(t, s, v)
    BY DEF Longer
  <2> QED
    BY <2>1, <2>2, FirstAppendOther
<1> QED
  BY <1>1, GetSame DEF SameFirst

LEMMA GetAppendNew ==
    ASSUME NEW k \in AllKinds, NEW s \in Seq(AllNodes), HasNone(s, k), NEW v \in AllNodes, OfKind(v, k),
           NEW t, t = Append(s, v)
    PROVE  GetIn(t, k) = v
<1>1. v.space = k.space /\ v.local \in Range(k.locals)
  BY DEF OfKind
<1>2. PICK a \in DOMAIN k.locals : k.locals[a] = v.local
  BY <1>1 DEF Range
<1>3. t \in Seq(AllNodes)
  BY AppendProperties
<1>4. FirstOf(t, k.space, v.local) = v
  <2>1. Named(s, k.space, v.local) = {}
    BY <1>1, NoneNamed
  <2>2. PICK l : l = v.local
    OBVIOUS
  <2>3. PICK p : p = k.space
    OBVIOUS
  <2>4. FirstOf(t, p, l) = v
    <3>1. Sought(v, p, l) /\ Named(s, p, l) = {}
      BY <1>1, <2>1, <2>2, <2>3 DEF Sought
    <3>2. Longer(t, s, v)
      BY DEF Longer
    <3> QED
      BY <3>1, <3>2, FirstAppendNew
  <2> QED
    BY <2>2, <2>3, <2>4
<1>5. v # NoNode
  <2>1. NoNode.space = ""
    BY DEF NoNode
  <2>2. k.space # ""
    BY SpacesNamed
  <2> QED
    BY <1>1, <2>1, <2>2
<1>6. a \in There(t, k)
  BY <1>2, <1>4, <1>5 DEF There
<1>7. ASSUME NEW i \in There(t, k) PROVE k.locals[i] = v.local
  <2>1. i \in DOMAIN k.locals /\ FirstOf(t, k.space, k.locals[i]) # NoNode
    BY <1>7 DEF There
  <2>2. PICK l : l = k.locals[i] /\ l \in Range(k.locals)
    BY <2>1 DEF Range
  <2>3. Named(s, k.space, l) = {}
    BY <2>2, NoneNamed
  <2>4. FirstOf(s, k.space, l) = NoNode
    BY <2>3 DEF FirstOf
  <2>5. l # v.local => FirstOf(t, k.space, l) = FirstOf(s, k.space, l)
    <3> HAVE l # v.local
    <3>1. ~Sought(v, k.space, l)
      BY DEF Sought
    <3>2. Longer(t, s, v)
      BY DEF Longer
    <3> QED
      BY <3>1, <3>2, FirstAppendOther
  <2> QED
    BY <2>1, <2>2, <2>4, <2>5
<1>8. PICK n \in Nat : DOMAIN k.locals = 1..n
  BY KindShapes
<1>9. There(t, k) \in SUBSET (1..n)
  BY <1>8 DEF There
<1>10. \E i \in There(t, k) : \A j \in There(t, k) : i <= j
  BY <1>6, <1>9, LeastPosition
<1>11. PICK c : c = CHOOSE i \in There(t, k) : \A j \in There(t, k) : i <= j
  OBVIOUS
<1>12. c \in There(t, k)
  BY <1>10, <1>11
<1>13. GetIn(t, k) = FirstOf(t, k.space, k.locals[c])
  BY <1>6, <1>11 DEF GetIn
<1> QED
  BY <1>4, <1>7, <1>12, <1>13
LEMMA MoreIs ==
    ASSUME NEW s \in Seq(AllNodes)
    PROVE  MoreIn(s) = Only(s, IndicesOf(s, NodesOfMore))
<1>1. {i \in DOMAIN s : OfMore(s[i])} = IndicesOf(s, NodesOfMore)
  BY DEF IndicesOf, NodesOfMore
<1> QED
  BY <1>1 DEF MoreIn

LEMMA MoreInSeq ==
    ASSUME NEW s \in Seq(AllNodes)
    PROVE  MoreIn(s) \in Seq(AllNodes)
<1>1. PICK I : I = IndicesOf(s, NodesOfMore) /\ I \in SUBSET (1..Len(s))
  BY IndicesAre
<1> QED
  BY <1>1, MoreIs, OnlyInSeq

LEMMA MoreOnly ==
    ASSUME NEW q \in ExclusiveKinds, NEW s \in Seq(AllNodes), NEW t, t = Only(s, IndicesOf(s, NotOf(q)))
    PROVE  MoreIn(t) = MoreIn(s)
<1>1. NodesOfMore \subseteq NotOf(q)
  <2> SUFFICES ASSUME NEW x \in NodesOfMore, OfKind(x, q) PROVE FALSE
    BY DEF NodesOfMore, NotOf
  <2>1. PICK k \in MoreKinds : OfKind(x, k)
    BY DEF NodesOfMore, OfMore
  <2>2. k \in AllKinds /\ q \in AllKinds
    BY DEF AllKinds
  <2>3. k = q
    BY <2>1, <2>2, KindsApart
  <2>4. k.space \in {"sid", "reference", "mention"}
    BY Spaces DEF MoreKinds
  <2>5. q # StanzaID
    <3>1. StanzaID.locals[1] = "stanza-id" /\ OriginID.locals[1] = "origin-id"
      BY DEF StanzaID, OriginID, Kind
    <3>2. q = StanzaID => q = OriginID
      BY Spaces DEF ExclusiveKinds, PlainKinds
    <3> QED
      BY <3>1, <3>2
  <2>6. q.space \in {"reference", "mention"}
    BY <2>3, <2>5, Spaces DEF MoreKinds
  <2> QED
    BY <2>6, Spaces DEF ExclusiveKinds, PlainKinds
<1>2. t \in Seq(AllNodes)
  <2>1. PICK I : I = IndicesOf(s, NotOf(q)) /\ I \in SUBSET (1..Len(s))
    BY IndicesAre
  <2> QED
    BY <2>1, OnlyInSeq
<1>3. Only(t, IndicesOf(t, NodesOfMore)) = Only(s, IndicesOf(s, NodesOfMore))
  BY <1>1, OnlyOfOnly
<1> QED
  BY <1>2, <1>3, MoreIs

LEMMA MoreAppend ==
    ASSUME NEW s \in Seq(AllNodes), NEW v \in AllNodes
    PROVE  MoreIn(Append(s, v)) = IF OfMore(v) THEN Append(MoreIn(s), v) ELSE MoreIn(s)
<1>0. <<v>> \in Seq(AllNodes) /\ Len(<<v>>) = 1 /\ <<v>>[1] = v
  OBVIOUS
<1>1. PICK b \in Seq(AllNodes) : b = <<v>> /\ Len(b) = 1 /\ b[1] = v
  BY <1>0
<1>2. PICK t \in Seq(AllNodes) : t = Append(s, v) /\ t = s \o b
  BY <1>1, AppendProperties, AppendIsConcat
<1>3. PICK T : T = NodesOfMore
  OBVIOUS
<1>4. MoreIn(t) = Only(s, IndicesOf(s, T)) \o Only(b, IndicesOf(b, T))
  <2>1. MoreIn(t) = Only(t, IndicesOf(t, T))
    BY <1>3, MoreIs
  <2> QED
    BY <1>2, <2>1, OnlyConcat
<1>5. PICK u \in Seq(AllNodes) : u = MoreIn(s) /\ u = Only(s, IndicesOf(s, T))
  BY <1>3, MoreIs, MoreInSeq
<1>6. CASE OfMore(v)
  <2>1. IndicesOf(b, T) = 1..Len(b)
    BY <1>1, <1>3, <1>6 DEF IndicesOf, NodesOfMore
  <2>2. Only(b, IndicesOf(b, T)) = b
    BY <2>1, OnlyAll
  <2>3. Append(u, v) = u \o b
    BY <1>1, AppendIsConcat
  <2> QED
    BY <1>2, <1>4, <1>5, <1>6, <2>2, <2>3
<1>7. CASE ~OfMore(v)
  <2>1. IndicesOf(b, T) = {}
    BY <1>1, <1>3, <1>7 DEF IndicesOf, NodesOfMore
  <2>2. Only(b, IndicesOf(b, T)) = <<>>
    BY <2>1, OnlyNone
  <2>3. u \o <<>> = u
    BY ConcatEmptySeq
  <2> QED
    BY <1>2, <1>4, <1>5, <1>7, <2>2, <2>3
<1> QED
  BY <1>6, <1>7

-----------------------------------------------------------------------------
(* Message extensions: what the setters keep right. *)

Right(s, lasts, extra) == (\A k \in ExclusiveKinds : GetIn(s, k) = lasts[k]) /\ MoreIn(s) = extra

LEMMA KeptHasNone ==
    ASSUME NEW q \in AllKinds, NEW s \in Seq(AllNodes), NEW t, t = Only(s, IndicesOf(s, NotOf(q)))
    PROVE  t \in Seq(AllNodes) /\ HasNone(t, q)
<1>1. PICK I : I = IndicesOf(s, NotOf(q)) /\ I \in SUBSET (1..Len(s))
  BY IndicesAre
<1>2. t \in Seq(AllNodes) /\ \A k \in 1..Len(t) : \E i \in I : t[k] = s[i]
  BY <1>1, OnlyInSeq
<1>3. \A i \in I : ~OfKind(s[i], q)
  BY <1>1 DEF IndicesOf, NotOf
<1> QED
  BY <1>2, <1>3 DEF HasNone

LEMMA ExclusiveIsOne ==
    ASSUME NEW k \in ExclusiveKinds, NEW q \in ExclusiveKinds, k # q, NEW v, OfKind(v, q)
    PROVE  ~OfKind(v, k)
BY KindsApart DEF AllKinds

LEMMA ExclusiveNotMore ==
    ASSUME NEW q \in ExclusiveKinds, NEW v \in AllNodes, OfKind(v, q)
    PROVE  ~OfMore(v)
<1>1. q \notin MoreKinds
  <2>1. StanzaID.locals[1] = "stanza-id" /\ OriginID.locals[1] = "origin-id"
    BY DEF StanzaID, OriginID, Kind
  <2> QED
    BY <2>1, Spaces DEF ExclusiveKinds, PlainKinds, MoreKinds
<1> QED
  BY <1>1, KindsApart DEF AllKinds, OfMore

LEMMA RightClear ==
    ASSUME NEW s \in Seq(AllNodes), NEW lasts \in [ExclusiveKinds -> AllNodes], NEW extra, Right(s, lasts, extra),
           NEW q \in ExclusiveKinds, NEW t, t = Only(s, IndicesOf(s, NotOf(q)))
    PROVE  Right(t, [lasts EXCEPT ![q] = NoNode], extra)
<1>1. t \in Seq(AllNodes) /\ HasNone(t, q)
  BY KeptHasNone DEF AllKinds
<1>2. GetIn(t, q) = NoNode
  BY <1>1, GetNone DEF AllKinds
<1>3. ASSUME NEW k \in ExclusiveKinds, k # q PROVE GetIn(t, k) = GetIn(s, k)
  BY <1>3, GetOnly DEF AllKinds
<1>4. MoreIn(t) = MoreIn(s)
  BY MoreOnly
<1> QED
  BY <1>2, <1>3, <1>4 DEF Right

LEMMA RightSet ==
    ASSUME NEW s \in Seq(AllNodes), NEW lasts \in [ExclusiveKinds -> AllNodes], NEW extra, Right(s, lasts, extra),
           NEW q \in ExclusiveKinds, NEW v \in AllNodes, OfKind(v, q)
    PROVE  Right(Append(Only(s, IndicesOf(s, NotOf(q))), v), [lasts EXCEPT ![q] = v], extra)
<1>1. PICK t : t = Only(s, IndicesOf(s, NotOf(q)))
  OBVIOUS
<1>2. t \in Seq(AllNodes) /\ HasNone(t, q)
  BY <1>1, KeptHasNone DEF AllKinds
<1>3. PICK w : w = Append(t, v)
  OBVIOUS
<1>4. GetIn(w, q) = v
  BY <1>2, <1>3, GetAppendNew DEF AllKinds
<1>5. ASSUME NEW k \in ExclusiveKinds, k # q PROVE GetIn(w, k) = GetIn(s, k)
  <2>1. GetIn(t, k) = GetIn(s, k)
    BY <1>1, <1>5, GetOnly DEF AllKinds
  <2>2. ~OfKind(v, k)
    BY <1>5, ExclusiveIsOne
  <2>3. GetIn(w, k) = GetIn(t, k)
    BY <1>2, <1>3, <2>2, GetAppendOther DEF AllKinds
  <2> QED
    BY <2>1, <2>3
<1>6. MoreIn(w) = MoreIn(s)
  <2>1. MoreIn(t) = MoreIn(s)
    BY <1>1, MoreOnly
  <2>2. ~OfMore(v)
    BY ExclusiveNotMore
  <2> QED
    BY <1>2, <1>3, <2>1, <2>2, MoreAppend
<1> QED
  BY <1>1, <1>3, <1>4, <1>5, <1>6 DEF Right

(* A node that no getter of ExclusiveKinds looks for.                       *)
Elsewhere(v) == \A k \in ExclusiveKinds : ~OfKind(v, k)

LEMMA RightAppend ==
    ASSUME NEW s \in Seq(AllNodes), NEW lasts, NEW extra, Right(s, lasts, extra),
           NEW v \in AllNodes, Elsewhere(v)
    PROVE  Right(Append(s, v), lasts, IF OfMore(v) THEN Append(extra, v) ELSE extra)
<1>1. PICK w : w = Append(s, v)
  OBVIOUS
<1>2. \A k \in ExclusiveKinds : GetIn(w, k) = GetIn(s, k)
  BY <1>1, GetAppendOther DEF Elsewhere, AllKinds
<1>3. MoreIn(w) = IF OfMore(v) THEN Append(MoreIn(s), v) ELSE MoreIn(s)
  BY <1>1, MoreAppend
<1> QED
  BY <1>1, <1>2, <1>3 DEF Right

LEMMA KindsOutside ==
    ASSUME NEW k \in OnceKinds \cup MoreKinds \cup {FallbackBody}, NEW v, OfKind(v, k)
    PROVE  Elsewhere(v) /\ (k \in MoreKinds <=> OfMore(v))
<1>1. k \notin ExclusiveKinds
  <2>1. StanzaID.locals[1] = "stanza-id" /\ OriginID.locals[1] = "origin-id"
    BY DEF StanzaID, OriginID, Kind
  <2> QED
    BY <2>1, Spaces DEF ExclusiveKinds, PlainKinds, OnceKinds, MoreKinds
<1>2. Elsewhere(v)
  BY <1>1, KindsApart DEF AllKinds, Elsewhere
<1>3. k \in MoreKinds <=> OfMore(v)
  BY KindsApart DEF AllKinds, OfMore
<1> QED
  BY <1>2, <1>3
-----------------------------------------------------------------------------
(* Message extensions: what a call does to the slices. *)

(* done holds what a setter leaves: every slice still fits.                 *)
Holds(done) ==
    /\ done.heap \in Seq(Seq(AllNodes)) /\ Fits(done.heap, done.slice)
    /\ \A y : Fits(cells, y) => Fits(done.heap, y)

(* The slices in Y show what they have shown, and no later append to the    *)
(* slice in done writes to them.                                            *)
Spared(done, Y) == \A y \in Y : Shown(done.heap, y) = Shown(cells, y) /\ Apart(y, done.slice)
Fitting == {y \in Slices : Fits(cells, y)}
Unmoved(done) == \A y \in Fitting : Shown(done.heap, y) = Shown(cells, y)
Away(x) == {y \in Fitting : y.array # x.array \/ y.len = 0}
Under(x) == {y \in Fitting : Apart(y, x)}

LEMMA MovedDownIs ==
    ASSUME cells \in Seq(Seq(AllNodes)), NEW m, Fits(cells, message[m]),
           NEW kept \in Seq(AllNodes), Len(kept) <= message[m].len,
           NEW done, done = MovedDown(m, kept)
    PROVE  /\ Holds(done) /\ Shown(done.heap, done.slice) = kept /\ Spared(done, Away(message[m]))
           /\ kept = Nodes(m) => Unmoved(done) /\ Spared(done, Under(message[m]))
<1>1. PICK x : x = message[m] /\ Fits(cells, x)
  OBVIOUS
<1>2. PICK a \in Nat, n \in Nat : a = x.array /\ n = x.len /\ a \in 1..Len(cells)
  BY <1>1 DEF Fits, Slices
<1>3. PICK old \in Seq(AllNodes) : old = cells[a] /\ n <= Len(old)
  BY <1>1, <1>2 DEF Fits
<1>4. PICK q \in Nat : q = Len(kept) /\ q <= n
  BY <1>1, <1>2
<1>5. PICK c \in Nat : c = Len(old) /\ DOMAIN old = 1..c /\ n <= c
  BY <1>3
<1>6. PICK new : new = [i \in DOMAIN old |-> IF i <= Len(kept) THEN kept[i] ELSE old[i]]
  OBVIOUS
<1>7. /\ new \in [1..c -> AllNodes]
      /\ \A i \in 1..c : new[i] = IF i <= q THEN kept[i] ELSE old[i]
  <2>1. new = [i \in 1..c |-> IF i <= q THEN kept[i] ELSE old[i]]
    BY <1>4, <1>5, <1>6
  <2>2. \A i \in 1..c : i <= q => kept[i] \in AllNodes
    BY <1>4
  <2>3. \A i \in 1..c : old[i] \in AllNodes
    BY <1>5
  <2> QED
    BY <2>1, <2>2, <2>3
<1>8. new \in Seq(AllNodes) /\ Len(new) = c
  BY <1>7
<1>9. PICK g : g = [cells EXCEPT ![a] = new]
  OBVIOUS
<1>10. /\ g \in Seq(Seq(AllNodes)) /\ Len(g) = Len(cells) /\ g[a] = new
       /\ \A b \in 1..Len(cells) : b # a => g[b] = cells[b]
  BY <1>2, <1>8, <1>9, ExceptSeq
<1>11. PICK z : z = Slice(a, q)
  OBVIOUS
<1>12. z \in Slices /\ z.array = a /\ z.len = q
  BY <1>11, SliceIs
<1>13. done.heap = g /\ done.slice = z
  <2>1. cells[message[m].array] = old /\ message[m].array = a
    BY <1>1, <1>2, <1>3
  <2> QED
    BY <1>4, <1>6, <1>9, <1>11, <2>1 DEF MovedDown
<1>14. Fits(g, z)
  BY <1>2, <1>4, <1>5, <1>8, <1>10, <1>12 DEF Fits
<1>15. Shown(g, z) = kept
  <2>1. PICK t \in Seq(AllNodes) : t = Shown(g, z) /\ Len(t) = q /\ \A i \in 1..q : t[i] = new[i]
    <3>1. /\ Shown(g, z) \in Seq(AllNodes) /\ Len(Shown(g, z)) = z.len
          /\ \A i \in 1..z.len : Shown(g, z)[i] = g[z.array][i]
      <4>1. SliceOf(z, g, AllNodes)
        BY <1>10, <1>14 DEF SliceOf
      <4>2. Contents(Shown(g, z), z, g, AllNodes)
        BY <4>1, ShownCells
      <4> QED
        BY <4>2 DEF Contents
    <3> QED
      BY <1>10, <1>12, <3>1
  <2>2. \A i \in 1..q : t[i] = kept[i]
    BY <1>4, <1>5, <1>7, <2>1
  <2>3. t = kept
    BY <1>4, <2>1, <2>2, SeqEqual
  <2> QED
    BY <2>1, <2>3
<1>16. ASSUME NEW y, Fits(cells, y) PROVE Fits(g, y)
  <2>1. y \in Slices /\ y.array \in 1..Len(cells) /\ y.len <= Len(cells[y.array])
    BY <1>16 DEF Fits
  <2>2. Len(g[y.array]) = Len(cells[y.array])
    BY <1>3, <1>5, <1>8, <1>10, <2>1
  <2> QED
    BY <1>10, <2>1, <2>2 DEF Fits
<1>17. Holds(done)
  BY <1>10, <1>13, <1>14, <1>16 DEF Holds
<1>18. ASSUME NEW y, Fits(cells, y), \A i \in 1..y.len : g[y.array][i] = cells[y.array][i]
       PROVE  Shown(g, y) = Shown(cells, y)
  <2>1. SameCells(cells, y, g, y)
    BY <1>18 DEF SameCells
  <2>2. Fits(g, y)
    BY <1>16, <1>18
  <2> QED
    BY <1>10, <1>18, <2>1, <2>2, SameShown
<1>19. ASSUME NEW y \in Away(x) PROVE Shown(g, y) = Shown(cells, y) /\ Apart(y, z)
  <2>1. y \in Slices /\ Fits(cells, y) /\ (y.array # a \/ y.len = 0)
    BY <1>2, <1>19 DEF Away, Fitting
  <2>2. y.len \in Nat /\ y.array \in 1..Len(cells)
    BY <2>1 DEF Slices, Fits
  <2>3. \A i \in 1..y.len : g[y.array][i] = cells[y.array][i]
    <3>1. CASE y.array # a
      BY <1>10, <2>2, <3>1
    <3>2. CASE y.len = 0
      BY <3>2
    <3> QED
      BY <2>1, <3>1, <3>2
  <2>4. Apart(y, z)
    BY <1>12, <2>1 DEF Apart
  <2> QED
    BY <1>18, <2>1, <2>3, <2>4
<1>20. ASSUME kept = Nodes(m), NEW y \in Fitting
       PROVE  Shown(g, y) = Shown(cells, y) /\ (Apart(y, x) => Apart(y, z))
  <2>1. y \in Slices /\ Fits(cells, y)
    BY <1>20 DEF Fitting
  <2>2. y.len \in Nat /\ y.array \in 1..Len(cells)
    BY <2>1 DEF Slices, Fits
  <2>3. kept = Shown(cells, x)
    BY <1>1, <1>20 DEF Nodes
  <2>4. q = n /\ \A i \in 1..n : kept[i] = old[i]
    <3>1. Len(Shown(cells, x)) = x.len /\ \A i \in 1..x.len : Shown(cells, x)[i] = cells[x.array][i]
      <4>1. SliceOf(x, cells, AllNodes)
        BY <1>1 DEF SliceOf
      <4>2. Contents(Shown(cells, x), x, cells, AllNodes)
        BY <4>1, ShownCells
      <4> QED
        BY <4>2 DEF Contents
    <3>2. \A i \in 1..n : Shown(cells, x)[i] = old[i]
      BY <1>2, <1>3, <3>1
    <3> QED
      BY <1>2, <1>3, <1>4, <2>3, <3>1, <3>2
  <2>5. \A i \in 1..c : new[i] = old[i]
    BY <1>7, <2>4
  <2>6. y.array = a => y.len <= c
    BY <1>3, <1>5, <2>1 DEF Fits
  <2>7. \A i \in 1..y.len : g[y.array][i] = cells[y.array][i]
    <3>1. CASE y.array = a
      <4>1. \A i \in 1..y.len : i \in 1..c
        BY <2>2, <2>6, <3>1
      <4> QED
        BY <1>3, <1>10, <2>5, <3>1, <4>1
    <3>2. CASE y.array # a
      BY <1>10, <2>2, <3>2
    <3> QED
      BY <3>1, <3>2
  <2>8. Apart(y, x) => Apart(y, z)
    BY <1>2, <1>12, <2>1, <2>4 DEF Apart
  <2> QED
    BY <1>18, <2>1, <2>7, <2>8
<1> QED
  BY <1>1, <1>13, <1>15, <1>17, <1>19, <1>20 DEF Spared, Unmoved, Under

(* An append to what a setter has so far.                                   *)
LEMMA AppendNodeIs ==
    ASSUME cells \in Seq(Seq(AllNodes)), NEW old, Holds(old), NEW Y \in SUBSET Fitting, Spared(old, Y),
           NEW v \in AllNodes, NEW done, done = AppendNode(old, v)
    PROVE  /\ Holds(done) /\ Spared(done, Y)
           /\ Shown(done.heap, done.slice) = Append(Shown(old.heap, old.slice), v)
<1>1. PICK h, x : h \in Seq(Seq(AllNodes)) /\ h = old.heap /\ x = old.slice /\ Fits(h, x)
  BY DEF Holds
<1>2. NoNode \in AllNodes
  BY DEF AllNodes
<1>3. done = AppendTo(h, x, v, NoNode)
  BY <1>1 DEF AppendNode
<1>4. /\ done.heap \in Seq(Seq(AllNodes)) /\ Fits(done.heap, done.slice)
      /\ Shown(done.heap, done.slice) = Append(Shown(h, x), v)
      /\ \A y : Fits(h, y) => Fits(done.heap, y)
      /\ \A y : Fits(h, y) /\ Apart(y, x) =>
            Shown(done.heap, y) = Shown(h, y) /\ Apart(y, done.slice)
  BY <1>1, <1>2, <1>3, AppendToIs
<1>5. Holds(done)
  BY <1>1, <1>4 DEF Holds
<1>6. ASSUME NEW y \in Y PROVE Shown(done.heap, y) = Shown(cells, y) /\ Apart(y, done.slice)
  <2>1. Fits(h, y)
    BY <1>1, <1>6 DEF Holds, Fitting
  <2>2. Shown(h, y) = Shown(cells, y) /\ Apart(y, x)
    BY <1>1, <1>6 DEF Spared
  <2> QED
    BY <1>4, <2>1, <2>2
<1> QED
  BY <1>1, <1>4, <1>5, <1>6 DEF Spared
-----------------------------------------------------------------------------
(* Message extensions: the inductive invariant. *)

ExtTypes ==
    /\ cells \in Seq(Seq(AllNodes))
    /\ message \in [Messages -> Slices] /\ \A m \in Messages : Fits(cells, message[m])
    /\ sets \in 0..MaxSets /\ torn \subseteq Messages
    /\ last \in [Messages -> [ExclusiveKinds -> AllNodes]]
    /\ more \in [Messages -> Seq(AllNodes)]
ExtRight == \A m \in Messages \ torn : Right(Nodes(m), last[m], more[m])

(* Every message is a slice within its array; in one that no call on a copy *)
(* has written to, the getters find what was set last and what was added.   *)
ExtensionsInv == ExtTypes /\ ExtRight

(* What a call must have done for the other messages: o is one that is not  *)
(* torn afterwards.                                                         *)
OthersSafe(m, done) ==
    \A o \in Messages \ {m} : o \notin torn' => Shown(done.heap, message[o]) = Shown(cells, message[o])

LEMMA FinishKeeps ==
    ASSUME ExtensionsInv, NEW m \in Messages, NEW done, NEW removed, NEW appends,
           Finish(m, done, removed, appends), Holds(done), OthersSafe(m, done),
           NEW l \in [ExclusiveKinds -> AllNodes], last' = [last EXCEPT ![m] = l],
           NEW a \in Seq(AllNodes), more' = [more EXCEPT ![m] = a],
           m \notin torn => Right(Shown(done.heap, done.slice), l, a)
    PROVE  ExtensionsInv'
<1> USE DEF ExtensionsInv
<1>1. /\ cells' = done.heap /\ message' = [message EXCEPT ![m] = done.slice]
      /\ sets < MaxSets /\ sets' = sets + 1
      /\ torn' = torn \cup Touched(m, removed, appends)
  BY DEF Finish
<1>2. torn \subseteq torn' /\ torn' \subseteq Messages
  BY <1>1 DEF ExtTypes, Touched, Sharers
<1>3. /\ message'[m] = done.slice
      /\ \A o \in Messages : o # m => message'[o] = message[o]
  BY <1>1 DEF ExtTypes
<1>4. /\ last'[m] = l /\ more'[m] = a
      /\ \A o \in Messages : o # m => last'[o] = last[o] /\ more'[o] = more[o]
  BY DEF ExtTypes
<1>5. ExtTypes'
  <2>1. cells' \in Seq(Seq(AllNodes))
    BY <1>1 DEF Holds
  <2>2. message' \in [Messages -> Slices]
    <3>1. done.slice \in Slices
      BY DEF Holds, Fits
    <3> QED
      BY <1>1, <3>1 DEF ExtTypes
  <2>3. ASSUME NEW o \in Messages PROVE Fits(cells', message'[o])
    <3>1. CASE o = m
      BY <1>1, <1>3, <3>1 DEF Holds
    <3>2. CASE o # m
      <4>1. Fits(cells, message[o])
        BY DEF ExtTypes
      <4>2. Fits(done.heap, message[o])
        BY <4>1 DEF Holds
      <4> QED
        BY <1>1, <1>3, <3>2, <4>2
    <3> QED
      BY <3>1, <3>2
  <2>4. sets' \in 0..MaxSets
    BY <1>1, ExtensionsAssumption DEF ExtTypes
  <2>5. last' \in [Messages -> [ExclusiveKinds -> AllNodes]] /\ more' \in [Messages -> Seq(AllNodes)]
    BY DEF ExtTypes
  <2> QED
    BY <1>2, <2>1, <2>2, <2>3, <2>4, <2>5 DEF ExtTypes
<1>6. ExtRight'
  <2> SUFFICES ASSUME NEW o \in Messages, o \notin torn'
               PROVE  Right(Nodes(o)', last'[o], more'[o])
    BY DEF ExtRight
  <2>1. Nodes(o)' = Shown(done.heap, message'[o])
    BY <1>1 DEF Nodes
  <2>2. CASE o = m
    BY <1>2, <1>3, <1>4, <2>1, <2>2
  <2>3. CASE o # m
    <3>1. Shown(done.heap, message[o]) = Nodes(o)
      BY <2>3 DEF OthersSafe, Nodes
    <3>2. Right(Nodes(o), last[o], more[o])
      BY <1>2 DEF ExtRight
    <3> QED
      BY <1>3, <1>4, <2>1, <2>3, <3>1, <3>2
  <2> QED
    BY <2>2, <2>3
<1> QED
  BY <1>5, <1>6

(* The copies that Finish leaves out of torn are spared.                    *)
LEMMA UntouchedSafe ==
    ASSUME ExtensionsInv, NEW m \in Messages, NEW done, NEW removed \in BOOLEAN, NEW appends \in BOOLEAN,
           Finish(m, done, removed, appends),
           removed => Spared(done, Away(message[m])),
           ~removed /\ appends => Spared(done, Under(message[m])),
           ~removed /\ ~appends => Unmoved(done)
    PROVE  OthersSafe(m, done)
<1> SUFFICES ASSUME NEW o \in Messages \ {m}, o \notin torn'
             PROVE  Shown(done.heap, message[o]) = Shown(cells, message[o])
  BY DEF OthersSafe
<1>1. o \notin Touched(m, removed, appends)
  BY DEF Finish
<1>2. PICK y : y = message[o] /\ y \in Fitting /\ y.len \in Nat
  BY DEF ExtensionsInv, ExtTypes, Fitting, Slices
<1>3. PICK x : x = message[m] /\ x.len \in Nat
  BY DEF ExtensionsInv, ExtTypes, Slices
<1>4. y.array = x.array => ~(y.len > 0) \/ (~removed /\ (appends => ~(y.len > x.len)))
  BY <1>1, <1>2, <1>3 DEF Touched, Sharers
<1>5. CASE removed
  <2>1. y \in Away(x)
    BY <1>2, <1>4, <1>5 DEF Away
  <2> QED
    BY <1>2, <1>3, <1>5, <2>1 DEF Spared
<1>6. CASE ~removed /\ appends
  <2>1. y \in Under(x)
    BY <1>2, <1>3, <1>4, <1>6 DEF Under, Apart
  <2> QED
    BY <1>2, <1>3, <1>6, <2>1 DEF Spared
<1>7. CASE ~removed /\ ~appends
  BY <1>2, <1>7 DEF Unmoved
<1> QED
  BY <1>5, <1>6, <1>7
(* What removeExtension leaves of m.                                        *)
Without(m, kind) == Only(Nodes(m), IndicesOf(Nodes(m), NotOf(kind)))

LEMMA NodesIs ==
    ASSUME ExtTypes, NEW m \in Messages
    PROVE  /\ cells \in Seq(Seq(AllNodes)) /\ Fits(cells, message[m]) /\ message[m].len \in Nat
           /\ Nodes(m) \in Seq(AllNodes) /\ Len(Nodes(m)) = message[m].len
<1>1. cells \in Seq(Seq(AllNodes)) /\ Fits(cells, message[m])
  BY DEF ExtTypes
<1> QED
  BY <1>1, ShownIs DEF Nodes

LEMMA RemoveIs ==
    ASSUME ExtTypes, NEW m \in Messages, NEW kind \in AllKinds, NEW local,
           NEW done, done = RemoveExtension(m, kind, local)
    PROVE  /\ Holds(done) /\ Shown(done.heap, done.slice) = Without(m, kind)
           /\ Spared(done, Away(message[m]))
           /\ ~Has(m, kind) => Unmoved(done) /\ Spared(done, Under(message[m]))
<1>1. PICK s \in Seq(AllNodes) : s = Nodes(m) /\ Len(s) = message[m].len
  BY NodesIs
<1>2. PICK I : I = IndicesOf(s, NotOf(kind)) /\ I \in SUBSET (1..Len(s))
  BY IndicesAre
<1>3. {i \in DOMAIN s : ~OfKind(s[i], kind)} = I
  BY <1>2 DEF IndicesOf, NotOf
<1>4. PICK kept \in Seq(AllNodes) : kept = Only(s, I) /\ Len(kept) <= Len(s)
  BY <1>2, OnlyInSeq
<1>5. kept = Without(m, kind)
  BY <1>1, <1>2, <1>4 DEF Without
<1>6. done = MovedDown(m, kept)
  BY <1>1, <1>3, <1>4 DEF RemoveExtension
<1>7. Len(kept) <= message[m].len /\ cells \in Seq(Seq(AllNodes)) /\ Fits(cells, message[m])
  BY <1>1, <1>4, NodesIs
<1>8. /\ Holds(done) /\ Shown(done.heap, done.slice) = kept /\ Spared(done, Away(message[m]))
      /\ kept = Nodes(m) => Unmoved(done) /\ Spared(done, Under(message[m]))
  BY <1>6, <1>7, MovedDownIs
<1>9. ~Has(m, kind) => kept = Nodes(m)
  <2> HAVE ~Has(m, kind)
  <2>1. \A i \in DOMAIN s : ~OfKind(s[i], kind)
    BY <1>1 DEF Has
  <2>2. I = 1..Len(s)
    <3>1. \A i \in 1..Len(s) : i \in I
      BY <1>3, <2>1
    <3> QED
      BY <1>2, <3>1
  <2> QED
    BY <1>1, <1>4, <2>2, OnlyAll
<1> QED
  BY <1>5, <1>8, <1>9

LEMMA AwayFits ==
    ASSUME NEW x
    PROVE  Away(x) \in SUBSET Fitting /\ Under(x) \in SUBSET Fitting
BY DEF Away, Under

LEMMA ReplacedIs ==
    ASSUME ExtTypes, NEW m \in Messages, NEW kind \in AllKinds, NEW node \in AllNodes,
           NEW done, done = Replaced(m, kind, node)
    PROVE  /\ Holds(done) /\ Shown(done.heap, done.slice) = Append(Without(m, kind), node)
           /\ Spared(done, Away(message[m]))
           /\ ~Has(m, kind) => Spared(done, Under(message[m]))
<1>1. PICK old : old = RemoveExtension(m, kind, node.local)
  OBVIOUS
<1>2. /\ Holds(old) /\ Shown(old.heap, old.slice) = Without(m, kind)
      /\ Spared(old, Away(message[m]))
      /\ ~Has(m, kind) => Spared(old, Under(message[m]))
  BY <1>1, RemoveIs
<1>3. done = AppendNode(old, node)
  BY <1>1 DEF Replaced
<1>4. cells \in Seq(Seq(AllNodes))
  BY DEF ExtTypes
<1>5. /\ Holds(done) /\ Spared(done, Away(message[m]))
      /\ Shown(done.heap, done.slice) = Append(Shown(old.heap, old.slice), node)
  BY <1>2, <1>3, <1>4, AwayFits, AppendNodeIs
<1>6. ~Has(m, kind) => Spared(done, Under(message[m]))
  BY <1>2, <1>3, <1>4, AwayFits, AppendNodeIs
<1> QED
  BY <1>2, <1>5, <1>6

(* A setter that removes and appends, whatever else it appends.             *)
LEMMA ReplaceKeeps ==
    ASSUME ExtensionsInv, NEW m \in Messages, NEW kind \in ExclusiveKinds,
           NEW node \in AllNodes, NEW done, Replace(m, kind, node, done),
           Holds(done), Spared(done, Away(message[m])),
           ~Has(m, kind) => Spared(done, Under(message[m])),
           m \notin torn => Right(Shown(done.heap, done.slice), [last[m] EXCEPT ![kind] = node], more[m])
    PROVE  ExtensionsInv'
<1>1. Finish(m, done, Has(m, kind), TRUE) /\ last' = [last EXCEPT ![m][kind] = node] /\ more' = more
  BY DEF Replace
<1>2. Has(m, kind) \in BOOLEAN
  BY DEF Has
<1>3. OthersSafe(m, done)
  BY <1>1, <1>2, UntouchedSafe
<1>4. PICK l : l = [last[m] EXCEPT ![kind] = node]
  OBVIOUS
<1>5. l \in [ExclusiveKinds -> AllNodes] /\ last' = [last EXCEPT ![m] = l]
  BY <1>1, <1>4 DEF ExtensionsInv, ExtTypes
<1>6. more[m] \in Seq(AllNodes) /\ more' = [more EXCEPT ![m] = more[m]]
  BY <1>1 DEF ExtensionsInv, ExtTypes
<1> QED
  BY <1>1, <1>3, <1>4, <1>5, <1>6, FinishKeeps

LEMMA ReplacedRight ==
    ASSUME ExtensionsInv, NEW m \in Messages \ torn, NEW kind \in ExclusiveKinds,
           NEW node \in AllNodes, OfKind(node, kind)
    PROVE  Right(Append(Without(m, kind), node), [last[m] EXCEPT ![kind] = node], more[m])
<1>1. PICK s \in Seq(AllNodes) : s = Nodes(m)
  BY NodesIs DEF ExtensionsInv
<1>2. last[m] \in [ExclusiveKinds -> AllNodes] /\ Right(s, last[m], more[m])
  BY <1>1 DEF ExtensionsInv, ExtTypes, ExtRight
<1> QED
  BY <1>1, <1>2, RightSet DEF Without

LEMMA SetKeeps ==
    ASSUME ExtensionsInv, NEW m \in Messages, NEW k \in PlainKinds, NEW v \in Ids,
           NEW l \in Range(k.locals), Set(m, k, l, v)
    PROVE  ExtensionsInv'
<1>1. k \in ExclusiveKinds /\ k \in AllKinds /\ v \in AnyValue
  BY DEF ExclusiveKinds, AllKinds, AnyValue
<1>2. PICK node \in AllNodes : node = Node(k, l, v) /\ OfKind(node, k)
  BY <1>1, NodeIs
<1>3. PICK done : done = Replaced(m, k, node)
  OBVIOUS
<1>4. Replace(m, k, node, done)
  BY <1>2, <1>3 DEF Set
<1>5. /\ Holds(done) /\ Shown(done.heap, done.slice) = Append(Without(m, k), node)
      /\ Spared(done, Away(message[m]))
      /\ ~Has(m, k) => Spared(done, Under(message[m]))
  BY <1>1, <1>3, ReplacedIs DEF ExtensionsInv
<1>6. m \notin torn => Right(Append(Without(m, k), node), [last[m] EXCEPT ![k] = node], more[m])
  BY <1>1, <1>2, ReplacedRight
<1> QED
  BY <1>1, <1>4, <1>5, <1>6, ReplaceKeeps

LEMMA FallbackNode ==
    ASSUME NEW kind \in AllKinds
    PROVE  LET n == Node(FallbackBody, FallbackBody.locals[1], kind.space)
           IN n \in AllNodes /\ Elsewhere(n) /\ ~OfMore(n)
<1>1. FallbackBody \in AllKinds /\ kind.space \in AnyValue
  BY DEF AllKinds, AnyValue
<1>2. FallbackBody.locals[1] \in Range(FallbackBody.locals)
  <2>1. PICK n \in Nat : n > 0 /\ DOMAIN FallbackBody.locals = 1..n
    BY <1>1, KindShapes
  <2> QED
    BY <2>1 DEF Range
<1>3. PICK n : n = Node(FallbackBody, FallbackBody.locals[1], kind.space)
  OBVIOUS
<1>4. n \in AllNodes /\ OfKind(n, FallbackBody)
  BY <1>1, <1>2, <1>3, NodeIs
<1>5. FallbackBody \notin MoreKinds
  BY Spaces DEF MoreKinds
<1>6. Elsewhere(n) /\ ~OfMore(n)
  BY <1>4, <1>5, KindsOutside
<1> QED
  BY <1>3, <1>4, <1>6

LEMMA SetWithFallbackKeeps ==
    ASSUME ExtensionsInv, NEW m \in Messages, NEW k \in {Reply, Retraction}, NEW v \in Ids,
           NEW text \in BOOLEAN, SetWithFallback(m, k, v, text)
    PROVE  ExtensionsInv'
<1>1. k \in ExclusiveKinds /\ k \in AllKinds /\ v \in AnyValue
  BY DEF ExclusiveKinds, AllKinds, AnyValue
<1>2. k.locals[1] \in Range(k.locals)
  <2>1. PICK n \in Nat : n > 0 /\ DOMAIN k.locals = 1..n
    BY <1>1, KindShapes
  <2> QED
    BY <2>1 DEF Range
<1>3. PICK node \in AllNodes : node = Node(k, k.locals[1], v) /\ OfKind(node, k)
  BY <1>1, <1>2, NodeIs
<1>4. PICK old : old = Replaced(m, k, node)
  OBVIOUS
<1>5. PICK done : done = AddFallback(old, k, text)
  OBVIOUS
<1>6. Replace(m, k, node, done)
  BY <1>3, <1>4, <1>5 DEF SetWithFallback
<1>7. /\ Holds(old) /\ Shown(old.heap, old.slice) = Append(Without(m, k), node)
      /\ Spared(old, Away(message[m]))
      /\ ~Has(m, k) => Spared(old, Under(message[m]))
  BY <1>1, <1>4, ReplacedIs DEF ExtensionsInv
<1>8. m \notin torn => Right(Append(Without(m, k), node), [last[m] EXCEPT ![k] = node], more[m])
  BY <1>1, <1>3, ReplacedRight
<1>9. CASE ~text
  <2>1. done = old
    BY <1>5, <1>9 DEF AddFallback
  <2> QED
    BY <1>1, <1>6, <1>7, <1>8, <2>1, ReplaceKeeps
<1>10. CASE text
  <2>1. PICK n : n = Node(FallbackBody, FallbackBody.locals[1], k.space)
    OBVIOUS
  <2>2. n \in AllNodes /\ Elsewhere(n) /\ ~OfMore(n)
    BY <1>1, <2>1, FallbackNode
  <2>3. done = AppendNode(old, n)
    BY <1>5, <1>10, <2>1 DEF AddFallback
  <2>4. cells \in Seq(Seq(AllNodes))
    BY DEF ExtensionsInv, ExtTypes
  <2>5. /\ Holds(done) /\ Spared(done, Away(message[m]))
        /\ Shown(done.heap, done.slice) = Append(Shown(old.heap, old.slice), n)
    BY <1>7, <2>2, <2>3, <2>4, AwayFits, AppendNodeIs
  <2>6. ~Has(m, k) => Spared(done, Under(message[m]))
    BY <1>7, <2>2, <2>3, <2>4, AwayFits, AppendNodeIs
  <2>7. PICK s \in Seq(AllNodes) : s = Shown(old.heap, old.slice)
    BY <1>7, ShownIs DEF Holds
  <2>8. m \notin torn => Right(Append(s, n), [last[m] EXCEPT ![k] = node], more[m])
    <3> HAVE m \notin torn
    <3>1. Right(s, [last[m] EXCEPT ![k] = node], more[m])
      BY <1>7, <1>8, <2>7
    <3> QED
      BY <2>2, <3>1, RightAppend
  <2> QED
    BY <1>1, <1>6, <2>5, <2>6, <2>7, <2>8, ReplaceKeeps
<1> QED
  BY <1>9, <1>10
LEMMA ClearKeeps ==
    ASSUME ExtensionsInv, NEW m \in Messages, NEW k \in {ChatState, Correction}, Clear(m, k)
    PROVE  ExtensionsInv'
<1>1. k \in ExclusiveKinds /\ k \in AllKinds
  BY DEF ExclusiveKinds, PlainKinds, AllKinds
<1>2. PICK done : done = RemoveExtension(m, k, k.locals[1])
  OBVIOUS
<1>3. Finish(m, done, Has(m, k), FALSE) /\ last' = [last EXCEPT ![m][k] = NoNode] /\ more' = more
  BY <1>2 DEF Clear
<1>4. /\ Holds(done) /\ Shown(done.heap, done.slice) = Without(m, k)
      /\ Spared(done, Away(message[m]))
      /\ ~Has(m, k) => Unmoved(done)
  BY <1>1, <1>2, RemoveIs DEF ExtensionsInv
<1>5. OthersSafe(m, done)
  <2>1. Has(m, k) \in BOOLEAN
    BY DEF Has
  <2> QED
    BY <1>3, <1>4, <2>1, UntouchedSafe
<1>6. PICK l : l = [last[m] EXCEPT ![k] = NoNode]
  OBVIOUS
<1>7. l \in [ExclusiveKinds -> AllNodes] /\ last' = [last EXCEPT ![m] = l]
  <2>1. NoNode \in AllNodes
    BY DEF AllNodes
  <2> QED
    BY <1>3, <1>6, <2>1 DEF ExtensionsInv, ExtTypes
<1>8. more[m] \in Seq(AllNodes) /\ more' = [more EXCEPT ![m] = more[m]]
  BY <1>3 DEF ExtensionsInv, ExtTypes
<1>9. m \notin torn => Right(Shown(done.heap, done.slice), l, more[m])
  <2> HAVE m \notin torn
  <2>1. PICK s \in Seq(AllNodes) : s = Nodes(m)
    BY NodesIs DEF ExtensionsInv
  <2>2. last[m] \in [ExclusiveKinds -> AllNodes] /\ Right(s, last[m], more[m])
    BY <2>1 DEF ExtensionsInv, ExtTypes, ExtRight
  <2> QED
    BY <1>1, <1>4, <1>6, <2>1, <2>2, RightClear DEF Without
<1> QED
  BY <1>3, <1>4, <1>5, <1>7, <1>8, <1>9, FinishKeeps

LEMMA PresentIs ==
    ASSUME ExtTypes, NEW m \in Messages, NEW node \in AllNodes, NEW done, done = AppendNode(Present(m), node)
    PROVE  /\ Holds(done) /\ Spared(done, Under(message[m]))
           /\ Shown(done.heap, done.slice) = Append(Nodes(m), node)
<1>1. PICK old : old = Present(m) /\ old.heap = cells /\ old.slice = message[m]
  BY DEF Present
<1>2. cells \in Seq(Seq(AllNodes)) /\ Fits(cells, message[m])
  BY NodesIs
<1>3. Holds(old)
  BY <1>1, <1>2 DEF Holds
<1>4. Spared(old, Under(message[m]))
  BY <1>1 DEF Spared, Under
<1>5. /\ Holds(done) /\ Spared(done, Under(message[m]))
      /\ Shown(done.heap, done.slice) = Append(Shown(old.heap, old.slice), node)
  BY <1>1, <1>2, <1>3, <1>4, AwayFits, AppendNodeIs
<1> QED
  BY <1>1, <1>5 DEF Nodes

(* A call that only appends.                                                *)
LEMMA AppendKeeps ==
    ASSUME ExtensionsInv, NEW m \in Messages, NEW node \in AllNodes, Elsewhere(node), last' = last,
           Finish(m, AppendNode(Present(m), node), FALSE, TRUE),
           more' = [more EXCEPT ![m] = IF OfMore(node) THEN Append(more[m], node) ELSE more[m]]
    PROVE  ExtensionsInv'
<1>1. PICK done : done = AppendNode(Present(m), node)
  OBVIOUS
<1>2. /\ Holds(done) /\ Spared(done, Under(message[m]))
      /\ Shown(done.heap, done.slice) = Append(Nodes(m), node)
  BY <1>1, PresentIs DEF ExtensionsInv
<1>3. Finish(m, done, FALSE, TRUE)
  BY <1>1
<1>4. OthersSafe(m, done)
  BY <1>2, <1>3, UntouchedSafe
<1>5. last[m] \in [ExclusiveKinds -> AllNodes] /\ last' = [last EXCEPT ![m] = last[m]]
  BY DEF ExtensionsInv, ExtTypes
<1>6. PICK a : a = IF OfMore(node) THEN Append(more[m], node) ELSE more[m]
  OBVIOUS
<1>7. a \in Seq(AllNodes) /\ more' = [more EXCEPT ![m] = a]
  <2>1. more[m] \in Seq(AllNodes)
    BY DEF ExtensionsInv, ExtTypes
  <2>2. Append(more[m], node) \in Seq(AllNodes)
    BY <2>1, AppendProperties
  <2> QED
    BY <1>6, <2>1, <2>2
<1>8. m \notin torn => Right(Shown(done.heap, done.slice), last[m], a)
  <2> HAVE m \notin torn
  <2>1. PICK s \in Seq(AllNodes) : s = Nodes(m)
    BY NodesIs DEF ExtensionsInv
  <2>2. Right(s, last[m], more[m])
    BY <2>1 DEF ExtensionsInv, ExtRight
  <2> QED
    BY <1>2, <1>6, <2>1, <2>2, RightAppend
<1> QED
  BY <1>2, <1>3, <1>4, <1>5, <1>7, <1>8, FinishKeeps

LEMMA AddOnceKeeps ==
    ASSUME ExtensionsInv, NEW m \in Messages, NEW k \in OnceKinds, NEW l \in Range(k.locals), AddOnce(m, k, l)
    PROVE  ExtensionsInv'
<1>1. CASE Extension(m, k.space, l) # NoNode
  <2>1. sets < MaxSets /\ sets' = sets + 1 /\ UNCHANGED <<cells, message, torn, last, more>>
    BY <1>1 DEF AddOnce
  <2>2. sets' \in 0..MaxSets
    BY <2>1, ExtensionsAssumption DEF ExtensionsInv, ExtTypes
  <2>3. ExtTypes'
    BY <2>1, <2>2 DEF ExtensionsInv, ExtTypes
  <2>4. ExtRight'
    BY <2>1 DEF ExtensionsInv, ExtRight, Nodes
  <2> QED
    BY <2>3, <2>4 DEF ExtensionsInv
<1>2. CASE ~(Extension(m, k.space, l) # NoNode)
  <2>1. PICK node : node = Node(k, l, 0)
    OBVIOUS
  <2>2. k \in AllKinds /\ 0 \in AnyValue
    BY DEF AllKinds, AnyValue
  <2>3. node \in AllNodes /\ OfKind(node, k)
    BY <2>1, <2>2, NodeIs
  <2>4. k \notin MoreKinds
    BY Spaces DEF OnceKinds, MoreKinds
  <2>5. Elsewhere(node) /\ ~OfMore(node)
    BY <2>3, <2>4, KindsOutside
  <2>6. Finish(m, AppendNode(Present(m), node), FALSE, TRUE) /\ last' = last /\ more' = more
    BY <1>2, <2>1 DEF AddOnce
  <2>7. more' = [more EXCEPT ![m] = IF OfMore(node) THEN Append(more[m], node) ELSE more[m]]
    BY <2>5, <2>6 DEF ExtensionsInv, ExtTypes
  <2> QED
    BY <2>3, <2>5, <2>6, <2>7, AppendKeeps
<1> QED
  BY <1>1, <1>2

LEMMA AddMoreKeeps ==
    ASSUME ExtensionsInv, NEW m \in Messages, NEW k \in MoreKinds, NEW v \in Ids, AddMore(m, k, v)
    PROVE  ExtensionsInv'
<1>1. PICK node : node = Node(k, k.locals[1], v)
  OBVIOUS
<1>2. k \in AllKinds /\ v \in AnyValue
  BY DEF AllKinds, AnyValue
<1>3. k.locals[1] \in Range(k.locals)
  <2>1. PICK n \in Nat : n > 0 /\ DOMAIN k.locals = 1..n
    BY <1>2, KindShapes
  <2> QED
    BY <2>1 DEF Range
<1>4. node \in AllNodes /\ OfKind(node, k)
  BY <1>1, <1>2, <1>3, NodeIs
<1>5. Elsewhere(node) /\ OfMore(node)
  BY <1>4, KindsOutside
<1>6. /\ Finish(m, AppendNode(Present(m), node), FALSE, TRUE) /\ last' = last
      /\ more' = [more EXCEPT ![m] = Append(more[m], node)]
  BY <1>1 DEF AddMore
<1>7. more' = [more EXCEPT ![m] = IF OfMore(node) THEN Append(more[m], node) ELSE more[m]]
  BY <1>5, <1>6
<1> QED
  BY <1>4, <1>5, <1>6, <1>7, AppendKeeps

(* A message that takes the nodes of another one.                           *)
LEMMA InheritKeeps ==
    ASSUME ExtensionsInv, NEW m \in Messages, NEW o \in Messages, Inherit(m, o), sets' = sets,
           NEW done, Holds(done), cells' = done.heap, message' = [message EXCEPT ![m] = done.slice],
           Shown(done.heap, done.slice) = Nodes(o),
           Unmoved(done)
    PROVE  ExtensionsInv'
<1> USE DEF ExtensionsInv
<1>1. /\ last' = [last EXCEPT ![m] = last[o]] /\ more' = [more EXCEPT ![m] = more[o]]
      /\ torn' = IF o \in torn THEN torn \cup {m} ELSE torn
  BY DEF Inherit
<1>2. /\ message'[m] = done.slice /\ last'[m] = last[o] /\ more'[m] = more[o]
      /\ \A p \in Messages : p # m => message'[p] = message[p] /\ last'[p] = last[p] /\ more'[p] = more[p]
  BY <1>1 DEF ExtTypes
<1>3. ExtTypes'
  <2>1. cells' \in Seq(Seq(AllNodes))
    BY DEF Holds
  <2>2. message' \in [Messages -> Slices]
    <3>1. done.slice \in Slices
      BY DEF Holds, Fits
    <3> QED
      BY <3>1 DEF ExtTypes
  <2>3. ASSUME NEW p \in Messages PROVE Fits(cells', message'[p])
    <3>1. CASE p = m
      BY <1>2, <3>1 DEF Holds
    <3>2. CASE p # m
      <4>1. Fits(cells, message[p])
        BY DEF ExtTypes
      <4>2. Fits(done.heap, message[p])
        BY <4>1 DEF Holds
      <4> QED
        BY <1>2, <3>2, <4>2
    <3> QED
      BY <3>1, <3>2
  <2>4. sets' \in 0..MaxSets /\ torn' \subseteq Messages
    BY <1>1 DEF ExtTypes
  <2>5. last' \in [Messages -> [ExclusiveKinds -> AllNodes]]
    <3>1. last[o] \in [ExclusiveKinds -> AllNodes]
      BY DEF ExtTypes
    <3> QED
      BY <1>1, <3>1 DEF ExtTypes
  <2>6. more' \in [Messages -> Seq(AllNodes)]
    <3>1. more[o] \in Seq(AllNodes)
      BY DEF ExtTypes
    <3> QED
      BY <1>1, <3>1 DEF ExtTypes
  <2> QED
    BY <2>1, <2>2, <2>3, <2>4, <2>5, <2>6 DEF ExtTypes
<1>4. ExtRight'
  <2> SUFFICES ASSUME NEW p \in Messages, p \notin torn'
               PROVE  Right(Nodes(p)', last'[p], more'[p])
    BY DEF ExtRight
  <2>1. Nodes(p)' = Shown(done.heap, message'[p])
    BY DEF Nodes
  <2>2. CASE p = m
    <3>1. o \notin torn
      BY <1>1, <2>2
    <3>2. Right(Nodes(o), last[o], more[o])
      BY <3>1 DEF ExtRight
    <3> QED
      BY <1>2, <2>1, <2>2, <3>2
  <2>3. CASE p # m
    <3>1. message[p] \in Fitting
      BY DEF ExtTypes, Fitting
    <3>2. Shown(done.heap, message[p]) = Nodes(p)
      BY <3>1 DEF Nodes, Unmoved
    <3>3. p \notin torn
      BY <1>1
    <3>4. Right(Nodes(p), last[p], more[p])
      BY <3>3 DEF ExtRight
    <3> QED
      BY <1>2, <2>1, <2>3, <3>2, <3>4
  <2> QED
    BY <2>2, <2>3
<1> QED
  BY <1>3, <1>4

LEMMA CopyKeeps ==
    ASSUME ExtensionsInv, NEW m \in Messages, NEW o \in Messages, Copy(m, o)
    PROVE  ExtensionsInv'
<1>0. Present(o).heap = cells /\ Present(o).slice = message[o]
  BY DEF Present
<1>1. PICK done : done.heap = cells /\ done.slice = message[o]
  BY <1>0
<1>2. Holds(done)
  BY <1>1, NodesIs DEF Holds, ExtensionsInv
<1>3. Shown(done.heap, done.slice) = Nodes(o)
  BY <1>1 DEF Nodes
<1>4. Unmoved(done)
  BY <1>1 DEF Unmoved
<1>5. /\ Inherit(m, o) /\ sets' = sets /\ cells' = done.heap
      /\ message' = [message EXCEPT ![m] = done.slice]
  BY <1>1 DEF Copy
<1> QED
  BY <1>2, <1>3, <1>4, <1>5, InheritKeeps

LEMMA CloneMessageKeeps ==
    ASSUME ExtensionsInv, NEW m \in Messages, NEW o \in Messages, CloneMessage(m, o)
    PROVE  ExtensionsInv'
<1>1. PICK done : done = CloneOf(cells, message[o])
  OBVIOUS
<1>2. cells \in Seq(Seq(AllNodes)) /\ Fits(cells, message[o])
  BY NodesIs DEF ExtensionsInv
<1>3. /\ done.heap \in Seq(Seq(AllNodes)) /\ Fits(done.heap, done.slice)
      /\ Shown(done.heap, done.slice) = Shown(cells, message[o])
      /\ \A y : Fits(cells, y) => Fits(done.heap, y) /\ Shown(done.heap, y) = Shown(cells, y)
  BY <1>1, <1>2, CloneOfIs
<1>4. Holds(done)
  BY <1>3 DEF Holds
<1>5. Shown(done.heap, done.slice) = Nodes(o)
  BY <1>3 DEF Nodes
<1>6. Unmoved(done)
  BY <1>3 DEF Fitting, Unmoved
<1>7. /\ Inherit(m, o) /\ sets' = sets /\ cells' = done.heap
      /\ message' = [message EXCEPT ![m] = done.slice]
  BY <1>1 DEF CloneMessage
<1> QED
  BY <1>4, <1>5, <1>6, <1>7, InheritKeeps

LEMMA GetInSet ==
    ASSUME NEW s \in Seq(AllNodes), NEW k \in AllKinds
    PROVE  GetIn(s, k) \in AllNodes
<1>1. NoNode \in AllNodes
  BY DEF AllNodes
<1>2. ASSUME NEW l PROVE FirstOf(s, k.space, l) \in AllNodes
  <2>1. CASE Named(s, k.space, l) = {}
    BY <1>1, <2>1 DEF FirstOf
  <2>2. CASE Named(s, k.space, l) # {}
    <3>1. PICK i \in Named(s, k.space, l) : FirstOf(s, k.space, l) = s[i]
      BY <2>2, FirstThere
    <3> QED
      BY <3>1 DEF Named
  <2> QED
    BY <2>1, <2>2
<1> QED
  BY <1>1, <1>2 DEF GetIn

LEMMA ExtensionsInitInv ==
    ASSUME ExtensionsInit
    PROVE  ExtensionsInv
<1>1. Parsed \in Seq(AllNodes) /\ NoNode \in AllNodes
  <2>1. Range(Parsed) \subseteq AllNodes
    BY DEF AllNodes
  <2> QED
    BY <2>1, ExtensionsAssumption DEF AllNodes
<1>2. PICK n \in Nat : n = Len(Parsed)
  BY <1>1
<1>3. PICK s \in Nat : s = n % 2
  BY <1>2
<1>4. PICK e \in Seq(AllNodes) : e = Spare(s, NoNode) /\ Len(e) = s
  BY <1>1, SpareIs
<1>5. PICK p \in Seq(AllNodes) : p = Parsed
  BY <1>1
<1>6. PICK c : c = p \o e
  OBVIOUS
<1>7. c \in Seq(AllNodes) /\ Len(c) = n + s
  <2>1. n = Len(p) /\ s = Len(e)
    BY <1>2, <1>4, <1>5
  <2> QED
    BY <1>6, <2>1, ConcatParts
<1>8. cells = << <<>>, c >>
  BY <1>2, <1>3, <1>4, <1>5, <1>6 DEF ExtensionsInit
<1>9. << >> \in Seq(AllNodes) /\ Len(<< >>) = 0
  OBVIOUS
<1>10. cells \in Seq(Seq(AllNodes)) /\ Len(cells) = 2 /\ cells[2] = c
  BY <1>7, <1>8, <1>9
<1>11. PICK x, y : x = Slice(2, n) /\ y = Slice(1, 0)
  OBVIOUS
<1>12. x \in Slices /\ x.array = 2 /\ x.len = n /\ y \in Slices /\ y.array = 1 /\ y.len = 0
  BY <1>11, SliceIs
<1>13. Fits(cells, x) /\ Fits(cells, y)
  <2>1. Len(cells[1]) \in Nat
    BY <1>10
  <2> QED
    BY <1>7, <1>10, <1>12, <2>1 DEF Fits
<1>14. message = [m \in Messages |-> IF m = Incoming THEN x ELSE y]
  BY <1>2, <1>11 DEF ExtensionsInit, Fresh
<1>15. message \in [Messages -> Slices] /\ \A m \in Messages : Fits(cells, message[m])
  BY <1>12, <1>13, <1>14
<1>16. \A m \in Messages : Nodes(m) \in Seq(AllNodes)
  <2> TAKE m \in Messages
  <2>1. Fits(cells, message[m])
    BY <1>15
  <2> QED
    BY <1>10, <2>1, ShownIs DEF Nodes
<1>17. /\ last = [m \in Messages |-> [k \in ExclusiveKinds |-> GetIn(Nodes(m), k)]]
       /\ more = [m \in Messages |-> MoreIn(Nodes(m))]
  <2>1. last = [m \in Messages |-> [k \in ExclusiveKinds |-> Get(m, k)]]
        /\ more = [m \in Messages |-> All(m, MoreKinds)]
    BY DEF ExtensionsInit
  <2>2. \A m \in Messages, k \in ExclusiveKinds : Get(m, k) = GetIn(Nodes(m), k)
    BY GettersRead
  <2>3. \A m \in Messages : All(m, MoreKinds) = MoreIn(Nodes(m))
    BY GettersRead
  <2> QED
    BY <2>1, <2>2, <2>3
<1>18. last \in [Messages -> [ExclusiveKinds -> AllNodes]] /\ more \in [Messages -> Seq(AllNodes)]
  <2>1. \A m \in Messages, k \in ExclusiveKinds : GetIn(Nodes(m), k) \in AllNodes
    BY <1>16, GetInSet DEF AllKinds
  <2>2. \A m \in Messages : MoreIn(Nodes(m)) \in Seq(AllNodes)
    BY <1>16, MoreInSeq
  <2> QED
    BY <1>17, <2>1, <2>2
<1>19. sets \in 0..MaxSets /\ torn = {}
  BY ExtensionsAssumption DEF ExtensionsInit
<1>20. ExtTypes
  BY <1>10, <1>15, <1>18, <1>19 DEF ExtTypes
<1>21. ExtRight
  BY <1>17 DEF ExtRight, Right
<1> QED
  BY <1>20, <1>21 DEF ExtensionsInv

LEMMA ExtensionsNextInv ==
    ASSUME ExtensionsInv, [ExtensionsNext]_extensionVars
    PROVE  ExtensionsInv'
<1>1. ASSUME NEW m \in Messages, NEW k \in PlainKinds, NEW v \in Ids, NEW l \in Range(k.locals), Set(m, k, l, v)
      PROVE  ExtensionsInv'
  BY <1>1, SetKeeps
<1>2. ASSUME NEW m \in Messages, NEW k \in {ChatState, Correction}, Clear(m, k)
      PROVE  ExtensionsInv'
  BY <1>2, ClearKeeps
<1>3. ASSUME NEW m \in Messages, NEW v \in Ids, NEW text \in BOOLEAN,
             SetReply(m, v, text) \/ SetRetraction(m, v, text)
      PROVE  ExtensionsInv'
  BY <1>3, SetWithFallbackKeeps DEF SetReply, SetRetraction
<1>4. ASSUME NEW m \in Messages, NEW k \in OnceKinds, NEW l \in Range(k.locals), AddOnce(m, k, l)
      PROVE  ExtensionsInv'
  BY <1>4, AddOnceKeeps
<1>5. ASSUME NEW m \in Messages, NEW k \in MoreKinds, NEW v \in Ids, AddMore(m, k, v)
      PROVE  ExtensionsInv'
  BY <1>5, AddMoreKeeps
<1>6. ASSUME NEW m \in Messages, NEW o \in Messages, Copy(m, o) \/ CloneMessage(m, o)
      PROVE  ExtensionsInv'
  BY <1>6, CopyKeeps, CloneMessageKeeps
<1>7. CASE UNCHANGED extensionVars
  <2>1. UNCHANGED <<cells, message, sets, last, more, torn>>
    BY <1>7 DEF extensionVars
  <2>2. ExtTypes'
    BY <2>1 DEF ExtensionsInv, ExtTypes
  <2>3. ExtRight'
    BY <2>1 DEF ExtensionsInv, ExtRight, Nodes
  <2> QED
    BY <2>2, <2>3 DEF ExtensionsInv
<1> QED
  BY <1>1, <1>2, <1>3, <1>4, <1>5, <1>6, <1>7 DEF ExtensionsNext

(* In every reachable state ExtensionsInv holds: every slice lies within    *)
(* its array, and the getters read what the setters of                      *)
(* xep/message_extensions.go have left, however the messages share arrays.  *)
THEOREM ExtensionsInvHolds == ExtensionsSpec => []ExtensionsInv
<1>1. ExtensionsInit => ExtensionsInv
  BY ExtensionsInitInv
<1>2. ExtensionsInv /\ [ExtensionsNext]_extensionVars => ExtensionsInv'
  BY ExtensionsNextInv
<1> QED
  BY <1>1, <1>2, PTL DEF ExtensionsSpec

(* The type invariant of the message extensions: every cell and every node  *)
(* of the histories is one that a setter or the wire can have left, and no  *)
(* message reaches beyond its array.                                        *)
THEOREM ExtensionsTypesHold == ExtensionsSpec => []ExtensionsTypeOK
<1>1. ExtensionsInv => ExtensionsTypeOK
  <2> HAVE ExtensionsInv
  <2>1. cells \in Seq(Seq(AllNodes))
    BY DEF ExtensionsInv, ExtTypes
  <2>2. \A m \in Messages : /\ message[m].array \in DOMAIN cells
                            /\ message[m].len \in 0..Len(cells[message[m].array])
    <3> TAKE m \in Messages
    <3>1. Fits(cells, message[m])
      BY DEF ExtensionsInv, ExtTypes
    <3>2. /\ message[m].array \in 1..Len(cells) /\ message[m].len \in Nat
          /\ message[m].len <= Len(cells[message[m].array])
      BY <3>1 DEF Fits, Slices
    <3>3. Len(cells[message[m].array]) \in Nat
      BY <2>1, <3>2
    <3> QED
      BY <2>1, <3>2, <3>3
  <2>3. /\ sets \in 0..MaxSets /\ torn \subseteq Messages
        /\ last \in [Messages -> [ExclusiveKinds -> AllNodes]] /\ more \in [Messages -> Seq(AllNodes)]
    BY DEF ExtensionsInv, ExtTypes
  <2> QED
    BY <2>1, <2>2, <2>3 DEF ExtensionsTypeOK
<1> QED
  BY <1>1, ExtensionsInvHolds, PTL

(* A getter returns the node that was set last, and the nodes that were     *)
(* added are all there in order, in every message that no call on a copy    *)
(* has written to (removeExtension and the setters of                       *)
(* xep/message_extensions.go).                                              *)
THEOREM LastSetWinsHolds == ExtensionsSpec => []LastSetWins
<1>1. ExtensionsInv => LastSetWins
  <2> HAVE ExtensionsInv
  <2>1. ASSUME NEW m \in Messages \ torn
        PROVE  (\A k \in ExclusiveKinds : Get(m, k) = last[m][k]) /\ All(m, MoreKinds) = more[m]
    <3>1. Right(Nodes(m), last[m], more[m])
      BY <2>1 DEF ExtensionsInv, ExtRight
    <3> QED
      BY <3>1, GettersRead DEF Right
  <2> QED
    BY <2>1 DEF LastSetWins
<1> QED
  BY <1>1, ExtensionsInvHolds, PTL

-----------------------------------------------------------------------------
(* Discovery: the features that a slice shows. *)

(* The elements of s are those of A, each once.                             *)
Exact(s, A) == Range(s) = A /\ IsInjective(s)

LEMMA ExactEmpty == Exact(<<>>, {})
BY DEF Exact, Range, IsInjective

LEMMA ExactAppend ==
    ASSUME NEW S, NEW s \in Seq(S), NEW v \in S, NEW A, Exact(s, A), v \notin Range(s),
           NEW t, t = Append(s, v)
    PROVE  Exact(t, A \cup {v})
<1>1. PICK n \in Nat : n = Len(s) /\ DOMAIN s = 1..n
  OBVIOUS
<1>2. DOMAIN t = 1..(n + 1) /\ t[n + 1] = v /\ \A i \in 1..n : t[i] = s[i]
  BY <1>1, AppendProperties
<1>3. \A i \in 1..(n + 1) : i \in 1..n \/ i = n + 1
  OBVIOUS
<1>4. A = {s[i] : i \in 1..n}
  BY <1>1 DEF Exact, Range
<1>5. {t[i] : i \in 1..(n + 1)} = A \cup {v}
  <2>1. {t[i] : i \in 1..(n + 1)} \subseteq A \cup {v}
    BY <1>2, <1>3, <1>4
  <2>2. \A i \in 1..n : i \in 1..(n + 1)
    OBVIOUS
  <2>3. n + 1 \in 1..(n + 1)
    OBVIOUS
  <2>4. A \cup {v} \subseteq {t[i] : i \in 1..(n + 1)}
    BY <1>2, <1>4, <2>2, <2>3
  <2> QED
    BY <2>1, <2>4
<1>6. ASSUME NEW i \in 1..(n + 1), NEW j \in 1..(n + 1), t[i] = t[j] PROVE i = j
  <2>1. \A k \in 1..n : s[k] # v
    BY <1>1 DEF Range
  <2>2. \A k, h \in 1..n : s[k] = s[h] => k = h
    BY <1>1 DEF Exact, IsInjective
  <2> QED
    BY <1>2, <1>3, <1>6, <2>1, <2>2
<1>7. Range(t) = A \cup {v}
  BY <1>2, <1>5 DEF Range
<1>8. IsInjective(t)
  BY <1>2, <1>6 DEF IsInjective
<1> QED
  BY <1>7, <1>8 DEF Exact

(* One element less: the ones after it have moved down.                     *)
Shorter(t, s, c) ==
    /\ Len(t) = Len(s) - 1
    /\ \A k \in 1..(Len(s) - 1) : t[k] = IF k < c THEN s[k] ELSE s[k + 1]

LEMMA ExactShorter ==
    ASSUME NEW S, NEW s \in Seq(S), NEW t \in Seq(S), NEW A, Exact(s, A), NEW c \in 1..Len(s), Shorter(t, s, c)
    PROVE  Exact(t, A \ {s[c]})
<1>1. PICK n \in Nat : n = Len(s) /\ DOMAIN s = 1..n /\ c \in 1..n
  OBVIOUS
<1>2. DOMAIN t = 1..(n - 1) /\ \A k \in 1..(n - 1) : t[k] = IF k < c THEN s[k] ELSE s[k + 1]
  BY <1>1 DEF Shorter
<1>3. A = {s[i] : i \in 1..n}
  BY <1>1 DEF Exact, Range
<1>4. \A k, h \in 1..n : s[k] = s[h] => k = h
  BY <1>1 DEF Exact, IsInjective
<1>5. ASSUME NEW k \in 1..(n - 1) PROVE \E i \in 1..n : i # c /\ t[k] = s[i]
  <2>1. CASE k < c
    BY <1>1, <1>2, <2>1
  <2>2. CASE ~(k < c)
    <3>1. k + 1 \in 1..n /\ k + 1 # c /\ t[k] = s[k + 1]
      BY <1>1, <1>2, <2>2
    <3> QED
      BY <3>1
  <2> QED
    BY <2>1, <2>2
<1>6. ASSUME NEW i \in 1..n, i # c PROVE \E k \in 1..(n - 1) : t[k] = s[i]
  <2>1. CASE i < c
    <3>1. i \in 1..(n - 1)
      BY <1>1, <2>1
    <3> QED
      BY <1>2, <2>1, <3>1
  <2>2. CASE ~(i < c)
    <3>1. i - 1 \in 1..(n - 1) /\ ~(i - 1 < c) /\ (i - 1) + 1 = i
      BY <1>1, <1>6, <2>2
    <3>2. t[i - 1] = s[i]
      BY <1>2, <3>1
    <3> QED
      BY <3>1, <3>2
  <2> QED
    BY <2>1, <2>2
<1>7. Range(t) = A \ {s[c]}
  <2>1. Range(t) = {t[k] : k \in 1..(n - 1)}
    BY <1>2 DEF Range
  <2>2. {t[k] : k \in 1..(n - 1)} \subseteq A \ {s[c]}
    <3> SUFFICES ASSUME NEW k \in 1..(n - 1) PROVE t[k] \in A \ {s[c]}
      OBVIOUS
    <3>1. PICK i \in 1..n : i # c /\ t[k] = s[i]
      BY <1>5
    <3> QED
      BY <1>1, <1>3, <1>4, <3>1
  <2>3. A \ {s[c]} \subseteq {t[k] : k \in 1..(n - 1)}
    <3> SUFFICES ASSUME NEW i \in 1..n, s[i] # s[c] PROVE \E k \in 1..(n - 1) : t[k] = s[i]
      BY <1>3
    <3>1. i # c
      OBVIOUS
    <3> QED
      BY <1>6, <3>1
  <2> QED
    BY <2>1, <2>2, <2>3
<1>8. ASSUME NEW k \in 1..(n - 1), NEW h \in 1..(n - 1), t[k] = t[h] PROVE k = h
  <2>1. PICK a \in 1..n : t[k] = s[a] /\ a = IF k < c THEN k ELSE k + 1
    BY <1>1, <1>2
  <2>2. PICK b \in 1..n : t[h] = s[b] /\ b = IF h < c THEN h ELSE h + 1
    BY <1>1, <1>2
  <2>3. a = b
    BY <1>4, <1>8, <2>1, <2>2
  <2> QED
    BY <1>1, <2>1, <2>2, <2>3
<1>9. IsInjective(t)
  BY <1>2, <1>8 DEF IsInjective
<1> QED
  BY <1>7, <1>9 DEF Exact

(* The first m elements in another order, which g gives.                    *)
Shuffles(g, m) ==
    /\ g \in [1..m -> 1..m]
    /\ \A i \in 1..m : \E k \in 1..m : g[k] = i
    /\ \A k, h \in 1..m : g[k] = g[h] => k = h
Mixed(t, s, g, m) ==
    /\ Len(t) = Len(s)
    /\ \A k \in 1..Len(s) : t[k] = IF k <= m THEN s[g[k]] ELSE s[k]

LEMMA ExactMixed ==
    ASSUME NEW S, NEW s \in Seq(S), NEW t \in Seq(S), NEW A, Exact(s, A),
           NEW m \in Nat, m <= Len(s), NEW g, Shuffles(g, m), Mixed(t, s, g, m)
    PROVE  Exact(t, A)
<1>1. PICK n \in Nat : n = Len(s) /\ DOMAIN s = 1..n /\ DOMAIN t = 1..n /\ m <= n
  BY DEF Mixed
<1>2. /\ \A k \in 1..m : g[k] \in 1..m
      /\ \A i \in 1..m : \E k \in 1..m : g[k] = i
      /\ \A k, h \in 1..m : g[k] = g[h] => k = h
  BY DEF Shuffles
<1>3. PICK f : f = [k \in 1..n |-> IF k <= m THEN g[k] ELSE k]
  OBVIOUS
<1>4. \A k \in 1..n : k <= m => k \in 1..m
  OBVIOUS
<1>5. /\ \A k \in 1..n : f[k] \in 1..n /\ t[k] = s[f[k]]
      /\ \A k \in 1..n : f[k] <= m <=> k <= m
      /\ \A k \in 1..n : k <= m => f[k] = g[k]
      /\ \A k \in 1..n : ~(k <= m) => f[k] = k
  <2>1. ASSUME NEW k \in 1..n, k <= m
        PROVE  f[k] = g[k] /\ f[k] \in 1..n /\ f[k] <= m /\ t[k] = s[f[k]]
    <3>1. g[k] \in 1..m
      BY <1>2, <1>4, <2>1
    <3>2. f[k] = g[k]
      BY <1>3, <2>1
    <3>3. t[k] = s[g[k]]
      BY <1>1, <2>1 DEF Mixed
    <3> QED
      BY <1>1, <3>1, <3>2, <3>3
  <2>2. ASSUME NEW k \in 1..n, ~(k <= m)
        PROVE  f[k] = k /\ t[k] = s[k]
    BY <1>1, <1>3, <2>2 DEF Mixed
  <2> QED
    BY <2>1, <2>2
<1>6. \A k, h \in 1..n : f[k] = f[h] => k = h
  BY <1>2, <1>4, <1>5
<1>7. \A i \in 1..n : \E k \in 1..n : f[k] = i
  <2> TAKE i \in 1..n
  <2>1. CASE i <= m
    <3>1. PICK k \in 1..m : g[k] = i
      BY <1>2, <1>4, <2>1
    <3>2. k \in 1..n /\ k <= m
      BY <1>1
    <3> QED
      BY <1>5, <3>1, <3>2
  <2>2. CASE ~(i <= m)
    BY <1>5, <2>2
  <2> QED
    BY <2>1, <2>2
<1>8. \A k, h \in 1..n : s[k] = s[h] => k = h
  BY <1>1 DEF Exact, IsInjective
<1>9. A = {s[i] : i \in 1..n}
  BY <1>1 DEF Exact, Range
<1>10. {t[k] : k \in 1..n} = A
  <2>1. {t[k] : k \in 1..n} \subseteq A
    BY <1>5, <1>9
  <2>2. A \subseteq {t[k] : k \in 1..n}
    <3> SUFFICES ASSUME NEW i \in 1..n PROVE \E k \in 1..n : t[k] = s[i]
      BY <1>9
    <3>1. PICK k \in 1..n : f[k] = i
      BY <1>7
    <3> QED
      BY <1>5, <3>1
  <2> QED
    BY <2>1, <2>2
<1>11. Range(t) = A
  BY <1>1, <1>10 DEF Range
<1>12. IsInjective(t)
  BY <1>1, <1>5, <1>6, <1>8 DEF IsInjective
<1> QED
  BY <1>11, <1>12 DEF Exact

LEMMA StringsAreNumbers == Strings \subseteq Nat
<1>1. PICK n \in Nat : DOMAIN PluginFeatures = 1..n /\ \A k \in 1..n : PluginFeatures[k] \in Nat
  <2>1. PluginFeatures \in Seq(Nat \ {0})
    BY DiscoAssumption
  <2> QED
    BY <2>1
<1>2. Range(PluginFeatures) \subseteq Nat
  BY <1>1 DEF Range
<1>3. Features \subseteq Nat
  BY DiscoAssumption
<1>4. Unused \in Nat
  BY DEF Unused
<1> QED
  BY <1>2, <1>3, <1>4 DEF Strings

(* sort.Strings permutes.                                                   *)
LEMMA SortedMixes ==
    ASSUME NEW s \in Seq(Strings)
    PROVE  /\ Sorted(s) \in Seq(Strings) /\ Len(Sorted(s)) = Len(s)
           /\ \E g : Shuffles(g, Len(s)) /\ \A k \in 1..Len(s) : Sorted(s)[k] = s[g[k]]
<1>1. PICK n \in Nat : n = Len(s) /\ DOMAIN s = 1..n
  OBVIOUS
<1>2. \A i \in 1..n : s[i] \in Nat /\ s[i] \in Strings
  <2>1. \A i \in 1..n : s[i] \in Strings
    BY <1>1
  <2> QED
    BY <2>1, StringsAreNumbers
<1>3. IsFiniteSet(1..n) /\ Cardinality(1..n) = n
  BY FS_Interval
<1>4. ASSUME NEW i \in 1..n, NEW j \in 1..n
      PROVE  <<i, j>> \in Smaller(s) <=> s[i] < s[j] \/ (s[i] = s[j] /\ i < j)
  <2>1. PICK p : p = <<i, j>>
    OBVIOUS
  <2>2. p[1] = i /\ p[2] = j /\ p \in (DOMAIN s) \X (DOMAIN s)
    BY <1>1, <2>1
  <2>3. p \in Smaller(s) <=> s[p[1]] < s[p[2]] \/ (s[p[1]] = s[p[2]] /\ p[1] < p[2])
    BY <2>2 DEF Smaller
  <2> QED
    BY <2>1, <2>2, <2>3
<1>5. PICK R : R = Smaller(s)
  OBVIOUS
<1>6. TotalOrder(1..n, R)
  <2>1. \A i \in 1..n : <<i, i>> \notin R
    BY <1>2, <1>4, <1>5
  <2>2. ASSUME NEW i \in 1..n, NEW j \in 1..n, NEW k \in 1..n, <<i, j>> \in R, <<j, k>> \in R
        PROVE  <<i, k>> \in R
    <3>1. s[i] \in Nat /\ s[j] \in Nat /\ s[k] \in Nat
      BY <1>2
    <3>2. s[i] < s[j] \/ (s[i] = s[j] /\ i < j)
      BY <1>4, <1>5, <2>2
    <3>3. s[j] < s[k] \/ (s[j] = s[k] /\ j < k)
      BY <1>4, <1>5, <2>2
    <3>4. s[i] < s[k] \/ (s[i] = s[k] /\ i < k)
      BY <3>1, <3>2, <3>3
    <3> QED
      BY <1>4, <1>5, <3>4
  <2>3. ASSUME NEW i \in 1..n, NEW j \in 1..n PROVE i = j \/ <<i, j>> \in R \/ <<j, i>> \in R
    <3>1. s[i] \in Nat /\ s[j] \in Nat
      BY <1>2
    <3>2. <<i, j>> \in R <=> s[i] < s[j] \/ (s[i] = s[j] /\ i < j)
      BY <1>4, <1>5
    <3>3. <<j, i>> \in R <=> s[j] < s[i] \/ (s[j] = s[i] /\ j < i)
      BY <1>4, <1>5
    <3> QED
      BY <3>1, <3>2, <3>3
  <2> QED
    BY <2>1, <2>2, <2>3 DEF TotalOrder
<1>0. PICK I : I = 1..n
  OBVIOUS
<1>7. IsFiniteSet(I) /\ TotalOrder(I, R) /\ Cardinality(I) = n
  BY <1>0, <1>3, <1>6
<1>8. /\ \A k \in 1..n : Nth(I, R, k) \in I
      /\ \A i \in I : \E k \in 1..n : Nth(I, R, k) = i
      /\ \A k, m \in 1..n : k < m => <<Nth(I, R, k), Nth(I, R, m)>> \in R
  BY <1>7, NthEnumerates
<1>9. PICK g : g = [k \in 1..n |-> Nth(I, R, k)]
  OBVIOUS
<1>10. Shuffles(g, n)
  <2>1. g \in [1..n -> 1..n] /\ \A i \in 1..n : \E k \in 1..n : g[k] = i
    BY <1>0, <1>8, <1>9
  <2>2. ASSUME NEW k \in 1..n, NEW h \in 1..n, g[k] = g[h] PROVE k = h
    <3>1. PICK x \in 1..n : x = Nth(I, R, k) /\ x = Nth(I, R, h)
      BY <1>0, <1>8, <1>9, <2>2
    <3>2. <<x, x>> \notin R
      BY <1>0, <1>7 DEF TotalOrder
    <3>3. ~(k < h) /\ ~(h < k)
      BY <1>8, <3>1, <3>2
    <3> QED
      BY <3>3
  <2> QED
    BY <2>1, <2>2 DEF Shuffles
<1>11. PICK t : t = Sorted(s)
  OBVIOUS
<1>12. t = [k \in 1..n |-> s[Nth(I, R, k)]]
  BY <1>0, <1>1, <1>5, <1>11 DEF Sorted
<1>13. \A k \in 1..n : t[k] = s[g[k]] /\ g[k] \in 1..n
  BY <1>0, <1>8, <1>9, <1>12
<1>14. t \in [1..n -> Strings]
  BY <1>2, <1>12, <1>13
<1>15. t \in Seq(Strings) /\ Len(t) = n
  BY <1>14
<1> QED
  BY <1>1, <1>10, <1>11, <1>13, <1>15
-----------------------------------------------------------------------------
(* Discovery: the inductive invariant. *)

Entry == [at : {"none", "merging", "sorted", "answered"}, slice : Slices, next : Nat,
          answer : Seq(Strings), seen : SUBSET Features]

DiscoTypes ==
    /\ arrays \in Seq(Seq(Strings)) /\ Fits(arrays, root)
    /\ info \in [Infos -> Entry]
    /\ \A i \in Infos : Fits(arrays, info[i].slice) /\ info[i].next \in 1..(Len(PluginFeatures) + 1)
    /\ discoChanges \in 0..MaxDiscoChanges /\ added \subseteq Features
    /\ spoilt \in BOOLEAN /\ misled \subseteq Infos

(* The plugin features before the n-th.                                     *)
UpTo(n) == {PluginFeatures[k] : k \in 1..(n - 1)}

(* What a LocalInfo has by now.                                             *)
Sound(heap, e) ==
    /\ e.at = "merging" => Exact(Shown(heap, e.slice), e.seen \cup UpTo(e.next))
    /\ e.at = "sorted" => Exact(Shown(heap, e.slice), e.seen \cup Range(PluginFeatures))
    /\ e.at = "answered" => Exact(e.answer, e.seen \cup Range(PluginFeatures))

RegistrySound == ~spoilt => Exact(Listed(root), added)
InfosSound == \A i \in Infos : i \notin misled => Sound(arrays, info[i])

(* The registry shows what was added, and a LocalInfo what it has merged so *)
(* far, as long as nobody else has written there.                           *)
DiscoInv == DiscoTypes /\ RegistrySound /\ InfosSound

(* What y shows has the same elements.                                      *)
SameFeatures(heap, heap2, y) ==
    \A A : Exact(Shown(heap, y), A) => Exact(Shown(heap2, y), A)

LEMMA SoundKept ==
    ASSUME NEW heap, NEW heap2, NEW e, Sound(heap, e), SameFeatures(heap, heap2, e.slice)
    PROVE  Sound(heap2, e)
BY DEF Sound, SameFeatures

LEMMA PluginFeaturesAre ==
    /\ Len(PluginFeatures) \in Nat /\ DOMAIN PluginFeatures = 1..Len(PluginFeatures)
    /\ \A k \in 1..Len(PluginFeatures) : PluginFeatures[k] \in Strings
<1>1. PluginFeatures \in Seq(Nat \ {0})
  BY DiscoAssumption
<1>2. Len(PluginFeatures) \in Nat /\ DOMAIN PluginFeatures = 1..Len(PluginFeatures)
  BY <1>1
<1> QED
  BY <1>2 DEF Strings, Range

(* A step that works for a LocalInfo.                                       *)
LEMMA WorkKeeps ==
    ASSUME DiscoInv, NEW i \in Infos, arrays' \in Seq(Seq(Strings)),
           \A y : Fits(arrays, y) => Fits(arrays', y),
           UNCHANGED <<root, added, discoChanges>>,
           NEW e \in Entry, info' = [info EXCEPT ![i] = e], Fits(arrays', e.slice),
           e.next \in 1..(Len(PluginFeatures) + 1),
           spoilt' \in BOOLEAN, ~spoilt' => ~spoilt /\ SameFeatures(arrays, arrays', root),
           misled \subseteq misled', misled' \subseteq Infos,
           \A j \in Infos \ {i} : j \notin misled' => SameFeatures(arrays, arrays', info[j].slice),
           i \notin misled' => Sound(arrays', e)
    PROVE  DiscoInv'
<1> USE DEF DiscoInv
<1>1. info'[i] = e /\ \A j \in Infos : j # i => info'[j] = info[j]
  BY DEF DiscoTypes
<1>2. DiscoTypes'
  <2>1. info' \in [Infos -> Entry]
    BY DEF DiscoTypes
  <2>2. Fits(arrays', root')
    BY DEF DiscoTypes
  <2>3. ASSUME NEW j \in Infos
        PROVE  Fits(arrays', info'[j].slice) /\ info'[j].next \in 1..(Len(PluginFeatures) + 1)
    <3>1. CASE j = i
      BY <1>1, <3>1
    <3>2. CASE j # i
      BY <1>1, <3>2 DEF DiscoTypes
    <3> QED
      BY <3>1, <3>2
  <2>4. discoChanges' \in 0..MaxDiscoChanges /\ added' \subseteq Features
    BY DEF DiscoTypes
  <2> QED
    BY <2>1, <2>2, <2>3, <2>4 DEF DiscoTypes
<1>3. RegistrySound'
  <2> SUFFICES ASSUME ~spoilt' PROVE Exact(Shown(arrays', root), added)
    BY DEF RegistrySound, Listed
  <2>1. Exact(Shown(arrays, root), added)
    BY DEF RegistrySound, Listed
  <2> QED
    BY <2>1 DEF SameFeatures
<1>4. InfosSound'
  <2> SUFFICES ASSUME NEW j \in Infos, j \notin misled' PROVE Sound(arrays', info'[j])
    BY DEF InfosSound
  <2>1. CASE j = i
    BY <1>1, <2>1
  <2>2. CASE j # i
    <3>1. Sound(arrays, info[j])
      BY DEF InfosSound
    <3>2. SameFeatures(arrays, arrays', info[j].slice)
      BY <2>2
    <3>3. PICK heap2, x : heap2 = arrays' /\ x = info[j]
      OBVIOUS
    <3>4. Sound(heap2, x)
      BY <3>1, <3>2, <3>3, SoundKept
    <3> QED
      BY <1>1, <2>2, <3>3, <3>4
  <2> QED
    BY <2>1, <2>2
<1> QED
  BY <1>2, <1>3, <1>4

(* A call that changes the registry.                                        *)
LEMMA ChangeKeeps ==
    ASSUME DiscoInv, Change, arrays' \in Seq(Seq(Strings)), Fits(arrays', root'),
           \A y : Fits(arrays, y) => Fits(arrays', y),
           added' \subseteq Features, misled \subseteq misled', misled' \subseteq Infos,
           ~spoilt => Exact(Shown(arrays', root'), added'),
           \A j \in Infos : j \notin misled' => SameFeatures(arrays, arrays', info[j].slice)
    PROVE  DiscoInv'
<1> USE DEF DiscoInv
<1>1. discoChanges < MaxDiscoChanges /\ discoChanges' = discoChanges + 1 /\ info' = info /\ spoilt' = spoilt
  BY DEF Change
<1>2. DiscoTypes'
  <2>1. discoChanges' \in 0..MaxDiscoChanges
    BY <1>1, DiscoAssumption DEF DiscoTypes
  <2>2. \A j \in Infos : Fits(arrays', info'[j].slice) /\ info'[j].next \in 1..(Len(PluginFeatures) + 1)
    BY <1>1 DEF DiscoTypes
  <2>3. info' \in [Infos -> Entry] /\ spoilt' \in BOOLEAN
    BY <1>1 DEF DiscoTypes
  <2> QED
    BY <2>1, <2>2, <2>3 DEF DiscoTypes
<1>3. RegistrySound'
  BY <1>1 DEF RegistrySound, Listed
<1>4. InfosSound'
  <2> SUFFICES ASSUME NEW j \in Infos, j \notin misled' PROVE Sound(arrays', info[j])
    BY <1>1 DEF InfosSound
  <2>1. Sound(arrays, info[j])
    BY DEF InfosSound
  <2>2. SameFeatures(arrays, arrays', info[j].slice)
    OBVIOUS
  <2>3. PICK heap2, x : heap2 = arrays' /\ x = info[j]
    OBVIOUS
  <2>4. Sound(heap2, x)
    BY <2>1, <2>2, <2>3, SoundKept
  <2> QED
    BY <2>3, <2>4
<1> QED
  BY <1>2, <1>3, <1>4
-----------------------------------------------------------------------------
(* Discovery: what is written to an array. *)

Rewritten(g, heap, a, new) == g = [heap EXCEPT ![a] = new]

LEMMA RewrittenIs ==
    ASSUME NEW S, NEW heap \in Seq(Seq(S)), NEW a \in 1..Len(heap), NEW new \in Seq(S),
           Len(new) = Len(heap[a]), NEW g, Rewritten(g, heap, a, new)
    PROVE  /\ g \in Seq(Seq(S)) /\ Len(g) = Len(heap) /\ g[a] = new
           /\ \A b \in 1..Len(heap) : b # a => g[b] = heap[b]
           /\ \A y : Fits(heap, y) => Fits(g, y)
<1>1. /\ g \in Seq(Seq(S)) /\ Len(g) = Len(heap) /\ g[a] = new
      /\ \A b \in 1..Len(heap) : b # a => g[b] = heap[b]
  BY ExceptSeq DEF Rewritten
<1>2. ASSUME NEW y, Fits(heap, y) PROVE Fits(g, y)
  <2>1. y \in Slices /\ y.array \in 1..Len(heap) /\ y.len <= Len(heap[y.array])
    BY <1>2 DEF Fits
  <2>2. Len(g[y.array]) = Len(heap[y.array])
    BY <1>1, <2>1
  <2> QED
    BY <1>1, <2>1, <2>2 DEF Fits
<1> QED
  BY <1>1, <1>2

LEMMA SameShownSame ==
    ASSUME NEW heap, NEW heap2, NEW y, Shown(heap2, y) = Shown(heap, y)
    PROVE  SameFeatures(heap, heap2, y)
BY DEF SameFeatures

(* The cells of a slice, as numbers.                                        *)
LEMMA SlicePartsAre ==
    ASSUME NEW heap \in Seq(Seq(Strings)), NEW x, Fits(heap, x)
    PROVE  /\ x.array \in 1..Len(heap) /\ x.array \in Nat /\ x.len \in Nat
           /\ heap[x.array] \in Seq(Strings) /\ x.len <= Len(heap[x.array])
BY DEF Fits, Slices

(* RemoveFeature's shift, in place.                                         *)
CellOf(c, x) == c \in 1..x.len
OneLess(z, x) == z \in Slices /\ z.array = x.array /\ z.len = x.len - 1
Shifted(old, c, n) == [k \in DOMAIN old |-> IF k \in c..(n - 1) THEN old[k + 1] ELSE old[k]]

Removed(g, heap, x, c) == Rewritten(g, heap, x.array, Shifted(heap[x.array], c, x.len))

LEMMA ShiftedIs ==
    ASSUME NEW heap \in Seq(Seq(Strings)), NEW x, Fits(heap, x), NEW c, CellOf(c, x),
           NEW g, Removed(g, heap, x, c),
           NEW z, OneLess(z, x)
    PROVE  /\ g \in Seq(Seq(Strings)) /\ Fits(g, z) /\ \A y : Fits(heap, y) => Fits(g, y)
           /\ Shorter(Shown(g, z), Shown(heap, x), c)
           /\ \A y : Fits(heap, y) /\ ~HitByRemoval(x, c, y) => Shown(g, y) = Shown(heap, y)
<1>1. PICK a \in Nat, n \in Nat : a = x.array /\ n = x.len /\ a \in 1..Len(heap)
  BY SlicePartsAre
<1>2. PICK old \in Seq(Strings) : old = heap[a] /\ n <= Len(old)
  BY <1>1, SlicePartsAre
<1>3. PICK m \in Nat : m = Len(old) /\ DOMAIN old = 1..m /\ n <= m
  BY <1>2
<1>4. c \in 1..n
  BY <1>1 DEF CellOf
<1>5. PICK new : new = Shifted(old, c, n)
  OBVIOUS
<1>6. /\ new \in [1..m -> Strings]
      /\ \A k \in 1..m : new[k] = IF k \in c..(n - 1) THEN old[k + 1] ELSE old[k]
  <2>1. new = [k \in 1..m |-> IF k \in c..(n - 1) THEN old[k + 1] ELSE old[k]]
    BY <1>3, <1>5 DEF Shifted
  <2>2. \A k \in 1..m : old[k] \in Strings
    BY <1>3
  <2>3. \A k \in 1..m : k \in c..(n - 1) => k + 1 \in 1..m
    BY <1>3, <1>4
  <2> QED
    BY <2>1, <2>2, <2>3
<1>7. new \in Seq(Strings) /\ Len(new) = m
  <2>1. new \in [1..m -> Strings]
    BY <1>6
  <2> QED
    BY <2>1
<1>8. Rewritten(g, heap, a, new) /\ Len(new) = Len(heap[a])
  <2>1. new = Shifted(heap[x.array], c, x.len)
    BY <1>1, <1>2, <1>5
  <2>2. Rewritten(g, heap, a, new)
    BY <1>1, <2>1 DEF Removed
  <2> QED
    BY <1>2, <1>3, <1>7, <2>2
<1>9. /\ g \in Seq(Seq(Strings)) /\ Len(g) = Len(heap) /\ g[a] = new
      /\ \A b \in 1..Len(heap) : b # a => g[b] = heap[b]
      /\ \A y : Fits(heap, y) => Fits(g, y)
  BY <1>1, <1>7, <1>8, RewrittenIs
<1>10. PICK q \in Nat : q = n - 1
  BY <1>4
<1>11. z \in Slices /\ z.array = a /\ z.len = q
  BY <1>1, <1>10 DEF OneLess
<1>12. Fits(g, z)
  BY <1>1, <1>3, <1>7, <1>9, <1>10, <1>11 DEF Fits
<1>13. Shorter(Shown(g, z), Shown(heap, x), c)
  <2>1. /\ Len(Shown(g, z)) = z.len
        /\ \A i \in 1..z.len : Shown(g, z)[i] = g[z.array][i]
    <3>1. SliceOf(z, g, Strings)
      BY <1>9, <1>12 DEF SliceOf
    <3>2. Contents(Shown(g, z), z, g, Strings)
      BY <3>1, ShownCells
    <3> QED
      BY <3>2 DEF Contents
  <2>2. /\ Len(Shown(heap, x)) = x.len
        /\ \A i \in 1..x.len : Shown(heap, x)[i] = heap[x.array][i]
    <3>1. SliceOf(x, heap, Strings)
      BY DEF SliceOf
    <3>2. Contents(Shown(heap, x), x, heap, Strings)
      BY <3>1, ShownCells
    <3> QED
      BY <3>2 DEF Contents
  <2>3. PICK t, s : t = Shown(g, z) /\ s = Shown(heap, x)
    OBVIOUS
  <2>4. Len(t) = q /\ \A i \in 1..q : t[i] = new[i]
    BY <1>9, <1>11, <2>1, <2>3
  <2>5. Len(s) = n /\ \A i \in 1..n : s[i] = old[i]
    BY <1>1, <1>2, <2>2, <2>3
  <2>6. ASSUME NEW k \in 1..q PROVE t[k] = IF k < c THEN s[k] ELSE s[k + 1]
    <3>1. k \in 1..m /\ k \in 1..n /\ k + 1 \in 1..n
      BY <1>3, <1>10
    <3>2. CASE k < c
      <4>1. k \notin c..(n - 1)
        BY <1>4, <3>2
      <4>2. t[k] = old[k]
        BY <1>6, <2>4, <3>1, <4>1
      <4> QED
        BY <2>5, <3>1, <3>2, <4>2
    <3>3. CASE ~(k < c)
      <4>1. k \in c..(n - 1)
        BY <1>4, <1>10, <3>3
      <4> QED
        BY <1>6, <2>4, <2>5, <3>1, <3>3, <4>1
    <3> QED
      BY <3>2, <3>3
  <2> QED
    BY <1>10, <2>3, <2>4, <2>5, <2>6 DEF Shorter
<1>14. ASSUME NEW y, Fits(heap, y), ~HitByRemoval(x, c, y) PROVE Shown(g, y) = Shown(heap, y)
  <2>1. y.array \in 1..Len(heap) /\ y.len \in Nat /\ y.len <= Len(heap[y.array])
    BY <1>14, SlicePartsAre
  <2>2. \A i \in 1..y.len : g[y.array][i] = heap[y.array][i]
    <3>1. CASE y.array # a
      BY <1>9, <2>1, <3>1
    <3>2. CASE y.array = a
      <4>1. y.len <= m
        BY <1>2, <1>3, <2>1, <3>2
      <4>2. ~(c < n) \/ ~(c <= y.len)
        BY <1>1, <1>14, <3>2 DEF HitByRemoval, Shows
      <4>3. \A i \in 1..y.len : i \in 1..m /\ i \notin c..(n - 1)
        BY <1>4, <2>1, <4>1, <4>2
      <4> QED
        BY <1>2, <1>6, <1>9, <3>2, <4>3
    <3> QED
      BY <3>1, <3>2
  <2>3. SameCells(heap, y, g, y)
    BY <2>2 DEF SameCells
  <2>4. Fits(g, y)
    BY <1>9, <1>14
  <2> QED
    BY <1>9, <1>14, <2>3, <2>4, SameShown
<1> QED
  BY <1>9, <1>12, <1>13, <1>14

(* LocalInfo's sort, in place.                                              *)
SortedCells(old, sorted, n) == [k \in DOMAIN old |-> IF k <= n THEN sorted[k] ELSE old[k]]

LEMMA SortedCellsIs ==
    ASSUME NEW heap \in Seq(Seq(Strings)), NEW x, Fits(heap, x),
           NEW g, Rewritten(g, heap, x.array, SortedCells(heap[x.array], Sorted(Shown(heap, x)), x.len))
    PROVE  /\ g \in Seq(Seq(Strings)) /\ \A y : Fits(heap, y) => Fits(g, y)
           /\ \A y : Fits(heap, y) /\ ~HitBySort(x, y) => SameFeatures(heap, g, y)
<1>1. PICK a \in Nat, n \in Nat : a = x.array /\ n = x.len /\ a \in 1..Len(heap)
  BY SlicePartsAre
<1>2. PICK old \in Seq(Strings) : old = heap[a] /\ n <= Len(old)
  BY <1>1, SlicePartsAre
<1>3. PICK m \in Nat : m = Len(old) /\ DOMAIN old = 1..m /\ n <= m
  BY ONLY <1>2
<1>4. PICK s \in Seq(Strings) : s = Shown(heap, x) /\ Len(s) = n /\ \A i \in 1..n : s[i] = old[i]
  <2>1. /\ Shown(heap, x) \in Seq(Strings) /\ Len(Shown(heap, x)) = x.len
        /\ \A i \in 1..x.len : Shown(heap, x)[i] = heap[x.array][i]
    <3>1. SliceOf(x, heap, Strings)
      BY DEF SliceOf
    <3>2. Contents(Shown(heap, x), x, heap, Strings)
      BY <3>1, ShownCells
    <3> QED
      BY <3>2 DEF Contents
  <2> QED
    BY <1>1, <1>2, <2>1
<1>5. PICK sorted \in Seq(Strings) : sorted = Sorted(s) /\ Len(sorted) = n
  BY <1>4, SortedMixes
<1>6. PICK p : Shuffles(p, n) /\ \A k \in 1..n : sorted[k] = s[p[k]]
  <2>1. PICK p : Shuffles(p, Len(s)) /\ \A k \in 1..Len(s) : Sorted(s)[k] = s[p[k]]
    BY SortedMixes
  <2>2. Shuffles(p, n) /\ \A k \in 1..n : sorted[k] = s[p[k]]
    BY <1>4, <1>5, <2>1
  <2> QED
    BY <2>2
<1>7. PICK new : new = SortedCells(old, sorted, n)
  OBVIOUS
<1>8. /\ new \in [1..m -> Strings]
      /\ \A k \in 1..m : new[k] = IF k <= n THEN sorted[k] ELSE old[k]
  <2>1. new = [k \in 1..m |-> IF k <= n THEN sorted[k] ELSE old[k]]
    BY <1>3, <1>7 DEF SortedCells
  <2>2. \A k \in 1..m : old[k] \in Strings
    BY <1>3
  <2>3. \A k \in 1..m : k <= n => sorted[k] \in Strings
    BY <1>5
  <2> QED
    BY <2>1, <2>2, <2>3
<1>9. new \in Seq(Strings) /\ Len(new) = m
  BY <1>8
<1>10. Rewritten(g, heap, a, new) /\ Len(new) = Len(heap[a])
  BY <1>1, <1>2, <1>3, <1>4, <1>5, <1>7, <1>9
<1>11. /\ g \in Seq(Seq(Strings)) /\ Len(g) = Len(heap) /\ g[a] = new
       /\ \A b \in 1..Len(heap) : b # a => g[b] = heap[b]
       /\ \A y : Fits(heap, y) => Fits(g, y)
  BY <1>1, <1>9, <1>10, RewrittenIs
<1>12. ASSUME NEW y, Fits(heap, y), ~HitBySort(x, y) PROVE SameFeatures(heap, g, y)
  <2>1. y.array \in 1..Len(heap) /\ y.len \in Nat /\ y.len <= Len(heap[y.array])
    BY <1>12, SlicePartsAre
  <2>2. Fits(g, y)
    BY <1>11, <1>12
  <2>3. CASE y.array # a \/ y.len = 0
    <3>1. \A i \in 1..y.len : g[y.array][i] = heap[y.array][i]
      <4>1. CASE y.array # a
        BY <1>11, <2>1, <4>1
      <4>2. CASE y.len = 0
        BY <4>2
      <4> QED
        BY <2>3, <4>1, <4>2
    <3>2. SameCells(heap, y, g, y)
      BY <3>1 DEF SameCells
    <3>3. Shown(g, y) = Shown(heap, y)
      BY <1>11, <1>12, <2>2, <3>2, SameShown
    <3> QED
      BY <3>3, SameShownSame
  <2>4. CASE y.array = a /\ y.len # 0
    <3>1. n <= y.len /\ y.len <= m
      <4>1. 1 <= y.len
        BY <2>1, <2>4
      <4> QED
        BY <1>1, <1>2, <1>3, <1>12, <2>1, <2>4, <4>1 DEF HitBySort, Shows
    <3>2. PICK u \in Seq(Strings) : u = Shown(heap, y) /\ Len(u) = y.len /\ \A i \in 1..y.len : u[i] = old[i]
      <4>1. /\ Shown(heap, y) \in Seq(Strings) /\ Len(Shown(heap, y)) = y.len
            /\ \A i \in 1..y.len : Shown(heap, y)[i] = heap[y.array][i]
        <5>1. SliceOf(y, heap, Strings)
          BY <1>12 DEF SliceOf
        <5>2. Contents(Shown(heap, y), y, heap, Strings)
          BY <5>1, ShownCells
        <5> QED
          BY <5>2 DEF Contents
      <4> QED
        BY <1>2, <2>4, <4>1
    <3>3. PICK t \in Seq(Strings) : t = Shown(g, y) /\ Len(t) = y.len /\ \A i \in 1..y.len : t[i] = new[i]
      <4>1. /\ Shown(g, y) \in Seq(Strings) /\ Len(Shown(g, y)) = y.len
            /\ \A i \in 1..y.len : Shown(g, y)[i] = g[y.array][i]
        <5>1. SliceOf(y, g, Strings)
          BY <1>11, <2>2 DEF SliceOf
        <5>2. Contents(Shown(g, y), y, g, Strings)
          BY <5>1, ShownCells
        <5> QED
          BY <5>2 DEF Contents
      <4> QED
        BY <1>11, <2>4, <4>1
    <3>4. ASSUME NEW k \in 1..y.len PROVE t[k] = IF k <= n THEN u[p[k]] ELSE u[k]
      <4>1. k \in 1..m
        BY <1>3, <2>1, <3>1
      <4>2. CASE k <= n
        <5>1. k \in 1..n
          BY <4>2
        <5>2. p[k] \in 1..n
          BY <1>6, <5>1 DEF Shuffles
        <5>3. p[k] \in 1..y.len
          BY <2>1, <3>1, <5>2
        <5>4. t[k] = sorted[k]
          BY <1>8, <3>3, <4>1, <4>2
        <5>5. t[k] = old[p[k]]
          BY <1>4, <1>6, <5>1, <5>2, <5>4
        <5> QED
          BY <3>2, <4>2, <5>3, <5>5
      <4>3. CASE ~(k <= n)
        BY <1>8, <3>2, <3>3, <4>1, <4>3
      <4> QED
        BY <4>2, <4>3
    <3>5. Mixed(t, u, p, n)
      BY <3>2, <3>3, <3>4 DEF Mixed
    <3>6. n <= Len(u) /\ Shuffles(p, n)
      BY <1>6, <3>1, <3>2
    <3>7. \A A : Exact(u, A) => Exact(t, A)
      BY <3>5, <3>6, ExactMixed
    <3> QED
      BY <3>2, <3>3, <3>7 DEF SameFeatures
  <2> QED
    BY <2>3, <2>4
<1> QED
  BY <1>11, <1>12
-----------------------------------------------------------------------------
(* Discovery: the calls. *)

LEMMA UpToIs ==
    /\ UpTo(1) = {} /\ UpTo(Len(PluginFeatures) + 1) = Range(PluginFeatures)
    /\ \A n \in 1..Len(PluginFeatures) : UpTo(n + 1) = UpTo(n) \cup {PluginFeatures[n]}
<1>1. PICK m \in Nat : m = Len(PluginFeatures) /\ DOMAIN PluginFeatures = 1..m
  BY PluginFeaturesAre
<1>2. UpTo(1) = {}
  BY DEF UpTo
<1>3. UpTo(m + 1) = Range(PluginFeatures)
  BY <1>1 DEF UpTo, Range
<1>4. ASSUME NEW n \in 1..m PROVE UpTo(n + 1) = UpTo(n) \cup {PluginFeatures[n]}
  <2>1. \A k : k \in 1..((n + 1) - 1) <=> k \in 1..(n - 1) \/ k = n
    OBVIOUS
  <2> QED
    BY <2>1 DEF UpTo
<1> QED
  BY <1>1, <1>2, <1>3, <1>4

LEMMA AppendedIs ==
    ASSUME NEW heap \in Seq(Seq(Strings)), NEW x, Fits(heap, x), NEW v \in Strings,
           NEW done, done = AppendTo(heap, x, v, Unused), v \notin Range(Shown(heap, x))
    PROVE  /\ done.heap \in Seq(Seq(Strings)) /\ Fits(done.heap, done.slice)
           /\ \A y : Fits(heap, y) => Fits(done.heap, y)
           /\ \A A : Exact(Shown(heap, x), A) => Exact(Shown(done.heap, done.slice), A \cup {v})
           /\ \A y : Fits(heap, y) /\ ~HitByAppend(x, y) => SameFeatures(heap, done.heap, y)
<1>1. Unused \in Strings
  BY DEF Strings
<1>2. /\ done.heap \in Seq(Seq(Strings)) /\ Fits(done.heap, done.slice)
      /\ Shown(done.heap, done.slice) = Append(Shown(heap, x), v)
      /\ \A y : Fits(heap, y) => Fits(done.heap, y)
      /\ \A y : Fits(heap, y) /\ Apart(y, x) => Shown(done.heap, y) = Shown(heap, y)
  BY <1>1, AppendToIs
<1>3. ASSUME NEW A, Exact(Shown(heap, x), A) PROVE Exact(Shown(done.heap, done.slice), A \cup {v})
  <2>1. PICK s \in Seq(Strings) : s = Shown(heap, x)
    BY ShownIs
  <2>2. PICK t : t = Append(s, v) /\ t = Shown(done.heap, done.slice)
    BY <1>2, <2>1
  <2>3. Exact(s, A) /\ v \notin Range(s)
    BY <1>3, <2>1
  <2>4. Exact(t, A \cup {v})
    BY <2>2, <2>3, ExactAppend
  <2> QED
    BY <2>2, <2>4
<1>4. ASSUME NEW y, Fits(heap, y), ~HitByAppend(x, y) PROVE SameFeatures(heap, done.heap, y)
  <2>1. x.len \in Nat /\ y.len \in Nat
    BY <1>4, SlicePartsAre
  <2>2. Apart(y, x)
    BY <1>4, <2>1 DEF HitByAppend, Shows, Apart
  <2>3. Shown(done.heap, y) = Shown(heap, y)
    BY <1>2, <1>4, <2>2
  <2>4. PICK heap2 : heap2 = done.heap
    OBVIOUS
  <2>5. SameFeatures(heap, heap2, y)
    BY <2>3, <2>4, SameShownSame
  <2> QED
    BY <2>4, <2>5
<1> QED
  BY <1>2, <1>3, <1>4


LEMMA AddFeatureKeeps ==
    ASSUME DiscoInv, NEW f \in Features, AddFeature(f)
    PROVE  DiscoInv'
<1>1. Change /\ added' = added \cup {f}
  BY DEF AddFeature
<1>2. arrays \in Seq(Seq(Strings)) /\ Fits(arrays, root) /\ \A j \in Infos : Fits(arrays, info[j].slice)
  BY DEF DiscoInv, DiscoTypes
<1>3. f \in Strings
  BY DEF Strings
<1>4. CASE f \in Range(Listed(root))
  <2>1. UNCHANGED <<arrays, root, misled>>
    BY <1>4 DEF AddFeature
  <2>2. arrays' \in Seq(Seq(Strings)) /\ Fits(arrays', root')
    BY <1>2, <2>1
  <2>3. misled' \subseteq Infos /\ added' \subseteq Features /\ misled \subseteq misled'
    BY <1>1, <2>1 DEF DiscoInv, DiscoTypes
  <2>4. \A y : Fits(arrays, y) => Fits(arrays', y)
    BY <2>1
  <2>5. ~spoilt => Exact(Shown(arrays', root'), added')
    <3> SUFFICES ASSUME ~spoilt PROVE Exact(Shown(arrays', root'), added')
      OBVIOUS
    <3>1. Exact(Shown(arrays, root), added)
      BY DEF DiscoInv, RegistrySound, Listed
    <3>2. f \in added
      BY <1>4, <3>1 DEF Exact, Listed
    <3>3. added' = added
      BY <1>1, <3>2
    <3> QED
      BY <2>1, <3>1, <3>3
  <2>6. \A j \in Infos : j \notin misled' => SameFeatures(arrays, arrays', info[j].slice)
    BY <2>1 DEF SameFeatures
  <2> QED
    BY <1>1, <2>2, <2>3, <2>4, <2>5, <2>6, ChangeKeeps
<1>5. CASE f \notin Range(Listed(root))
  <2>1. AppendFeature(f)
    BY <1>5 DEF AddFeature
  <2>2. PICK done : done = AppendTo(arrays, root, f, Unused)
    OBVIOUS
  <2>3. /\ arrays' = done.heap /\ root' = done.slice
        /\ misled' = misled \cup {i \in Infos : HitByAppend(root, info[i].slice)}
    BY <2>1, <2>2 DEF AppendFeature
  <2>4. f \notin Range(Shown(arrays, root))
    BY <1>5 DEF Listed
  <2>5. /\ done.heap \in Seq(Seq(Strings)) /\ Fits(done.heap, done.slice)
        /\ \A y : Fits(arrays, y) => Fits(done.heap, y)
        /\ \A A : Exact(Shown(arrays, root), A) => Exact(Shown(done.heap, done.slice), A \cup {f})
        /\ \A y : Fits(arrays, y) /\ ~HitByAppend(root, y) => SameFeatures(arrays, done.heap, y)
    BY <1>2, <1>3, <2>2, <2>4, AppendedIs
  <2>6. /\ arrays' \in Seq(Seq(Strings)) /\ Fits(arrays', root')
        /\ \A y : Fits(arrays, y) => Fits(arrays', y)
    BY <2>3, <2>5
  <2>7. misled \subseteq misled' /\ misled' \subseteq Infos /\ added' \subseteq Features
    BY <1>1, <2>3 DEF DiscoInv, DiscoTypes
  <2>8. ~spoilt => Exact(Shown(arrays', root'), added')
    BY <1>1, <2>3, <2>5 DEF DiscoInv, RegistrySound, Listed
  <2>9. ASSUME NEW j \in Infos, j \notin misled' PROVE SameFeatures(arrays, arrays', info[j].slice)
    <3>1. ~HitByAppend(root, info[j].slice)
      BY <2>3, <2>9
    <3> QED
      BY <1>2, <2>3, <2>5, <3>1
  <2> QED
    BY <1>1, <2>6, <2>7, <2>8, <2>9, ChangeKeeps
<1> QED
  BY <1>4, <1>5

LEMMA RemoveFeatureKeeps ==
    ASSUME DiscoInv, NEW f \in Features, RemoveFeature(f)
    PROVE  DiscoInv'
<1>1. Change /\ added' = added \ {f}
  BY DEF RemoveFeature
<1>2. arrays \in Seq(Seq(Strings)) /\ Fits(arrays, root) /\ \A j \in Infos : Fits(arrays, info[j].slice)
  BY DEF DiscoInv, DiscoTypes
<1>3. CASE f \notin Range(Listed(root)) /\ UNCHANGED <<arrays, root, misled>>
  <2>1. arrays' \in Seq(Seq(Strings)) /\ Fits(arrays', root')
    BY <1>2, <1>3
  <2>2. misled' \subseteq Infos /\ added' \subseteq Features /\ misled \subseteq misled'
    BY <1>1, <1>3 DEF DiscoInv, DiscoTypes
  <2>3. \A y : Fits(arrays, y) => Fits(arrays', y)
    BY <1>3
  <2>4. ~spoilt => Exact(Shown(arrays', root'), added')
    <3> SUFFICES ASSUME ~spoilt PROVE Exact(Shown(arrays', root'), added')
      OBVIOUS
    <3>1. Exact(Shown(arrays, root), added)
      BY DEF DiscoInv, RegistrySound, Listed
    <3>2. f \notin added
      BY <1>3, <3>1 DEF Exact, Listed
    <3>3. added' = added
      BY <1>1, <3>2
    <3> QED
      BY <1>3, <3>1, <3>3
  <2>5. \A j \in Infos : j \notin misled' => SameFeatures(arrays, arrays', info[j].slice)
    BY <1>3 DEF SameFeatures
  <2> QED
    BY <1>1, <2>1, <2>2, <2>3, <2>4, <2>5, ChangeKeeps
<1>4. ASSUME NEW c \in 1..root.len, Listed(root)[c] = f, RemoveCell(c) PROVE DiscoInv'
  <2>1. PICK g, z : g = arrays' /\ z = root'
    OBVIOUS
  <2>2. root.len \in Nat /\ root.array \in Nat
    BY <1>2, SlicePartsAre
  <2>3. OneLess(z, root)
    <3>1. PICK n \in Nat : n = root.len - 1
      BY <2>2
    <3>2. z = Slice(root.array, n)
      BY <1>4, <2>1, <3>1 DEF RemoveCell
    <3> QED
      BY <2>2, <3>1, <3>2, SliceIs DEF OneLess
  <2>4. Removed(g, arrays, root, c)
    BY <1>4, <2>1 DEF RemoveCell, Rewritten, Shifted, Removed
  <2>5. /\ g \in Seq(Seq(Strings)) /\ Fits(g, z) /\ \A y : Fits(arrays, y) => Fits(g, y)
        /\ Shorter(Shown(g, z), Shown(arrays, root), c)
        /\ \A y : Fits(arrays, y) /\ ~HitByRemoval(root, c, y) => Shown(g, y) = Shown(arrays, y)
    <3>1. /\ arrays \in Seq(Seq(Strings)) /\ Fits(arrays, root) /\ CellOf(c, root)
          /\ OneLess(z, root) /\ Removed(g, arrays, root, c)
      BY <1>2, <2>3, <2>4 DEF CellOf
    <3> QED
      BY ONLY <3>1, ShiftedIs
  <2>6. misled' = misled \cup {i \in Infos : HitByRemoval(root, c, info[i].slice)}
    BY <1>4 DEF RemoveCell
  <2>7. misled \subseteq misled' /\ misled' \subseteq Infos /\ added' \subseteq Features
    BY <1>1, <2>6 DEF DiscoInv, DiscoTypes
  <2>8. ~spoilt => Exact(Shown(arrays', root'), added')
    <3> SUFFICES ASSUME ~spoilt PROVE Exact(Shown(g, z), added \ {f})
      BY <1>1, <2>1
    <3>1. PICK s \in Seq(Strings) : s = Shown(arrays, root) /\ Len(s) = root.len
      BY <1>2, ShownIs
    <3>2. PICK t \in Seq(Strings) : t = Shown(g, z)
      BY <2>5, ShownIs
    <3>3. Exact(s, added) /\ Shorter(t, s, c) /\ c \in 1..Len(s) /\ s[c] = f
      BY <1>4, <2>5, <3>1, <3>2 DEF DiscoInv, RegistrySound, Listed
    <3>4. Exact(t, added \ {s[c]})
      BY <3>3, ExactShorter
    <3> QED
      BY <3>2, <3>3, <3>4
  <2>9. ASSUME NEW j \in Infos, j \notin misled' PROVE SameFeatures(arrays, arrays', info[j].slice)
    <3>1. ~HitByRemoval(root, c, info[j].slice)
      BY <2>6, <2>9
    <3>2. Shown(g, info[j].slice) = Shown(arrays, info[j].slice)
      BY <1>2, <2>5, <3>1
    <3>3. SameFeatures(arrays, g, info[j].slice)
      BY <3>2, SameShownSame
    <3> QED
      BY <2>1, <3>3
  <2>10. /\ arrays' \in Seq(Seq(Strings)) /\ Fits(arrays', root')
         /\ \A y : Fits(arrays, y) => Fits(arrays', y)
    BY <2>1, <2>5
  <2> QED
    BY <1>1, <2>7, <2>8, <2>9, <2>10, ChangeKeeps
<1> QED
  BY <1>3, <1>4 DEF RemoveFeature

LEMMA SetInfoKeeps ==
    ASSUME DiscoInv, NEW fs \in Lists, SetInfo(fs)
    PROVE  DiscoInv'
<1>2. /\ Change /\ arrays' = Append(arrays, fs) /\ root' = Slice(Len(arrays) + 1, Len(fs))
      /\ added' = Range(fs) /\ misled' = misled
  BY DEF SetInfo
<1>3. arrays \in Seq(Seq(Strings)) /\ Fits(arrays, root) /\ \A j \in Infos : Fits(arrays, info[j].slice)
  BY DEF DiscoInv, DiscoTypes
<1>4. fs \in Seq(Features) /\ Features \subseteq Strings
  BY DiscoAssumption DEF Strings
<1>1. PICK q \in Nat : q = Len(fs)
  BY <1>4
<1>5. fs \in Seq(Strings) /\ DOMAIN fs = 1..q /\ \A i \in 1..q : fs[i] \in Features
  BY <1>1, <1>4
<1>6. Range(fs) \subseteq Features
  BY <1>5 DEF Range
<1>7. IsInjective(fs)
  BY DiscoAssumption
<1>8. PICK heap2 : heap2 = arrays'
  OBVIOUS
<1>9. PICK n \in Nat : n = Len(arrays)
  BY <1>3
<1>10. /\ heap2 \in Seq(Seq(Strings)) /\ Len(heap2) = n + 1
       /\ heap2[n + 1] = fs /\ \A k \in 1..n : heap2[k] = arrays[k]
  <2>1. heap2 = Append(arrays, fs)
    BY <1>2, <1>8
  <2> QED
    BY <1>3, <1>5, <1>9, <2>1, AppendProperties
<1>11. PICK z : z = root'
  OBVIOUS
<1>12. z \in Slices /\ z.array = n + 1 /\ z.len = q
  <2>1. PICK a \in Nat, b \in Nat : a = n + 1 /\ b = q
    OBVIOUS
  <2>2. z = Slice(a, b)
    BY <1>1, <1>2, <1>9, <1>11, <2>1
  <2> QED
    BY <2>1, <2>2, SliceIs
<1>13. Fits(heap2, z)
  <2>1. z.array \in 1..Len(heap2) /\ heap2[z.array] = fs
    BY <1>10, <1>12
  <2>2. z.len <= Len(heap2[z.array])
    <3>1. z.len = q /\ Len(heap2[z.array]) = q
      BY <1>1, <1>12, <2>1
    <3> QED
      BY ONLY <3>1
  <2> QED
    BY <1>12, <2>1, <2>2 DEF Fits
<1>14. Shown(heap2, z) = fs
  <2>1. PICK t \in Seq(Strings) : t = Shown(heap2, z) /\ Len(t) = q /\ \A i \in 1..q : t[i] = fs[i]
    <3>1. /\ Shown(heap2, z) \in Seq(Strings) /\ Len(Shown(heap2, z)) = z.len
          /\ \A i \in 1..z.len : Shown(heap2, z)[i] = heap2[z.array][i]
      <4>1. SliceOf(z, heap2, Strings)
        BY <1>10, <1>13 DEF SliceOf
      <4>2. Contents(Shown(heap2, z), z, heap2, Strings)
        BY <4>1, ShownCells
      <4> QED
        BY <4>2 DEF Contents
    <3> QED
      BY <1>10, <1>12, <3>1
  <2>2. t = fs
    BY <1>1, <1>5, <2>1, SeqEqual
  <2> QED
    BY <2>1, <2>2
<1>15. ASSUME NEW y, Fits(arrays, y) PROVE Fits(heap2, y) /\ SameFeatures(arrays, heap2, y)
  <2>1. y.array \in 1..n /\ y.len \in Nat /\ y.len <= Len(arrays[y.array])
    BY <1>3, <1>9, <1>15, SlicePartsAre
  <2>2. y.array \in 1..(n + 1) /\ heap2[y.array] = arrays[y.array]
    BY <1>10, <2>1
  <2>3. Fits(heap2, y)
    BY <1>10, <1>15, <2>2 DEF Fits
  <2>4. Shown(heap2, y) = Shown(arrays, y)
    BY <2>2 DEF Shown
  <2>5. SameFeatures(arrays, heap2, y)
    BY <2>4, SameShownSame
  <2> QED
    BY <2>3, <2>5
<1>16. /\ arrays' \in Seq(Seq(Strings)) /\ Fits(arrays', root')
       /\ \A y : Fits(arrays, y) => Fits(arrays', y)
  BY <1>8, <1>10, <1>11, <1>13, <1>15
<1>17. misled \subseteq misled' /\ misled' \subseteq Infos /\ added' \subseteq Features
  BY <1>2, <1>6 DEF DiscoInv, DiscoTypes
<1>18. ~spoilt => Exact(Shown(arrays', root'), added')
  BY <1>2, <1>7, <1>8, <1>11, <1>14 DEF Exact
<1>19. \A j \in Infos : j \notin misled' => SameFeatures(arrays, arrays', info[j].slice)
  BY <1>3, <1>8, <1>15
<1> QED
  BY <1>2, <1>16, <1>17, <1>18, <1>19, ChangeKeeps

LEMMA LocalInfoKeeps ==
    ASSUME DiscoInv, NEW i \in Infos, LocalInfo(i)
    PROVE  DiscoInv'
<1>1. PICK e : e = Copied(root)
  OBVIOUS
<1>2. /\ info' = [info EXCEPT ![i] = e] /\ misled' = IF spoilt THEN misled \cup {i} ELSE misled
      /\ UNCHANGED <<arrays, root, discoChanges, added, spoilt>>
  BY <1>1 DEF LocalInfo
<1>3. /\ arrays \in Seq(Seq(Strings)) /\ Fits(arrays, root) /\ added \subseteq Features
      /\ spoilt \in BOOLEAN /\ misled \subseteq Infos
  BY DEF DiscoInv, DiscoTypes
<1>4. e.at = "merging" /\ e.slice = root /\ e.next = 1 /\ e.answer = <<>> /\ e.seen = added
  BY <1>1 DEF Copied
<1>5. e \in Entry
  <2>1. root \in Slices /\ <<>> \in Seq(Strings) /\ 1 \in Nat
    BY <1>3 DEF Fits
  <2> QED
    BY <1>1, <1>3, <2>1 DEF Copied, Entry
<1>6. Fits(arrays', e.slice) /\ e.next \in 1..(Len(PluginFeatures) + 1) /\ arrays' \in Seq(Seq(Strings))
  BY <1>2, <1>3, <1>4, PluginFeaturesAre
<1>7. misled \subseteq misled' /\ misled' \subseteq Infos /\ spoilt' \in BOOLEAN
  BY <1>2, <1>3
<1>8. SameFeatures(arrays, arrays', root) /\ \A j \in Infos \ {i} : SameFeatures(arrays, arrays', info[j].slice)
  BY <1>2 DEF SameFeatures
<1>9. i \notin misled' => Sound(arrays', e)
  <2> SUFFICES ASSUME i \notin misled' PROVE Sound(arrays, e)
    BY <1>2
  <2>1. ~spoilt
    BY <1>2
  <2>2. Exact(Shown(arrays, root), added)
    BY <2>1 DEF DiscoInv, RegistrySound, Listed
  <2>3. e.seen \cup UpTo(e.next) = added
    BY <1>4, UpToIs
  <2> QED
    BY <1>4, <2>2, <2>3 DEF Sound
<1>10. \A y : Fits(arrays, y) => Fits(arrays', y)
  BY <1>2
<1>11. ~spoilt' => ~spoilt /\ SameFeatures(arrays, arrays', root)
  BY <1>2, <1>8
<1>12. \A j \in Infos \ {i} : j \notin misled' => SameFeatures(arrays, arrays', info[j].slice)
  BY <1>8
<1>13. UNCHANGED <<root, added, discoChanges>>
  BY <1>2
<1> QED
  BY <1>2, <1>5, <1>6, <1>7, <1>9, <1>10, <1>11, <1>12, <1>13, WorkKeeps

LEMMA MergeFeatureKeeps ==
    ASSUME DiscoInv, NEW i \in Infos, MergeFeature(i)
    PROVE  DiscoInv'
<1>1. PICK x, n, f : x = info[i].slice /\ n = info[i].next /\ f = PluginFeatures[n]
  OBVIOUS
<1>2. /\ arrays \in Seq(Seq(Strings)) /\ Fits(arrays, root) /\ info[i] \in Entry /\ info \in [Infos -> Entry]
      /\ \A j \in Infos : Fits(arrays, info[j].slice)
      /\ spoilt \in BOOLEAN /\ misled \subseteq Infos
  BY DEF DiscoInv, DiscoTypes
<1>3. info[i].at = "merging" /\ n \in 1..Len(PluginFeatures) /\ n \in Nat /\ f \in Strings
  <2>1. info[i].at = "merging" /\ n <= Len(PluginFeatures) /\ n \in 1..(Len(PluginFeatures) + 1)
    BY <1>1 DEF MergeFeature, DiscoInv, DiscoTypes
  <2> QED
    BY <1>1, <2>1, PluginFeaturesAre
<1>4. n + 1 \in 1..(Len(PluginFeatures) + 1) /\ n + 1 \in Nat
  BY <1>3, PluginFeaturesAre
<1>5. UpTo(n + 1) = UpTo(n) \cup {f}
  BY <1>1, <1>3, UpToIs
<1>6. UNCHANGED <<root, added, discoChanges>>
  BY DEF MergeFeature
<1>7. i \notin misled => Exact(Shown(arrays, x), info[i].seen \cup UpTo(n))
  BY <1>1, <1>3 DEF DiscoInv, InfosSound, Sound
<1>8. CASE f \in Range(Listed(x))
  <2>1. info' = [info EXCEPT ![i].next = @ + 1] /\ UNCHANGED <<arrays, spoilt, misled>>
    BY <1>1, <1>8 DEF MergeFeature
  <2>2. PICK e : e = [info[i] EXCEPT !.next = n + 1]
    OBVIOUS
  <2>3. /\ e \in Entry /\ e.at = "merging" /\ e.slice = x /\ e.next = n + 1 /\ e.seen = info[i].seen
    BY <1>1, <1>2, <1>3, <1>4, <2>2 DEF Entry
  <2>4. info' = [info EXCEPT ![i] = e]
    BY <1>1, <1>2, <2>1, <2>2
  <2>5. i \notin misled' => Sound(arrays', e)
    <3> SUFFICES ASSUME i \notin misled PROVE Sound(arrays, e)
      BY <2>1
    <3>1. Exact(Shown(arrays, x), info[i].seen \cup UpTo(n))
      BY <1>7
    <3>2. f \in info[i].seen \cup UpTo(n)
      BY <1>8, <3>1 DEF Exact, Listed
    <3>3. info[i].seen \cup UpTo(n) = info[i].seen \cup UpTo(n + 1)
      BY <1>5, <3>2
    <3> QED
      BY <2>3, <3>1, <3>3 DEF Sound
  <2>6. /\ Fits(arrays', e.slice) /\ e.next \in 1..(Len(PluginFeatures) + 1) /\ arrays' \in Seq(Seq(Strings))
    BY <1>1, <1>2, <1>4, <2>1, <2>3
  <2>7. misled \subseteq misled' /\ misled' \subseteq Infos /\ spoilt' \in BOOLEAN
    BY <1>2, <2>1
  <2>8. ~spoilt' => ~spoilt /\ SameFeatures(arrays, arrays', root)
    BY <2>1 DEF SameFeatures
  <2>9. \A j \in Infos \ {i} : j \notin misled' => SameFeatures(arrays, arrays', info[j].slice)
    BY <2>1 DEF SameFeatures
  <2>10. \A y : Fits(arrays, y) => Fits(arrays', y)
    BY <2>1
  <2> QED
    BY <1>6, <2>3, <2>4, <2>5, <2>6, <2>7, <2>8, <2>9, <2>10, WorkKeeps
<1>9. CASE f \notin Range(Listed(x))
  <2>1. PICK done : done = AppendTo(arrays, x, f, Unused)
    OBVIOUS
  <2>2. /\ arrays' = done.heap
        /\ info' = [info EXCEPT ![i].next = @ + 1, ![i].slice = done.slice]
        /\ Hits(i, HitByAppend)
    BY <1>1, <1>9, <2>1 DEF MergeFeature
  <2>3. /\ spoilt' = (spoilt \/ HitByAppend(x, root))
        /\ misled' = misled \cup {j \in Infos \ {i} : HitByAppend(x, info[j].slice)}
    BY <1>1, <2>2 DEF Hits
  <2>4. Fits(arrays, x) /\ f \notin Range(Shown(arrays, x))
    BY <1>1, <1>2, <1>9 DEF Listed
  <2>5. /\ done.heap \in Seq(Seq(Strings)) /\ Fits(done.heap, done.slice)
        /\ \A y : Fits(arrays, y) => Fits(done.heap, y)
        /\ \A A : Exact(Shown(arrays, x), A) => Exact(Shown(done.heap, done.slice), A \cup {f})
        /\ \A y : Fits(arrays, y) /\ ~HitByAppend(x, y) => SameFeatures(arrays, done.heap, y)
    BY <1>2, <1>3, <2>1, <2>4, AppendedIs
  <2>6. PICK e : e = [info[i] EXCEPT !.next = n + 1, !.slice = done.slice]
    OBVIOUS
  <2>7. e \in Entry /\ e.at = "merging" /\ e.slice = done.slice /\ e.next = n + 1 /\ e.seen = info[i].seen
    <3>1. done.slice \in Slices
      BY <2>5 DEF Fits
    <3> QED
      BY <1>2, <1>3, <1>4, <2>6, <3>1 DEF Entry
  <2>8. info' = [info EXCEPT ![i] = e]
    BY <1>1, <1>2, <2>2, <2>6
  <2>9. i \notin misled' => Sound(arrays', e)
    <3> SUFFICES ASSUME i \notin misled PROVE Sound(done.heap, e)
      BY <2>2, <2>3
    <3>1. Exact(Shown(done.heap, done.slice), (info[i].seen \cup UpTo(n)) \cup {f})
      BY <1>7, <2>5
    <3>2. (info[i].seen \cup UpTo(n)) \cup {f} = info[i].seen \cup UpTo(n + 1)
      BY <1>5
    <3> QED
      BY <2>7, <3>1, <3>2 DEF Sound
  <2>10. /\ Fits(arrays', e.slice) /\ e.next \in 1..(Len(PluginFeatures) + 1) /\ arrays' \in Seq(Seq(Strings))
    BY <1>4, <2>2, <2>5, <2>7
  <2>11. misled \subseteq misled' /\ misled' \subseteq Infos
    BY <1>2, <2>3
  <2>12. spoilt' \in BOOLEAN
    BY <1>2, <2>3 DEF HitByAppend, Shows
  <2>13. ~spoilt' => ~spoilt /\ SameFeatures(arrays, arrays', root)
    BY <1>2, <2>2, <2>3, <2>5
  <2>14. ASSUME NEW j \in Infos \ {i}, j \notin misled' PROVE SameFeatures(arrays, arrays', info[j].slice)
    <3>1. ~HitByAppend(x, info[j].slice)
      BY <2>3, <2>14
    <3> QED
      BY <1>2, <2>2, <2>5, <3>1
  <2>15. \A y : Fits(arrays, y) => Fits(arrays', y)
    BY <2>2, <2>5
  <2> QED
    BY <1>6, <2>7, <2>8, <2>9, <2>10, <2>11, <2>12, <2>13, <2>14, <2>15, WorkKeeps
<1> QED
  BY <1>8, <1>9

LEMMA SortFeaturesKeeps ==
    ASSUME DiscoInv, NEW i \in Infos, SortFeatures(i)
    PROVE  DiscoInv'
<1>1. PICK x, g : x = info[i].slice /\ g = arrays'
  OBVIOUS
<1>2. /\ arrays \in Seq(Seq(Strings)) /\ Fits(arrays, root) /\ info[i] \in Entry /\ info \in [Infos -> Entry]
      /\ \A j \in Infos : Fits(arrays, info[j].slice)
      /\ spoilt \in BOOLEAN /\ misled \subseteq Infos
  BY DEF DiscoInv, DiscoTypes
<1>3. /\ info[i].at = "merging" /\ info[i].next > Len(PluginFeatures)
      /\ info[i].next \in 1..(Len(PluginFeatures) + 1)
  BY DEF SortFeatures, DiscoInv, DiscoTypes
<1>4. info[i].next = Len(PluginFeatures) + 1
  BY <1>3, PluginFeaturesAre
<1>5. /\ UNCHANGED <<root, added, discoChanges>> /\ info' = [info EXCEPT ![i].at = "sorted"]
      /\ Hits(i, HitBySort)
  BY DEF SortFeatures
<1>6. Rewritten(g, arrays, x.array, SortedCells(arrays[x.array], Sorted(Shown(arrays, x)), x.len))
  BY <1>1 DEF SortFeatures, Rewritten, SortedCells, Listed
<1>7. /\ g \in Seq(Seq(Strings)) /\ \A y : Fits(arrays, y) => Fits(g, y)
      /\ \A y : Fits(arrays, y) /\ ~HitBySort(x, y) => SameFeatures(arrays, g, y)
  <2>1. Fits(arrays, x)
    BY <1>1, <1>2
  <2> QED
    BY <1>2, <1>6, <2>1, SortedCellsIs
<1>8. /\ spoilt' = (spoilt \/ HitBySort(x, root))
      /\ misled' = misled \cup {j \in Infos \ {i} : HitBySort(x, info[j].slice)}
  BY <1>1, <1>5 DEF Hits
<1>9. PICK e : e = [info[i] EXCEPT !.at = "sorted"]
  OBVIOUS
<1>10. e \in Entry /\ e.at = "sorted" /\ e.slice = x /\ e.next = info[i].next /\ e.seen = info[i].seen
  BY <1>1, <1>2, <1>9 DEF Entry
<1>11. info' = [info EXCEPT ![i] = e]
  BY <1>2, <1>5, <1>9
<1>12. i \notin misled' => Sound(arrays', e)
  <2> SUFFICES ASSUME i \notin misled PROVE Sound(g, e)
    BY <1>1, <1>8
  <2>1. Exact(Shown(arrays, x), info[i].seen \cup UpTo(info[i].next))
    BY <1>1, <1>3 DEF DiscoInv, InfosSound, Sound
  <2>2. UpTo(info[i].next) = Range(PluginFeatures)
    BY <1>4, UpToIs
  <2>3. ~HitBySort(x, x)
    <3>1. x.len \in Nat
      BY <1>1, <1>2, SlicePartsAre
    <3> QED
      BY <3>1 DEF HitBySort, Shows
  <2>4. SameFeatures(arrays, g, x)
    BY <1>1, <1>2, <1>7, <2>3
  <2>5. Exact(Shown(g, x), info[i].seen \cup Range(PluginFeatures))
    BY <2>1, <2>2, <2>4 DEF SameFeatures
  <2> QED
    BY <1>10, <2>5 DEF Sound
<1>13. Fits(arrays', e.slice) /\ e.next \in 1..(Len(PluginFeatures) + 1) /\ arrays' \in Seq(Seq(Strings))
  BY <1>1, <1>2, <1>3, <1>7, <1>10
<1>14. misled \subseteq misled' /\ misled' \subseteq Infos
  BY <1>2, <1>8
<1>15. spoilt' \in BOOLEAN
  BY <1>2, <1>8 DEF HitBySort, Shows
<1>16. ~spoilt' => ~spoilt /\ SameFeatures(arrays, arrays', root)
  BY <1>1, <1>2, <1>7, <1>8
<1>17. ASSUME NEW j \in Infos \ {i}, j \notin misled' PROVE SameFeatures(arrays, arrays', info[j].slice)
  <2>1. ~HitBySort(x, info[j].slice)
    BY <1>8, <1>17
  <2> QED
    BY <1>1, <1>2, <1>7, <2>1
<1>18. \A y : Fits(arrays, y) => Fits(arrays', y)
  BY <1>1, <1>7
<1> QED
  BY <1>5, <1>10, <1>11, <1>12, <1>13, <1>14, <1>15, <1>16, <1>17, <1>18, WorkKeeps

(* There is an array from the start, so that the slice of a LocalInfo that  *)
(* is over fits.                                                            *)
LEMMA NothingFits ==
    ASSUME NEW heap \in Seq(Seq(Strings)), NEW x, Fits(heap, x)
    PROVE  Fits(heap, Nothing)
<1>1. 1 \in 1..Len(heap) /\ heap[1] \in Seq(Strings)
  BY SlicePartsAre
<1>2. PICK z : z = Nothing
  OBVIOUS
<1>3. z \in Slices /\ z.array = 1 /\ z.len = 0
  <2>1. PICK a \in Nat, b \in Nat : a = 1 /\ b = 0
    OBVIOUS
  <2>2. z = Slice(a, b)
    BY <1>2, <2>1 DEF Nothing
  <2> QED
    BY <2>1, <2>2, SliceIs
<1>4. Len(heap[1]) \in Nat
  BY <1>1
<1>5. Fits(heap, z)
  BY <1>1, <1>3, <1>4 DEF Fits
<1> QED
  BY <1>2, <1>5

LEMMA LocalInfoAnswersKeeps ==
    ASSUME DiscoInv, NEW i \in Infos, LocalInfoAnswers(i)
    PROVE  DiscoInv'
<1>1. PICK t : t = Listed(info[i].slice)
  OBVIOUS
<1>2. /\ arrays \in Seq(Seq(Strings)) /\ Fits(arrays, info[i].slice) /\ info[i] \in Entry /\ info \in [Infos -> Entry]
      /\ info[i].next \in 1..(Len(PluginFeatures) + 1) /\ spoilt \in BOOLEAN /\ misled \subseteq Infos
  BY DEF DiscoInv, DiscoTypes
<1>3. /\ info[i].at = "sorted" /\ UNCHANGED <<arrays, root, discoChanges, added, spoilt, misled>>
      /\ info' = [info EXCEPT ![i].at = "answered", ![i].slice = Nothing, ![i].answer = t]
  BY <1>1 DEF LocalInfoAnswers
<1>4. Fits(arrays, Nothing) /\ t \in Seq(Strings)
  <2>1. Fits(arrays, Nothing)
    BY <1>2, NothingFits
  <2>2. Shown(arrays, info[i].slice) \in Seq(Strings)
    BY <1>2, ShownIs
  <2> QED
    BY <1>1, <2>1, <2>2 DEF Listed
<1>5. PICK e : e = [info[i] EXCEPT !.at = "answered", !.slice = Nothing, !.answer = t]
  OBVIOUS
<1>6. /\ e \in Entry /\ e.at = "answered" /\ e.slice = Nothing /\ e.next = info[i].next
      /\ e.seen = info[i].seen /\ e.answer = t
  <2>1. Nothing \in Slices
    BY <1>4 DEF Fits
  <2> QED
    BY <1>2, <1>4, <1>5, <2>1 DEF Entry
<1>7. info' = [info EXCEPT ![i] = e]
  BY <1>2, <1>3, <1>5
<1>8. i \notin misled' => Sound(arrays', e)
  <2> SUFFICES ASSUME i \notin misled PROVE Sound(arrays, e)
    BY <1>3
  <2>1. Exact(t, info[i].seen \cup Range(PluginFeatures))
    BY <1>1, <1>3 DEF DiscoInv, InfosSound, Sound, Listed
  <2> QED
    BY <1>6, <2>1 DEF Sound
<1>9. Fits(arrays', e.slice) /\ e.next \in 1..(Len(PluginFeatures) + 1) /\ arrays' \in Seq(Seq(Strings))
  BY <1>2, <1>3, <1>4, <1>6
<1>10. misled \subseteq misled' /\ misled' \subseteq Infos /\ spoilt' \in BOOLEAN
  BY <1>2, <1>3
<1>11. ~spoilt' => ~spoilt /\ SameFeatures(arrays, arrays', root)
  BY <1>3 DEF SameFeatures
<1>12. \A j \in Infos \ {i} : j \notin misled' => SameFeatures(arrays, arrays', info[j].slice)
  BY <1>3 DEF SameFeatures
<1>13. (\A y : Fits(arrays, y) => Fits(arrays', y)) /\ UNCHANGED <<root, added, discoChanges>>
  BY <1>3
<1> QED
  BY <1>6, <1>7, <1>8, <1>9, <1>10, <1>11, <1>12, <1>13, WorkKeeps

-----------------------------------------------------------------------------
(* Discovery: the theorems. *)

LEMMA DiscoInitOK == DiscoInit => DiscoInv
<1> SUFFICES ASSUME DiscoInit PROVE DiscoInv
  OBVIOUS
<1> USE DEF DiscoInit
<1>1. PICK h : h = <<<<>>>>
  OBVIOUS
<1>2. <<>> \in Seq(Strings)
  OBVIOUS
<1>3. h \in Seq(Seq(Strings)) /\ Len(h) = 1 /\ h[1] = <<>>
  BY <1>1, <1>2
<1>4. PICK z : z = Nothing
  OBVIOUS
<1>5. z \in Slices /\ z.array = 1 /\ z.len = 0
  <2>1. PICK a \in Nat, b \in Nat : a = 1 /\ b = 0
    OBVIOUS
  <2>2. z = Slice(a, b)
    BY <1>4, <2>1 DEF Nothing
  <2> QED
    BY <2>1, <2>2, SliceIs
<1>6. Fits(h, z)
  BY <1>3, <1>5 DEF Fits
<1>7. NotAsked \in Entry /\ NotAsked.slice = z /\ NotAsked.next = 1 /\ NotAsked.at = "none"
  <2>1. 1 \in Nat
    OBVIOUS
  <2> QED
    BY <1>2, <1>4, <1>5, <2>1 DEF NotAsked, Entry
<1>8. DiscoTypes
  <2>1. arrays = h /\ root = z
    BY <1>1, <1>4
  <2>2. info \in [Infos -> Entry]
    BY <1>7
  <2>3. \A i \in Infos : Fits(arrays, info[i].slice) /\ info[i].next \in 1..(Len(PluginFeatures) + 1)
    BY <1>6, <1>7, <2>1, PluginFeaturesAre
  <2>4. discoChanges \in 0..MaxDiscoChanges
    BY DiscoAssumption
  <2>5. added \subseteq Features /\ spoilt \in BOOLEAN /\ misled \subseteq Infos
    OBVIOUS
  <2> QED
    BY <1>3, <1>6, <2>1, <2>2, <2>3, <2>4, <2>5 DEF DiscoTypes
<1>9. RegistrySound
  <2>1. Shown(h, z) = <<>>
    <3>1. PICK t \in Seq(Strings) : t = Shown(h, z) /\ Len(t) = 0
      BY <1>3, <1>5, <1>6, ShownIs
    <3>2. t = <<>>
      BY <3>1
    <3> QED
      BY <3>1, <3>2
  <2>2. Exact(Shown(arrays, root), added)
    BY <1>1, <1>4, <2>1, ExactEmpty
  <2> QED
    BY <2>2 DEF RegistrySound, Listed
<1>10. InfosSound
  BY <1>7 DEF InfosSound, Sound
<1> QED
  BY <1>8, <1>9, <1>10 DEF DiscoInv

LEMMA DiscoNextOK == DiscoInv /\ [DiscoNext]_discoVars => DiscoInv'
<1> SUFFICES ASSUME DiscoInv, [DiscoNext]_discoVars PROVE DiscoInv'
  OBVIOUS
<1>1. CASE UNCHANGED discoVars
  BY <1>1 DEF discoVars, DiscoInv, DiscoTypes, RegistrySound, InfosSound, Listed
<1>2. ASSUME NEW f \in Features, AddFeature(f) PROVE DiscoInv'
  BY <1>2, AddFeatureKeeps
<1>3. ASSUME NEW f \in Features, RemoveFeature(f) PROVE DiscoInv'
  BY <1>3, RemoveFeatureKeeps
<1>4. ASSUME NEW fs \in Lists, SetInfo(fs) PROVE DiscoInv'
  BY <1>4, SetInfoKeeps
<1>5. ASSUME NEW i \in Infos, LocalInfo(i) PROVE DiscoInv'
  BY <1>5, LocalInfoKeeps
<1>6. ASSUME NEW i \in Infos, MergeFeature(i) PROVE DiscoInv'
  BY <1>6, MergeFeatureKeeps
<1>7. ASSUME NEW i \in Infos, SortFeatures(i) PROVE DiscoInv'
  BY <1>7, SortFeaturesKeeps
<1>8. ASSUME NEW i \in Infos, LocalInfoAnswers(i) PROVE DiscoInv'
  BY <1>8, LocalInfoAnswersKeeps
<1> QED
  BY <1>1, <1>2, <1>3, <1>4, <1>5, <1>6, <1>7, <1>8 DEF DiscoNext

(* While no LocalInfo has written to a cell that the registry shows, the    *)
(* registry shows what was added; and a LocalInfo whose slice nobody else   *)
(* has written to shows what it copied and the plugin features it has       *)
(* merged, each once, in every step of its loop, after the sort and in the  *)
(* answer (Disco.AddFeature, RemoveFeature, SetInfo and LocalInfo).         *)
THEOREM DiscoInvHolds == DiscoSpec => []DiscoInv
<1>1. DiscoInit => DiscoInv
  BY DiscoInitOK
<1>2. DiscoInv /\ [DiscoNext]_discoVars => DiscoInv'
  BY DiscoNextOK
<1> QED
  BY <1>1, <1>2, PTL DEF DiscoSpec

(* Type correctness of the discovery registry: no slice of it, or of a      *)
(* LocalInfo, reaches beyond its array (Disco.LocalInfo's appends).         *)
THEOREM DiscoTypesHold == DiscoSpec => []DiscoTypeOK
<1>1. DiscoInv => DiscoTypeOK
  <2> SUFFICES ASSUME DiscoInv PROVE DiscoTypeOK
    OBVIOUS
  <2>1. arrays \in Seq(Seq(Strings)) /\ Fits(arrays, root)
    BY DEF DiscoInv, DiscoTypes
  <2>2. ASSUME NEW x, Fits(arrays, x) PROVE Within(x)
    <3>1. x.array \in 1..Len(arrays) /\ x.len \in Nat /\ x.len <= Len(arrays[x.array])
      BY <2>1, <2>2, SlicePartsAre DEF Fits, Slices
    <3>2. Len(arrays[x.array]) \in Nat
      BY <2>1, <3>1
    <3> QED
      BY <2>1, <3>1, <3>2 DEF Within
  <2>3. \A i \in Infos : /\ info[i] \in Entry /\ Fits(arrays, info[i].slice)
                         /\ info[i].next \in 1..(Len(PluginFeatures) + 1)
    BY DEF DiscoInv, DiscoTypes
  <2>4. \A i \in Infos : /\ info[i].at \in {"none", "merging", "sorted", "answered"}
                         /\ Within(info[i].slice) /\ info[i].next \in 1..(Len(PluginFeatures) + 1)
                         /\ info[i].answer \in Seq(Strings) /\ info[i].seen \subseteq Features
    <3> TAKE i \in Infos
    <3>1. Within(info[i].slice)
      BY <2>2, <2>3
    <3>2. info[i] \in Entry /\ info[i].next \in 1..(Len(PluginFeatures) + 1)
      BY <2>3
    <3>3. info[i].at \in {"none", "merging", "sorted", "answered"} /\ info[i].answer \in Seq(Strings)
      BY <3>2 DEF Entry
    <3>4. info[i].seen \subseteq Features
      BY <3>2 DEF Entry
    <3> QED
      BY <3>1, <3>2, <3>3, <3>4
  <2>5. Within(root)
    BY <2>1, <2>2
  <2>6. /\ discoChanges \in 0..MaxDiscoChanges /\ added \subseteq Features
        /\ spoilt \in BOOLEAN /\ misled \subseteq Infos
    BY DEF DiscoInv, DiscoTypes
  <2> QED
    BY <2>1, <2>4, <2>5, <2>6 DEF DiscoTypeOK
<1>2. DiscoSpec => []DiscoInv
  BY DiscoInvHolds
<1> QED
  BY <1>1, <1>2, PTL

(* The registry shows each feature that was added and not removed, once,    *)
(* until a LocalInfo has written to a cell that it shows, and an answer of  *)
(* LocalInfo has what had been added and the plugins' features, each once,  *)
(* unless another call has written to its slice (Disco.LocalInfo).          *)
THEOREM FeaturesKeptHolds == DiscoSpec => []FeaturesKept
<1>1. DiscoInv => FeaturesKept
  BY DEF DiscoInv, RegistrySound, InfosSound, Sound, Exact, FeaturesKept
<1>2. DiscoSpec => []DiscoInv
  BY DiscoInvHolds
<1> QED
  BY <1>1, <1>2, PTL
=============================================================================
