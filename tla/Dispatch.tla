------------------------------ MODULE Dispatch ------------------------------
(***************************************************************************)
(* The two registries of callbacks of a Client and how they are called:    *)
(* EventBus (On, Once, Off, Emit) and the stanza handlers (AddHandler,     *)
(* RemoveHandler, dispatchStanza).  The reader goroutine dispatches one    *)
(* stanza after the other; other goroutines emit events at the same time;  *)
(* callbacks register, remove and emit while they run.                     *)
(*                                                                         *)
(* A critical section of a registry's mutex is one step.  The stanza       *)
(* handlers are the list "handlers", the subscriptions to an event a list  *)
(* with the event's name; "*" is the list for all events.                  *)
(***************************************************************************)
EXTENDS Selections, SequencesExt

CONSTANTS
    Entries,    \* subscriptions and handlers, each registered once
    List,       \* the list each one is registered in
    Priority,   \* Priority, Once and Async of each one
    Once,
    Async,
    Matching,   \* the stanza handlers whose Matcher matches the stanzas received
    Reader,     \* the reader goroutine
    Threads,    \* all goroutines that emit
    MaxWork,    \* bound: stanzas received and events emitted
    MaxDepth    \* bound: Emit inside a callback inside an Emit

ASSUME EntriesAssumption == /\ Priority \in [Entries -> Nat]
                            /\ Once \subseteq Entries /\ Async \subseteq Entries
ASSUME ThreadsAssumption == Reader \in Threads /\ MaxWork \in Nat

\* The events of a stanza of one kind; the last only if the stanza has a type.
StanzaEvents == {"received_stanza", "stanza", "message", "message_chat"}
Lists == {List[e] : e \in Entries} \cup {"handlers", "*", "error"} \cup StanzaEvents
Events == ({List[e] : e \in Entries} \cup {"error"}) \ {"handlers", "*"}

VARIABLES
    registry,  \* EventBus.handlers and handlerRegistry.handlers
    status,    \* of each entry: "new", "on" or "off"
    arrival,   \* history: each list in the order of registration
    phases,    \* what the reader has still to do for the current stanza
    stack,     \* the dispatch loops each goroutine is in, innermost last
    fired,     \* history: the one-shot entries that were called
    spawned,   \* entries running on goroutines of their own
    work

vars == <<registry, status, arrival, phases, stack, fired, spawned, work>>

\* A loop over a snapshot: what it has called, what is left, and whether the first of
\* those is being called.  before is history: fired when the snapshot was taken.
Loop == [list : Lists, ran : Seq(Entries), items : Seq(Entries),
         pc : {"next", "run", "calling"}, before : SUBSET Entries]

TypeOK ==
    /\ registry \in [Lists -> Seq(Entries)]
    /\ status \in [Entries -> {"new", "on", "off"}]
    /\ arrival \in [Lists -> Seq(Entries)]
    /\ phases \in Seq(Lists)
    /\ stack \in [Threads -> Seq(Loop)]
    /\ fired \subseteq Once
    /\ spawned \subseteq Async
    /\ work \in 0..MaxWork

Init ==
    /\ registry = [l \in Lists |-> <<>>] /\ status = [e \in Entries |-> "new"]
    /\ arrival = [l \in Lists |-> <<>>] /\ phases = <<>> /\ stack = [t \in Threads |-> <<>>]
    /\ fired = {} /\ spawned = {} /\ work = 0

\* Later registrations first among equals.
SortUnstable(s) ==
    LET before == {p \in (DOMAIN s) \X (DOMAIN s) :
                       \/ Priority[s[p[1]]] < Priority[s[p[2]]]
                       \/ Priority[s[p[1]]] = Priority[s[p[2]]] /\ p[1] > p[2]}
    IN [k \in DOMAIN s |-> s[Nth(DOMAIN s, before, k)]]

\* By priority, and among equals as they are.
Stably(s) == {p \in (DOMAIN s) \X (DOMAIN s) :
                  \/ Priority[s[p[1]]] < Priority[s[p[2]]]
                  \/ Priority[s[p[1]]] = Priority[s[p[2]]] /\ p[1] < p[2]}

\* sort.SliceStable.
SortStable(s) == [k \in DOMAIN s |-> s[Nth(DOMAIN s, Stably(s), k)]]

\* The handlers of a list whose Matcher matches, as they are.
MatchingAt(s) == {i \in DOMAIN s : s[i] \in Matching}
Matched(s) == Only(s, MatchingAt(s))

-----------------------------------------------------------------------------
(* Registration. *)

\* On, and add of the stanza handlers: the entry is appended and the list sorted.
On(e) ==
    /\ status[e] = "new"
    /\ registry' = [registry EXCEPT ![List[e]] = SortStable(Append(@, e))]
    /\ status' = [status EXCEPT ![e] = "on"]
    /\ arrival' = [arrival EXCEPT ![List[e]] = Append(@, e)]
    /\ UNCHANGED <<phases, stack, fired, spawned, work>>

\* Off and remove: the entry is looked for by its id, and may be gone already.
Removed(l, e) == RemoveFirst(l, e)

Off(e) ==
    /\ status[e] = "on"
    /\ registry' = [registry EXCEPT ![List[e]] = Removed(@, e)]
    /\ status' = [status EXCEPT ![e] = "off"]
    /\ arrival' = [arrival EXCEPT ![List[e]] = Removed(@, e)]
    /\ UNCHANGED <<phases, stack, fired, spawned, work>>

-----------------------------------------------------------------------------
(* Dispatch. *)

\* The subscriptions to all events come last.
SnapshotAppended(l) == IF l = "handlers" THEN Matched(registry[l])
                                         ELSE registry[l] \o registry["*"]

\* The snapshot an Emit or a dispatch takes.  Of the handlers only those that match
\* are called; subscriptions to "*" are sorted in with those to the event.
Snapshot(l) == IF l = "handlers" THEN Matched(registry[l])
                                 ELSE SortStable(registry[l] \o registry["*"])

NewLoop(l) == [list |-> l, ran |-> <<>>, items |-> Snapshot(l), pc |-> "next", before |-> fired]
Top(t) == Last(stack[t])
In(t, pc) == stack[t] # <<>> /\ Top(t).pc = pc
SetTop(t, loop) == stack' = [stack EXCEPT ![t] = Append(Front(@), loop)]
Push(t, l) == stack' = [stack EXCEPT ![t] = Append(@, NewLoop(l))]

\* readLoop has a stanza: received_stanza, the handlers, stanza, and the events of its
\* kind, in this order (OnMessage and its like are called in between).
Receive ==
    /\ phases = <<>> /\ stack[Reader] = <<>> /\ work < MaxWork
    /\ \E typed \in {<<>>, <<"message_chat">>} :
          phases' = <<"received_stanza", "handlers", "stanza", "message">> \o typed
    /\ work' = work + 1
    /\ UNCHANGED <<registry, status, arrival, stack, fired, spawned>>

NextPhase ==
    /\ phases # <<>> /\ stack[Reader] = <<>>
    /\ Push(Reader, Head(phases))
    /\ phases' = Tail(phases)
    /\ UNCHANGED <<registry, status, arrival, fired, spawned, work>>

\* Emit by a goroutine of the application, or by a callback that is running.
Emit(t, l) ==
    /\ work < MaxWork /\ Len(stack[t]) < MaxDepth
    /\ (stack[t] = <<>> /\ t # Reader) \/ In(t, "calling")
    /\ Push(t, l)
    /\ work' = work + 1
    /\ UNCHANGED <<registry, status, arrival, phases, fired, spawned>>

\* A one-shot entry stays registered until it has returned.
TakeKeeping(t) ==
    /\ In(t, "next") /\ Top(t).items # <<>>
    /\ fired' = fired \cup ({Head(Top(t).items)} \cap Once)
    /\ SetTop(t, [Top(t) EXCEPT !.pc = "run"])
    /\ UNCHANGED <<registry, status, arrival, phases, spawned, work>>

\* The next of the snapshot; a one-shot entry is removed before it is called.
Take(t) ==
    /\ In(t, "next") /\ Top(t).items # <<>>
    /\ LET e == Head(Top(t).items)
       IN IF e \in Once
          THEN /\ registry' = [registry EXCEPT ![List[e]] = Removed(@, e)]
               /\ status' = [status EXCEPT ![e] = "off"]
               /\ arrival' = [arrival EXCEPT ![List[e]] = Removed(@, e)]
               /\ fired' = fired \cup {e}
          ELSE UNCHANGED <<registry, status, arrival, fired>>
    /\ SetTop(t, [Top(t) EXCEPT !.pc = "run"])
    /\ UNCHANGED <<phases, spawned, work>>

Advance(loop) == [loop EXCEPT !.pc = "next", !.items = Tail(@), !.ran = Append(@, Head(loop.items))]

\* An asynchronous entry gets a goroutine, a synchronous one is called here.
Run(t) ==
    /\ In(t, "run")
    /\ LET e == Head(Top(t).items)
       IN IF e \in Async
          THEN SetTop(t, Advance(Top(t))) /\ spawned' = spawned \cup {e}
          ELSE SetTop(t, [Top(t) EXCEPT !.pc = "calling"]) /\ UNCHANGED spawned
    /\ UNCHANGED <<registry, status, arrival, phases, fired, work>>

\* The callback returns.  An error of a stanza handler is reported at once, which is an
\* event; one of a subscription is left to the caller of Emit.
Return(t, failed) ==
    /\ In(t, "calling")
    /\ failed => Top(t).list = "handlers"
    /\ stack' = [stack EXCEPT ![t] = Append(Front(@), Advance(Top(t))) \o
                                     IF failed THEN <<NewLoop("error")>> ELSE <<>>]
    /\ UNCHANGED <<registry, status, arrival, phases, fired, spawned, work>>

LoopEnd(t) ==
    /\ In(t, "next") /\ Top(t).items = <<>>
    /\ stack' = [stack EXCEPT ![t] = Front(@)]
    /\ UNCHANGED <<registry, status, arrival, phases, fired, spawned, work>>

AsyncEnd(e) ==
    /\ e \in spawned
    /\ spawned' = spawned \ {e}
    /\ UNCHANGED <<registry, status, arrival, phases, stack, fired, work>>

-----------------------------------------------------------------------------
Next ==
    \/ \E e \in Entries : On(e) \/ Off(e) \/ AsyncEnd(e)
    \/ Receive \/ NextPhase
    \/ \E t \in Threads : \/ Take(t) \/ Run(t) \/ LoopEnd(t)
                          \/ \E failed \in BOOLEAN : Return(t, failed)
                          \/ \E l \in Events : Emit(t, l)

Spec == Init /\ [][Next]_vars

-----------------------------------------------------------------------------
(* Properties. *)

RunsBefore(l, e, f) ==
    \/ Priority[e] < Priority[f]
    \/ Priority[e] = Priority[f] /\ \E i, j \in DOMAIN arrival[l] :
           i < j /\ arrival[l][i] = e /\ arrival[l][j] = f

\* Each list holds exactly the entries that were registered and not removed, once each,
\* by priority and among equals by registration, although callbacks remove themselves
\* and others from lists that are being dispatched (events.go:57-61, 76-88;
\* handler.go:39-43, 50-56).
RegistryExact ==
    \A l \in Lists :
        /\ ToSet(registry[l]) = {e \in Entries : List[e] = l /\ status[e] = "on"}
        /\ \A i, j \in DOMAIN registry[l] : i < j => RunsBefore(l, registry[l][i], registry[l][j])

\* "Emit invokes synchronous handlers in priority order" (events.go:90), those of "*"
\* among the others, whatever is registered or removed meanwhile.
PriorityOrder ==
    \A t \in Threads : \A k \in DOMAIN stack[t] :
        LET all == stack[t][k].ran \o stack[t][k].items
        IN \A i, j \in DOMAIN all : i < j => Priority[all[i]] <= Priority[all[j]]

\* No dispatch that begins after a one-shot entry was called calls it again, an Emit
\* by that very callback included (events.go:103-105; client.go:494-496).
OnceConsumed ==
    \A t \in Threads : \A k \in DOMAIN stack[t] :
        stack[t][k].pc # "next" => Head(stack[t][k].items) \notin stack[t][k].before

=============================================================================
