----------------------------- MODULE IqRequests -----------------------------
(***************************************************************************)
(* Client.RequestIQ and the part of the reader goroutine that serves it:   *)
(* the map of pending requests, the one-place channel of each call, the    *)
(* write mutex, the timeout, and the end of the stream.  Any number of     *)
(* goroutines call RequestIQ at once; a call in Inline is made by a        *)
(* synchronous stanza handler, so on the reader goroutine itself.          *)
(*                                                                         *)
(* A critical section of pendingMu or stateMu is one step.  Payloads, and  *)
(* the text of errors, are left out.  How Close reaches finish is module   *)
(* ClientLifecycle's subject; here it is the steps Break and Finish.       *)
(***************************************************************************)
EXTENDS Naturals, Sequences

CONSTANTS
    Calls,      \* calls of RequestIQ, each made once
    Inline,     \* those made by a handler on the reader goroutine
    AppIDs,     \* IDs an application puts into a request by itself
    NoCall,     \* no channel, nobody holds the mutex
    MaxSent,    \* bound: IQs the server sends
    CanStall    \* the peer may stop reading, so that a write blocks

ASSUME InlineAssumption == Inline \subseteq Calls
ASSUME NoCallAssumption == NoCall \notin Calls
ASSUME AppIDsAssumption == AppIDs \cap Nat = {}
ASSUME BoundsAssumption == MaxSent \in Nat /\ CanStall \in BOOLEAN

VARIABLES
    pc,        \* where each call stands
    id,        \* request.ID; NoID until the call has one
    ch,        \* the call's channel of capacity one: a set of at most one IQ
    got,       \* history: the IQ the call returned
    outcome,   \* what the call returns: a response or an error
    nextID,    \* Client.nextID
    pending,   \* Client.pending: an ID to the call that owns the channel
    writeMu,   \* the call holding Client.writeMu
    done,      \* finish ran: Client.conn is nil and Client.done is closed
    transport, \* "up", "stalled" (the peer does not read) or "broken"
    reader,    \* where readLoop stands
    rch,       \* the channel readLoop found in pending
    running,   \* the inline call a handler is in
    inbound,   \* IQs on their way to the client, oldest first
    asked,     \* the calls whose request reached the server
    sent       \* how many IQs the server sent

callVars   == <<pc, id, got, outcome>>
clientVars == <<nextID, pending, writeMu, done>>
readerVars == <<reader, rch, running>>
serverVars == <<asked, sent>>
vars == <<callVars, ch, clientVars, transport, readerVars, inbound, serverVars>>

NoID == 0
IDs  == Nat \cup AppIDs

\* An IQ from the server: a response (type result or error) or a request of its own
\* (get or set).  "for" is history: the call it answers.
IQ == [type : {"response", "request"}, id : IDs, for : Calls \cup {NoCall}]

\* A call holds a pending entry from its registration to its deferred delete.
Registered == {"send", "lock", "write", "wait", "cleanup"}
PCs == {"idle", "register", "returned"} \cup Registered
Outcomes == {"none", "response", "error"}

TypeOK ==
    /\ pc \in [Calls -> PCs]
    /\ id \in [Calls -> IDs]
    /\ ch \in [Calls -> SUBSET IQ] /\ got \in [Calls -> SUBSET IQ]
    /\ \A c \in Calls : \A m, n \in ch[c] : m = n
    /\ outcome \in [Calls -> Outcomes]
    /\ nextID \in Nat
    /\ DOMAIN pending \subseteq IDs /\ pending \in [DOMAIN pending -> Calls]
    /\ writeMu \in Calls \cup {NoCall}
    /\ done \in BOOLEAN
    /\ transport \in {"up", "stalled", "broken"}
    /\ reader \in {"loop", "read", "deliver", "dispatch", "handler", "stopped"}
    /\ rch \in Calls \cup {NoCall} /\ running \in Calls \cup {NoCall}
    /\ inbound \in Seq(IQ)
    /\ asked \subseteq Calls
    /\ sent \in Nat

Init ==
    /\ pc = [c \in Calls |-> "idle"]
    /\ id = [c \in Calls |-> NoID]
    /\ ch = [c \in Calls |-> {}] /\ got = [c \in Calls |-> {}]
    /\ outcome = [c \in Calls |-> "none"]
    /\ nextID = 0
    /\ pending = [i \in {} |-> NoCall]
    /\ writeMu = NoCall
    /\ done = FALSE
    /\ transport = "up"
    /\ reader = "loop" /\ rch = NoCall /\ running = NoCall
    /\ inbound = <<>>
    /\ asked = {} /\ sent = 0

-----------------------------------------------------------------------------
(* RequestIQ, in the caller's goroutine. *)

Goto(c, to) == pc' = [pc EXCEPT ![c] = to]

Result(c, what, to) == /\ Goto(c, to)
                       /\ outcome' = [outcome EXCEPT ![c] = what]

\* The ID of the request: the caller's own, or the next of the counter.
Enter(c, i) ==
    /\ pc[c] = "idle"
    /\ Goto(c, "register")
    /\ IF i = NoID THEN /\ nextID' = nextID + 1
                        /\ id' = [id EXCEPT ![c] = nextID + 1]
                   ELSE /\ id' = [id EXCEPT ![c] = i]
                        /\ UNCHANGED nextID
    /\ UNCHANGED <<ch, got, outcome, pending, writeMu, done, transport,
                   rch, inbound, serverVars>>

Begin(c, i) == /\ c \notin Inline
               /\ Enter(c, i)
               /\ UNCHANGED <<reader, running>>

\* A request that is neither get nor set is refused at once.
RejectType(c) ==
    /\ c \notin Inline /\ pc[c] = "idle"
    /\ Result(c, "error", "returned")
    /\ UNCHANGED <<id, ch, got, clientVars, transport, readerVars, inbound, serverVars>>

\* The channel enters the map, unless the ID is in use.
Register(c) ==
    /\ pc[c] = "register"
    /\ IF id[c] \in DOMAIN pending
       THEN /\ Result(c, "error", "returned")
            /\ UNCHANGED pending
       ELSE /\ pending' = [i \in DOMAIN pending \cup {id[c]} |->
                              IF i = id[c] THEN c ELSE pending[i]]
            /\ Goto(c, "send")
            /\ UNCHANGED outcome
    /\ UNCHANGED <<id, ch, got, nextID, writeMu, done, transport,
                   readerVars, inbound, serverVars>>

\* Send: refused without a connection (hasConn).
SendCheck(c) ==
    /\ pc[c] = "send"
    /\ IF ~done THEN Goto(c, "lock") /\ UNCHANGED outcome
               ELSE Result(c, "error", "cleanup")
    /\ UNCHANGED <<id, ch, got, clientVars, transport, readerVars, inbound, serverVars>>

\* writeRaw: writeMu is taken, then the connection is looked up again.
LockWrite(c) ==
    /\ pc[c] = "lock" /\ writeMu = NoCall
    /\ IF ~done THEN /\ writeMu' = c
                    /\ Goto(c, "write")
                    /\ UNCHANGED outcome
               ELSE /\ Result(c, "error", "cleanup")
                    /\ UNCHANGED writeMu
    /\ UNCHANGED <<id, ch, got, nextID, pending, done, transport,
                   readerVars, inbound, serverVars>>

\* conn.Write returns and the mutex is released.  It blocks while the peer does not
\* read; on a broken transport it fails, or succeeds into the local buffer.
WriteOK(c) ==
    /\ pc[c] = "write" /\ transport # "stalled"
    /\ asked' = IF transport = "up" THEN asked \cup {c} ELSE asked
    /\ Goto(c, "wait")
    /\ writeMu' = NoCall
    /\ UNCHANGED <<id, ch, got, outcome, nextID, pending, done, transport,
                   readerVars, inbound, sent>>

\* The mutex is not released on the error path.
WriteFailsLocked(c) ==
    /\ pc[c] = "write" /\ transport = "broken"
    /\ Result(c, "error", "cleanup")
    /\ UNCHANGED <<id, ch, got, clientVars, transport, readerVars, inbound, serverVars>>

WriteFails(c) ==
    /\ pc[c] = "write" /\ transport = "broken"
    /\ Result(c, "error", "cleanup")
    /\ writeMu' = NoCall
    /\ UNCHANGED <<id, ch, got, nextID, pending, done, transport,
                   readerVars, inbound, serverVars>>

\* The select statement: whichever of the three is ready.
TakeResponse(c) ==
    /\ pc[c] = "wait" /\ ch[c] # {}
    /\ got' = [got EXCEPT ![c] = ch[c]]
    /\ ch' = [ch EXCEPT ![c] = {}]
    /\ Result(c, "response", "cleanup")
    /\ UNCHANGED <<id, clientVars, transport, readerVars, inbound, serverVars>>

\* The context is done: every call has a deadline (IQTimeout is positive after
\* Config.normalized), so this may happen at any time and happens in the end.
TakeTimeout(c) ==
    /\ pc[c] = "wait"
    /\ Result(c, "error", "cleanup")
    /\ UNCHANGED <<id, ch, got, clientVars, transport, readerVars, inbound, serverVars>>

TakeClosed(c) ==
    /\ pc[c] = "wait" /\ done
    /\ Result(c, "error", "cleanup")
    /\ UNCHANGED <<id, ch, got, clientVars, transport, readerVars, inbound, serverVars>>

\* Leaves the entry behind, as without the deferred delete.
CleanupForgotten(c) ==
    /\ pc[c] = "cleanup"
    /\ Goto(c, "returned")
    /\ UNCHANGED <<id, ch, got, outcome, clientVars, transport, readerVars, inbound,
                   serverVars>>

\* The deferred delete, then the call returns.
Cleanup(c) ==
    /\ pc[c] = "cleanup"
    /\ pending' = [i \in DOMAIN pending \ {id[c]} |-> pending[i]]
    /\ Goto(c, "returned")
    /\ UNCHANGED <<id, ch, got, outcome, nextID, writeMu, done, transport,
                   readerVars, inbound, serverVars>>

-----------------------------------------------------------------------------
(* readLoop. *)

\* A server's request is looked up as if it were a response.
FindAny(m) == IF m.id \in DOMAIN pending THEN pending[m.id] ELSE NoCall

\* The channel for an IQ: only results and errors are looked up.
Find(m) == IF m.type = "response" /\ m.id \in DOMAIN pending THEN pending[m.id] ELSE NoCall

\* readTopLevelNode looks up the decoder, then reads: what it reads may come after done.
StartRead ==
    /\ reader = "loop" /\ ~done
    /\ reader' = "read"
    /\ UNCHANGED <<callVars, ch, clientVars, transport, rch, running, inbound, serverVars>>

ReadIQ ==
    /\ reader = "read" /\ inbound # <<>>
    /\ rch' = Find(Head(inbound))
    /\ reader' = "deliver"
    /\ UNCHANGED <<callVars, ch, clientVars, transport, running, inbound, serverVars>>

\* The channel takes a second IQ.
DeliverUnbounded ==
    /\ reader = "deliver"
    /\ ch' = IF rch # NoCall THEN [ch EXCEPT ![rch] = @ \cup {Head(inbound)}] ELSE ch
    /\ reader' = "dispatch"
    /\ UNCHANGED <<callVars, clientVars, transport, rch, running, inbound, serverVars>>

\* Waits for room in the channel.
DeliverBlocking ==
    /\ reader = "deliver"
    /\ rch # NoCall => ch[rch] = {}
    /\ ch' = IF rch # NoCall THEN [ch EXCEPT ![rch] = {Head(inbound)}] ELSE ch
    /\ reader' = "dispatch"
    /\ UNCHANGED <<callVars, clientVars, transport, rch, running, inbound, serverVars>>

\* The non-blocking send: an IQ for a full channel is dropped.
Deliver ==
    /\ reader = "deliver"
    /\ ch' = IF rch # NoCall /\ ch[rch] = {} THEN [ch EXCEPT ![rch] = {Head(inbound)}] ELSE ch
    /\ reader' = "dispatch"
    /\ UNCHANGED <<callVars, clientVars, transport, rch, running, inbound, serverVars>>

\* The handler hands its request to another goroutine's loop: the reader reads on.
InlineBeginAsync(c, i) ==
    /\ c \in Inline /\ reader = "dispatch" /\ running = NoCall
    /\ Enter(c, i)
    /\ UNCHANGED <<reader, running>>

\* dispatchStanza: a synchronous handler may call RequestIQ, and readLoop is in
\* that call until it returns.
InlineBegin(c, i) ==
    /\ c \in Inline /\ reader = "dispatch"
    /\ Enter(c, i)
    /\ reader' = "handler" /\ running' = c

InlineEnd ==
    /\ reader = "handler" /\ pc[running] = "returned"
    /\ reader' = "dispatch" /\ running' = NoCall
    /\ UNCHANGED <<callVars, ch, clientVars, transport, rch, inbound, serverVars>>

EndDispatch ==
    /\ reader = "dispatch"
    /\ inbound' = Tail(inbound)
    /\ reader' = "loop" /\ rch' = NoCall
    /\ UNCHANGED <<callVars, ch, clientVars, transport, running, serverVars>>

\* Client.finish: the connection is forgotten and done is closed, once.
Finished == done' = TRUE

\* The decoder is gone, or the read fails: readLoop returns through finish.
ReadStop ==
    /\ (reader = "loop" /\ done) \/ (reader = "read" /\ transport = "broken")
    /\ reader' = "stopped"
    /\ Finished
    /\ UNCHANGED <<callVars, ch, nextID, pending, writeMu, transport, rch, running, inbound,
                   serverVars>>

\* Close: the transport is closed (Break), then finish runs.
Finish ==
    /\ transport = "broken" /\ ~done
    /\ Finished
    /\ UNCHANGED <<callVars, ch, nextID, pending, writeMu, transport, readerVars, inbound,
                   serverVars>>

-----------------------------------------------------------------------------
(* The server and the network. *)

Break ==
    /\ transport # "broken"
    /\ transport' = "broken"
    /\ UNCHANGED <<callVars, ch, clientVars, readerVars, inbound, serverVars>>

Stall ==
    /\ CanStall /\ transport = "up"
    /\ transport' = "stalled"
    /\ UNCHANGED <<callVars, ch, clientVars, readerVars, inbound, serverVars>>

\* The server answers a request: late, in any order, more than once, or never.  It
\* makes up no response to a request it has not seen: readLoop goes by the ID alone
\* and never looks at who a response is from, so it would take one for the answer.
Answer(c) ==
    /\ transport # "broken" /\ c \in asked /\ sent < MaxSent
    /\ inbound' = Append(inbound, [type |-> "response", id |-> id[c], for |-> c])
    /\ sent' = sent + 1
    /\ UNCHANGED <<callVars, ch, clientVars, transport, readerVars, asked>>

\* The server's own requests draw their IDs independently, so one may have the ID
\* of a request of the client.
Push(c) ==
    /\ transport # "broken" /\ id[c] # NoID /\ sent < MaxSent
    /\ inbound' = Append(inbound, [type |-> "request", id |-> id[c], for |-> NoCall])
    /\ sent' = sent + 1
    /\ UNCHANGED <<callVars, ch, clientVars, transport, readerVars, asked>>

-----------------------------------------------------------------------------
CallStep(c) == \/ Register(c) \/ SendCheck(c) \/ LockWrite(c) \/ WriteOK(c) \/ WriteFails(c)
               \/ TakeResponse(c) \/ TakeTimeout(c) \/ TakeClosed(c) \/ Cleanup(c)

ReaderStep == StartRead \/ ReadIQ \/ Deliver \/ InlineEnd \/ EndDispatch \/ ReadStop

Next ==
    \/ \E c \in Calls : \/ CallStep(c) \/ RejectType(c) \/ Push(c) \/ Answer(c)
                        \/ \E i \in {NoID} \cup AppIDs : Begin(c, i) \/ InlineBegin(c, i)
    \/ ReaderStep
    \/ Finish \/ Break \/ Stall

Spec == Init /\ [][Next]_vars

\* Goroutines are scheduled, sync.Mutex does not starve its waiters, and a deadline
\* passes.  No step of the application, the server or the network is assumed to happen.
Fairness == /\ \A c \in Calls : /\ WF_vars(Register(c) \/ SendCheck(c))
                                /\ SF_vars(LockWrite(c))
                                /\ WF_vars(WriteOK(c) \/ WriteFails(c))
                                /\ WF_vars(TakeResponse(c) \/ TakeTimeout(c) \/ TakeClosed(c))
                                /\ WF_vars(Cleanup(c))
            /\ WF_vars(StartRead \/ ReadIQ \/ Deliver \/ InlineEnd \/ ReadStop)
            /\ SF_vars(EndDispatch)

FairSpec == Spec /\ Fairness

-----------------------------------------------------------------------------
(* Properties. *)

\* The pending map and the calls in progress agree both ways (client.go:421-428):
\* an entry belongs to a call that has that ID and has not yet returned, and every
\* such call is found under its ID.  So no call leaks an entry, takes over the
\* entry of another, or deletes it.
PendingOwned ==
    /\ \A i \in DOMAIN pending : id[pending[i]] = i /\ pc[pending[i]] \in Registered
    /\ \A c \in Calls : pc[c] \in Registered => /\ id[c] \in DOMAIN pending
                                                /\ pending[id[c]] = c

\* A call whose ID came from NextID returns the response to its own request
\* (client.go:433, 474-484): not a late response to an earlier call, not the second
\* response to another, not a request of the server that has the same ID.  This takes a
\* server that responds only to what it was asked (Answer).
OwnAnswer ==
    \A c \in Calls : id[c] \in Nat => \A m \in got[c] : m.for = c

\* A synchronous handler that calls RequestIQ cannot get a response: the goroutine
\* that would deliver it is the one that waits (client.go:485, 505, 433).
InlineNeverAnswered == \A c \in Inline : outcome[c] # "response"

\* Every call of RequestIQ returns (client.go:432-445).
CallsReturn == \A c \in Calls : (pc[c] # "idle") ~> (pc[c] = "returned")

\* readLoop gets past every stanza: responses nobody waits for, second responses
\* and requests made by handlers do not hold it up for ever (client.go:478-485).
ReaderProgress == (reader # "read") ~> (reader \in {"read", "stopped"})

-----------------------------------------------------------------------------
(* What the caller sees of it is IqCall. *)

StatusOf(p, o) == CASE p \in {"idle", "register"} -> "idle"
                    [] p \notin {"idle", "register"} /\ o = "none" -> "open"
                    [] p \notin {"idle", "register"} /\ o = "response" -> "answered"
                    [] p \notin {"idle", "register"} /\ o = "error" -> "failed"

Status == [c \in Calls |-> StatusOf(pc[c], outcome[c])]

Call == INSTANCE IqCall WITH status <- Status, reached <- asked

\* RequestIQ implements IqCall: a call closes once, with an answer only if its
\* request reached the server, and does close.
ImplementsIqCall == Call!Spec
=============================================================================
