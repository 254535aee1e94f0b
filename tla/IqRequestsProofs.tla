-------------------------- MODULE IqRequestsProofs --------------------------
(***************************************************************************)
(* Proofs about IqRequests for any number of calls, IDs and server IQs.    *)
(***************************************************************************)
EXTENDS IqRequests, TLAPS

(* What each IQ under way to a caller is: the response to a request that    *)
(* reached the server, under the ID that request still has.                 *)
Genuine(m) == /\ m.type = "response"
              /\ m.for \in asked
              /\ m.id = id[m.for]

(* A call has an ID from the step that gives it one; IDs drawn from NextID  *)
(* are no larger than the counter and belong to one call each.              *)
IDsInv ==
    /\ \A c \in Calls : pc[c] = "idle" => id[c] = NoID
    /\ \A c \in Calls : pc[c] \in Registered \cup {"register"} => id[c] # NoID
    /\ \A c \in asked : id[c] # NoID
    /\ \A c \in Calls : id[c] \in Nat => id[c] <= nextID
    /\ \A c, d \in Calls : id[c] \in Nat /\ id[c] # NoID /\ id[c] = id[d] => c = d

(* The server makes responses only to what reached it.                      *)
InboundInv == \A k \in 1..Len(inbound) : inbound[k].type = "response" => Genuine(inbound[k])

(* Only IQs with the call's own ID get into its channel.                    *)
ChannelInv == \A c \in Calls : \A m \in ch[c] \cup got[c] : Genuine(m) /\ m.id = id[c]

(* The channel readLoop holds on to, with pendingMu released, is that of a  *)
(* call with the ID of the IQ in hand, whether or not it still waits.       *)
ReaderInv ==
    /\ reader \in {"deliver", "dispatch", "handler"} => inbound # <<>>
    /\ rch # NoCall => /\ inbound # <<>>
                       /\ Genuine(Head(inbound))
                       /\ Head(inbound).id = id[rch]

(* The inductive invariant.                                                 *)
IInv == TypeOK /\ PendingOwned /\ IDsInv /\ InboundInv /\ ChannelInv /\ ReaderInv

(* A new client, with an empty pending map and no request under way         *)
(* (client.go: New), satisfies the invariant.                               *)
LEMMA InitIInv == Init => IInv
<1> SUFFICES ASSUME Init PROVE IInv
  OBVIOUS
<1> USE DEF Init
<1>1. TypeOK
  <2>1. DOMAIN pending = {} /\ pending \in [DOMAIN pending -> Calls]
    OBVIOUS
  <2>2. inbound \in Seq(IQ)
    OBVIOUS
  <2>3. /\ pc \in [Calls -> PCs] /\ outcome \in [Calls -> Outcomes]
        /\ id \in [Calls -> IDs]
    BY DEF PCs, Outcomes, IDs, NoID
  <2>4. /\ ch \in [Calls -> SUBSET IQ] /\ got \in [Calls -> SUBSET IQ]
        /\ \A c \in Calls : \A m, n \in ch[c] : m = n
    OBVIOUS
  <2> QED
    BY <2>1, <2>2, <2>3, <2>4 DEF TypeOK
<1>2. PendingOwned
  BY DEF PendingOwned, Registered
<1>3. IDsInv
  BY DEF IDsInv, Registered, NoID
<1>4. InboundInv /\ ChannelInv /\ ReaderInv
  BY DEF InboundInv, ChannelInv, ReaderInv
<1> QED
  BY <1>1, <1>2, <1>3, <1>4 DEF IInv

(* A step of RequestIQ that moves no IQ and leaves the reader alone keeps   *)
(* what is known of the IQs under way (client.go:421-431, 438-445).         *)
LEMMA QuietStep ==
  ASSUME IInv, asked \subseteq asked',
         UNCHANGED <<id, ch, got, inbound, reader, rch>>
  PROVE  InboundInv' /\ ChannelInv' /\ ReaderInv'
<1>1. \A m : Genuine(m) => Genuine(m)'
  BY DEF Genuine
<1> QED
  BY <1>1 DEF IInv, InboundInv, ChannelInv, ReaderInv

(* Every step of a caller (client.go:405-446), of readLoop (451-487), of    *)
(* the shutdown and of the server keeps the invariant.                      *)
LEMMA NextIInv == IInv /\ [Next]_vars => IInv'
<1> SUFFICES ASSUME IInv, [Next]_vars PROVE IInv'
  OBVIOUS
<1> USE NoCallAssumption, AppIDsAssumption
    DEF IInv, NoID, callVars, clientVars, readerVars, serverVars
<1>1. ASSUME NEW c \in Calls, Register(c) PROVE IInv'
  <2>1. TypeOK'
    <3>1. pc' \in [Calls -> PCs] /\ outcome' \in [Calls -> Outcomes]
      BY <1>1 DEF Register, Result, Goto, TypeOK, PCs, Registered, Outcomes
    <3>2. DOMAIN pending' \subseteq IDs /\ pending' \in [DOMAIN pending' -> Calls]
      BY <1>1 DEF Register, TypeOK
    <3> QED
      BY <1>1, <3>1, <3>2 DEF Register, TypeOK
  <2>2. PendingOwned'
    BY <1>1 DEF Register, Result, Goto, TypeOK, PendingOwned, Registered
  <2>3. IDsInv'
    BY <1>1 DEF Register, Result, Goto, TypeOK, IDsInv, Registered
  <2>4. InboundInv' /\ ChannelInv' /\ ReaderInv'
    BY <1>1, QuietStep DEF Register, Result, Goto
  <2> QED
    BY <2>1, <2>2, <2>3, <2>4
<1>2. ASSUME NEW c \in Calls, RejectType(c) PROVE IInv'
  <2>1. TypeOK'
    BY <1>2 DEF RejectType, Result, Goto, TypeOK, IDs, PCs, Registered, Outcomes
  <2>2. PendingOwned'
    BY <1>2 DEF RejectType, Result, Goto, TypeOK, PendingOwned, Registered
  <2>3. IDsInv'
    BY <1>2 DEF RejectType, Result, Goto, TypeOK, IDsInv, Registered
  <2>4. InboundInv' /\ ChannelInv' /\ ReaderInv'
    BY <1>2, QuietStep DEF RejectType, Result, Goto
  <2> QED
    BY <2>1, <2>2, <2>3, <2>4
<1>3. ASSUME NEW c \in Calls, SendCheck(c) PROVE IInv'
  <2>1. TypeOK'
    BY <1>3 DEF SendCheck, Result, Goto, TypeOK, IDs, PCs, Registered, Outcomes
  <2>2. PendingOwned'
    BY <1>3 DEF SendCheck, Result, Goto, TypeOK, PendingOwned, Registered
  <2>3. IDsInv'
    BY <1>3 DEF SendCheck, Result, Goto, TypeOK, IDsInv, Registered
  <2>4. InboundInv' /\ ChannelInv' /\ ReaderInv'
    BY <1>3, QuietStep DEF SendCheck, Result, Goto
  <2> QED
    BY <2>1, <2>2, <2>3, <2>4
<1>4. ASSUME NEW c \in Calls, LockWrite(c) PROVE IInv'
  <2>1. TypeOK'
    BY <1>4 DEF LockWrite, Result, Goto, TypeOK, IDs, PCs, Registered, Outcomes
  <2>2. PendingOwned'
    BY <1>4 DEF LockWrite, Result, Goto, TypeOK, PendingOwned, Registered
  <2>3. IDsInv'
    BY <1>4 DEF LockWrite, Result, Goto, TypeOK, IDsInv, Registered
  <2>4. InboundInv' /\ ChannelInv' /\ ReaderInv'
    BY <1>4, QuietStep DEF LockWrite, Result, Goto
  <2> QED
    BY <2>1, <2>2, <2>3, <2>4
<1>5. ASSUME NEW c \in Calls, WriteOK(c) PROVE IInv'
  <2>1. TypeOK'
    BY <1>5 DEF WriteOK, Goto, TypeOK, IDs, PCs, Registered, Outcomes
  <2>2. PendingOwned'
    BY <1>5 DEF WriteOK, Goto, TypeOK, PendingOwned, Registered
  <2>3. IDsInv'
    BY <1>5 DEF WriteOK, Goto, TypeOK, IDsInv, Registered
  <2>4. InboundInv' /\ ChannelInv' /\ ReaderInv'
    BY <1>5, QuietStep DEF WriteOK, Goto
  <2> QED
    BY <2>1, <2>2, <2>3, <2>4
<1>6. ASSUME NEW c \in Calls, WriteFails(c) PROVE IInv'
  <2>1. TypeOK'
    BY <1>6 DEF WriteFails, Result, Goto, TypeOK, IDs, PCs, Registered, Outcomes
  <2>2. PendingOwned'
    BY <1>6 DEF WriteFails, Result, Goto, TypeOK, PendingOwned, Registered
  <2>3. IDsInv'
    BY <1>6 DEF WriteFails, Result, Goto, TypeOK, IDsInv, Registered
  <2>4. InboundInv' /\ ChannelInv' /\ ReaderInv'
    BY <1>6, QuietStep DEF WriteFails, Result, Goto
  <2> QED
    BY <2>1, <2>2, <2>3, <2>4
<1>7. ASSUME NEW c \in Calls, TakeTimeout(c) PROVE IInv'
  <2>1. TypeOK'
    BY <1>7 DEF TakeTimeout, Result, Goto, TypeOK, IDs, PCs, Registered, Outcomes
  <2>2. PendingOwned'
    BY <1>7 DEF TakeTimeout, Result, Goto, TypeOK, PendingOwned, Registered
  <2>3. IDsInv'
    BY <1>7 DEF TakeTimeout, Result, Goto, TypeOK, IDsInv, Registered
  <2>4. InboundInv' /\ ChannelInv' /\ ReaderInv'
    BY <1>7, QuietStep DEF TakeTimeout, Result, Goto
  <2> QED
    BY <2>1, <2>2, <2>3, <2>4
<1>8. ASSUME NEW c \in Calls, TakeClosed(c) PROVE IInv'
  <2>1. TypeOK'
    BY <1>8 DEF TakeClosed, Result, Goto, TypeOK, IDs, PCs, Registered, Outcomes
  <2>2. PendingOwned'
    BY <1>8 DEF TakeClosed, Result, Goto, TypeOK, PendingOwned, Registered
  <2>3. IDsInv'
    BY <1>8 DEF TakeClosed, Result, Goto, TypeOK, IDsInv, Registered
  <2>4. InboundInv' /\ ChannelInv' /\ ReaderInv'
    BY <1>8, QuietStep DEF TakeClosed, Result, Goto
  <2> QED
    BY <2>1, <2>2, <2>3, <2>4
<1>9. ASSUME NEW c \in Calls, Cleanup(c) PROVE IInv'
  <2>1. TypeOK'
    BY <1>9 DEF Cleanup, Goto, TypeOK, IDs, PCs, Registered, Outcomes
  <2>2. PendingOwned'
    BY <1>9 DEF Cleanup, Goto, TypeOK, PendingOwned, Registered
  <2>3. IDsInv'
    BY <1>9 DEF Cleanup, Goto, TypeOK, IDsInv, Registered
  <2>4. InboundInv' /\ ChannelInv' /\ ReaderInv'
    BY <1>9, QuietStep DEF Cleanup, Goto
  <2> QED
    BY <2>1, <2>2, <2>3, <2>4
<1>10. ASSUME Finish PROVE IInv'
  <2>1. TypeOK'
    BY <1>10 DEF Finish, Finished, TypeOK, IDs, PCs, Registered, Outcomes
  <2>2. PendingOwned'
    BY <1>10 DEF Finish, Finished, TypeOK, PendingOwned, Registered
  <2>3. IDsInv'
    BY <1>10 DEF Finish, Finished, TypeOK, IDsInv, Registered
  <2>4. InboundInv' /\ ChannelInv' /\ ReaderInv'
    BY <1>10, QuietStep DEF Finish, Finished
  <2> QED
    BY <2>1, <2>2, <2>3, <2>4
<1>11. ASSUME Break PROVE IInv'
  <2>1. TypeOK'
    BY <1>11 DEF Break, TypeOK, IDs, PCs, Registered, Outcomes
  <2>2. PendingOwned'
    BY <1>11 DEF Break, TypeOK, PendingOwned, Registered
  <2>3. IDsInv'
    BY <1>11 DEF Break, TypeOK, IDsInv, Registered
  <2>4. InboundInv' /\ ChannelInv' /\ ReaderInv'
    BY <1>11, QuietStep DEF Break
  <2> QED
    BY <2>1, <2>2, <2>3, <2>4
<1>12. ASSUME Stall PROVE IInv'
  <2>1. TypeOK'
    BY <1>12 DEF Stall, TypeOK, IDs, PCs, Registered, Outcomes
  <2>2. PendingOwned'
    BY <1>12 DEF Stall, TypeOK, PendingOwned, Registered
  <2>3. IDsInv'
    BY <1>12 DEF Stall, TypeOK, IDsInv, Registered
  <2>4. InboundInv' /\ ChannelInv' /\ ReaderInv'
    BY <1>12, QuietStep DEF Stall
  <2> QED
    BY <2>1, <2>2, <2>3, <2>4
<1>13. ASSUME NEW c \in Calls, TakeResponse(c) PROVE IInv'
  <2>1. TypeOK'
    BY <1>13 DEF TakeResponse, Result, Goto, TypeOK, IDs, IQ, PCs, Registered, Outcomes
  <2>2. PendingOwned'
    BY <1>13 DEF TakeResponse, Result, Goto, TypeOK, PendingOwned, IDsInv, Registered
  <2>3. IDsInv'
    BY <1>13 DEF TakeResponse, Result, Goto, TypeOK, IDsInv, IDs, Registered
  <2>4. InboundInv'
    BY <1>13 DEF TakeResponse, Result, Goto, TypeOK, InboundInv, IDsInv, Genuine
  <2>5. ChannelInv'
    BY <1>13 DEF TakeResponse, Result, Goto, TypeOK, ChannelInv, ReaderInv, IDsInv, Genuine
  <2>6. ReaderInv'
    BY <1>13 DEF TakeResponse, Result, Goto, TypeOK, ReaderInv, InboundInv, PendingOwned, IDsInv, Genuine
  <2> QED
    BY <2>1, <2>2, <2>3, <2>4, <2>5, <2>6
<1>14. ASSUME NEW c \in Calls, NEW i \in {NoID} \cup AppIDs, Begin(c, i) \/ InlineBegin(c, i) PROVE IInv'
  <2>1. TypeOK'
    <3>1. pc' \in [Calls -> PCs]
      BY <1>14 DEF Begin, InlineBegin, Enter, Goto, TypeOK, PCs
    <3>2. id' \in [Calls -> IDs] /\ nextID' \in Nat
      BY <1>14 DEF Begin, InlineBegin, Enter, TypeOK, IDs
    <3>3. /\ reader' \in {"loop", "read", "deliver", "dispatch", "handler", "stopped"}
          /\ running' \in Calls \cup {NoCall}
      BY <1>14 DEF Begin, InlineBegin, TypeOK
    <3> QED
      BY <1>14, <3>1, <3>2, <3>3 DEF Begin, InlineBegin, Enter, TypeOK
  <2>2. PendingOwned'
    BY <1>14 DEF Begin, InlineBegin, Enter, Goto, TypeOK, PendingOwned, IDsInv, Registered
  <2>3. IDsInv'
    <3>1. /\ pc[c] = "idle" /\ pc' = [pc EXCEPT ![c] = "register"]
          /\ UNCHANGED asked /\ c \notin asked
          /\ pc \in [Calls -> PCs] /\ id \in [Calls -> IDs] /\ nextID \in Nat
      BY <1>14 DEF Begin, InlineBegin, Enter, Goto, TypeOK, IDsInv
    <3>2. CASE i = NoID
      <4>1. nextID' = nextID + 1 /\ id' = [id EXCEPT ![c] = nextID + 1]
        BY <1>14, <3>2 DEF Begin, InlineBegin, Enter
      <4> QED
        BY <3>1, <4>1 DEF TypeOK, IDsInv, IDs, Registered
    <3>3. CASE i # NoID
      <4>1. nextID' = nextID /\ id' = [id EXCEPT ![c] = i] /\ i \notin Nat
        BY <1>14, <3>3 DEF Begin, InlineBegin, Enter
      <4> QED
        BY <3>1, <4>1 DEF TypeOK, IDsInv, IDs, Registered
    <3> QED
      BY <3>2, <3>3
  <2>4. InboundInv'
    BY <1>14 DEF Begin, InlineBegin, Enter, Goto, TypeOK, InboundInv, IDsInv, Genuine
  <2>5. ChannelInv'
    BY <1>14 DEF Begin, InlineBegin, Enter, Goto, TypeOK, ChannelInv, ReaderInv, IDsInv, Genuine
  <2>6. ReaderInv'
    BY <1>14 DEF Begin, InlineBegin, Enter, Goto, TypeOK, ReaderInv, InboundInv, PendingOwned, IDsInv, Genuine
  <2> QED
    BY <2>1, <2>2, <2>3, <2>4, <2>5, <2>6
<1>15. ASSUME NEW c \in Calls, Answer(c) PROVE IInv'
  <2>1. TypeOK'
    BY <1>15 DEF Answer, TypeOK, IDs, IQ, PCs, Registered, Outcomes
  <2>2. PendingOwned'
    BY <1>15 DEF Answer, TypeOK, PendingOwned, IDsInv, Registered
  <2>3. IDsInv'
    BY <1>15 DEF Answer, TypeOK, IDsInv, IDs, Registered
  <2>4. InboundInv'
    BY <1>15 DEF Answer, TypeOK, InboundInv, IDsInv, Genuine
  <2>5. ChannelInv'
    BY <1>15 DEF Answer, TypeOK, ChannelInv, ReaderInv, IDsInv, Genuine
  <2>6. ReaderInv'
    <3>1. /\ inbound' # <<>>
          /\ inbound # <<>> => Head(inbound') = Head(inbound)
      BY <1>15 DEF Answer, TypeOK, IQ
    <3>2. UNCHANGED <<id, asked, reader, rch>>
      BY <1>15 DEF Answer
    <3> QED
      BY <3>1, <3>2 DEF ReaderInv, Genuine
  <2> QED
    BY <2>1, <2>2, <2>3, <2>4, <2>5, <2>6
<1>16. ASSUME NEW c \in Calls, Push(c) PROVE IInv'
  <2>1. TypeOK'
    BY <1>16 DEF Push, TypeOK, IDs, IQ, PCs, Registered, Outcomes
  <2>2. PendingOwned'
    BY <1>16 DEF Push, TypeOK, PendingOwned, IDsInv, Registered
  <2>3. IDsInv'
    BY <1>16 DEF Push, TypeOK, IDsInv, IDs, Registered
  <2>4. InboundInv'
    BY <1>16 DEF Push, TypeOK, InboundInv, IDsInv, Genuine
  <2>5. ChannelInv'
    BY <1>16 DEF Push, TypeOK, ChannelInv, ReaderInv, IDsInv, Genuine
  <2>6. ReaderInv'
    <3>1. /\ inbound' # <<>>
          /\ inbound # <<>> => Head(inbound') = Head(inbound)
      BY <1>16 DEF Push, TypeOK, IQ
    <3>2. UNCHANGED <<id, asked, reader, rch>>
      BY <1>16 DEF Push
    <3> QED
      BY <3>1, <3>2 DEF ReaderInv, Genuine
  <2> QED
    BY <2>1, <2>2, <2>3, <2>4, <2>5, <2>6
<1>17. ASSUME ReadIQ PROVE IInv'
  <2>1. TypeOK'
    <3>1. rch' \in Calls \cup {NoCall}
      BY <1>17 DEF ReadIQ, Find, TypeOK
    <3> QED
      BY <1>17, <3>1 DEF ReadIQ, TypeOK
  <2>2. PendingOwned'
    BY <1>17 DEF ReadIQ, Find, TypeOK, PendingOwned, IDsInv, Registered
  <2>3. IDsInv'
    BY <1>17 DEF ReadIQ, Find, TypeOK, IDsInv, IDs, Registered
  <2>4. InboundInv'
    BY <1>17 DEF ReadIQ, Find, TypeOK, InboundInv, IDsInv, Genuine
  <2>5. ChannelInv'
    BY <1>17 DEF ReadIQ, Find, TypeOK, ChannelInv, ReaderInv, IDsInv, Genuine
  <2>6. ReaderInv'
    BY <1>17 DEF ReadIQ, Find, TypeOK, ReaderInv, InboundInv, PendingOwned, IDsInv, Genuine
  <2> QED
    BY <2>1, <2>2, <2>3, <2>4, <2>5, <2>6
<1>18. ASSUME Deliver PROVE IInv'
  <2>0. Head(inbound) \in IQ /\ Tail(inbound) \in Seq(IQ)
    BY <1>18 DEF Deliver, TypeOK, ReaderInv
  <2>1. TypeOK'
    BY <1>18, <2>0 DEF Deliver, TypeOK, IDs, IQ, PCs, Registered, Outcomes
  <2>2. PendingOwned'
    BY <1>18 DEF Deliver, TypeOK, PendingOwned, IDsInv, Registered
  <2>3. IDsInv'
    BY <1>18 DEF Deliver, TypeOK, IDsInv, IDs, Registered
  <2>4. InboundInv'
    BY <1>18 DEF Deliver, TypeOK, InboundInv, IDsInv, Genuine
  <2>5. ChannelInv'
    BY <1>18 DEF Deliver, TypeOK, ChannelInv, ReaderInv, IDsInv, Genuine
  <2>6. ReaderInv'
    BY <1>18 DEF Deliver, TypeOK, ReaderInv, InboundInv, PendingOwned, IDsInv, Genuine
  <2> QED
    BY <2>1, <2>2, <2>3, <2>4, <2>5, <2>6
<1>19. ASSUME InlineEnd PROVE IInv'
  <2>1. TypeOK'
    BY <1>19 DEF InlineEnd, TypeOK, IDs, IQ, PCs, Registered, Outcomes
  <2>2. PendingOwned'
    BY <1>19 DEF InlineEnd, TypeOK, PendingOwned, IDsInv, Registered
  <2>3. IDsInv'
    BY <1>19 DEF InlineEnd, TypeOK, IDsInv, IDs, Registered
  <2>4. InboundInv'
    BY <1>19 DEF InlineEnd, TypeOK, InboundInv, IDsInv, Genuine
  <2>5. ChannelInv'
    BY <1>19 DEF InlineEnd, TypeOK, ChannelInv, ReaderInv, IDsInv, Genuine
  <2>6. ReaderInv'
    BY <1>19 DEF InlineEnd, TypeOK, ReaderInv, InboundInv, PendingOwned, IDsInv, Genuine
  <2> QED
    BY <2>1, <2>2, <2>3, <2>4, <2>5, <2>6
<1>20. ASSUME EndDispatch PROVE IInv'
  <2>0. Head(inbound) \in IQ /\ Tail(inbound) \in Seq(IQ)
    BY <1>20 DEF EndDispatch, TypeOK, ReaderInv
  <2>1. TypeOK'
    BY <1>20, <2>0 DEF EndDispatch, TypeOK, IDs, IQ, PCs, Registered, Outcomes
  <2>2. PendingOwned'
    BY <1>20 DEF EndDispatch, TypeOK, PendingOwned, IDsInv, Registered
  <2>3. IDsInv'
    BY <1>20 DEF EndDispatch, TypeOK, IDsInv, IDs, Registered
  <2>4. InboundInv'
    BY <1>20 DEF EndDispatch, TypeOK, InboundInv, IDsInv, Genuine
  <2>5. ChannelInv'
    BY <1>20 DEF EndDispatch, TypeOK, ChannelInv, ReaderInv, IDsInv, Genuine
  <2>6. ReaderInv'
    BY <1>20 DEF EndDispatch, TypeOK, ReaderInv, InboundInv, PendingOwned, IDsInv, Genuine
  <2> QED
    BY <2>1, <2>2, <2>3, <2>4, <2>5, <2>6
<1>21. ASSUME ReadStop PROVE IInv'
  <2>1. TypeOK'
    BY <1>21 DEF ReadStop, Finished, TypeOK, IDs, IQ, PCs, Registered, Outcomes
  <2>2. PendingOwned'
    BY <1>21 DEF ReadStop, Finished, TypeOK, PendingOwned, IDsInv, Registered
  <2>3. IDsInv'
    BY <1>21 DEF ReadStop, Finished, TypeOK, IDsInv, IDs, Registered
  <2>4. InboundInv'
    BY <1>21 DEF ReadStop, Finished, TypeOK, InboundInv, IDsInv, Genuine
  <2>5. ChannelInv'
    BY <1>21 DEF ReadStop, Finished, TypeOK, ChannelInv, ReaderInv, IDsInv, Genuine
  <2>6. ReaderInv'
    BY <1>21 DEF ReadStop, Finished, TypeOK, ReaderInv, InboundInv, PendingOwned, IDsInv, Genuine
  <2> QED
    BY <2>1, <2>2, <2>3, <2>4, <2>5, <2>6
<1>23. ASSUME StartRead PROVE IInv'
  <2>1. TypeOK'
    BY <1>23 DEF StartRead, TypeOK, IDs, IQ, PCs, Registered, Outcomes
  <2>2. PendingOwned'
    BY <1>23 DEF StartRead, TypeOK, PendingOwned, IDsInv, Registered
  <2>3. IDsInv'
    BY <1>23 DEF StartRead, TypeOK, IDsInv, IDs, Registered
  <2>4. InboundInv'
    BY <1>23 DEF StartRead, TypeOK, InboundInv, IDsInv, Genuine
  <2>5. ChannelInv'
    BY <1>23 DEF StartRead, TypeOK, ChannelInv, ReaderInv, IDsInv, Genuine
  <2>6. ReaderInv'
    BY <1>23 DEF StartRead, TypeOK, ReaderInv, InboundInv, PendingOwned, IDsInv, Genuine
  <2> QED
    BY <2>1, <2>2, <2>3, <2>4, <2>5, <2>6
<1>22. ASSUME UNCHANGED vars PROVE IInv'
  <2>1. TypeOK'
    BY <1>22 DEF vars, TypeOK, IDs, IQ, PCs, Registered, Outcomes
  <2>2. PendingOwned'
    BY <1>22 DEF vars, TypeOK, PendingOwned, IDsInv, Registered
  <2>3. IDsInv'
    BY <1>22 DEF vars, TypeOK, IDsInv, IDs, Registered
  <2>4. InboundInv'
    BY <1>22 DEF vars, TypeOK, InboundInv, IDsInv, Genuine
  <2>5. ChannelInv'
    BY <1>22 DEF vars, TypeOK, ChannelInv, ReaderInv, IDsInv, Genuine
  <2>6. ReaderInv'
    BY <1>22 DEF vars, TypeOK, ReaderInv, InboundInv, PendingOwned, IDsInv, Genuine
  <2> QED
    BY <2>1, <2>2, <2>3, <2>4, <2>5, <2>6
<1> QED
  BY <1>1, <1>2, <1>3, <1>4, <1>5, <1>6, <1>7, <1>8, <1>9, <1>10, <1>11, <1>12, <1>13, <1>14, <1>15, <1>16, <1>17, <1>18, <1>19, <1>20, <1>21, <1>22, <1>23
  DEF Next, CallStep, ReaderStep

(* So the invariant holds throughout the life of the client: pending,       *)
(* channels and the reader's hold on a channel stay consistent              *)
(* (client.go:405-487).                                                     *)
THEOREM SpecIInv == Spec => []IInv
  BY InitIInv, NextIInv, PTL DEF Spec

(* Every variable of the model keeps its type; in particular a call's       *)
(* channel never holds more than one IQ (client.go:420, 479-482).           *)
THEOREM TypeCorrect == Spec => []TypeOK
  BY SpecIInv, PTL DEF IInv

(* Client.pending and the calls in progress agree, whatever the             *)
(* interleaving of callers, reader and shutdown (client.go:421-428).        *)
THEOREM PendingIsOwned == Spec => []PendingOwned
  BY SpecIInv, PTL DEF IInv

(* A response is returned to the call that asked for it, for every call     *)
(* that lets the client choose the ID (client.go:409-411, 433, 474-484).    *)
THEOREM ResponsesCorrelate == Spec => []OwnAnswer
<1>1. IInv => OwnAnswer
  <2> SUFFICES ASSUME IInv, NEW c \in Calls, id[c] \in Nat, NEW m \in got[c]
               PROVE  m.for = c
    BY DEF OwnAnswer
  <2>1. m.for \in asked /\ id[m.for] = id[c]
    BY DEF IInv, ChannelInv, Genuine
  <2>2. m.for \in Calls /\ id[c] # NoID
    BY <2>1 DEF IInv, TypeOK, IDsInv
  <2> QED
    BY <2>1, <2>2 DEF IInv, IDsInv
<1> QED
  BY <1>1, SpecIInv, PTL

-----------------------------------------------------------------------------
(* Calls made on the reader goroutine. *)

(* While such a call is in progress readLoop is inside it, so it is never   *)
(* the channel readLoop has in hand.                                        *)
InlineInv ==
    /\ rch \notin Inline
    /\ \A c \in Inline : /\ ch[c] = {} /\ outcome[c] # "response"
                         /\ pc[c] \in Registered \cup {"register"} =>
                                reader = "handler" /\ running = c

(* dispatchStanza runs a synchronous handler on the reader goroutine        *)
(* (client.go:485, 505), and every step keeps InlineInv.                    *)
LEMMA NextInlineInv == IInv /\ InlineInv /\ [Next]_vars => InlineInv'
<1> SUFFICES ASSUME IInv, InlineInv, [Next]_vars PROVE InlineInv'
  OBVIOUS
<1> USE InlineAssumption, NoCallAssumption
    DEF IInv, TypeOK, InlineInv, Registered, callVars, clientVars, readerVars, serverVars,
        Goto, Result
<1>1. ASSUME NEW c \in Calls, CallStep(c) PROVE InlineInv'
  <2>1. CASE Register(c) \/ SendCheck(c) \/ LockWrite(c)
    BY <2>1 DEF Register, SendCheck, LockWrite
  <2>2. CASE WriteOK(c) \/ WriteFails(c)
    BY <2>2 DEF WriteOK, WriteFails
  <2>3. CASE TakeResponse(c)
    BY <2>3 DEF TakeResponse
  <2>4. CASE TakeTimeout(c) \/ TakeClosed(c) \/ Cleanup(c)
    BY <2>4 DEF TakeTimeout, TakeClosed, Cleanup
  <2> QED
    BY <1>1, <2>1, <2>2, <2>3, <2>4 DEF CallStep
<1>2. ASSUME NEW c \in Calls, NEW i \in {NoID} \cup AppIDs, Begin(c, i) PROVE InlineInv'
  BY <1>2 DEF Begin, Enter
<1>3. ASSUME NEW c \in Calls, NEW i \in {NoID} \cup AppIDs, InlineBegin(c, i) PROVE InlineInv'
  BY <1>3 DEF InlineBegin, Enter
<1>4. ASSUME NEW c \in Calls, RejectType(c) \/ Push(c) \/ Answer(c) PROVE InlineInv'
  BY <1>4 DEF RejectType, Push, Answer
<1>5. ASSUME ReadIQ PROVE InlineInv'
  <2>1. Find(Head(inbound)) \notin Inline
    BY <1>5 DEF ReadIQ, Find, PendingOwned
  <2> QED
    BY <1>5, <2>1 DEF ReadIQ
<1>6. ASSUME Deliver PROVE InlineInv'
  BY <1>6 DEF Deliver
<1>7. ASSUME InlineEnd PROVE InlineInv'
  BY <1>7 DEF InlineEnd
<1>8. ASSUME StartRead \/ EndDispatch \/ ReadStop PROVE InlineInv'
  BY <1>8 DEF StartRead, EndDispatch, ReadStop
<1>9. ASSUME Finish \/ Break \/ Stall \/ UNCHANGED vars PROVE InlineInv'
  BY <1>9 DEF Finish, Break, Stall, vars
<1> QED
  BY <1>1, <1>2, <1>3, <1>4, <1>5, <1>6, <1>7, <1>8, <1>9 DEF Next, ReaderStep

(* A synchronous handler that waits for an IQ response waits in vain        *)
(* (client.go:485, 505, 433): it can only time out or see the stream close. *)
THEOREM InlineCallsNeverAnswered == Spec => []InlineNeverAnswered
<1>1. Init => InlineInv
  BY NoCallAssumption, InlineAssumption DEF Init, InlineInv, Registered
<1>2. InlineInv => InlineNeverAnswered
  BY DEF InlineInv, InlineNeverAnswered
<1> QED
  BY <1>1, <1>2, NextInlineInv, SpecIInv, PTL DEF Spec

-----------------------------------------------------------------------------
(* Refinement of IqCall. *)

(* A call has an outcome from the moment it leaves RequestIQ's select, or   *)
(* is refused.                                                              *)
Undecided == {"idle", "register", "send", "lock", "write", "wait"}
OutcomeInv == \A c \in Calls : pc[c] \in Undecided <=> outcome[c] = "none"

(* A call gets its outcome in the step that ends it and keeps it            *)
(* (client.go:422-445).                                                     *)
LEMMA NextOutcomeInv == IInv /\ OutcomeInv /\ [Next]_vars => OutcomeInv'
<1> SUFFICES ASSUME IInv, OutcomeInv, [Next]_vars PROVE OutcomeInv'
  OBVIOUS
<1> USE DEF IInv, TypeOK, OutcomeInv, Undecided, callVars, Goto, Result
<1>1. ASSUME NEW c \in Calls, CallStep(c) PROVE OutcomeInv'
  BY <1>1 DEF CallStep, Register, SendCheck, LockWrite, WriteOK, WriteFails, TakeResponse,
              TakeTimeout, TakeClosed, Cleanup
<1>2. ASSUME NEW c \in Calls, NEW i \in {NoID} \cup AppIDs, Begin(c, i) \/ InlineBegin(c, i)
      PROVE  OutcomeInv'
  BY <1>2 DEF Begin, InlineBegin, Enter
<1>3. ASSUME NEW c \in Calls, RejectType(c) PROVE OutcomeInv'
  BY <1>3 DEF RejectType
<1>4. ASSUME UNCHANGED <<pc, outcome>> PROVE OutcomeInv'
  BY <1>4
<1> QED
  BY <1>1, <1>2, <1>3, <1>4
  DEF Next, ReaderStep, Push, Answer, StartRead, ReadIQ, Deliver, InlineEnd, EndDispatch, ReadStop,
      Finish, Break, Stall, vars

(* The safety part of IqCall, for clients whose applications leave the      *)
(* choice of IDs to NextID (client.go:405-446): the response a call closes  *)
(* with is never one that could exist before its own request was sent.      *)
THEOREM RefinesIqCall == AppIDs = {} => (Spec => Call!Safety)
<1> SUFFICES ASSUME AppIDs = {} PROVE Spec => Call!Safety
  OBVIOUS
<1>1. Init => Call!Init
  BY DEF Init, Call!Init, Status, StatusOf
<1>2. Init => OutcomeInv
  BY DEF Init, OutcomeInv, Undecided
<1>3. IInv /\ IInv' /\ OutcomeInv /\ OutcomeInv' /\ [Next]_vars => [Call!Next]_(Call!vars)
  <2> SUFFICES ASSUME IInv, IInv', OutcomeInv, OutcomeInv', [Next]_vars
               PROVE  Call!Next \/ UNCHANGED Call!vars
    OBVIOUS
  <2> USE DEF IInv, TypeOK
  <2>1. ASSUME NEW c \in Calls,
               \A d \in Calls \ {c} : pc'[d] = pc[d] /\ outcome'[d] = outcome[d]
        PROVE  Status' = [Status EXCEPT ![c] = StatusOf(pc'[c], outcome'[c])]
    BY <2>1 DEF Status
  <2>2. ASSUME NEW c \in Calls,
               \A d \in Calls \ {c} : pc'[d] = pc[d] /\ outcome'[d] = outcome[d],
               StatusOf(pc'[c], outcome'[c]) = StatusOf(pc[c], outcome[c])
        PROVE  Status' = Status
    <3>1. \A d \in Calls : StatusOf(pc'[d], outcome'[d]) = StatusOf(pc[d], outcome[d])
      BY <2>2
    <3> QED
      BY <3>1 DEF Status
  <2>3. ASSUME NEW c \in Calls, CallStep(c) \/ RejectType(c) PROVE Call!Next \/ UNCHANGED Call!vars
    <3> USE DEF Goto, Result, callVars, clientVars, serverVars
    <3>0. \A d \in Calls \ {c} : pc'[d] = pc[d] /\ outcome'[d] = outcome[d]
      BY <2>3 DEF CallStep, Register, SendCheck, LockWrite, WriteOK, WriteFails, TakeResponse,
                  TakeTimeout, TakeClosed, Cleanup, RejectType
    <3>1. Status' = [Status EXCEPT ![c] = StatusOf(pc'[c], outcome'[c])]
      BY <2>1, <3>0
    <3>2. Status[c] = StatusOf(pc[c], outcome[c]) /\ DOMAIN Status = Calls
      BY DEF Status
    <3>3. outcome[c] = "none" <=> pc[c] \in Undecided
      BY DEF OutcomeInv
    <3> USE DEF StatusOf, Undecided, Call!Move, Call!vars
    <3>4. CASE RejectType(c)
      BY <3>1, <3>2, <3>3, <3>4 DEF RejectType, Call!Next, Call!Refuse
    <3>5. CASE Register(c)
      BY <3>1, <3>2, <3>3, <3>5, ZenonT(40) DEF Register, Call!Next, Call!Refuse, Call!Open
    <3>6. CASE SendCheck(c)
      <4>1. CASE done
        BY <3>1, <3>2, <3>3, <3>6, <4>1, ZenonT(40) DEF SendCheck, Call!Next, Call!Fail
      <4>2. CASE ~done
        BY <3>1, <3>2, <3>3, <3>6, <4>2, <2>2, <3>0 DEF SendCheck
      <4> QED
        BY <4>1, <4>2
    <3>7. CASE LockWrite(c)
      <4>1. CASE done
        BY <3>1, <3>2, <3>3, <3>7, <4>1, ZenonT(40) DEF LockWrite, Call!Next, Call!Fail
      <4>2. CASE ~done
        BY <3>1, <3>2, <3>3, <3>7, <4>2, <2>2, <3>0 DEF LockWrite
      <4> QED
        BY <4>1, <4>2
    <3>8. CASE WriteOK(c)
      <4>1. Status[c] = "open" /\ Status' = Status
        BY <3>2, <3>3, <3>8, <2>2, <3>0 DEF WriteOK
      <4> QED
        BY <4>1, <3>8 DEF WriteOK, Call!Next, Call!Reach
    <3>9. CASE WriteFails(c)
      BY <3>1, <3>2, <3>3, <3>9 DEF WriteFails, Call!Next, Call!Fail
    <3>10. CASE TakeResponse(c)
      <4>1. PICK m \in ch[c] : TRUE
        BY <3>10 DEF TakeResponse
      <4>2. m.for \in asked /\ id[m.for] = id[c]
        BY <4>1 DEF ChannelInv, Genuine
      <4>3. id[c] \in Nat /\ id[m.for] # NoID
        BY <4>2 DEF IDs, IDsInv
      <4>4. c \in asked
        BY <4>2, <4>3 DEF IDsInv
      <4> QED
        BY <3>1, <3>2, <3>3, <3>10, <4>4 DEF TakeResponse, Call!Next, Call!Answer
    <3>11. CASE TakeTimeout(c) \/ TakeClosed(c)
      BY <3>1, <3>2, <3>3, <3>11 DEF TakeTimeout, TakeClosed, Call!Next, Call!Fail
    <3>12. CASE Cleanup(c)
      <4>1. outcome' = outcome /\ pc[c] = "cleanup" /\ pc'[c] = "returned" /\ asked' = asked
        BY <3>12 DEF Cleanup
      <4>2. StatusOf(pc'[c], outcome'[c]) = StatusOf(pc[c], outcome[c])
        BY <4>1 DEF Outcomes
      <4> QED
        BY <4>1, <4>2, <2>2, <3>0
    <3> QED
      BY <2>3, <3>4, <3>5, <3>6, <3>7, <3>8, <3>9, <3>10, <3>11, <3>12 DEF CallStep
  <2>4. ASSUME NEW c \in Calls, NEW i \in {NoID} \cup AppIDs, Begin(c, i) \/ InlineBegin(c, i)
        PROVE  UNCHANGED Call!vars
    <3>1. /\ pc[c] = "idle" /\ pc' = [pc EXCEPT ![c] = "register"]
          /\ UNCHANGED <<outcome, asked>>
      BY <2>4 DEF Begin, InlineBegin, Enter, Goto, serverVars
    <3>2. Status' = Status
      BY <2>2, <3>1 DEF StatusOf
    <3> QED
      BY <3>1, <3>2 DEF Call!vars
  <2>5. ASSUME UNCHANGED <<pc, outcome, asked>> PROVE UNCHANGED Call!vars
    BY <2>5 DEF Status, Call!vars
  <2> QED
    BY <2>3, <2>4, <2>5
    DEF Next, ReaderStep, Push, Answer, StartRead, ReadIQ, Deliver, InlineEnd, EndDispatch, ReadStop,
        Finish, Break, Stall, vars, callVars, serverVars
<1> QED
  BY <1>1, <1>2, <1>3, NextOutcomeInv, SpecIInv, PTL DEF Spec, Call!Safety

=============================================================================
