--------------------------- MODULE ClientControl ----------------------------
(***************************************************************************)
(* What xep/client_control.go caches of the server's settings besides the  *)
(* stream's counters: the block list (XEP-0191), and whether carbons are   *)
(* enabled (XEP-0280) and the client is active (XEP-0352).                 *)
(*                                                                         *)
(* The block list is replaced by the caller of List and changed by pushes  *)
(* on the reader; IsBlocked looks the bare form of a JID up in it, so an   *)
(* item that is not a bare JID is kept here but never found there.  The    *)
(* two switches are written by the goroutine that asked for the change,    *)
(* after the server has answered (carbons) or the element has been written *)
(* (client state).                                                         *)
(***************************************************************************)
EXTENDS Naturals, Sequences

CONSTANTS
    Contacts,        \* JIDs as the server's list has them
    BlockLists,      \* calls of List
    Sets,            \* calls of Enable, Disable, Active and Inactive
    MaxBlockChanges, \* bound: changes of the server's block list
    MaxBlockStrange  \* bound: pushes by others than the account's server

ASSUME ControlAssumption == MaxBlockChanges \in Nat /\ MaxBlockStrange \in Nat

VARIABLES
    blocked,      \* Blocking.blocked
    listing,      \* each List: "idle", "asked", "answered" or "over"
    listed,       \* the items of the response in each List's channel
    blockLog,     \* server: the changes of the block list
    blockIn,      \* stanzas on their way to the client
    subscribed,   \* server: this client has asked for the list and gets pushes
    blockBased,   \* history: a List has been applied
    blockOrderly, \* history: no push was applied while a response waited for its List
    blockStrange, \* pushes by strangers so far
    switch,       \* Carbons.enabled and CSI.active
    setting,      \* each set: "idle", "asked", "done" (its flag is still to be written) or "over"
    setTo,        \* the switch and the value of each set
    switchOut,    \* the sets of each switch on their way to the server
    serverSwitch, \* server: the two switches
    alone,        \* history: no other set of its switch was under way during this one
    settled       \* history: of each switch, nothing went wrong since a set alone succeeded

blockVars == <<blocked, listing, listed, blockLog, blockIn, subscribed, blockBased, blockOrderly,
               blockStrange>>
switchVars == <<switch, setting, setTo, switchOut, serverSwitch, alone, settled>>
controlVars == <<blockVars, switchVars>>

Switches == {"carbons", "csi"}

\* An unblock without items is for all.
BlockChange == {[block |-> TRUE, items |-> {c}] : c \in Contacts}
               \cup {[block |-> FALSE, items |-> s] : s \in {{}} \cup {{c} : c \in Contacts}}
Unblocks(ch, c) == ~ch.block /\ (ch.items = {} \/ c \in ch.items)

\* The server's list after the first v changes.
BlockListAt(v) ==
    {c \in Contacts : \E i \in 1..v : /\ blockLog[i].block /\ c \in blockLog[i].items
                                      /\ \A k \in (i + 1)..v : ~Unblocks(blockLog[k], c)}

ControlTypeOK ==
    /\ blocked \subseteq Contacts
    /\ listing \in [BlockLists -> {"idle", "asked", "answered", "over"}]
    /\ listed \in [BlockLists -> SUBSET Contacts]
    /\ blockLog \in Seq(BlockChange) /\ Len(blockLog) <= MaxBlockChanges
    /\ subscribed \in BOOLEAN /\ blockBased \in BOOLEAN /\ blockOrderly \in BOOLEAN
    /\ blockStrange \in 0..MaxBlockStrange
    /\ switch \in [Switches -> BOOLEAN] /\ serverSwitch \in [Switches -> BOOLEAN]
    /\ setting \in [Sets -> {"idle", "asked", "done", "over"}]
    /\ setTo \in [Sets -> Switches \X BOOLEAN] /\ switchOut \in [Switches -> Seq(Sets)]
    /\ alone \in [Sets -> BOOLEAN] /\ settled \in [Switches -> BOOLEAN]

\* The account may have blocked someone before; the client starts active, without carbons.
ControlInit ==
    /\ blocked = {} /\ listing = [l \in BlockLists |-> "idle"] /\ listed = [l \in BlockLists |-> {}]
    /\ blockLog = <<>> /\ blockIn = <<>> /\ subscribed = FALSE
    /\ blockBased = FALSE /\ blockOrderly = TRUE /\ blockStrange = 0
    /\ switch = [w \in Switches |-> w = "csi"] /\ serverSwitch = switch
    /\ setting = [s \in Sets |-> "idle"] /\ setTo = [s \in Sets |-> <<"csi", TRUE>>]
    /\ switchOut = [w \in Switches |-> <<>>]
    /\ alone = [s \in Sets |-> FALSE] /\ settled = [w \in Switches |-> TRUE]

-----------------------------------------------------------------------------
(* Blocking. *)

ListAsk(l) ==
    /\ listing[l] = "idle" /\ listing' = [listing EXCEPT ![l] = "asked"]
    /\ UNCHANGED <<blocked, listed, blockLog, blockIn, subscribed, blockBased, blockOrderly,
                   blockStrange, switchVars>>

ListTimesOut(l) ==
    /\ listing[l] \in {"asked", "answered"} /\ listing' = [listing EXCEPT ![l] = "over"]
    /\ UNCHANGED <<blocked, listed, blockLog, blockIn, subscribed, blockBased, blockOrderly,
                   blockStrange, switchVars>>

\* The rest of List after RequestIQ.
ListApply(l) ==
    /\ listing[l] = "answered" /\ listing' = [listing EXCEPT ![l] = "over"]
    /\ blocked' = listed[l]
    /\ blockBased' = TRUE
    /\ UNCHANGED <<listed, blockLog, blockIn, subscribed, blockOrderly, blockStrange, switchVars>>

ReadBlockList ==
    /\ blockIn # <<>> /\ Head(blockIn).kind = "list" /\ blockIn' = Tail(blockIn)
    /\ LET m == Head(blockIn)
       IN IF listing[m.list] = "asked"
          THEN /\ listing' = [listing EXCEPT ![m.list] = "answered"]
               /\ listed' = [listed EXCEPT ![m.list] = m.items]
          ELSE UNCHANGED <<listing, listed>>
    /\ UNCHANGED <<blocked, blockLog, subscribed, blockBased, blockOrderly, blockStrange, switchVars>>

\* An unblock without items unblocks no one.
AfterPushLiteral(ch) == IF ch.block THEN blocked \cup ch.items ELSE blocked \ ch.items

AfterPush(ch) == IF ch.block THEN blocked \cup ch.items
                 ELSE IF ch.items = {} THEN {} ELSE blocked \ ch.items

\* handlePush: of the account or its server, else refused.
HandleBlockPush ==
    /\ blockIn # <<>> /\ Head(blockIn).kind = "push" /\ blockIn' = Tail(blockIn)
    /\ IF Head(blockIn).from = "account"
       THEN /\ blocked' = AfterPush(Head(blockIn).change)
            /\ blockOrderly' = (blockOrderly /\ \A l \in BlockLists : listing[l] # "answered")
       ELSE UNCHANGED <<blocked, blockOrderly>>
    /\ UNCHANGED <<listing, listed, blockLog, subscribed, blockBased, blockStrange, switchVars>>

ServerLists(l) ==
    /\ listing[l] = "asked"
    /\ \A i \in DOMAIN blockIn : blockIn[i].kind = "list" => blockIn[i].list # l
    /\ subscribed' = TRUE
    /\ blockIn' = Append(blockIn, [kind |-> "list", list |-> l, items |-> BlockListAt(Len(blockLog))])
    /\ UNCHANGED <<blocked, listing, listed, blockLog, blockBased, blockOrderly, blockStrange,
                   switchVars>>

\* Block, Unblock or UnblockAll of this client or of another one of the account.
ServerBlocks(ch) ==
    /\ Len(blockLog) < MaxBlockChanges
    /\ blockLog' = Append(blockLog, ch)
    /\ blockIn' = IF subscribed
                  THEN Append(blockIn, [kind |-> "push", from |-> "account", change |-> ch])
                  ELSE blockIn
    /\ UNCHANGED <<blocked, listing, listed, subscribed, blockBased, blockOrderly, blockStrange,
                   switchVars>>

StrangerBlocks(ch) ==
    /\ blockStrange < MaxBlockStrange /\ blockStrange' = blockStrange + 1
    /\ blockIn' = Append(blockIn, [kind |-> "push", from |-> "stranger", change |-> ch])
    /\ UNCHANGED <<blocked, listing, listed, blockLog, subscribed, blockBased, blockOrderly,
                   switchVars>>

-----------------------------------------------------------------------------
(* Carbons and client state. *)

Setting(w) == {s \in Sets : setting[s] \notin {"idle", "over"} /\ setTo[s][1] = w}

\* A set that begins while another of its switch is under way overlaps it.
Overlapping(s, w) ==
    /\ alone' = [t \in Sets |-> IF t = s THEN Setting(w) = {} ELSE alone[t] /\ t \notin Setting(w)]
    /\ settled' = [settled EXCEPT ![w] = @ /\ Setting(w) = {}]

\* The flag is written before the server is asked.
SetAskEager(s, w, on) ==
    /\ setting[s] = "idle"
    /\ setTo' = [setTo EXCEPT ![s] = <<w, on>>]
    /\ switchOut' = [switchOut EXCEPT ![w] = Append(@, s)]
    /\ setting' = [setting EXCEPT ![s] = IF w = "csi" THEN "done" ELSE "asked"]
    /\ switch' = [switch EXCEPT ![w] = on]
    /\ Overlapping(s, w)
    /\ UNCHANGED <<blockVars, serverSwitch>>

\* Carbons.set sends a request and waits; CSI.Active and Inactive only send.
SetAsk(s, w, on) ==
    /\ setting[s] = "idle"
    /\ setTo' = [setTo EXCEPT ![s] = <<w, on>>]
    /\ switchOut' = [switchOut EXCEPT ![w] = Append(@, s)]
    /\ setting' = [setting EXCEPT ![s] = IF w = "csi" THEN "done" ELSE "asked"]
    /\ Overlapping(s, w)
    /\ UNCHANGED <<blockVars, switch, serverSwitch>>

\* The server takes what was sent in that order and does as asked; the result reaches the
\* call, if it still waits.
ServerSets(w) ==
    /\ switchOut[w] # <<>> /\ switchOut' = [switchOut EXCEPT ![w] = Tail(@)]
    /\ LET s == Head(switchOut[w])
       IN /\ serverSwitch' = [serverSwitch EXCEPT ![w] = setTo[s][2]]
          /\ setting' = [setting EXCEPT ![s] = IF @ = "asked" THEN "done" ELSE @]
    /\ UNCHANGED <<blockVars, switch, setTo, alone, settled>>

\* Or it refuses, and the call returns the error.
ServerRefuses ==
    /\ switchOut["carbons"] # <<>> /\ switchOut' = [switchOut EXCEPT !["carbons"] = Tail(@)]
    /\ setting' = [setting EXCEPT ![Head(switchOut["carbons"])] = IF @ = "asked" THEN "over" ELSE @]
    /\ UNCHANGED <<blockVars, switch, setTo, serverSwitch, alone, settled>>

\* RequestIQ gives up; the request is on its way, or was done, all the same.
SetTimesOut(s) ==
    /\ setting[s] \in {"asked", "done"} /\ setTo[s][1] = "carbons"
    /\ setting' = [setting EXCEPT ![s] = "over"]
    /\ settled' = [settled EXCEPT !["carbons"] = FALSE]
    /\ UNCHANGED <<blockVars, switch, setTo, switchOut, serverSwitch, alone>>

\* The flag is written, after RequestIQ or SendNode has returned.
SetApply(s) ==
    /\ setting[s] = "done" /\ setting' = [setting EXCEPT ![s] = "over"]
    /\ switch' = [switch EXCEPT ![setTo[s][1]] = setTo[s][2]]
    /\ settled' = [settled EXCEPT ![setTo[s][1]] = @ \/ alone[s]]
    /\ UNCHANGED <<blockVars, setTo, switchOut, serverSwitch, alone>>

-----------------------------------------------------------------------------
BlockNext ==
    \/ \E l \in BlockLists : ListAsk(l) \/ ListTimesOut(l) \/ ListApply(l) \/ ServerLists(l)
    \/ ReadBlockList \/ HandleBlockPush
    \/ \E ch \in BlockChange : ServerBlocks(ch) \/ StrangerBlocks(ch)

SwitchNext ==
    \/ \E s \in Sets : \/ SetTimesOut(s) \/ SetApply(s)
                       \/ \E w \in Switches, on \in BOOLEAN : SetAsk(s, w, on)
    \/ (\E w \in Switches : ServerSets(w)) \/ ServerRefuses

ControlNext == BlockNext \/ SwitchNext
ControlSpec == ControlInit /\ [][ControlNext]_controlVars

-----------------------------------------------------------------------------
(* Properties. *)

\* When nothing is under way and a List has been applied, the cache that IsBlocked looks in
\* is the server's list, unless a push was applied between the reader's handing over of a
\* response and List's use of it (client_control.go:59-64, 89-108).
BlockListExact ==
    blockOrderly /\ blockBased /\ blockIn = <<>> /\ (\A l \in BlockLists : listing[l] \in {"idle", "over"})
        => blocked = BlockListAt(Len(blockLog))

\* Sets that overlap or time out leave Enabled and IsActive at odds with the server, and a
\* request whose call has given up may still take effect.  One set of the switch that runs
\* alone and succeeds ends all that: from then on the flag is what the server has once it has
\* what was sent, through refused sets too, until sets overlap or one times out again
\* (client_control.go:158-170, 207-224).
SwitchesRecover ==
    \A w \in Switches : settled[w] /\ Setting(w) = {} /\ switchOut[w] = <<>> => switch[w] = serverSwitch[w]
=============================================================================
