------------------------- MODULE MessageExtensions -------------------------
(***************************************************************************)
(* The setters and getters of xep/message_extensions.go.  A message is a   *)
(* Go value; its Extensions are a slice, an array and a length, so that a  *)
(* copy of a message shares the array with the original.  removeExtension  *)
(* filters in place, and append writes to the spare capacity.              *)
(*                                                                         *)
(* A node is its namespace and local name and what its setter was given,   *)
(* as one value.  Bodies, and with them StripFallback, are left out.       *)
(***************************************************************************)
EXTENDS GoSlices, Selections, SequencesExt

CONSTANTS
    Messages, \* variables of type xmpp.Message
    Ids,      \* the values that setters are given
    Parsed,   \* the extensions of a message from the wire
    MaxSets   \* bound: calls of setters

ASSUME ExtensionsAssumption == MaxSets \in Nat /\ Parsed \in Seq(Range(Parsed))

VARIABLES
    cells,    \* the arrays that append and make have made
    message,  \* the slice of each message
    sets,
    last,     \* history: by value, the node of each kind that was set last in each message
    more,     \* history: by value, the nodes that were added to each message
    torn      \* history: the messages that a call on a copy has written to

extensionVars == <<cells, message, sets, last, more, torn>>

-----------------------------------------------------------------------------
(* The kinds of extension.  A kind stands for a setter and a getter, which differ in   *)
(* the namespace and the local names only: the getter looks for these in this order,   *)
(* the setter of a kind of ExclusiveKinds removes all of them.  Set and Get below are  *)
(* what all of them do.                                                                *)

Kind(space, locals) == [space |-> space, locals |-> locals]

ChatState == Kind("chatstates", <<"active", "composing", "paused", "inactive", "gone">>)
Correction == Kind("message-correct", <<"replace">>)
Marker == Kind("chat-markers", <<"markable", "received", "displayed", "acknowledged">>)
JSON == Kind("json", <<"json">>)
OriginID == Kind("sid", <<"origin-id">>)
EncryptionInfo == Kind("eme", <<"encryption">>)
Spoiler == Kind("spoiler", <<"spoiler">>)
OccupantID == Kind("occupant-id", <<"occupant-id">>)
Reply == Kind("reply", <<"reply">>)
Retraction == Kind("message-retract", <<"retract">>)
Reactions == Kind("reactions", <<"reactions">>)
DirectMUCInvite == Kind("conference", <<"x">>)

Receipt == Kind("receipts", <<"request">>)
Hint == Kind("hints", <<"no-permanent-store", "no-store", "no-copy", "store">>)
Attention == Kind("attention", <<"attention">>)

StanzaID == Kind("sid", <<"stanza-id">>)
Reference == Kind("reference", <<"reference">>)
Mention == Kind("mention", <<"mention">>)
FallbackBody == Kind("fallback", <<"fallback">>)

PlainKinds == {ChatState, Correction, Marker, JSON, OriginID, EncryptionInfo, Spoiler, OccupantID,
               Reactions, DirectMUCInvite}
ExclusiveKinds == PlainKinds \cup {Reply, Retraction}
OnceKinds == {Receipt, Hint, Attention}
MoreKinds == {StanzaID, Reference, Mention}

-----------------------------------------------------------------------------
NoNode == [space |-> "", local |-> "", value |-> 0]
Node(kind, local, value) == [space |-> kind.space, local |-> local, value |-> value]
OfKind(node, kind) == node.space = kind.space /\ node.local \in Range(kind.locals)
Nodes(m) == Shown(cells, message[m])

\* Message.Extension: the first node of this name.
Extension(m, space, local) ==
    LET at == {i \in DOMAIN Nodes(m) : Nodes(m)[i].space = space /\ Nodes(m)[i].local = local}
    IN IF at = {} THEN NoNode ELSE Nodes(m)[CHOOSE i \in at : \A j \in at : i <= j]

\* GetChatState, GetMarker, and the getters of one local name: the first local name there is.
Get(m, kind) ==
    LET there == {i \in DOMAIN kind.locals : Extension(m, kind.space, kind.locals[i]) # NoNode}
    IN IF there = {} THEN NoNode
       ELSE Extension(m, kind.space, kind.locals[CHOOSE i \in there : \A j \in there : i <= j])

\* StanzaIDs, References, Mentions: all nodes, in their order.
All(m, kinds) == Only(Nodes(m), {i \in DOMAIN Nodes(m) : \E k \in kinds : OfKind(Nodes(m)[i], k)})

\* Every node that a message can have.
AllKinds == ExclusiveKinds \cup OnceKinds \cup MoreKinds \cup {FallbackBody}
AnyLocal == UNION {Range(k.locals) : k \in AllKinds}
AnyValue == Ids \cup {0} \cup {k.space : k \in AllKinds}
AllNodes == Range(Parsed) \cup {NoNode} \cup {Node(k, l, v) : k \in AllKinds, l \in AnyLocal, v \in AnyValue}

ExtensionsTypeOK ==
    /\ cells \in Seq(Seq(AllNodes))
    /\ \A m \in Messages : /\ message[m].array \in DOMAIN cells
                           /\ message[m].len \in 0..Len(cells[message[m].array])
    /\ sets \in 0..MaxSets /\ torn \subseteq Messages
    /\ last \in [Messages -> [ExclusiveKinds -> AllNodes]]
    /\ more \in [Messages -> Seq(AllNodes)]

\* One message has come in; the others are zero values.
Incoming == CHOOSE m \in Messages : TRUE
Fresh == Slice(1, 0)
ExtensionsInit ==
    /\ cells = << <<>>, Parsed \o Spare(Len(Parsed) % 2, NoNode) >>
    /\ message = [m \in Messages |-> IF m = Incoming THEN Slice(2, Len(Parsed)) ELSE Fresh]
    /\ sets = 0 /\ torn = {}
    /\ last = [m \in Messages |-> [k \in ExclusiveKinds |-> Get(m, k)]]
    /\ more = [m \in Messages |-> All(m, MoreKinds)]

-----------------------------------------------------------------------------
(* What the setters do with the slice. *)

\* The nodes that stay move down within the array; the cells after them keep what they had.
MovedDown(m, kept) ==
    LET old == cells[message[m].array]
    IN [heap |-> [cells EXCEPT ![message[m].array] =
                     [i \in DOMAIN old |-> IF i <= Len(kept) THEN kept[i] ELSE old[i]]],
        slice |-> Slice(message[m].array, Len(kept))]

\* removeExtension that looks for one local name only.
RemoveExtensionOne(m, kind, local) ==
    MovedDown(m, Only(Nodes(m), {i \in DOMAIN Nodes(m) :
                                    Nodes(m)[i].space = kind.space => Nodes(m)[i].local # local}))

\* removeExtension.
RemoveExtension(m, kind, local) ==
    MovedDown(m, Only(Nodes(m), {i \in DOMAIN Nodes(m) : ~OfKind(Nodes(m)[i], kind)}))

AppendNode(done, node) == AppendTo(done.heap, done.slice, node, NoNode)

\* The copies of m that show a cell which a call on m writes anew: one from which a node
\* has moved away, or one that it appends to.
Sharers(m) == {o \in Messages \ {m} : message[o].array = message[m].array}
Touched(m, removed, appends) ==
    {o \in Sharers(m) : /\ message[o].len > 0
                        /\ \/ removed
                           \/ appends /\ message[o].len > message[m].len}

Finish(m, done, removed, appends) ==
    /\ sets < MaxSets /\ sets' = sets + 1
    /\ cells' = done.heap /\ message' = [message EXCEPT ![m] = done.slice]
    /\ torn' = torn \cup Touched(m, removed, appends)

-----------------------------------------------------------------------------
(* The operations. *)

Has(m, kind) == \E i \in DOMAIN Nodes(m) : OfKind(Nodes(m)[i], kind)

\* The nodes of the kind go, the new one comes last.
Replaced(m, kind, node) == AppendNode(RemoveExtension(m, kind, node.local), node)

\* Of what the setter leaves, node is of its kind.
Replace(m, kind, node, done) ==
    /\ Finish(m, done, Has(m, kind), TRUE)
    /\ last' = [last EXCEPT ![m][kind] = node]
    /\ UNCHANGED more

\* The setters of PlainKinds.
Set(m, kind, local, value) ==
    LET node == Node(kind, local, value) IN Replace(m, kind, node, Replaced(m, kind, node))

\* SetChatState and SetCorrection with an empty argument.
Clear(m, kind) ==
    /\ Finish(m, RemoveExtension(m, kind, kind.locals[1]), Has(m, kind), FALSE)
    /\ last' = [last EXCEPT ![m][kind] = NoNode]
    /\ UNCHANGED more

\* SetReply with a prefix to the body, SetRetraction with a text in its place, and without:
\* AddFallback comes after the node.
AddFallback(done, kind, text) ==
    IF text THEN AppendNode(done, Node(FallbackBody, FallbackBody.locals[1], kind.space)) ELSE done

SetWithFallback(m, kind, value, text) ==
    LET node == Node(kind, kind.locals[1], value)
    IN Replace(m, kind, node, AddFallback(Replaced(m, kind, node), kind, text))

SetReply(m, value, text) == SetWithFallback(m, Reply, value, text)
SetRetraction(m, value, text) == SetWithFallback(m, Retraction, value, text)

\* What the other setters have to begin with.
Present(m) == [heap |-> cells, slice |-> message[m]]

\* RequestReceipt, AddHint, AddAttention.
AddOnce(m, kind, local) ==
    /\ IF Extension(m, kind.space, local) # NoNode
       THEN sets < MaxSets /\ sets' = sets + 1 /\ UNCHANGED <<cells, message, torn>>
       ELSE Finish(m, AppendNode(Present(m), Node(kind, local, 0)), FALSE, TRUE)
    /\ UNCHANGED <<last, more>>

\* AddStanzaID, AddReference, AddMention.
AddMore(m, kind, value) ==
    LET n == Node(kind, kind.locals[1], value)
    IN /\ Finish(m, AppendNode(Present(m), n), FALSE, TRUE)
       /\ more' = [more EXCEPT ![m] = Append(@, n)]
       /\ UNCHANGED last

Inherit(m, o) ==
    /\ last' = [last EXCEPT ![m] = last[o]] /\ more' = [more EXCEPT ![m] = more[o]]
    /\ torn' = IF o \in torn THEN torn \cup {m} ELSE torn

\* A message is assigned or passed by value, as to every handler and subscriber.
Copy(m, o) ==
    /\ m # o /\ message[m] = Fresh /\ message' = [message EXCEPT ![m] = message[o]]
    /\ Inherit(m, o)
    /\ UNCHANGED <<cells, sets>>

\* cloneMessage of the OMEMO manager.
CloneMessage(m, o) ==
    /\ m # o /\ message[m] = Fresh
    /\ LET done == CloneOf(cells, message[o])
       IN cells' = done.heap /\ message' = [message EXCEPT ![m] = done.slice]
    /\ Inherit(m, o)
    /\ UNCHANGED sets

ExtensionsNext ==
    \E m \in Messages :
       \/ \E k \in PlainKinds, v \in Ids : \E l \in Range(k.locals) : Set(m, k, l, v)
       \/ \E k \in {ChatState, Correction} : Clear(m, k)
       \/ \E v \in Ids, text \in BOOLEAN : SetReply(m, v, text) \/ SetRetraction(m, v, text)
       \/ \E k \in OnceKinds : \E l \in Range(k.locals) : AddOnce(m, k, l)
       \/ \E k \in MoreKinds, v \in Ids : AddMore(m, k, v)
       \/ \E o \in Messages : Copy(m, o) \/ CloneMessage(m, o)

ExtensionsSpec == ExtensionsInit /\ [][ExtensionsNext]_extensionVars

-----------------------------------------------------------------------------
(* Properties. *)

\* A getter returns what was set last, and of the kinds that are added everything is
\* there in order, in every message that no call on a copy of it has written to: no
\* removal of a node they share, and no append where the copy's own nodes are
\* (message_extensions.go:646-659 and the setters).
LastSetWins ==
    sets > 0 => \A m \in Messages \ torn : /\ \A k \in ExclusiveKinds : Get(m, k) = last[m][k]
                                            /\ All(m, MoreKinds) = more[m]
=============================================================================
