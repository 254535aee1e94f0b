----------------------------- MODULE Bookmarks -----------------------------
(***************************************************************************)
(* The bookmarks of an account: xep.LegacyBookmarks (XEP-0048), one        *)
(* element of private XML storage that Set replaces as a whole, and        *)
(* xep.NativeBookmarks (XEP-0402), one PEP item per room, whose ID is the  *)
(* room.  Every call is one IQ: requests reach the server in the order in  *)
(* which they are written, a call may give up before its response, and     *)
(* other clients of the account write to the same storage in their own     *)
(* way.                                                                    *)
(*                                                                         *)
(* The nick stands for the name and the password too, which are written    *)
(* and read in the same way.                                               *)
(***************************************************************************)
EXTENDS Selections

CONSTANTS
    Rooms,            \* room JIDs
    Marks,            \* bookmarks, without their JID
    Lists,            \* what Set may be given: sequences of bookmarks with their JID
    MaxBookmarkCalls, \* bound: calls of the two plugins and of PubSub on the bookmarks' node
    MaxForeign        \* bound: changes by the account's other clients

NoRoom == "" \* the empty JID
Child(space, local, text) == [space |-> space, local |-> local, text |-> text]
Children == [space : STRING, local : STRING, text : STRING]
Bookmark == [autojoin : BOOLEAN, nick : STRING, extensions : Seq(Children)]

\* An application that leaves the nick out gives no extension that is one.
ASSUME BookmarksAssumption ==
    /\ NoRoom \notin Rooms /\ MaxBookmarkCalls \in Nat /\ MaxForeign \in Nat
    /\ \A m \in Marks : /\ m \in Bookmark
                        /\ m.nick = "" => \A i \in DOMAIN m.extensions :
                             m.extensions[i].space = "bookmarks" => m.extensions[i].local # "nick"
    /\ \A l \in Lists : l \in Seq([jid : Rooms \cup {NoRoom}, mark : Marks])

VARIABLES
    bookmarkCall, \* each call: where it is, its operation, its response and what it returned
    bookmarkOut,  \* requests on their way to the server
    private,      \* server: the conferences in private storage
    roomItems,    \* server: the payload of each room's item, or NoItem
    nodeExists,   \* server: there is a PEP node for bookmarks
    foreign,
    kept,         \* history: the bookmarks meant by what is stored
    held          \* history: what the account kept while each read was under way

bookmarkVars == <<bookmarkCall, bookmarkOut, private, roomItems, nodeExists, foreign, kept, held>>

NotCalled == [at |-> "idle"]
\* Calls are numbered in the order in which they begin.
BookmarkCalls == 1..MaxBookmarkCalls
Begins(c) == bookmarkCall[c] = NotCalled /\ \A d \in 1..(c - 1) : bookmarkCall[d] # NotCalled

NoItem == [absent |-> TRUE]
NoMark == [none |-> TRUE]
Reads == {"get", "items"}
InProgress(c) == bookmarkCall[c].at \in {"asked", "answered"}

\* Nodes: their children are extensions or the nick's, the Boolean is spelled in four ways.
Kids == Children \cup {Child("bookmarks", "nick", m.nick) : m \in Marks}
Raws == {"true", "absent", "1", "0"}
ItemNodes == [autojoin : Raws, children : Seq(Kids)]
Conferences == [jid : Rooms \cup {NoRoom}, autojoin : Raws, children : Seq(Kids)]

\* What is meant by them.
MeantEntries == [jid : Rooms \cup {NoRoom}, mark : Marks]
MeantLists == Seq(MeantEntries)
Keeps == [legacy : MeantLists, native : [Rooms -> Marks \cup {NoMark}]]

SetRequests == [op : {"set"}, call : BookmarkCalls, nodes : Seq(Conferences), meant : MeantLists]
PublishRequests == [op : {"publish"}, call : BookmarkCalls, room : Rooms, node : ItemNodes, meant : Marks]
RetractRequests == [op : {"retract"}, call : BookmarkCalls, room : Rooms]
PlainRequests == [op : {"get", "items", "purge", "delete", "create"}, call : BookmarkCalls]
Requests == SetRequests \cup PublishRequests \cup RetractRequests \cup PlainRequests

BookmarksTypeOK ==
    /\ \A c \in BookmarkCalls : bookmarkCall[c].at \in {"idle", "asked", "answered", "returned", "failed"}
    /\ bookmarkOut \in Seq(Requests)
    /\ private \in Seq(Conferences) /\ roomItems \in [Rooms -> ItemNodes \cup {NoItem}]
    /\ nodeExists \in BOOLEAN /\ foreign \in 0..MaxForeign
    /\ kept \in Keeps /\ held \in [BookmarkCalls -> SUBSET Keeps]

BookmarksInit ==
    /\ bookmarkCall = [c \in BookmarkCalls |-> NotCalled] /\ bookmarkOut = <<>>
    /\ private = <<>> /\ roomItems = [r \in Rooms |-> NoItem] /\ nodeExists = FALSE /\ foreign = 0
    /\ kept = [legacy |-> <<>>, native |-> [r \in Rooms |-> NoMark]]
    /\ held = [c \in BookmarkCalls |-> {}]

-----------------------------------------------------------------------------
(* Bookmarks as nodes, and back. *)

NickChildren(mark) == IF mark.nick = "" THEN <<>> ELSE <<Child("bookmarks", "nick", mark.nick)>>

ChildText(node, local) ==
    LET at == {i \in DOMAIN node.children :
                  node.children[i].space = "bookmarks" /\ node.children[i].local = local}
    IN IF at = {} THEN "" ELSE node.children[CHOOSE i \in at : \A j \in at : i <= j].text

\* No attribute for false.
AutoJoinAttr(mark) == IF mark.autojoin THEN "true" ELSE "absent"

\* An absent attribute is false.
AutoJoinValue(node) == node.autojoin \in {"true", "1"}

\* The legacy form has no place for extensions.
LegacyWritten(jid, raw, mark) == [jid |-> jid, autojoin |-> raw, children |-> NickChildren(mark)]
LegacyNode(jid, mark) == LegacyWritten(jid, AutoJoinAttr(mark), mark)

ParseLegacy(node) ==
    [jid |-> node.jid,
     mark |-> [autojoin |-> AutoJoinValue(node), nick |-> ChildText(node, "nick"), extensions |-> <<>>]]

\* Extensions are forgotten.
NativeNodePlain(mark) == [autojoin |-> AutoJoinAttr(mark), children |-> NickChildren(mark)]

NativeNode(mark) ==
    [autojoin |-> AutoJoinAttr(mark), children |-> NickChildren(mark) \o mark.extensions]

\* Get leaves out what is called nick or password, in whichever namespace.
Extensions(children) == Only(children, {i \in DOMAIN children : children[i].local \notin {"nick", "password"}})

ParseNative(node) ==
    [autojoin |-> AutoJoinValue(node), nick |-> ChildText(node, "nick"),
     extensions |-> Extensions(node.children)]

-----------------------------------------------------------------------------
(* The calls: what each sends. *)

\* RequestIQ: the request is written, and the call waits.
Asks(c, request) ==
    /\ Begins(c)
    /\ bookmarkCall' = [bookmarkCall EXCEPT ![c] = [at |-> "asked", op |-> request.op]]
    /\ bookmarkOut' = Append(bookmarkOut, request)
    /\ held' = [held EXCEPT ![c] = IF request.op \in Reads THEN {kept} ELSE {}]
    /\ UNCHANGED <<private, roomItems, nodeExists, foreign, kept>>

\* An error before anything is sent.
Refused(c) ==
    /\ Begins(c)
    /\ bookmarkCall' = [bookmarkCall EXCEPT ![c] = [at |-> "failed"]]
    /\ UNCHANGED <<bookmarkOut, private, roomItems, nodeExists, foreign, kept, held>>

\* PrivateXML: an element of the storage is read and replaced as a whole.
PrivateSet(c, nodes, meant) == Asks(c, [op |-> "set", call |-> c, nodes |-> nodes, meant |-> meant])
PrivateGet(c) == Asks(c, [op |-> "get", call |-> c])

\* LegacyBookmarks.Set: a bookmark without a JID stops it before anything is sent.
LegacySet(c, list) ==
    IF \E i \in DOMAIN list : list[i].jid = NoRoom THEN Refused(c)
    ELSE PrivateSet(c, [i \in DOMAIN list |-> LegacyNode(list[i].jid, list[i].mark)], list)

LegacyGet(c) == PrivateGet(c)

\* PubSub, on the node of the bookmarks.
PubSubPublish(c, id, node, meant) ==
    Asks(c, [op |-> "publish", call |-> c, room |-> id, node |-> node, meant |-> meant])
PubSubRetract(c, id) == Asks(c, [op |-> "retract", call |-> c, room |-> id])
PubSubGetItems(c) == Asks(c, [op |-> "items", call |-> c])

\* NativeBookmarks: the ID of the item is the room's JID.
NativePublish(c, jid, mark) ==
    IF jid = NoRoom THEN Refused(c) ELSE PubSubPublish(c, jid, NativeNode(mark), mark)
NativeDelete(c, jid) == PubSubRetract(c, jid)
NativeGet(c) == PubSubGetItems(c)

PubSubPurge(c) == Asks(c, [op |-> "purge", call |-> c])
PubSubDeleteNode(c) == Asks(c, [op |-> "delete", call |-> c])
PubSubCreateNode(c) == Asks(c, [op |-> "create", call |-> c])

-----------------------------------------------------------------------------
(* The server. *)

\* What is stored after a request, and the bookmarks it means.
Stored(to, its, exists, means) ==
    /\ private' = to /\ roomItems' = its /\ nodeExists' = exists /\ kept' = means

NoItems == [r \in Rooms |-> NoItem]
NoNative == [kept EXCEPT !.native = [r \in Rooms |-> NoMark]]

\* A request that can be done is done.
ServerDoes(r) ==
    CASE r.op = "set" -> Stored(r.nodes, roomItems, nodeExists, [kept EXCEPT !.legacy = r.meant])
      [] r.op = "publish" -> Stored(private, [roomItems EXCEPT ![r.room] = r.node], TRUE,
                                    [kept EXCEPT !.native[r.room] = r.meant])
      [] r.op = "retract" -> Stored(private, [roomItems EXCEPT ![r.room] = NoItem], nodeExists,
                                    [kept EXCEPT !.native[r.room] = NoMark])
      [] r.op = "purge" -> Stored(private, NoItems, nodeExists, NoNative)
      [] r.op = "delete" -> Stored(private, NoItems, FALSE, NoNative)
      [] r.op = "create" -> Stored(private, roomItems, TRUE, kept)
      [] OTHER -> UNCHANGED <<private, roomItems, nodeExists, kept>>

\* Without the node, its items cannot be read or changed; with it, it cannot be created.
Possible(r) ==
    /\ r.op \in {"items", "retract", "purge", "delete"} => nodeExists
    /\ r.op = "retract" => roomItems[r.room] # NoItem
    /\ r.op = "create" => ~nodeExists

\* The response, if the call is still there for it.
Answered(r, response) ==
    bookmarkCall' = IF bookmarkCall[r.call].at = "asked"
                    THEN [bookmarkCall EXCEPT ![r.call] = [at |-> "answered", op |-> r.op, response |-> response]]
                    ELSE bookmarkCall

\* The reads in progress may see what is kept now.
Held == held' = [c \in BookmarkCalls |->
                   IF bookmarkCall[c].at = "asked" /\ held[c] # {} THEN held[c] \cup {kept'} ELSE held[c]]

\* A read is answered with all there is; PEP.Items would take one page for that.
ServerComplies ==
    /\ bookmarkOut # <<>> /\ bookmarkOut' = Tail(bookmarkOut)
    /\ LET r == Head(bookmarkOut)
       IN /\ Possible(r) /\ ServerDoes(r)
          /\ Answered(r, IF r.op \in Reads THEN [private |-> private, items |-> roomItems] ELSE "done")
    /\ Held /\ UNCHANGED foreign

\* An IQ of type error, which RequestIQ returns as an error.
ServerDeclines ==
    /\ bookmarkOut # <<>> /\ bookmarkOut' = Tail(bookmarkOut)
    /\ LET c == Head(bookmarkOut).call
       IN /\ bookmarkCall' = IF InProgress(c) THEN [bookmarkCall EXCEPT ![c] = [at |-> "failed"]] ELSE bookmarkCall
          /\ held' = [held EXCEPT ![c] = {}]
    /\ UNCHANGED <<private, roomItems, nodeExists, foreign, kept>>

\* Another client replaces the list, or publishes a bookmark, and writes the Boolean its
\* own way.
ForeignSet(list) ==
    /\ foreign < MaxForeign /\ foreign' = foreign + 1
    /\ private' = [i \in DOMAIN list |->
                     LegacyWritten(list[i].jid, IF list[i].mark.autojoin THEN "1" ELSE "0", list[i].mark)]
    /\ kept' = [kept EXCEPT !.legacy = list]
    /\ Held /\ UNCHANGED <<bookmarkCall, bookmarkOut, roomItems, nodeExists>>

ForeignPublish(jid, mark, raw) ==
    /\ foreign < MaxForeign /\ foreign' = foreign + 1
    /\ mark.autojoin <=> raw \in {"true", "1"}
    /\ roomItems' = [roomItems EXCEPT ![jid] = [autojoin |-> raw, children |-> NickChildren(mark) \o mark.extensions]]
    /\ nodeExists' = TRUE /\ kept' = [kept EXCEPT !.native[jid] = mark]
    /\ Held /\ UNCHANGED <<bookmarkCall, bookmarkOut, private>>

-----------------------------------------------------------------------------
(* The end of a call. *)

\* parsePubSubItems.
ItemIDs(answer) == {r \in Rooms : answer.items[r] # NoItem}

\* What a call makes of its response.
Result(c) ==
    LET answer == bookmarkCall[c].response
    IN CASE bookmarkCall[c].op = "get" -> [i \in DOMAIN answer.private |-> ParseLegacy(answer.private[i])]
         [] bookmarkCall[c].op = "items" -> [r \in ItemIDs(answer) |-> ParseNative(answer.items[r])]
         [] OTHER -> "ok"

CallReturns(c) ==
    /\ bookmarkCall[c].at = "answered"
    /\ bookmarkCall' = [bookmarkCall EXCEPT ![c] = [at |-> "returned", op |-> bookmarkCall[c].op, result |-> Result(c)]]
    /\ UNCHANGED <<bookmarkOut, private, roomItems, nodeExists, foreign, kept, held>>

\* The context ends, and the request may still be done; or the response lacks the element
\* that the call looks for.
CallGivesUp(c) ==
    /\ InProgress(c)
    /\ bookmarkCall' = [bookmarkCall EXCEPT ![c] = [at |-> "failed"]]
    /\ held' = [held EXCEPT ![c] = {}]
    /\ UNCHANGED <<bookmarkOut, private, roomItems, nodeExists, foreign, kept>>

-----------------------------------------------------------------------------
BookmarksNext ==
    \/ \E c \in BookmarkCalls :
         \/ \E l \in Lists : LegacySet(c, l)
         \/ \E r \in Rooms \cup {NoRoom}, m \in Marks : NativePublish(c, r, m)
         \/ \E r \in Rooms : NativeDelete(c, r)
         \/ LegacyGet(c) \/ NativeGet(c) \/ PubSubPurge(c) \/ PubSubDeleteNode(c) \/ PubSubCreateNode(c)
         \/ CallReturns(c) \/ CallGivesUp(c)
    \/ ServerComplies \/ ServerDeclines
    \/ \E l \in Lists : ForeignSet(l)
    \/ \E r \in Rooms, m \in Marks, raw \in {"1", "0"} : ForeignPublish(r, m, raw)

BookmarksSpec == BookmarksInit /\ [][BookmarksNext]_bookmarkVars

-----------------------------------------------------------------------------
(* Properties. *)

\* What of a bookmark survives storage: of a native one, not the extensions called nick
\* or password; of a legacy one, no extension.
Surviving(mark) ==
    [mark EXCEPT !.extensions = Extensions(@)]
Bare(entry) == [entry EXCEPT !.mark.extensions = <<>>]

\* A Get that succeeds returns the bookmarks as the account kept them at one moment of the
\* call: all of a list that was Set or none of it, each room's last bookmark, no room that
\* was deleted, whatever calls gave up and whichever client wrote them.  Each is as it was
\* meant but for the extensions: legacy bookmarks lose all of them, native ones those called
\* nick or password; and the server answers with all items, as a page would be returned as
\* the whole (storage_upload.go:93-129, 161-193, 225-270; pubsub.go:418-421).
BookmarksExact ==
    \A c \in BookmarkCalls :
        /\ bookmarkCall[c].at = "returned" /\ bookmarkCall[c].op = "get" =>
             \E k \in held[c] : bookmarkCall[c].result = [i \in DOMAIN k.legacy |-> Bare(k.legacy[i])]
        /\ bookmarkCall[c].at = "returned" /\ bookmarkCall[c].op = "items" =>
             \E k \in held[c] : bookmarkCall[c].result =
                 [r \in {q \in Rooms : k.native[q] # NoMark} |-> Surviving(k.native[r])]
=============================================================================
