------------------------------- MODULE Roster -------------------------------
(***************************************************************************)
(* xmpp.RosterManager: the cache of the account's roster, which two        *)
(* goroutines write: the reader, in the handler of roster pushes, and the  *)
(* caller of Get, once the reader has handed it the response.              *)
(*                                                                         *)
(* The server's roster is the log of its changes; a roster version is a    *)
(* length of the log.  A change comes from this client's Set or Remove or  *)
(* from another resource of the account: the cache learns of both by push. *)
(***************************************************************************)
EXTENDS Naturals, Sequences

CONSTANTS
    JIDs,        \* contacts
    Values,      \* what an entry may say (name, groups, subscription)
    Gets,        \* calls of Get
    Gone,        \* no entry; in an item, subscription="remove"
    MaxChanges,  \* bound: length of the server's log
    MaxStrange   \* bound: pushes by others than the account's server

ASSUME GoneAssumption == Gone \notin Values
ASSUME RosterBoundsAssumption == MaxChanges \in Nat /\ MaxStrange \in Nat

VARIABLES
    items,       \* RosterManager.items
    version,     \* RosterManager.version; 0 is the empty string
    getting,     \* each Get: "idle", "asked", "answered" or "over"
    since,       \* the version each Get sent; 0 is none
    response,    \* the response in the Get's channel
    log,         \* server: the changes of the roster
    interested,  \* server: this client has asked for the roster and gets pushes
    fromServer,  \* stanzas on their way to the client
    based,       \* history: a Get has brought the roster
    calm,        \* history: no push was applied while a response waited for its Get
    strange      \* pushes by strangers so far

cache == <<items, version>>
rosterVars == <<cache, getting, since, response, log, interested, fromServer, based, calm, strange>>

Change == [jid : JIDs, to : Values \cup {Gone}]

\* The entry for j after the first v changes.
EntryAt(v, j) ==
    LET about == {i \in 1..v : log[i].jid = j}
    IN IF about = {} THEN Gone
       ELSE log[CHOOSE i \in about : \A k \in about : k <= i].to

RosterAt(v) == [j \in JIDs |-> EntryAt(v, j)]

\* A response carries entries (or no query at all), a push changes.
NoResponse == [kind |-> "none"]
Response(g, entries) == [kind |-> "result", get |-> g, query |-> TRUE,
                         entries |-> entries, ver |-> Len(log)]
EmptyResult(g) == [kind |-> "result", get |-> g, query |-> FALSE]
RosterPush(i) == [kind |-> "push", from |-> "account", change |-> log[i], ver |-> i]

RosterTypeOK ==
    /\ items \in [JIDs -> Values \cup {Gone}]
    /\ version \in 0..MaxChanges
    /\ getting \in [Gets -> {"idle", "asked", "answered", "over"}]
    /\ since \in [Gets -> 0..MaxChanges]
    /\ \A g \in Gets : response[g] # NoResponse => response[g].get = g
    /\ log \in Seq(Change) /\ Len(log) <= MaxChanges
    /\ interested \in BOOLEAN /\ based \in BOOLEAN /\ calm \in BOOLEAN
    /\ strange \in 0..MaxStrange

\* The account's roster has had its changes before the client connects.
RosterInit ==
    /\ items = [j \in JIDs |-> Gone] /\ version = 0
    /\ getting = [g \in Gets |-> "idle"] /\ since = [g \in Gets |-> 0]
    /\ response = [g \in Gets |-> NoResponse]
    /\ \E c \in Change : c.to # Gone /\ log = <<c>>
    /\ interested = FALSE /\ fromServer = <<>> /\ based = FALSE /\ calm = TRUE /\ strange = 0

-----------------------------------------------------------------------------
(* Get. *)

\* Without a version, or with that of the cache.
GetAsk(g, v) ==
    /\ getting[g] = "idle"
    /\ getting' = [getting EXCEPT ![g] = "asked"]
    /\ since' = [since EXCEPT ![g] = v]
    /\ UNCHANGED <<cache, response, log, interested, fromServer, based, calm, strange>>

GetTimesOut(g) ==
    /\ getting[g] \in {"asked", "answered"}
    /\ getting' = [getting EXCEPT ![g] = "over"]
    /\ response' = [response EXCEPT ![g] = NoResponse]
    /\ UNCHANGED <<cache, since, log, interested, fromServer, based, calm, strange>>

\* The entries of the response are laid over the cache, the version is its version.
Merged(g) ==
    LET r == response[g]
    IN /\ items' = [j \in JIDs |-> IF r.entries[j] # Gone THEN r.entries[j] ELSE items[j]]
       /\ version' = r.ver

\* The rest of Get after RequestIQ: an empty result is an error.
GetApply(g) ==
    /\ getting[g] = "answered"
    /\ getting' = [getting EXCEPT ![g] = "over"]
    /\ IF response[g].query THEN Merged(g) ELSE UNCHANGED cache
    /\ based' = (based \/ response[g].query)
    /\ response' = [response EXCEPT ![g] = NoResponse]
    /\ UNCHANGED <<since, log, interested, fromServer, calm, strange>>

-----------------------------------------------------------------------------
(* The reader. *)

\* The response goes into the channel of its Get, if that still waits.
ReadResponse ==
    /\ fromServer # <<>> /\ Head(fromServer).kind = "result"
    /\ fromServer' = Tail(fromServer)
    /\ LET m == Head(fromServer)
       IN IF getting[m.get] = "asked"
          THEN /\ getting' = [getting EXCEPT ![m.get] = "answered"]
               /\ response' = [response EXCEPT ![m.get] = m]
          ELSE UNCHANGED <<getting, response>>
    /\ UNCHANGED <<cache, since, log, interested, based, calm, strange>>

\* A removal is taken for nothing new.
PushedNoRemove(c) == items' = IF c.to = Gone THEN items ELSE [items EXCEPT ![c.jid] = c.to]

Pushed(c) == items' = [items EXCEPT ![c.jid] = c.to]

\* No sender, the account's bare JID, or the server.
FromAccount(m) == m.from = "account"

\* handlePush: a push of anyone else is refused with an error.
HandlePush ==
    /\ fromServer # <<>> /\ Head(fromServer).kind = "push"
    /\ fromServer' = Tail(fromServer)
    /\ LET m == Head(fromServer)
       IN IF FromAccount(m)
          THEN /\ Pushed(m.change)
               /\ version' = m.ver
               /\ calm' = (calm /\ \A g \in Gets : getting[g] # "answered")
          ELSE UNCHANGED <<cache, calm>>
    /\ UNCHANGED <<getting, since, response, log, interested, based, strange>>

-----------------------------------------------------------------------------
(* The server. *)

\* The whole roster; or, to a Get with a version, an empty result, and the changes
\* since that version as pushes.
ServerAnswers(g) ==
    /\ getting[g] = "asked"
    /\ \A i \in DOMAIN fromServer : fromServer[i].kind = "result" => fromServer[i].get # g
    /\ interested' = TRUE
    /\ \/ fromServer' = Append(fromServer, Response(g, RosterAt(Len(log))))
       \/ /\ since[g] # 0
          /\ fromServer' = Append(fromServer, EmptyResult(g)) \o
                            [i \in 1..(Len(log) - since[g]) |-> RosterPush(since[g] + i)]
    /\ UNCHANGED <<cache, getting, since, response, log, based, calm, strange>>

\* An entry is set or removed, by Set or Remove of this client or by another one.
ServerChanges(c) ==
    /\ Len(log) < MaxChanges /\ EntryAt(Len(log), c.jid) # c.to
    /\ log' = Append(log, c)
    /\ fromServer' = IF interested
                   THEN Append(fromServer, [kind |-> "push", from |-> "account", change |-> c,
                                          ver |-> Len(log) + 1])
                   ELSE fromServer
    /\ UNCHANGED <<cache, getting, since, response, interested, based, calm, strange>>

StrangerPushes(c) ==
    /\ strange < MaxStrange
    /\ strange' = strange + 1
    /\ fromServer' = Append(fromServer, [kind |-> "push", from |-> "stranger", change |-> c,
                                     ver |-> MaxChanges])
    /\ UNCHANGED <<cache, getting, since, response, log, interested, based, calm>>

-----------------------------------------------------------------------------
RosterNext ==
    \/ \E g \in Gets : \/ GetTimesOut(g) \/ GetApply(g) \/ ServerAnswers(g)
                       \/ \E v \in {0, version} : GetAsk(g, v)
    \/ ReadResponse \/ HandlePush
    \/ \E c \in Change : ServerChanges(c) \/ StrangerPushes(c)

RosterSpec == RosterInit /\ [][RosterNext]_rosterVars

-----------------------------------------------------------------------------
(* Properties. *)

\* The cache and its version fit, once a Get has brought the roster: an entry that the
\* server has not changed since that version is the server's.  So a Get with the version,
\* or the pushes still to come, bring the cache up to date (roster.go:70-84, 131-143).
VersionSound ==
    based => \A j \in JIDs : (\A i \in (version + 1)..Len(log) : log[i].jid # j) =>
                 items[j] = EntryAt(Len(log), j)

\* They fit, whatever strangers push, as long as no push of the server is applied
\* between the reader's handing over of a response and Get's use of it.
OrderlySound == calm => VersionSound
=============================================================================
