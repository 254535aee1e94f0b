---------------------------- MODULE OmemoManager ----------------------------
(***************************************************************************)
(* omemo.Manager: EncryptMessage, the publication of the own device list,  *)
(* and the cached device lists, which calls and the reader write.  The     *)
(* store's methods are atomic here (OmemoStore looks inside them); the     *)
(* server keeps the published lists and bundles.  Cryptography is the      *)
(* backend's: a session with a device is there or not.                     *)
(*                                                                         *)
(* Trust is read in several calls of the store, and the lists are read,    *)
(* extended and published without a lock: users decide on trust, and the   *)
(* account's other clients publish, in between.                            *)
(***************************************************************************)
EXTENDS Naturals, Sequences, FiniteSets

CONSTANTS
    Accounts,     \* bare JIDs, Own among them
    Own,          \* the client's bare JID
    Devices,      \* addresses: a device of an account
    JIDOf,        \* the account of each address
    Me,           \* the address of this client
    Policy,       \* Options.TrustPolicy
    Encrypts,     \* calls of EncryptMessage
    Publishes,    \* calls of PublishDeviceList
    MaxDecisions, \* bound: calls of SetTrust
    MaxListNews   \* bound: changes of published lists by others

ASSUME ManagerAssumption ==
    /\ Own \in Accounts /\ Me \in Devices /\ JIDOf \in [Devices -> Accounts] /\ JIDOf[Me] = Own
    /\ Policy \in {"manual", "blind-before-verification", "trust-all"}
    /\ Encrypts \cap Publishes = {}
    /\ MaxDecisions \in Nat /\ MaxListNews \in Nat

VARIABLES
    trust,      \* Store.Trust
    lists,      \* Store.DeviceList: the cached list of each account, fresh or past its TTL
    bundles,    \* Store.Bundle: the addresses whose bundle is cached
    sessions,   \* SessionBackend: the addresses there is a session with
    call,       \* each EncryptMessage: where it is, and its locals
    publishing, \* each PublishDeviceList: "idle", "fetch", "publish", "store" or "over"
    toPublish,  \* the list each of them is about to publish
    fetch,      \* the RefreshDeviceList of a call, if any
    published,  \* server: the device list of each account
    events,     \* notifications on their way to the client
    decisions, listNews,
    allowed,    \* history: the devices that were trusted at some time during each call
    changes,    \* history: the trust decisions during each call
    standing,   \* history: own devices listed from the start that no other client took off
    informed    \* history: no list was published that had nothing to go by

storeData == <<trust, lists, bundles>>
managerVars == <<storeData, sessions, call, publishing, toPublish, fetch, published, events,
                 decisions, listNews, allowed, changes, standing, informed>>

Levels == {"undecided", "trusted", "verified", "distrusted", "ignored"}
NoLevel == "none"
Callers == Encrypts \cup Publishes
NoFetch == [at |-> "none"]
NoList == [known |-> FALSE, fresh |-> FALSE, devices |-> {}]
\* What ParseDeviceList finds, stored with the time of now.
List(devices) == [known |-> TRUE, fresh |-> TRUE, devices |-> devices]

\* A pubsub_event of the node of the device lists.
Event(j, devices) == [account |-> j, devices |-> devices]

IdleEncrypt == [pc |-> "idle", accounts |-> {}, targets |-> {}, device |-> Me, scan |-> {},
                recipients |-> {}]

\* Store.Trust: an address without an entry is undecided.
Level(a) == IF trust[a] = NoLevel THEN "undecided" ELSE trust[a]

\* Store.KnownAddresses, those of one account.
KnownAddresses(j) == {a \in Devices : JIDOf[a] = j /\ (a \in bundles \/ trust[a] # NoLevel)}

\* What the policy makes of all the decisions at one moment.
Trusted(a) ==
    \/ Level(a) \in {"trusted", "verified"}
    \/ /\ Level(a) = "undecided"
       /\ \/ Policy = "trust-all"
          \/ /\ Policy = "blind-before-verification"
             /\ \A b \in Devices : JIDOf[b] = JIDOf[a] => trust[b] # "verified"

CallPcs == {"idle", "collect", "targets", "trust", "known", "scan", "session", "build", "wrap", "over"}
EncryptRecord == [pc : CallPcs, accounts : SUBSET Accounts, targets : SUBSET Devices,
                  device : Devices, scan : SUBSET Devices, recipients : SUBSET Devices]
ListRecord == [known : BOOLEAN, fresh : BOOLEAN, devices : SUBSET Devices]
FetchRecord == {NoFetch} \cup [at : {"asked"}, account : Accounts]
               \cup [at : {"answered"}, account : Accounts, devices : SUBSET Devices]
EventRecord == [account : Accounts, devices : SUBSET Devices]

ManagerTypeOK ==
    /\ trust \in [Devices -> Levels \cup {NoLevel}]
    /\ bundles \subseteq Devices /\ sessions \subseteq Devices
    /\ call \in [Encrypts -> EncryptRecord]
    /\ allowed \in [Encrypts -> SUBSET Devices] /\ changes \in [Encrypts -> Nat]
    /\ decisions \in 0..MaxDecisions /\ listNews \in 0..MaxListNews
    /\ lists \in [Accounts -> ListRecord] /\ published \in [Accounts -> SUBSET Devices]
    /\ events \in Seq(EventRecord) /\ fetch \in [Callers -> FetchRecord]
    /\ publishing \in [Publishes -> {"idle", "fetch", "publish", "store", "over"}]
    /\ toPublish \in [Publishes -> SUBSET Devices]
    /\ standing \subseteq Devices /\ informed \in BOOLEAN

\* Users have decided before, lists are published and not cached; others of the account
\* may already be there.
ManagerInit ==
    /\ trust \in [Devices -> {NoLevel, "verified"}] /\ trust[Me] = NoLevel
    /\ lists = [j \in Accounts |-> NoList] /\ bundles = {} /\ sessions = {}
    /\ call = [e \in Encrypts |-> IdleEncrypt]
    /\ publishing = [p \in Publishes |-> "idle"] /\ toPublish = [p \in Publishes |-> {}]
    /\ fetch = [c \in Callers |-> NoFetch]
    /\ published = [j \in Accounts |-> {a \in Devices \ {Me} : JIDOf[a] = j}]
    /\ events = <<>> /\ decisions = 0 /\ listNews = 0
    /\ allowed = [e \in Encrypts |-> {}] /\ changes = [e \in Encrypts |-> 0]
    /\ standing = published[Own] /\ informed = TRUE

-----------------------------------------------------------------------------
(* RefreshDeviceList, within a call. *)

FetchAsk(c, j) == /\ fetch[c] = NoFetch
                  /\ fetch' = [fetch EXCEPT ![c] = [at |-> "asked", account |-> j]]

ServerGives(c) ==
    /\ fetch[c].at = "asked"
    /\ fetch' = [fetch EXCEPT ![c] = [at |-> "answered", account |-> fetch[c].account,
                                      devices |-> published[fetch[c].account]]]
    /\ UNCHANGED <<storeData, sessions, call, publishing, toPublish, published, events, decisions,
                   listNews, allowed, changes, standing, informed>>

\* GetItems fails, or ParseDeviceList or PutDeviceList does.
FetchFails(c) == fetch[c].at \in {"asked", "answered"} /\ fetch' = [fetch EXCEPT ![c] = NoFetch]

\* PutDeviceList with the time of now; an answer without a list counts as an empty one.
FetchApply(c) ==
    /\ fetch[c].at = "answered" /\ fetch' = [fetch EXCEPT ![c] = NoFetch]
    /\ lists' = [lists EXCEPT ![fetch[c].account] = List(fetch[c].devices)]

-----------------------------------------------------------------------------
(* EncryptMessage. *)

EncryptMessage(e, recipients) ==
    /\ call[e].pc = "idle"
    /\ call' = [call EXCEPT ![e] = [IdleEncrypt EXCEPT !.pc = "collect",
                                                       !.accounts = recipients \cup {Own}]]
    /\ allowed' = [allowed EXCEPT ![e] = {a \in Devices : Trusted(a)}]
    /\ UNCHANGED <<storeData, sessions, publishing, toPublish, fetch, published, events, decisions,
                   listNews, changes, standing, informed>>

\* The devices of account j; the own one is not a target.
Collected(e, j, devices) ==
    call' = [call EXCEPT ![e].targets = @ \cup (devices \ {Me}), ![e].accounts = @ \ {j}]

\* DeviceList: from the store while it is fresh, otherwise from the server.
CollectCached(e, j) ==
    /\ call[e].pc = "collect" /\ j \in call[e].accounts /\ fetch[e] = NoFetch
    /\ lists[j].known /\ lists[j].fresh
    /\ Collected(e, j, lists[j].devices)
    /\ UNCHANGED <<storeData, sessions, publishing, toPublish, fetch, published, events, decisions,
                   listNews, allowed, changes, standing, informed>>

CollectAsk(e, j) ==
    /\ call[e].pc = "collect" /\ j \in call[e].accounts
    /\ ~(lists[j].known /\ lists[j].fresh)
    /\ FetchAsk(e, j)
    /\ UNCHANGED <<storeData, sessions, call, publishing, toPublish, published, events, decisions,
                   listNews, allowed, changes, standing, informed>>

CollectFetched(e) ==
    /\ call[e].pc = "collect"
    /\ FetchApply(e)
    /\ Collected(e, fetch[e].account, fetch[e].devices)
    /\ UNCHANGED <<trust, bundles, sessions, publishing, toPublish, published, events, decisions,
                   listNews, allowed, changes, standing, informed>>

\* The account is left out.
CollectFails(e) ==
    /\ call[e].pc = "collect"
    /\ FetchFails(e)
    /\ Collected(e, fetch[e].account, {})
    /\ UNCHANGED <<storeData, sessions, publishing, toPublish, published, events, decisions,
                   listNews, allowed, changes, standing, informed>>

\* The lists are there, or the devices are done; no device, or no recipient, is an error.
NextTarget(e) ==
    /\ \/ call[e].pc = "collect" /\ call[e].accounts = {}
       \/ call[e].pc = "targets"
    /\ \/ \E a \in call[e].targets :
             call' = [call EXCEPT ![e].pc = "trust", ![e].device = a, ![e].targets = @ \ {a}]
       \/ /\ call[e].targets = {}
          /\ call' = [call EXCEPT ![e].pc = "over"]
    /\ UNCHANGED <<storeData, sessions, publishing, toPublish, fetch, published, events, decisions,
                   listNews, allowed, changes, standing, informed>>

\* Where the call goes with a device of this trust.
Judged(e, ok) == call' = [call EXCEPT ![e].pc = IF ok THEN "session" ELSE "targets"]

\* effectiveTrust that trusts blindly, whatever has been verified.
EffectiveTrustBlind(e) ==
    /\ call[e].pc = "trust"
    /\ Judged(e, Level(call[e].device) \in {"trusted", "verified", "undecided"})
    /\ UNCHANGED <<storeData, sessions, publishing, toPublish, fetch, published, events, decisions,
                   listNews, allowed, changes, standing, informed>>

\* effectiveTrust: the device's own level first; an undecided one is judged by the policy.
EffectiveTrust(e) ==
    /\ call[e].pc = "trust"
    /\ LET a == call[e].device
       IN IF Level(a) # "undecided" THEN Judged(e, Level(a) \in {"trusted", "verified"})
          ELSE CASE Policy = "trust-all" -> Judged(e, TRUE)
                 [] Policy = "manual" -> Judged(e, FALSE)
                 [] OTHER -> call' = [call EXCEPT ![e].pc = "known"]
    /\ UNCHANGED <<storeData, sessions, publishing, toPublish, fetch, published, events, decisions,
                   listNews, allowed, changes, standing, informed>>

\* Under blind trust before verification, the known addresses of the account,
ReadKnown(e) ==
    /\ call[e].pc = "known"
    /\ call' = [call EXCEPT ![e].pc = "scan", ![e].scan = KnownAddresses(JIDOf[call[e].device])]
    /\ UNCHANGED <<storeData, sessions, publishing, toPublish, fetch, published, events, decisions,
                   listNews, allowed, changes, standing, informed>>

\* and their levels, one read each.
ScanTrust(e) ==
    /\ call[e].pc = "scan"
    /\ \/ call[e].scan = {} /\ Judged(e, TRUE)
       \/ \E b \in call[e].scan :
             IF trust[b] = "verified" THEN Judged(e, FALSE)
             ELSE call' = [call EXCEPT ![e].scan = @ \ {b}]
    /\ UNCHANGED <<storeData, sessions, publishing, toPublish, fetch, published, events, decisions,
                   listNews, allowed, changes, standing, informed>>

\* EnsureSession up to BuildSession: a session, or a bundle from the store or the server.
EnsureSession(e) ==
    /\ call[e].pc = "session"
    /\ LET a == call[e].device
       IN IF a \in sessions
          THEN call' = [call EXCEPT ![e].pc = "wrap"] /\ UNCHANGED bundles
          ELSE call' = [call EXCEPT ![e].pc = "build"] /\ bundles' = bundles \cup {a}
    /\ UNCHANGED <<trust, lists, sessions, publishing, toPublish, fetch, published, events, decisions,
                   listNews, allowed, changes, standing, informed>>

BuildSession(e) ==
    /\ call[e].pc = "build"
    /\ sessions' = sessions \cup {call[e].device}
    /\ call' = [call EXCEPT ![e].pc = "wrap"]
    /\ UNCHANGED <<storeData, publishing, toPublish, fetch, published, events, decisions, listNews,
                   allowed, changes, standing, informed>>

\* Backend.Encrypt, and a key in the envelope.
WrapKey(e) ==
    /\ call[e].pc = "wrap"
    /\ call' = [call EXCEPT ![e].pc = "targets", ![e].recipients = @ \cup {call[e].device}]
    /\ UNCHANGED <<storeData, sessions, publishing, toPublish, fetch, published, events, decisions,
                   listNews, allowed, changes, standing, informed>>

\* No bundle, or the backend fails: the device is skipped.
SkipDevice(e) ==
    /\ call[e].pc \in {"session", "build", "wrap"}
    /\ call' = [call EXCEPT ![e].pc = "targets"]
    /\ UNCHANGED <<storeData, sessions, publishing, toPublish, fetch, published, events, decisions,
                   listNews, allowed, changes, standing, informed>>

-----------------------------------------------------------------------------
(* PublishDeviceList. *)

\* The cached list if it is fresh; otherwise it is fetched, and kept for the case that
\* this fails.
PublishDeviceList(p) ==
    /\ publishing[p] = "idle"
    /\ toPublish' = [toPublish EXCEPT ![p] = lists[Own].devices]
    /\ IF lists[Own].known /\ lists[Own].fresh
       THEN /\ publishing' = [publishing EXCEPT ![p] = "publish"]
            /\ UNCHANGED fetch
       ELSE /\ publishing' = [publishing EXCEPT ![p] = "fetch"]
            /\ FetchAsk(p, Own)
    /\ UNCHANGED <<storeData, sessions, call, published, events, decisions, listNews, allowed,
                   changes, standing, informed>>

PublishFetched(p) ==
    /\ publishing[p] = "fetch"
    /\ FetchApply(p)
    /\ toPublish' = [toPublish EXCEPT ![p] = fetch[p].devices]
    /\ publishing' = [publishing EXCEPT ![p] = "publish"]
    /\ UNCHANGED <<trust, bundles, sessions, call, published, events, decisions, listNews, allowed,
                   changes, standing, informed>>

\* What the failed refresh returns is taken.
PublishUnfetchedEmpty(p) ==
    /\ publishing[p] = "fetch"
    /\ FetchFails(p)
    /\ publishing' = [publishing EXCEPT ![p] = "publish"]
    /\ toPublish' = [toPublish EXCEPT ![p] = {}]
    /\ informed' = (informed /\ toPublish[p] # {})
    /\ UNCHANGED <<storeData, sessions, call, published, events, decisions, listNews, allowed,
                   changes, standing>>

\* The refresh failed: the list stays what the store had, if anything.
PublishUnfetched(p) ==
    /\ publishing[p] = "fetch"
    /\ FetchFails(p)
    /\ publishing' = [publishing EXCEPT ![p] = "publish"]
    /\ informed' = (informed /\ toPublish[p] # {})
    /\ UNCHANGED <<storeData, sessions, call, toPublish, published, events, decisions, listNews,
                   allowed, changes, standing>>

ListToPublish(p) == toPublish[p] \cup {Me}

\* The request reaches the server, which notifies all clients.
ServerPublishes(p) ==
    /\ publishing[p] = "publish"
    /\ publishing' = [publishing EXCEPT ![p] = "store"]
    /\ published' = [published EXCEPT ![Own] = ListToPublish(p)]
    /\ events' = Append(events, Event(Own, ListToPublish(p)))
    /\ UNCHANGED <<storeData, sessions, call, toPublish, fetch, decisions, listNews, allowed,
                   changes, standing, informed>>

\* The response: the list goes to the store.
PublishStore(p) ==
    /\ publishing[p] = "store"
    /\ publishing' = [publishing EXCEPT ![p] = "over"]
    /\ lists' = [lists EXCEPT ![Own] = List(ListToPublish(p))]
    /\ UNCHANGED <<trust, bundles, sessions, call, toPublish, fetch, published, events, decisions,
                   listNews, allowed, changes, standing, informed>>

\* Publish returns an error, whether or not the server has done it.
PublishFails(p) ==
    /\ publishing[p] \in {"publish", "store"}
    /\ publishing' = [publishing EXCEPT ![p] = "over"]
    /\ UNCHANGED <<storeData, sessions, call, toPublish, fetch, published, events, decisions,
                   listNews, allowed, changes, standing, informed>>

-----------------------------------------------------------------------------
(* The reader, the user, the clock, and other clients. *)

\* handlePubSub on the event of a device list.
HandlePubSub ==
    /\ events # <<>> /\ events' = Tail(events)
    /\ lists' = [lists EXCEPT ![Head(events).account] = List(Head(events).devices)]
    /\ UNCHANGED <<trust, bundles, sessions, call, publishing, toPublish, fetch, published, decisions,
                   listNews, allowed, changes, standing, informed>>

\* handleEncrypted: the backend may make a session; the store is only read.
HandleEncrypted(a) ==
    /\ a \notin sessions \cup {Me}
    /\ sessions' = sessions \cup {a}
    /\ UNCHANGED <<storeData, call, publishing, toPublish, fetch, published, events, decisions,
                   listNews, allowed, changes, standing, informed>>

Running(e) == call[e].pc \notin {"idle", "over"}

SetTrust(a, level) ==
    /\ decisions < MaxDecisions /\ decisions' = decisions + 1
    /\ trust' = [trust EXCEPT ![a] = level]
    /\ changes' = [e \in Encrypts |-> IF Running(e) THEN changes[e] + 1 ELSE changes[e]]
    /\ allowed' = [e \in Encrypts |-> IF Running(e) THEN allowed[e] \cup {b \in Devices : Trusted(b)'}
                                      ELSE allowed[e]]
    /\ UNCHANGED <<lists, bundles, sessions, call, publishing, toPublish, fetch, published, events,
                   listNews, standing, informed>>

ListExpires(j) ==
    /\ lists[j].fresh /\ lists' = [lists EXCEPT ![j].fresh = FALSE]
    /\ UNCHANGED <<trust, bundles, sessions, call, publishing, toPublish, fetch, published, events,
                   decisions, listNews, allowed, changes, standing, informed>>

\* Another device's client adds the device to its account's list, or removes it.
OtherPublishes(a) ==
    /\ listNews < MaxListNews /\ listNews' = listNews + 1
    /\ LET j == JIDOf[a]
           now == IF a \in published[j] THEN published[j] \ {a} ELSE published[j] \cup {a}
       IN /\ published' = [published EXCEPT ![j] = now]
          /\ events' = Append(events, Event(j, now))
          /\ standing' = IF j = Own THEN standing \cap now ELSE standing
    /\ UNCHANGED <<storeData, sessions, call, publishing, toPublish, fetch, decisions, allowed,
                   changes, informed>>

\* It publishes an item that is no list: to RefreshDeviceList an empty list, and to
\* handlePubSub nothing.
OtherSpoils(j) ==
    /\ listNews < MaxListNews /\ listNews' = listNews + 1
    /\ published' = [published EXCEPT ![j] = {}]
    /\ standing' = IF j = Own THEN {} ELSE standing
    /\ UNCHANGED <<storeData, sessions, call, publishing, toPublish, fetch, events, decisions,
                   allowed, changes, informed>>

-----------------------------------------------------------------------------
EncryptNext(e) ==
    \/ \E j \in Accounts \ {Own} : EncryptMessage(e, {j})
    \/ \E j \in Accounts : CollectCached(e, j) \/ CollectAsk(e, j)
    \/ CollectFetched(e) \/ CollectFails(e) \/ NextTarget(e) \/ EffectiveTrust(e) \/ ReadKnown(e)
    \/ ScanTrust(e) \/ EnsureSession(e) \/ BuildSession(e) \/ WrapKey(e) \/ SkipDevice(e)

PublishNext(p) ==
    \/ PublishDeviceList(p) \/ PublishFetched(p) \/ PublishUnfetched(p) \/ ServerPublishes(p)
    \/ PublishStore(p) \/ PublishFails(p)

\* The reader, the clock and the other clients.
ListsNext ==
    \/ HandlePubSub
    \/ \E j \in Accounts : ListExpires(j) \/ OtherSpoils(j)
    \/ \E a \in Devices \ {Me} : OtherPublishes(a)

SessionsNext == \E a \in Devices : HandleEncrypted(a) \/ \E level \in Levels : SetTrust(a, level)

EncryptingNext == (\E e \in Encrypts : EncryptNext(e) \/ ServerGives(e)) \/ SessionsNext
PublishingNext == (\E p \in Publishes : PublishNext(p) \/ ServerGives(p)) \/ ListsNext
ManagerNext == EncryptingNext \/ PublishingNext

ManagerSpec == ManagerInit /\ [][ManagerNext]_managerVars

-----------------------------------------------------------------------------
(* Properties. *)

\* EncryptMessage wraps the key only for devices that the policy trusted at some moment
\* of the call, though it reads the levels one by one, as long as no more than one
\* decision falls into the call (manager.go:351-372, 484-518; docs/omemo.md:146-151).
TrustRespected == \A e \in Encrypts : changes[e] <= 1 => call[e].recipients \subseteq allowed[e]

\* However publications overlap, go by lists from before their fetch or the TTL, or fall
\* back on one after a failed fetch, no device that was on the account's list from the start
\* is taken off it by PublishDeviceList, as long as none had to fall back on an empty list
\* (manager.go:156-170, 176-199, 462-483).  A device that joined after the list was read may
\* still be taken off, and one that has left may be brought back.
DevicesKept == informed => standing \subseteq published[Own]
=============================================================================
