# A TLA+ verification project for slixmpp-go

slixmpp-go is an XMPP client and component library in Go. Its core (`src/xmpp`) is
concurrent: application goroutines call `RequestIQ`, `Send`, `Connect`, `Close` and
`Plugins.Use`, while one reader goroutine decodes the stream and runs the handlers. On
top of it stand protocol extensions (`src/xep`, `src/omemo`), some with state of their
own. The modules here model the core and the stateful extensions, from the code; TLC
checks small instances, and TLAPS proves the safety properties for every instance.

## 1. The system

| Component | State | Operations | Hard behaviours |
|---|---|---|---|
| IQ requests (`xmpp/client.go`) | `pending` under `pendingMu`, one channel of capacity 1 per call, `nextID`, `writeMu`, `done` | `RequestIQ`, `Send`/`writeRaw`, the delivery branch of `readLoop` | the reader looks up a channel and sends after the unlock; timeout, response and end of stream race in a `select`; handlers that call `RequestIQ` on the reader; writes without a deadline |
| Lifecycle (`xmpp/client.go`) | `conn`, `connected`, `closing` under `stateMu`; `done`, `doneOnce`, `keepaliveDone` | `Connect`, `finishConnect`, `failConnect`, `Close`, `finish`, `readLoop`, `keepaliveLoop` | reader and Closes race for `doneOnce`; failure at every point of `Connect`; events emitted around the start and, inside `doneOnce`, at the end; a write in `Close` |
| Negotiation (`client.go`, `sasl.go`, `component.go`, `config.go`) | the stream's features, TLS, the SASL mechanism, the bound JID | opening, STARTTLS, SASL, bind, session, component handshake | a server that answers anything in any order; a second attempt on a used `Client` |
| Plugin manager (`plugin.go`) | `factories`, `loaded`, `loading`, `order` | `RegisterFactory`, `Use`, `Load`, `shutdown` | recursion with the mutex released; cycles; an `Init` that fails; shutdown meanwhile |
| Events and handlers (`events.go`, `handler.go`, `client.go`) | lists of subscriptions by event, list of stanza handlers | `On`, `Once`, `Off`, `Emit`, `AddHandler`, `RemoveHandler`, `dispatchStanza` | callbacks that register, remove and emit while a snapshot is dispatched |
| Roster (`roster.go`) | `items`, `version` | `Get`, `handlePush`, `Set`, `Remove` | a response is applied by the caller, pushes by the reader |
| Stream management (`xep/client_control.go`) | `SMState`, `unacked` | `Enable`, `onSent`, `onReceived`, `onElement`, `applyAck`, `ResumeNode` | bookkeeping runs after the write, outside its mutex; counters wrap; resumption |
| Blocking, carbons, client state (`xep/client_control.go`) | cached block list, two switches | requests and pushes | as Roster, with replacement instead of merging |
| MUC (`xep/muc.go`) | rooms, pending joins | `Join`, `Leave`, `handlePresence` | a channel send on the reader goroutine |
| MAM (`xep/mam.go`) | running queries | `Query`, `handleResult` | results before, after and between the answers |
| OMEMO (`omemo/`) | device lists, bundles, sessions, a JSON file | publish, fetch, encrypt, decrypt, persist | persistence after the change in memory; read-modify-publish of device lists |
| Discovery (`xep/disco.go`) | features, identities and items by node, as Go slices | `AddFeature`, `RemoveFeature`, `SetInfo`, `LocalInfo` | a slice is copied under the lock and appended to and sorted after the unlock |
| Message extensions (`xep/message_extensions.go`) | the `Extensions` slice of a message | setters and getters of a dozen XEPs | copies of a message share the array that `removeExtension` filters in place |
| Bookmarks, private storage, PubSub (`xep/storage_upload.go`, `xep/pubsub.go`) | none here; the server's storage | `Get`, `Set`, `Publish`, `Delete`, `Retract`, `Purge` | calls that give up while their request is done; other clients of the account |
| The rest | none, or a table under one mutex | JIDs, nodes, stanzas, matchers, forms, payloads, catalogue, API registry, examples | parsing and encoding |

How they interact. `Connect` runs the negotiation, then starts the reader and keepalive
goroutines. The reader hands responses to the channels in `pending`, and dispatches every
stanza: handlers first, then events. Handlers and synchronous subscribers run on the
reader. `Send` writes under `writeMu` and emits `sent_stanza` afterwards, in the sender's
goroutine; stream management lives on that event. Plugins register handlers and
subscriptions in `Init` and are shut down, last first, by `Close`. Roster, blocking, MAM
and OMEMO ask with `RequestIQ` and are told by pushes on the reader.

What makes each correct, in a line:

- IQ requests: a call gets the response to its own request or an error, once; the map
  neither leaks nor mixes up entries; nothing the server sends stops the reader.
- Lifecycle: `connected`, `conn` and `done` agree; the end is announced once; a `Close`
  returns and the goroutines stop, but for the two cases in which the code hangs; a failed
  `Connect` leaves nothing behind.
- Negotiation: no credentials in the clear unless asked for; no decision on features of an
  earlier stream; the best mechanism; a bound JID at the end.
- Plugins: dependencies first, in `Init`, in `order` and, reversed, in shutdown; cycles
  end in an error; errors leave no marks.
- Events and handlers: the lists are exactly what was registered and not removed; order of
  calls is by priority; one-shot entries are consumed.
- Stream management: what the server has not handled is kept for resending; the count
  reported to the server never exceeds what the server has sent.
- Roster: entries are the server's; entries and version fit one another.
- Block list and switches: when nothing is under way, the list is what the server has, and
  a set that succeeds alone puts its switch right again.
- MUC: `Join` returns the room as it is, `Room` follows it, and the reader is never left
  waiting by a Join that has gone.
- MAM: a page has the results of its own query, in order.
- OMEMO: what a call has confirmed survives a crash; a device gets a key only if the
  policy trusts it; publishing this device removes none that has been on the list from the
  start.
- Discovery and message extensions: what was added is there, what was set last is read.
- Bookmarks: `Get` returns what was stored, whole and as it was meant.

`PROJECT.json` lists under "hazards" the places in the code where these are at risk, and
which property watches each.

## 2. Modules

```
IqCall                  what RequestIQ promises
  ^ implemented by
IqRequests              RequestIQ, reader, write mutex, end of stream
  ^ extended by
IqRequestsProofs        theorems about it

ClientLifecycle         Connect, Close, finish, reader and keepalive goroutines
Negotiation             inside of Connect                     (MCNegotiation)

Plugins                 PluginManager                 (MCPlugins)    \
Disco                   XEP-0030, features                           | MCRegistries
MessageExtensions       setters and getters                          /
Dispatch                EventBus, stanza handlers     (MCDispatch)   \
Muc                     XEP-0045                                     | MCHandlers
Archive                 XEP-0313                                     /
StreamManagement        XEP-0198                (MCStreamManagement) \
Roster                  RosterManager                                |
ClientControl           XEP-0191, 0280, 0352                         | MCAccount
Bookmarks               XEP-0048, 0049, 0060, 0402                   |
OmemoStore              omemo.JSONStore                              |
OmemoManager            omemo.Manager                                /

GoSlices                slices that share an array (used by Disco, MessageExtensions)
Selections              what loops keep and sort (used by Dispatch, Disco,
                        MessageExtensions, Bookmarks)
```

Theorems are in modules of their own, which extend the modules they are about:
`IqRequestsProofs`, `ClientLifecycleProofs`, `NegotiationProofs`,
`StreamManagementProofs`, `HandlersProofs` (`Dispatch`, `Muc`, `Archive`),
`RegistriesProofs` (`Plugins`, `MessageExtensions`, `Disco`) and `AccountProofs`
(`Roster`, `ClientControl`, `Bookmarks`, `OmemoStore`, `OmemoManager`).
`SelectionsProofs` holds the lemmas about `Selections` that three of them share.

`MCRegistries`, `MCHandlers` and `MCAccount` put components into one run. These
components share no state, so their product has nothing that the components alone do not
have: the variable `part` says which of them moves in a behaviour, and the others stay
in an initial state. In `MCAccount` the OMEMO manager is two parts, encryption under
trust decisions and publication under changes of the lists, because the two together are
too many states; an encryption while lists are being published is left out of the run.

Conventions. A critical section of a mutex is one step; between two critical sections
other goroutines run. A goroutine's place is a "pc" value; a place is kept only where
another goroutine can tell it apart from the next. Names follow the code: `pending`,
`writeMu`, `HandlePush`, `FinishConnect`. Variables marked "history" are read by
properties only. Several say that something has not happened which the code is not
built to survive (`raced`, `calm`, `orderly`, `mucOrderly`, `blockOrderly`, `informed`,
`spoilt`, `misled`, `torn`): the property holds as long as they do, and the hazard in
`PROJECT.json` says what happens otherwise. An operator that stands just before a
definition and has its shape with something missing is a plausible mistake in that
definition (`ReadEndSilent` before `ReadEnd`, `NativeNodePlain` before `NativeNode`); no
specification uses it, and `PROJECT.json` ("mutants") says which property notices when
it is put in the definition's place.

### IqRequests and IqCall

One call of `RequestIQ` goes `idle` → `register` (it has an ID) → `send` (in `pending`) →
`lock` → `write` → `wait` → `cleanup` → `returned`. `Register` has the duplicate test,
`SendCheck` the test for a connection, `LockWrite`/`WriteOK`/`WriteFails` are `writeRaw`
with `writeMu` in between, `TakeResponse`/`TakeTimeout`/`TakeClosed` are the cases of the
`select`, and `Cleanup` the deferred delete. The reader goes `loop` → `read` →
`deliver` (it holds a channel found under `pendingMu`, which the call may give up
meanwhile) → `dispatch` → `handler`. A channel is a set of at most one IQ; the send has a
`default`, so a full channel drops. `Inline` calls are made by a handler on the reader:
while one is under way, the reader is in `handler`. `AppIDs` are IDs that the application
sets in the request itself, which may repeat. The server answers late, twice, or in any
order, and sends requests of its own that may carry an ID of ours. It makes up no response
to a request it has not seen: `readLoop` goes by the ID alone, never by who a response is
from, and would take one for the answer. `Break` is the loss or
the closing of the transport, `Stall` a peer that stops reading.

`IqCall` is the same seen from the caller: open, answered or failed; answered only if the
request reached the server; never open for ever.

### ClientLifecycle

Each `Connect` has its own transport, reader and keepalive goroutine. Negotiation is one
step that succeeds or fails. `Finish` is `finish`, for the reader and for Close: its body
inside `doneOnce.Do` (`FinishBody`, `FinishDone` and the two events) runs in the first
goroutine that arrives, and others wait for it to end. Subscribers of `session_end` and
`disconnected` run inside the body, and the Closes in `Hooks` are theirs: such a Close
returns if another one is under way, and otherwise comes to the `doneOnce` it was called
from and waits for itself (`Reentered`). `WriteStalls` is a write that does not return
because the peer has stopped reading; it holds `writeMu`, which `Close` needs before it
closes the transport. `finishConnect`
calls `Close` itself when the initial presence cannot be sent, so Connects are closers
too. The application makes one `Connect` at a time and none after the session ended. It
calls `Close` at any time; `raced` remembers that one overlapped a `Connect`, and the two
properties that the code does not keep in that case say so (see the hazards at
client.go:153).

### Negotiation

All combinations of DirectTLS, RequireTLS, InsecureAllowPlainAuth, component mode,
password and certificate, through `Normalized`, against a server that offers any subset
of features on every stream and answers as it likes. Digests are abstracted: a server
message of the SCRAM exchange passes the client's tests or does not. Certificate
verification is the `Handshake` step. `Again` is a second `Connect` on the same `Client`
after a failure, with the JID as the first one left it.

### Plugins

A goroutine in `Use` has a stack of frames; `Load` is the frame's first place. `loading`
is one map for all goroutines, as in the code. Instances are numbers. `RegisterFactory`
may add names at any time. `ShutdownBegin` copies `order`; `ShutdownNext` takes the last.

### Dispatch

The stanza handlers and the subscriptions of each event are lists in one variable. A
dispatch is a loop over a copy made by `NewLoop` (for an event sorted together with the
list of `*`); `Take` removes the next entry if it is one-shot, `Run` calls it, `Return` is
its end. While a callback runs, `On`, `Off` and `Emit` happen in it or elsewhere. An error
of a stanza handler is reported with the event `error` before the next one is called.
`Async` entries run in goroutines of their own.

### StreamManagement

`SendWrite` and `OnSent` are the two halves of `Send` that matter here: the write, and the
event handler that queues the stanza, with the mutex released in between. `EnableSend` and
`EnableTake` are the two halves of `Enable` around the wait for the reader (`OnEnabled`,
`OnFailed`). The server is a correct one, and external: it counts from `<enable/>` on,
on the streams of the session only, acknowledges, and answers `<resume/>`. Resumption is
the application's work, on the same plugin instance: "Automatic transport
reconnection/resumption is deliberately not hidden" (docs/stateful-xeps.md:83). It calls
`Connect` on the same `Client` (`Reconnect`), which binds, starts the reader and sends
presence, so that stanzas pass on the new stream before `<resume/>`; `Enabled` has stayed
true, and the event handlers count and queue them. `strays` are those that the server
sent there. A second loss would leave `conn` set, and `Connect` refuses then
(client.go:107): the model is wider and goes on. Of what the server may send again after
resumption nothing is said; it counts as further stanzas. The plugin of a new `Client`
starts at zero, which is `Init`. Counters and the counts on the wire are modulo `Modulus`.

### Roster

The server's roster is a log of changes; a version is a length of the log. A response is
applied in two steps: the reader puts it into the call's channel (`ReadResponse`), the
caller merges it (`GetApply`); pushes come in between. `Set` and `Remove` change the
cache only by the push they cause (`ServerChanges`). Others than the account's server
send pushes too.

### ClientControl

The block list has the shape of the roster, with two differences: `List` replaces the
cache (`ListApply`), and an unblock without items unblocks everyone (`AfterPush`).
Carbons and client state are switches that the caller's goroutine sets: carbons after
the response, client state after the write; the server's switch follows the order of the
wire (`switchOut`). Sets overlap, are refused, and time out with their request still under
way. `settled` says that since the last overlap or timeout a set has succeeded alone. One
stream is modelled: after a reconnection the server's switches start again and the flags
do not. Contacts are bare JIDs.

### Muc

One room; rooms share only the reader. A `Join` makes a fresh `Room`, registers a
channel of capacity one under `room/nick`, sends and waits; `HandlePresence` looks the
channel up by the nickname the `Room` has at that moment, and `AnswerJoin`, after the
unlock, is the send that may block the reader. The service admits, refuses, renames,
kicks, and announces people and subjects, in order. `mucOrderly` is lost when a Join
begins inside the room or with something under way, and when a Leave, a kick or a change
of the client's own presence falls into one. A subject that is cleared stays in the
`Room`: `handleMessage` takes an empty subject for none (muc.go:327).

### Archive

`Query` registers under its ID, asks, copies what the handler has filed once the response
is there, and removes its entry in a deferred function. Results are messages ahead of the
response; those of two queries come interleaved, one that cannot be parsed is left out,
and a query may have given up before they come. Pages are asked for by the archive ID
after which they begin.

### OmemoStore

A change is made in memory under `mu`; then, under `persistMu`, a snapshot is taken,
written to a temporary file and renamed. Each is a step of its own, a write may fail, and
the process may die at any point and open the file again. Values are numbered by the
order of the changes, so that "the file has this change or a later one" can be said.

### OmemoManager

`EncryptMessage` collects the devices of the recipients and of the account (from the
cache while it is fresh, from the server otherwise), and for each asks `effectiveTrust`,
whose reads (`EffectiveTrust`, `ReadKnown`, `ScanTrust`) are separate calls of the store,
then makes a session and wraps the key. `PublishDeviceList` takes the cached or fetched
list, or the cached one after all when the fetch fails, adds this device, publishes and
stores. Meanwhile users decide on trust, lists expire, other clients publish, items that
are no list among it (`OtherSpoils`), and the reader applies notifications. `standing` are
the account's devices that no other client has taken off its list, `informed` that no
publication had to fall back on an empty list: such a one publishes this device alone. A
device that joined after a publication had read the list may be taken off by it, and one
that left brought back.

### Disco and MessageExtensions

Both are about Go slices: `GoSlices` keeps a heap of arrays, and a slice is an array and a
length. In `Disco`, `LocalInfo` copies the slice under the lock; after the unlock each
append (`MergeFeature`), the sort (`SortFeatures`) and the clone (`LocalInfoAnswers`) is a
step, and the first two write to the array that the registry, or another LocalInfo, still
shows when there is capacity to spare. What others see between the writes of a sort is not
told apart. `SetInfo` is given each feature once (`Lists`); it would keep a list that
repeats one, of which `RemoveFeature` takes away the first only. `HitByAppend`, `HitByRemoval` and `HitBySort` say
when a write changes what another slice shows; `spoilt` remembers that this befell the
registry, `misled` which LocalInfos it befell. `MessageExtensions` has copies of a
message, the setters that remove and append, and the getters; `torn` are the messages that
a call on a copy has written to.

### Bookmarks

Every call is one IQ through `RequestIQ`: it is written, the server does it or refuses,
and the call returns or has given up before. `LegacyNode`, `NativeNode` and their parsers
are the conversions, with the Boolean and the extensions as the code writes and reads
them: a legacy bookmark has no place for extensions, and a native one does not get back
those called nick or password. Other clients replace the list and publish bookmarks in
their own spelling. The server answers with all items; `PEP.Items` drops the paging
information (pubsub.go:418-421), so that a page would be returned as the whole. `kept`
remembers the bookmarks that were meant by what is stored, `held` what was kept while a
read was under way.

## 3. Runs

| Run | Instance | Distinct states | Shows |
|---|---|---|---|
| `iq_safety` | 3 calls, one of them inline, one ID of the application, 2 IQs from the server, stalls | 1.27 M | `PendingOwned`, `OwnAnswer`, `InlineNeverAnswered`, `TypeOK` |
| `iq_liveness` | 1 call and 1 inline call, the client's IDs, 2 IQs, no stalls, fairness | 5 k | `CallsReturn`, `ReaderProgress`, `ImplementsIqCall` |
| `lifecycle` | 2 Connects, 2 Closes, one of them a subscriber's, keepalive and initial presence, a peer that may stop reading, fairness | 191 k | `ConnectedIsLive`, `FailedConnectClean`, `EndsOnce`, `CloseReturns`, `SessionWindsDown` |
| `negotiation` | all configurations, 2 orders of mechanisms, 4 offers, 2 attempts, fairness | 87 k | `AuthOverTLS`, `FeaturesAreCurrent`, `BestMechanism`, `ReadyIsBound`, `ConnectReturns` |
| `registries` | plugins: 5 (a chain, a diamond, a cycle), 2 goroutines, 2 calls, 1 failing Init; discovery: 3 features, 2 of plugins, 5 lists for SetInfo, 2 LocalInfos, 3 changes; extensions: 2 messages, 2 sets | 1.79 M | `OrderTopological`, `InitFindsDeps`, `LoadingHeld`, `ShutdownReversed`; `FeaturesKept`; `LastSetWins` |
| `handlers` | dispatch: 5 entries in 3 lists, 2 goroutines, nesting 2; rooms: 2 Joins, 2 nicknames, 1 other; archive: 2 queries, 3 messages, pages of 2 | 2.59 M | `RegistryExact`, `PriorityOrder`, `OnceConsumed`; `JoinExact`, `RoomExact`, `ReaderFreed`; `PageExact` |
| `account` | stream management: 2 senders, modulus 2, 3 stanzas, 1 lost connection; roster: 2 contacts, 2 values, 2 Gets, 3 changes, 1 push of a stranger; blocking: 2 contacts, 2 Lists, 2 changes; 3 sets of the switches; bookmarks: 2 rooms, 3 calls, 1 change by another client; store: 2 calls, 2 keys, 2 puts, 1 crash, 1 failing write; manager: 4 devices, 1 encryption, 2 publications, 1 decision, 2 changes of lists | 4.15 M | `OrderlyRetained`, `NotOverstated`; `OrderlySound`; `BlockListExact`, `SwitchesRecover`; `BookmarksExact`; `AckedDurable`, `OwnAgrees`; `TrustRespected`, `DevicesKept` |

Five runs end in a violation, on purpose: the property is a sentence of the
documentation, and TLC finds the behaviour of the code that contradicts it.

| Run | Sentence | What happens |
|---|---|---|
| `iq_stalled_write` | "Context cancellation controls all request/response operations." (docs/architecture.md:68) | the context is consulted after `Send` has returned, and the write has no deadline: with a peer that stops reading, the call and all that wait for `writeMu` stay |
| `close_leak` | "Close closes plugins, the XML stream, and the transport." (client.go:561) | the server ends the stream; the reader's `finish` sets `conn` to nil without closing it; `Close` finds nil |
| `plugins_idempotent` | "Calling `Use` twice for the same plugin name is idempotent." (docs/plugins.md:67) | of two goroutines, the second is told of a cyclic dependency |
| `stream_queue` | "retains the unacknowledged stanza queue" (docs/stateful-xeps.md:76) | two overlapping Sends are queued in the other order than they were written, or a Send straddles `Enable`; an acknowledgement then drops a stanza the server has not handled |
| `omemo_device_id` | "JSONStore persists device IDs" (docs/omemo.md:157) | `OwnDeviceID` generates an ID in memory and persists it afterwards; another call returns it in between, the process dies, and the next one generates another ID |

Why the bounds are enough. The races in this code are between two parties, the reader and
a caller, or two callers; a third call in `iq_safety` is there to be under way while two
others race. Two IQs let a response and a duplicate, or a late response and a request with
the same ID, meet. Two Connects give a failure and a retry, two Closes a race of Closes
with the reader. For stream management, modulus 2 makes the counters wrap within three
stanzas; a window of more than `Modulus` unacknowledged stanzas is also reached, as no
bound relates the two. Five plugins hold one dependency pattern of each kind. For the
roster, three changes allow a set, an overtaking push and a removal; for the block list
two. Two Joins are a first and its retry; two queries interleave their results, and three
messages with pages of two make a second page. Three calls on the bookmarks are one that
gives up, one that overwrites it, and a read. Three changes of the features make an array
with a spare cell, which the appends of two LocalInfos then meet in. The store needs two
calls, since persists are serialised, and one crash, since a reopened store is like a new one. Four devices are
one of a contact, this one and two others of the account, one of which may leave while
the other stays. One announcement in the room keeps a few histories of earlier stays out
of TLC's reach, which the theorems cover. Runs do not
check for deadlock, because in all of these systems it is legal to stop: calls are made
a bounded number of times, and a session that nobody ends may stay idle. What must not
stop is stated as liveness.

Symmetry is used only for the senders in `stream_queue` and for the LocalInfo calls in
`registries`, which are interchangeable, and in no run with liveness.

Fairness. Weak fairness for each goroutine's next step, which is the Go scheduler's
promise. Strong fairness for `LockWrite`, because `sync.Mutex` hands the lock to a waiter
that has starved, and for `EndDispatch`: a handler that the reader calls returns in the
end, also if it may choose to call `RequestIQ` first. A timeout fires: deadlines are
positive after `Config.normalized`, and `RequestIQ` adds one when the context has none.
`iq_liveness` also takes writes to return, in a run where the peer does not stall;
`iq_stalled_write` shows what happens without that. In `lifecycle` a write may be stuck for
ever, and the properties say what then still holds. No step of the application, the server
or the network is assumed to happen.

What is assumed of the server is in the modules' actions for it. Negotiation takes one that
answers anything at any time. The others take one that keeps to the protocol: it responds
to what it was asked (late, repeatedly or never), its pushes and responses are in the order
of its changes, it counts, stores and announces as the extensions say, and it answers with
whole lists. Third parties may send pushes (`Roster`, `ClientControl`) and ill-formed
results (`Archive`).

## 4. Proofs

Every theorem holds for all values of the constants that satisfy the assumptions of its
module: any number of calls, goroutines, contacts, stanzas, crashes. The bounds that TLC
needs (`MaxSent`, `MaxPuts` and the like) are arbitrary numbers here.

| Module | Theorem | Property of a run |
|---|---|---|
| `IqRequestsProofs` | `TypeCorrect` | `TypeOK` |
| | `PendingIsOwned` | `PendingOwned` |
| | `ResponsesCorrelate` | `OwnAnswer` |
| | `InlineCallsNeverAnswered` | `InlineNeverAnswered` |
| | `RefinesIqCall` | the safety part of `ImplementsIqCall` |
| `ClientLifecycleProofs` | `ConnectedMeansLive` | `ConnectedIsLive` |
| | `FailedConnectIsClean` | `FailedConnectClean` |
| | `SessionEndsOnce` | `EndsOnce` |
| `NegotiationProofs` | `AuthenticatesOverTLS` | `AuthOverTLS` |
| | `FeaturesCurrent` | `FeaturesAreCurrent` |
| | `MechanismIsBest` | `BestMechanism` |
| | `ConnectReadyIsBound` | `ReadyIsBound` |
| `RegistriesProofs` | `OrderIsTopological` | `OrderTopological` |
| | `InitFindsItsDeps` | `InitFindsDeps` |
| | `LoadingIsHeld` | `LoadingHeld` |
| | `ShutdownIsReversed` | `ShutdownReversed` |
| | `LastSetWinsHolds` | `LastSetWins` |
| | `FeaturesKeptHolds` | `FeaturesKept` |
| `StreamManagementProofs` | `QueueIsRetained` | `OrderlyRetained` |
| | `CountNotOverstated` | `NotOverstated` |
| `HandlersProofs` | `RegistriesAreExact` | `RegistryExact` |
| | `CallsByPriority` | `PriorityOrder` |
| | `OneShotsAreConsumed` | `OnceConsumed` |
| | `JoinedRoomIsExact` | `JoinExact` |
| | `RoomAgreesAtRest` | `RoomExact` |
| | `ReaderIsFreed` | `ReaderFreed` |
| | `PagesAreExact` | `PageExact` |
| `AccountProofs` | `RosterIsSound` | `OrderlySound` |
| | `BlockListIsExact` | `BlockListExact` |
| | `SwitchesDoRecover` | `SwitchesRecover` |
| | `BookmarksExactHolds` | `BookmarksExact` |
| | `AckedChangesDurable` | `AckedDurable` |
| | `OwnDeviceIDAgrees` | `OwnAgrees` |
| | `FileNeverGoesBack` (an action property) | |
| | `EncryptsToTrusted` | `TrustRespected` |
| | `PublishingKeepsDevices` | `DevicesKept` |

Type correctness is a theorem too for every component but `Roster` and `ClientControl`,
where the types are part of the invariants.

Assumptions. Most say that a value which stands for "none" is not one of the others
(`NoCall`, `NoConn`, `NoNick`, `Gone`, the device ID 0), that bounds are numbers, and that
parameters have their types. The ones that say more: application IDs keep off the form
that `NextID` uses (`AppIDsAssumption`); the modulus of the counters is positive
(`ModulusAssumption`); the policy is one of the three in the code and this client is a
device of its account (`ManagerAssumption`); a room has finitely many other people
(`MucAssumption`), which are announced one by one to whoever joins; the bookmarks that an
application stores have no extension that passes for a nick they leave out
(`BookmarksAssumption`); a list for `SetInfo` names each feature once (`DiscoAssumption`).
Dependencies between plugins are arbitrary, cycles among them.

The invariants. None of the properties above is inductive as it stands, because each
speaks of a result, and the result was made by steps of others, some time ago. Each proof
has an invariant that says what these steps leave for one another.

- **IqRequests** (`IInv`). That a call returns its own response rests on what is in its
  channel, that on what the reader holds, that on `pending` when it looked, and that on
  what is on the wire. `IDsInv`: numbers drawn from the counter are at most `nextID` and
  differ between calls. `InboundInv`: a response on the wire carries the ID of the call it
  answers, whose request reached the server. `ChannelInv`: what is in a channel, or was
  returned, is such a response. `ReaderInv`: while the reader holds a channel, the IQ at
  the head of the wire is a response with the ID of that channel's call, even if the call
  has left `pending`. With `IDsInv`, equal IDs mean the same call. `InlineInv` adds that an
  inline call that has not returned keeps the reader in `handler`. `RefinesIqCall` needs
  `OutcomeInv`, so that a call closes once, and `AppIDs = {}`: with an ID that the
  application uses again after a timeout, the late response to the first call answers the
  second, and the code cannot tell.
- **ClientLifecycle** (`LInv`). `Runner`: the body of `doneOnce` is in one goroutine at a
  time, and `once` says so. `Alone`: unless a `Close` raced it, a `Connect` under way has
  the client to itself. `Ending`: the connection lives from the start of the session to
  that body. `NoEndYet`: nothing is announced before the body comes to its events, and in
  between `session_end` alone (`Parted`), so that each is announced first and once.
- **Negotiation** (`NInv`). For each place of `Connect`: whether there is a connection and
  in the clear or not (`ConnInv`), which places a component can be in (`RouteInv`), of
  which stream the features are (`FeaturesInv`) and what was sent (`SilentInv`, `SentInv`).
  `MechanismIsBest` also needs that the search down the preferences finds the first that
  is offered.
- **Plugins** (`PInv`). `FramesInv` is about each frame of each goroutine's stack: the
  dependencies before the one it waits for are loaded, its own name is not, and the frame
  above is a `Use` of the one it waits for. `MarksInv`: `loading` has a mark for each `Use`
  under way, of exactly one frame in all stacks, which is why a frame finds its name still
  not loaded after it released the mutex. `OrderInv` and `ShutInv`: what is in `order`, and
  what is left in shutdown's copy of it, has its dependencies before it.
- **StreamManagement** (`CountInv`, `StreamInv`, `QueueInv`). The counters wrap, so the
  invariants are about counts without the wrap, which exist nowhere in the state: they say
  that there is a *ledger*, a function from the places of the wire to counts.
  `CountInv`: there is one that grows with each stanza on the way to the client from what
  it has counted to what the server has sent. `QueueInv`: there are ledgers for the
  acknowledgements under way and for the stanzas under way to the server, such that the
  stanza at place p of the queue is with the server before it can acknowledge p more. Each
  step moves the ledgers along. The lemmas about `%` are for every modulus.
- **Dispatch** (`DispatchInv`). `ListsInv`: a list and the history of its registrations
  have the same members, and equal priorities are in the order of that history.
  `FiredInv`: an entry that was fired is off. `LoopFine`: a loop's snapshot, called and
  left, is in order of priority, and nothing is left of what had been fired when it began.
- **Muc** (`MucInv`). `Track`: there is a sequence of views of the room that the messages
  under way lead through, from what the client has to what the service has (`Flow`).
  `Begun`: a Join whose request the service has not read finds nothing under way and a
  fresh `Room`. `OneAnswer`: at most one message that answers a Join is under way, and its
  channel is empty then, which is why the send does not block the reader. These hold in
  orderly behaviours, or while a clean Join is under way (`Tracked`).
- **Archive** (`MamInv`). For each query: results filed, on the wire and still to be sent
  are in the order of the archive, one after the other (`Ordered`); while the query is
  registered, whatever was sent and can be parsed is filed or on the wire (`Kept`); the
  answer comes after all of it (`Ended`).
- **Roster, block list** (`RosterInv`, `BlockInv`). As for rooms, what is under way is a
  path: there are versions of the server's log (or lists) that the stanzas on the wire
  lead through, starting at the one that fits the cache and any response a call holds, and
  ending at the server's own.
- **Switches** (`SwitchInv`). What is under way to the server, taken in its order, ends in
  the value that the flag has or that the one set under way will write, whenever a set has
  succeeded alone since the last overlap or timeout: the request of a set that gave up
  earlier is ahead of it on the wire and has no last word.
- **OmemoStore** (`FileInv`, `OwnInv`). For every key, confirmed <= file <= snapshot being
  written <= memory, as numbers of changes; persists are serialised; a call's change is in
  the memory until its snapshot is taken and in the snapshot from then on; what is renamed
  is the snapshot of the call that renames it. A crash leaves the first inequality.
  `OwnInv`: the ID of each call that is to return one is the one in memory.
- **OmemoManager** (`TrustInv`, `PublishInv`). `ScanSound` is about `effectiveTrust`
  between its reads: the device is allowed already, or undecided with no verified address
  among those read, or the one decision since will be seen. `PublishInv`: every list of
  the account from which a publication can come to be made, cached, fetched, on its way as
  an event or about to be published, holds the devices in `standing` (`HoldsAll`).

- **MessageExtensions** (`ExtensionsInv`). Every message is a slice within its array, and
  what an untorn one shows is `Right`: of each exclusive kind the getter finds what was set
  last, and the nodes of the others are the ones added, in order. A setter filters and
  appends in the array that copies show, so its step rests on which of them still show what
  they did: the ones in other arrays, or empty, or, without a removal, no longer than the
  slice it appends to (`Away`, `Apart`).
- **Disco** (`DiscoInv`). The registry shows exactly what was added unless `spoilt`, and a
  LocalInfo that is not misled shows at every step of its loop what it copied and the
  plugin features before `next`, each once (`Sound`). A sort of a slice permutes the first
  cells of every slice of that array, so it changes the elements only of those that are
  shorter (`SortedCellsIs`).
- **Bookmarks** (`BookmarksInv`). `StoredInv`: what the server stores parses to the
  bookmarks in `kept`. `OutInv`: each request under way is of a call that waits for it or
  has given up, carries the nodes of what it means, and is the only one of that call.
  `CallsInv`: a read in progress has in `held` all that was kept since it began, and its
  response parses to one of these. The conversions are covered by `Only` of a
  concatenation (`OnlyConcat`): the children that `NativeNode` writes ahead of the
  extensions are the ones that the parser leaves out.

Loops and induction. Filters and sorts are defined by rank: the k-th element is the one
at the place that k - 1 of the chosen places come before (`Nth`, `Only`).
`NthEnumerates` shows by cardinalities that there is exactly one, so that facts about what
a loop keeps, or a sort returns, need no induction over the sequence: `OnlyLists`,
`OnlyConcat` and `OnlyOfOnly` say what a filter returns, of a concatenation and of a
filtered sequence too, and `SortedMixes` that the sort permutes. Appends in place have
one lemma, `AppendToIs`: the slice shows one element more, and every slice that does not
reach into the next cell shows what it did.

Only model-checked:

- liveness (`CallsReturn`, `ReaderProgress`, the fair part of `ImplementsIqCall`,
  `CloseReturns`, `SessionWindsDown`, `ConnectReturns`): fairness and ENABLED are outside
  what the prover handles.

Every invariant that a run checks is also a theorem. The violations are TLC's: a theorem
says what always holds, and these say what does not.

## 5. Plan

Theorems next: the fairness-free parts of what is stated as liveness (that a call which
waits can always be ended by its timeout, as an invariant about what is enabled, spelled
out without ENABLED).

Models next: an abstract specification of a cache that responses and pushes feed, which
`Roster` and `ClientControl` implement in orderly behaviours; HTTP upload as a client of
discovery; roster caches and switches that outlive a session, where `Get` merges the
response and removes nothing (roster.go:73) and the server's switches start again;
paged answers to `PEP.Items`.

## 6. Not modelled

- XML, JIDs, stanzas, matchers, errors, forms, payload types, dates, the catalogue and its
  tool: parsing, encoding and tables, without state that a sequence of steps could
  spoil.
- Cryptography: SASL digests, TLS, and OMEMO's backend, which the application supplies;
  the OMEMO envelope.
- MUC configuration, roles, affiliations and invitations; PubSub subscriptions,
  affiliations and node configuration; MAM filters and preferences; HTTP upload: one
  request and a parser of its answer each, with no state in the client.
- Bodies and fallbacks of messages, markup, receipts; identities, forms and items of
  discovery, which are only appended to and copied.
- The API registry: lookups in a fixed order under one mutex.
- `Load`'s result when two goroutines load one name (plugin.go:115): both call the
  factory, and the loser returns an instance that was never initialised.
- A Client that is connected again after its session ended (client.go:593): its `doneOnce`
  is spent and `done` closed, so that the reader's `finish` does nothing and every
  RequestIQ returns at once. `ConnectEnter` excludes it.
- `Room`'s copy of the occupants (muc.go:104), made after the unlock while the reader may
  write to the map: a data race that ends the process.
- Examples and the OMEMO test backend.
