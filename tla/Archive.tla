------------------------------ MODULE Archive -------------------------------
(***************************************************************************)
(* xep.MAM (XEP-0313): calls of Query, the handler that collects their     *)
(* results on the reader goroutine, and the archive.                       *)
(*                                                                         *)
(* The results of a query are messages of their own, ahead of the response *)
(* (fin): the handler files each under the query ID, and Query copies what *)
(* has been filed once the response is there.  Query IDs are Client.NextID *)
(* and never come twice.  Paging (XEP-0059) asks for what comes after an   *)
(* archive ID, Max at a time.                                              *)
(***************************************************************************)
EXTENDS Naturals, Sequences, SequencesExt

CONSTANTS
    Queries,      \* calls of Query, and their IDs
    Malformed,    \* archive IDs whose result cannot be parsed
    PageMax,      \* RSM.Max
    MaxArchive    \* bound: messages in the archive

ASSUME ArchiveAssumption == PageMax \in Nat /\ MaxArchive \in Nat

VARIABLES
    mamPending,   \* MAM.pending: the queries that are registered
    mamResults,   \* mamPending.results of each query
    querying,     \* each Query: "idle", "registered", "asked", "answered", "leaving" or "over"
    queryAfter,   \* RSM.After of each query; 0 is none
    queryPage,    \* the page each Query returns, or NoPage
    mamIn,        \* stanzas on their way to the client
    archived,     \* service: the archive holds the messages 1..archived
    serving,      \* service: what it has still to send for each query
    served        \* history: what it has sent for each query

mamVars == <<mamPending, mamResults, querying, queryAfter, queryPage, mamIn, archived, serving, served>>

NoPage == [ok |-> FALSE]
Serving(at, left) == [at |-> at, left |-> left]
Parses(id) == id \notin Malformed

MamTypeOK ==
    /\ mamPending \subseteq Queries
    /\ mamResults \in [Queries -> Seq(1..MaxArchive)]
    /\ querying \in [Queries -> {"idle", "registered", "asked", "answered", "leaving", "over"}]
    /\ queryAfter \in [Queries -> 0..MaxArchive]
    /\ archived \in 0..MaxArchive
    /\ served \in [Queries -> Seq(1..MaxArchive)]

MamInit ==
    /\ mamPending = {} /\ mamResults = [q \in Queries |-> <<>>]
    /\ querying = [q \in Queries |-> "idle"] /\ queryAfter = [q \in Queries |-> 0]
    /\ queryPage = [q \in Queries |-> NoPage]
    /\ mamIn = <<>> /\ archived \in 1..MaxArchive
    /\ serving = [q \in Queries |-> Serving("none", <<>>)] /\ served = [q \in Queries |-> <<>>]

-----------------------------------------------------------------------------
(* Query. *)

QueryRegister(q, after) ==
    /\ querying[q] = "idle"
    /\ querying' = [querying EXCEPT ![q] = "registered"]
    /\ queryAfter' = [queryAfter EXCEPT ![q] = after]
    /\ mamPending' = mamPending \cup {q}
    /\ UNCHANGED <<mamResults, queryPage, mamIn, archived, serving, served>>

\* RequestIQ.
QueryAsk(q) ==
    /\ querying[q] = "registered"
    /\ querying' = [querying EXCEPT ![q] = "asked"]
    /\ UNCHANGED <<mamPending, mamResults, queryAfter, queryPage, mamIn, archived, serving, served>>

\* RequestIQ fails, or the response is no fin that can be parsed.
QueryFails(q) ==
    /\ querying[q] \in {"registered", "asked", "answered"}
    /\ querying' = [querying EXCEPT ![q] = "leaving"]
    /\ UNCHANGED <<mamPending, mamResults, queryAfter, queryPage, mamIn, archived, serving, served>>

QueryTakes(q) ==
    /\ querying[q] = "answered"
    /\ querying' = [querying EXCEPT ![q] = "leaving"]
    /\ queryPage' = [queryPage EXCEPT ![q] = [ok |-> TRUE, results |-> mamResults[q]]]
    /\ UNCHANGED <<mamPending, mamResults, queryAfter, mamIn, archived, serving, served>>

\* The deferred function.
QueryEnd(q) ==
    /\ querying[q] = "leaving"
    /\ querying' = [querying EXCEPT ![q] = "over"]
    /\ mamPending' = mamPending \ {q}
    /\ UNCHANGED <<mamResults, queryAfter, queryPage, mamIn, archived, serving, served>>

-----------------------------------------------------------------------------
(* The reader. *)

\* Filed with every query that is registered.
FiledAnywhere(m) == [q \in Queries |-> IF q \in mamPending THEN Append(mamResults[q], m.id)
                                       ELSE mamResults[q]]

Filed(m) == IF m.query \in mamPending THEN [mamResults EXCEPT ![m.query] = Append(@, m.id)]
            ELSE mamResults

\* handleResult: what cannot be parsed is reported and left out.
HandleResult ==
    /\ mamIn # <<>> /\ Head(mamIn).kind = "result" /\ mamIn' = Tail(mamIn)
    /\ mamResults' = IF Parses(Head(mamIn).id) THEN Filed(Head(mamIn)) ELSE mamResults
    /\ UNCHANGED <<mamPending, querying, queryAfter, queryPage, archived, serving, served>>

ReadFin ==
    /\ mamIn # <<>> /\ Head(mamIn).kind = "fin" /\ mamIn' = Tail(mamIn)
    /\ LET q == Head(mamIn).query
       IN querying' = IF querying[q] = "asked" THEN [querying EXCEPT ![q] = "answered"] ELSE querying
    /\ UNCHANGED <<mamPending, mamResults, queryAfter, queryPage, archived, serving, served>>

-----------------------------------------------------------------------------
(* The archive service. *)

ArchiveServes(q) ==
    /\ querying[q] = "asked" /\ serving[q].at = "none"
    /\ LET n == IF archived < queryAfter[q] + PageMax THEN archived ELSE queryAfter[q] + PageMax
       IN serving' = [serving EXCEPT ![q] =
                        Serving("sending", [i \in 1..(n - queryAfter[q]) |-> queryAfter[q] + i])]
    /\ UNCHANGED <<mamPending, mamResults, querying, queryAfter, queryPage, mamIn, archived, served>>

\* The results of queries that run at the same time come as they come.
ArchiveSends(q) ==
    /\ serving[q].at = "sending" /\ serving[q].left # <<>>
    /\ mamIn' = Append(mamIn, [kind |-> "result", query |-> q, id |-> Head(serving[q].left)])
    /\ served' = [served EXCEPT ![q] = Append(@, Head(serving[q].left))]
    /\ serving' = [serving EXCEPT ![q].left = Tail(@)]
    /\ UNCHANGED <<mamPending, mamResults, querying, queryAfter, queryPage, archived>>

ArchiveEnds(q) ==
    /\ serving[q] = Serving("sending", <<>>)
    /\ mamIn' = Append(mamIn, [kind |-> "fin", query |-> q])
    /\ serving' = [serving EXCEPT ![q].at = "done"]
    /\ UNCHANGED <<mamPending, mamResults, querying, queryAfter, queryPage, archived, served>>

MessageArchived ==
    /\ archived < MaxArchive /\ archived' = archived + 1
    /\ UNCHANGED <<mamPending, mamResults, querying, queryAfter, queryPage, mamIn, serving, served>>

-----------------------------------------------------------------------------
MamNext ==
    \/ \E q \in Queries : \/ QueryAsk(q) \/ QueryFails(q) \/ QueryTakes(q) \/ QueryEnd(q)
                          \/ ArchiveServes(q) \/ ArchiveSends(q) \/ ArchiveEnds(q)
                          \/ \E after \in 0..archived : QueryRegister(q, after)
    \/ HandleResult \/ ReadFin \/ MessageArchived

MamSpec == MamInit /\ [][MamNext]_mamVars

-----------------------------------------------------------------------------
(* Properties. *)

\* A page has what the archive sent for that query, in its order, nothing twice and nothing
\* missing but what could not be parsed, whatever other queries, timed-out ones too, get
\* meanwhile (mam.go:65-70, 93-96, 128-137).
PageExact ==
    \A q \in Queries : queryPage[q].ok =>
        LET page == queryPage[q].results
        IN /\ ToSet(page) = {id \in ToSet(served[q]) : Parses(id)}
           /\ \A i, k \in 1..Len(page) : i < k => page[i] < page[k]
=============================================================================
