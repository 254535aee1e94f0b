------------------------------ MODULE MCHandlers ------------------------------
(* What runs on the reader's goroutine: the dispatch to handlers and       *)
(* subscribers, and the handlers of the rooms and of archive pages.  They  *)
(* share no state: in a behaviour one part moves, and the others stay as   *)
(* they begin.                                                             *)
EXTENDS MCDispatch, Muc, Archive

VARIABLE part

MCInit ==
    /\ part \in {"dispatch", "rooms", "archive"} /\ Init /\ MucInit /\ MamInit
    /\ part # "rooms" => us = NoNick /\ people = {}
    /\ part # "archive" => archived = 1

MCNext ==
    \/ part = "dispatch" /\ Next /\ UNCHANGED <<part, mucVars, mamVars>>
    \/ part = "rooms" /\ MucNext /\ UNCHANGED <<part, vars, mamVars>>
    \/ part = "archive" /\ MamNext /\ UNCHANGED <<part, vars, mucVars>>

MCSpec == MCInit /\ [][MCNext]_<<part, vars, mucVars, mamVars>>
=============================================================================
