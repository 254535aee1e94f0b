------------------------------- MODULE IqCall -------------------------------
(***************************************************************************)
(* What Client.RequestIQ promises its callers, with no IDs, channels or    *)
(* goroutines: every call that is opened is closed exactly once, it is     *)
(* closed with an answer only if its own request reached the server, and   *)
(* no open call stays open for ever.                                       *)
(***************************************************************************)
CONSTANT Calls

VARIABLES
    status,  \* of each call: "idle", "open", "answered" or "failed"
    reached  \* the calls whose request is with the server

vars == <<status, reached>>

TypeOK == /\ status \in [Calls -> {"idle", "open", "answered", "failed"}]
          /\ reached \subseteq Calls

Init == /\ status = [c \in Calls |-> "idle"]
        /\ reached = {}

Move(c, from, to) == /\ status[c] = from
                     /\ status' = [status EXCEPT ![c] = to]
                     /\ UNCHANGED reached

\* The call is accepted, or refused before anything is written.
Open(c)   == Move(c, "idle", "open")
Refuse(c) == Move(c, "idle", "failed")

\* The request is on the server's side of the stream.
Reach(c) == /\ status[c] = "open"
            /\ reached' = reached \cup {c}
            /\ UNCHANGED status

\* The call closes: with the answer to its own request, or without one.
Answer(c) == c \in reached /\ Move(c, "open", "answered")
Fail(c)   == Move(c, "open", "failed")

Next == \E c \in Calls : Open(c) \/ Refuse(c) \/ Reach(c) \/ Answer(c) \/ Fail(c)

Spec == Init /\ [][Next]_vars /\ \A c \in Calls : WF_vars(Answer(c) \/ Fail(c))
Safety == Init /\ [][Next]_vars
=============================================================================
