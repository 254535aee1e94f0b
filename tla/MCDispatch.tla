----------------------------- MODULE MCDispatch -----------------------------
(* Registrations for Dispatch: two stanza handlers, one of them one-shot,  *)
(* and subscriptions to one event and to all of them, with equal and with  *)
(* different priorities, one-shot and asynchronous.                        *)
EXTENDS Dispatch

MCEntries == {"h1", "h2", "m1", "m2", "all"}
MCList == [e \in MCEntries |-> CASE e \in {"h1", "h2"} -> "handlers"
                                 [] e \in {"m1", "m2"} -> "message"
                                 [] e = "all" -> "*"]
MCPriority == [e \in MCEntries |-> IF e = "m1" THEN 1 ELSE 0]
=============================================================================
