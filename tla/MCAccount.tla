------------------------------ MODULE MCAccount ------------------------------
(* The components that keep state of the session and the account: stream   *)
(* management, the roster, blocking and the switches of ClientControl, the *)
(* bookmarks, the OMEMO store, and the OMEMO manager's encryption and      *)
(* publication.  They share no state: in a behaviour one part moves, and   *)
(* the others stay in one of their initial states.                         *)
EXTENDS StreamManagement, Roster, ClientControl, Bookmarks, OmemoStore, OmemoManager

VARIABLE part

MCDevices == {"c1", "me", "o2", "o3"}
MCJIDOf == [a \in MCDevices |-> IF a = "c1" THEN "c" ELSE "own"]

MCMark(autojoin, nick, extensions) == [autojoin |-> autojoin, nick |-> nick, extensions |-> extensions]
MCExtensions == <<Child("other", "nick", "x"), Child("other", "pinned", "")>>
MCMarks == {MCMark(FALSE, "", MCExtensions), MCMark(TRUE, "n", <<>>)}
MCEntry(jid, mark) == [jid |-> jid, mark |-> mark]
MCLists == {<<>>, <<MCEntry("r", MCMark(TRUE, "n", <<>>)), MCEntry("s", MCMark(FALSE, "", MCExtensions))>>,
            <<MCEntry("r", MCMark(TRUE, "n", <<>>)), MCEntry("", MCMark(TRUE, "n", <<>>))>>}

MCInit ==
    /\ part \in {"stream", "roster", "blocking", "switches", "bookmarks", "store", "encrypt", "publish"}
    /\ Init /\ RosterInit /\ ControlInit /\ BookmarksInit /\ StoreInit /\ ManagerInit
    /\ part # "roster" => log[1] = CHOOSE c \in Change : c.to # Gone
    /\ part # "encrypt" => \A a \in Devices : trust[a] = NoLevel

NotStream == <<part, rosterVars, controlVars, bookmarkVars, storeVars, managerVars>>
NotRoster == <<part, vars, controlVars, bookmarkVars, storeVars, managerVars>>
NotControl == <<part, vars, rosterVars, bookmarkVars, storeVars, managerVars>>
NotBookmarks == <<part, vars, rosterVars, controlVars, storeVars, managerVars>>
NotStore == <<part, vars, rosterVars, controlVars, bookmarkVars, managerVars>>
NotManager == <<part, vars, rosterVars, controlVars, bookmarkVars, storeVars>>

MCNext ==
    \/ part = "stream" /\ Next /\ UNCHANGED NotStream
    \/ part = "roster" /\ RosterNext /\ UNCHANGED NotRoster
    \/ part = "blocking" /\ BlockNext /\ UNCHANGED NotControl
    \/ part = "switches" /\ SwitchNext /\ UNCHANGED NotControl
    \/ part = "bookmarks" /\ BookmarksNext /\ UNCHANGED NotBookmarks
    \/ part = "store" /\ StoreNext /\ UNCHANGED NotStore
    \/ part = "encrypt" /\ EncryptingNext /\ UNCHANGED NotManager
    \/ part = "publish" /\ PublishingNext /\ UNCHANGED NotManager

MCSpec == MCInit /\ [][MCNext]_<<part, vars, rosterVars, controlVars, bookmarkVars, storeVars, managerVars>>
=============================================================================
