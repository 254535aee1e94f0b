----------------------------- MODULE MCRegistries -----------------------------
(* What a client is put together from: the plugin manager, the registry of *)
(* service discovery, and the extensions of a message.  They share no      *)
(* state: in a behaviour one part moves, and the others stay as they begin.*)
EXTENDS MCPlugins, Disco, MessageExtensions

VARIABLE part

MCPluginFeatures == <<2, 4>>
MCLists == {<<>>, <<3>>, <<3, 1>>, <<1, 5>>, <<5, 3, 1>>}
MCParsed == <<Node(ChatState, "composing", 1), Node(Receipt, "request", 0), Node(Correction, "replace", 1)>>
MCSymmetry == Permutations(Infos)

MCInit == part \in {"plugins", "disco", "extensions"} /\ Init /\ DiscoInit /\ ExtensionsInit

MCNext ==
    \/ part = "plugins" /\ Next /\ UNCHANGED <<part, discoVars, extensionVars>>
    \/ part = "disco" /\ DiscoNext /\ UNCHANGED <<part, vars, extensionVars>>
    \/ part = "extensions" /\ ExtensionsNext /\ UNCHANGED <<part, vars, discoVars>>

MCSpec == MCInit /\ [][MCNext]_<<part, vars, discoVars, extensionVars>>
=============================================================================
