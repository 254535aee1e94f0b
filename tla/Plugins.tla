------------------------------- MODULE Plugins -------------------------------
(***************************************************************************)
(* PluginManager: factories, loaded plugins, the recursive Load and Use    *)
(* that several goroutines may run at once, and the shutdown that Close    *)
(* runs beside them.                                                       *)
(*                                                                         *)
(* A critical section of PluginManager.mu is one step.  A goroutine in Use *)
(* holds a stack of frames, one for each Use that has not returned.  An    *)
(* instance is what a factory, or the application, makes: a number.        *)
(***************************************************************************)
EXTENDS Naturals, Sequences, SequencesExt, FiniteSets

CONSTANTS
    Names,     \* plugin names
    Deps,      \* Plugin.Dependencies(): a name to the names it depends on, in order
    Registered, \* the names with a factory before anything is loaded (RegisterAll)
    Threads,   \* goroutines that load plugins
    MaxCalls,  \* bound: calls of Load and Use by the application
    MaxFails   \* bound: calls of Init that fail

ASSUME DepsAssumption == Deps \in [Names -> Seq(Names)]
ASSUME RegisteredAssumption == Registered \subseteq Names
ASSUME BoundsAssumption == MaxCalls \in Nat /\ MaxFails \in Nat

VARIABLES
    factories,  \* PluginManager.factories: the names that have one
    loaded,     \* PluginManager.loaded: a name to the instance
    loading,    \* PluginManager.loading
    order,      \* PluginManager.order
    stack,      \* the frames of each goroutine, innermost last
    result,     \* what a goroutine's last Load or Use gave: see Results
    instances,  \* instances made so far
    calls, fails,
    snapshot,   \* shutdown's copy of order, less what it has shut down
    closer,     \* "idle", "shutting" or "done"
    shut        \* history: names shut down, in order

manager == <<factories, loaded, loading, order>>
vars == <<manager, stack, result, instances, calls, fails, snapshot, closer, shut>>

\* "none" when there is nothing to report, "cyclic" with the name it is about.
Results == {[kind |-> k, name |-> n] : k \in {"ok", "cyclic", "unknown", "initError"}, n \in Names}
NoResult == [kind |-> "none"]

\* A frame of Use: the plugin, its instance and the dependencies still to load.
\* "load" is the part of Load before it calls Use.
Frame == [name : Names, inst : Nat, todo : Seq(Names),
          pc : {"load", "enter", "deps", "init", "publish", "leave"},
          error : {"none", "cyclic", "unknown", "initError"}]

TypeOK ==
    /\ factories \subseteq Names /\ loading \subseteq Names
    /\ DOMAIN loaded \subseteq Names /\ \A n \in DOMAIN loaded : loaded[n] \in 1..instances
    /\ order \in Seq(Names)
    /\ stack \in [Threads -> Seq(Frame)]
    /\ result \in [Threads -> Results \cup {NoResult}]
    /\ shut \in Seq(Names) /\ snapshot \in Seq(Names)
    /\ instances \in Nat /\ calls \in 0..MaxCalls /\ fails \in 0..MaxFails
    /\ closer \in {"idle", "shutting", "done"}

Init ==
    /\ factories = Registered /\ loaded = [n \in {} |-> 0] /\ loading = {} /\ order = <<>>
    /\ stack = [t \in Threads |-> <<>>] /\ result = [t \in Threads |-> NoResult]
    /\ instances = 0 /\ calls = 0 /\ fails = 0
    /\ snapshot = <<>> /\ closer = "idle" /\ shut = <<>>

IsLoaded(n) == n \in DOMAIN loaded
Top(t) == Last(stack[t])
At(t, pc) == stack[t] # <<>> /\ Top(t).pc = pc
SetTop(t, frame) == stack' = [stack EXCEPT ![t] = Append(Front(@), frame)]
Return(t, kind) == /\ stack' = [stack EXCEPT ![t] = Front(@)]
                   /\ result' = [result EXCEPT ![t] = [kind |-> kind, name |-> Top(t).name]]
NewFrame(n, i, pc) == [name |-> n, inst |-> i, todo |-> Deps[n], pc |-> pc, error |-> "none"]

-----------------------------------------------------------------------------
(* The application. *)

\* RegisterFactory; a second one for the name is refused.
RegisterFactory(n) ==
    /\ n \notin factories
    /\ factories' = factories \cup {n}
    /\ UNCHANGED <<loaded, loading, order, stack, result, instances, calls, fails,
                   snapshot, closer, shut>>

Call(t, frame) ==
    /\ stack[t] = <<>> /\ calls < MaxCalls
    /\ calls' = calls + 1
    /\ stack' = [stack EXCEPT ![t] = <<frame>>]
    /\ result' = [result EXCEPT ![t] = NoResult]
    /\ UNCHANGED <<manager, fails, snapshot, closer, shut>>

CallLoad(t, n) == Call(t, NewFrame(n, 0, "load")) /\ UNCHANGED instances

CallUse(t, n) == /\ Call(t, NewFrame(n, instances + 1, "enter"))
                 /\ instances' = instances + 1

-----------------------------------------------------------------------------
(* Load and Use. *)

\* Load: the loaded plugin, or an instance from the factory that goes through Use.
Load(t) ==
    /\ At(t, "load")
    /\ LET n == Top(t).name
       IN CASE IsLoaded(n) -> Return(t, "ok") /\ UNCHANGED instances
            [] ~IsLoaded(n) /\ n \in factories ->
                  /\ instances' = instances + 1
                  /\ SetTop(t, NewFrame(n, instances + 1, "enter"))
                  /\ UNCHANGED result
            [] OTHER -> Return(t, "unknown") /\ UNCHANGED instances
    /\ UNCHANGED <<manager, calls, fails, snapshot, closer, shut>>

\* No mark that the plugin is being loaded.
UseEnterUnmarked(t) ==
    /\ At(t, "enter")
    /\ IF IsLoaded(Top(t).name) THEN Return(t, "ok")
                                ELSE SetTop(t, [Top(t) EXCEPT !.pc = "deps"]) /\ UNCHANGED result
    /\ UNCHANGED <<manager, instances, calls, fails, snapshot, closer, shut>>

\* Use: done if the name is loaded, refused if it is being loaded.
UseEnter(t) ==
    /\ At(t, "enter")
    /\ LET n == Top(t).name
       IN CASE IsLoaded(n) -> Return(t, "ok") /\ UNCHANGED loading
            [] ~IsLoaded(n) /\ n \in loading -> Return(t, "cyclic") /\ UNCHANGED loading
            [] OTHER -> /\ loading' = loading \cup {n}
                        /\ SetTop(t, [Top(t) EXCEPT !.pc = "deps"])
                        /\ UNCHANGED result
    /\ UNCHANGED <<factories, loaded, order, instances, calls, fails, snapshot, closer,
                   shut>>

Failed(t) == result[t].kind \in {"cyclic", "unknown", "initError"}

\* The error of a dependency is passed over.
UseDepsLenient(t) ==
    /\ At(t, "deps")
    /\ result' = [result EXCEPT ![t] = NoResult]
    /\ LET f == Top(t)
       IN stack' = [stack EXCEPT ![t] =
                       IF f.todo = <<>> THEN Append(Front(@), [f EXCEPT !.pc = "init"])
                       ELSE Append(Append(Front(@), [f EXCEPT !.todo = Tail(@)]),
                                   NewFrame(Head(f.todo), 0, "load"))]
    /\ UNCHANGED <<manager, instances, calls, fails, snapshot, closer, shut>>

\* The dependencies, one Load after the other; the first that fails ends Use.
UseDeps(t) ==
    /\ At(t, "deps")
    /\ result' = [result EXCEPT ![t] = NoResult]
    /\ LET f == Top(t)
       IN stack' = [stack EXCEPT ![t] =
             CASE Failed(t) -> Append(Front(@), [f EXCEPT !.pc = "leave", !.error = result[t].kind])
               [] ~Failed(t) /\ f.todo = <<>> -> Append(Front(@), [f EXCEPT !.pc = "init"])
               [] OTHER -> Append(Append(Front(@), [f EXCEPT !.todo = Tail(@)]),
                                  NewFrame(Head(f.todo), 0, "load"))]
    /\ UNCHANGED <<manager, instances, calls, fails, snapshot, closer, shut>>

\* Init of the plugin, outside the mutex; it succeeds or fails.
UseInit(t) ==
    /\ At(t, "init")
    /\ \/ /\ SetTop(t, [Top(t) EXCEPT !.pc = "publish"])
          /\ UNCHANGED fails
       \/ /\ fails < MaxFails
          /\ fails' = fails + 1
          /\ SetTop(t, [Top(t) EXCEPT !.pc = "leave", !.error = "initError"])
    /\ UNCHANGED <<manager, result, instances, calls, snapshot, closer, shut>>

\* Use enters the plugin into loaded and order; plugin_loaded is emitted.
UsePublish(t) ==
    /\ At(t, "publish")
    /\ LET f == Top(t)
       IN /\ loaded' = [n \in DOMAIN loaded \cup {f.name} |->
                            IF n = f.name THEN f.inst ELSE loaded[n]]
          /\ order' = Append(order, f.name)
          /\ SetTop(t, [f EXCEPT !.pc = "leave"])
    /\ UNCHANGED <<factories, loading, result, instances, calls, fails, snapshot, closer,
                   shut>>

\* The mark stays when Use fails.
UseLeaveMarked(t) ==
    /\ At(t, "leave")
    /\ loading' = IF Top(t).error = "none" THEN loading \ {Top(t).name} ELSE loading
    /\ Return(t, IF Top(t).error = "none" THEN "ok" ELSE Top(t).error)
    /\ UNCHANGED <<factories, loaded, order, instances, calls, fails, snapshot, closer,
                   shut>>

\* The deferred function, then Use returns.
UseLeave(t) ==
    /\ At(t, "leave")
    /\ loading' = loading \ {Top(t).name}
    /\ Return(t, IF Top(t).error = "none" THEN "ok" ELSE Top(t).error)
    /\ UNCHANGED <<factories, loaded, order, instances, calls, fails, snapshot, closer,
                   shut>>

-----------------------------------------------------------------------------
(* shutdown, run by the one Close that gets there. *)

ShutdownBegin ==
    /\ closer = "idle"
    /\ closer' = "shutting"
    /\ snapshot' = order
    /\ UNCHANGED <<manager, stack, result, instances, calls, fails, shut>>

\* First loaded, first shut down.
ShutdownNextForward ==
    /\ closer = "shutting" /\ snapshot # <<>>
    /\ shut' = Append(shut, Head(snapshot))
    /\ snapshot' = Tail(snapshot)
    /\ UNCHANGED <<manager, stack, result, instances, calls, fails, closer>>

\* Shutdown of the last one loaded; an error is collected and does not stop the loop.
ShutdownNext ==
    /\ closer = "shutting" /\ snapshot # <<>>
    /\ shut' = Append(shut, Last(snapshot))
    /\ snapshot' = Front(snapshot)
    /\ UNCHANGED <<manager, stack, result, instances, calls, fails, closer>>

ShutdownEnd ==
    /\ closer = "shutting" /\ snapshot = <<>>
    /\ closer' = "done"
    /\ UNCHANGED <<manager, stack, result, instances, calls, fails, snapshot, shut>>

-----------------------------------------------------------------------------
Run(t) == \/ Load(t) \/ UseEnter(t) \/ UseDeps(t) \/ UseInit(t) \/ UsePublish(t) \/ UseLeave(t)

Next ==
    \/ \E n \in Names : RegisterFactory(n)
    \/ \E t \in Threads : Run(t) \/ \E n \in Names : CallLoad(t, n) \/ CallUse(t, n)
    \/ ShutdownBegin \/ ShutdownNext \/ ShutdownEnd

Spec == Init /\ [][Next]_vars

-----------------------------------------------------------------------------
(* Properties. *)

Position(n, s) == CHOOSE i \in DOMAIN s : s[i] = n
DependsOn(n, d) == \E i \in DOMAIN Deps[n] : Deps[n][i] = d

\* order lists every loaded plugin once, and a plugin only after the plugins it
\* depends on, although several goroutines load at once (plugin.go:86-101, 163-171).
OrderTopological ==
    /\ IsInjective(order) /\ Range(order) = DOMAIN loaded
    /\ \A n, d \in DOMAIN loaded : DependsOn(n, d) => Position(d, order) < Position(n, order)

\* A plugin's Init runs when all it depends on is loaded, so that the plugin finds them
\* with Get (xep/storage_upload.go:146, omemo/manager.go:77).
InitFindsDeps ==
    \A t \in Threads : At(t, "init") => \A d \in Range(Deps[Top(t).name]) : IsLoaded(d)

\* The names that are their own dependency, over one or more steps.
OnCycle == {n \in Names : \E s \in UNION {[1..k -> Names] : k \in 1..Cardinality(Names)} :
               /\ DependsOn(n, s[1]) /\ s[Len(s)] = n
               /\ \A i \in 1..(Len(s) - 1) : DependsOn(s[i], s[i + 1])}

\* A mark in loading belongs to a Use that is under way: an error of a dependency or of
\* Init does not leave the name marked, so loading may be tried again (plugin.go:88).
LoadingHeld ==
    \A n \in loading : \E t \in Threads : \E i \in DOMAIN stack[t] :
        stack[t][i].name = n /\ stack[t][i].pc \in {"deps", "init", "publish", "leave"}

\* A plugin is shut down before the plugins it depends on, and none twice
\* (plugin.go:171-175).
ShutdownReversed ==
    /\ IsInjective(shut)
    /\ \A n, d \in Range(shut) : DependsOn(n, d) => Position(n, shut) < Position(d, shut)

\* "Calling `Use` twice for the same plugin name is idempotent." (docs/plugins.md:67):
\* with dependencies that have no cycle, no Use is refused as cyclic.
UseIdempotent == \A t \in Threads : result[t].kind = "cyclic" => OnCycle # {}
=============================================================================
