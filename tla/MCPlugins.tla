------------------------------ MODULE MCPlugins ------------------------------
(* Names and dependencies for Plugins: b depends on a, c on a and b, and x *)
(* and y on one another.                                                   *)
EXTENDS Plugins

MCNames == {"a", "b", "c", "x", "y"}
MCDeps == [n \in MCNames |-> CASE n = "a" -> <<>>
                               [] n = "b" -> <<"a">>
                               [] n = "c" -> <<"a", "b">>
                               [] n = "x" -> <<"a", "y">>
                               [] n = "y" -> <<"x">>]

MCChain == [n \in {"a", "b"} |-> IF n = "a" THEN <<>> ELSE <<"a">>]
=============================================================================
