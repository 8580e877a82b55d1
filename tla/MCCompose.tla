------------------------------ MODULE MCCompose ------------------------------
(* Instances of Compose for TLC.  The tree is                               *)
(*                                                                          *)
(*    R -- A ("fn"), B ("fnLogGroup"), S ("s")                              *)
(*         S -- X ("fn"), T ("t") -- Z ("fnLogGroup")                       *)
(*                                                                          *)
(* so that keys of an inner system shadow keys of the outer ones, and the   *)
(* log group of A spells the id of B.                                       *)
EXTENDS Compose, TLC, Sequences

MCNodes == {"R", "A", "B", "S", "X", "T", "Z"}
MCSystems == {"R", "S", "T"}
MCKeys == {"fn", "fnLogGroup", "s", "t"}
MCParent == [n \in MCNodes \ {"R"} |->
               CASE n \in {"A", "B", "S"} -> "R" [] n \in {"X", "T"} -> "S" [] n = "Z" -> "T"]
MCKeyOf == [n \in MCNodes |->
              CASE n \in {"A", "X"} -> "fn" [] n \in {"B", "Z"} -> "fnLogGroup" [] n = "T" -> "t"
                [] OTHER -> "s"]
MCSegments == MCKeys \cup {"App"}
MCSuffixes == {"", "LogGroup"}
MCGlue(seg, x) == seg \o x
MCNames == {MCGlue(seg, x) : seg \in MCSegments, x \in MCSuffixes}
OnlyItself == [n \in Leaves |-> {""}]
MCMakes == [n \in Leaves |-> IF n \in {"A", "X"} THEN MCSuffixes ELSE {""}]
Nothing == [n \in Inner |-> {}]
Unpinned == [n \in Inner |-> NoPin]
Unrouted == [n \in Inner |-> Inherit]
PinOne(n, id) == [Unpinned EXCEPT ![n] = id]
RouteOne(n, sc) == [Unrouted EXCEPT ![n] = sc]

\* every declaration, cyclic ones included
DepsAmong(ns) == {d \in [ns -> SUBSET ns] : \A n \in ns : n \notin d[n]}
AllDeps == {f @@ g @@ ("Z" :> {}) : f \in DepsAmong({"A", "B", "S"}), g \in DepsAmong({"X", "T"})}

\* a chain through a system, and a cycle through it
SomeDeps == {[Nothing EXCEPT !["S"] = {"A"}, !["B"] = {"S"}, !["T"] = {"X"}],
             [Nothing EXCEPT !["A"] = {"B"}, !["X"] = {"T"}],
             [Nothing EXCEPT !["A"] = {"B"}, !["B"] = {"S"}, !["S"] = {"A"}]}
ChainOnly == {[Nothing EXCEPT !["S"] = {"A"}, !["B"] = {"S"}, !["T"] = {"X"}]}

NoPins == {Unpinned}
SomePins == {Unpinned, PinOne("S", <<"App">>), PinOne("B", <<"App", "fn">>),
             PinOne("T", <<"App">>), [PinOne("S", <<"App", "s">>) EXCEPT !["Z"] = <<"App", "s">>]}
OnePin == {PinOne("S", <<"App">>)}
NoRoutes == {Unrouted}
\* in the second, the log group of A is out of the way of B
SomeRoutes == {Unrouted, [Unrouted EXCEPT !["B"] = "stack", !["S"] = "stack", !["Z"] = "app"]}
MCScopes == {"app", "stack"}
OneCall == {<<"app", <<"App">>>>}
TwoCalls == {<<"app", <<"App">>>>, <<"stack", <<"App">>>>}
MCOuter == {{}, {"fnLogGroup", "t"}}
NoOuter == {{}}
MCWants == {{}, {"fn"}, {"fnLogGroup"}}
NoWants == {{}}
=============================================================================
