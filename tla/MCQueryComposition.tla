---- MODULE MCQueryComposition ----
(* Joins of a dozen parts that differ in every clause a join touches. *)
EXTENDS QueryComposition, MCStatements

Part(select, where, limit, effects, version, linear, epistemic) ==
  Extended([Simple EXCEPT !.select = {select}, !.where = where],
           limit, effects, version, linear, epistemic)

Theorem == SelField("document.theorem_statement")
Version == SelField("temporal.version")

MCParts ==
  {Part(Theorem, {InRange}, {5}, {"read"}, {AtLeast(2)}, {UseOnce},
        {About({"engine", "lean4"}, {Entails("engine", "lean4")})}),
   Part(Version, {Slow}, {10}, {"write"}, {Latest}, {AtMost(3)},
        {About({"engine", "lean4"}, {Entails("lean4", "engine")})}),
   Part(Version, {}, {3}, {"consume"}, {Between(1, 4)}, {AtMost(0)},
        {About({"validator"}, {Knows("validator"), Common})}),
   Part(SelModality, {ELogic(Guard, Slow)}, {}, {"readwrite"}, {}, {Unlimited}, {}),
   Part(Theorem, {ECompare("eq", EField("document.theorem_statement"), Text)}, {7}, {}, {AtLeast(4)},
        {}, {About({"engine"}, {Knows("lean4")})}),
   Part(SelStar, {}, {2}, {"read"}, {Between(3, 9)}, {AtMost(2)}, {}),
   Part(SelField("graph.nosuch"), {InRange}, {4}, {"write"}, {Exactly(3)}, {UseOnce}, {}),
   [Simple EXCEPT !.having = {Modelled}, !.groupBy = {"temporal.version"}],
   [Simple EXCEPT !.source = "store", !.orderBy = {"tensor.time_ms"}, !.limit = {1}]}
====
