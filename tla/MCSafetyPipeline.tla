---- MODULE MCSafetyPipeline ----
(* The checker's pipeline over every combination of a condition, a result and clauses. *)
EXTENDS SafetyPipeline, MCStatements

Results ==
  {{SelField("document.theorem_statement")}, {SelField("semantic.llm_model"), SelModality},
   {SelStar}, {SelAggregate(CountOf("graph.nosuch"))}, {SelAggregate(EField("temporal.version"))}}

Epistemics ==
  {About({}, {}),
   About({"engine"}, {Knows("engine"), Common}),
   About({"engine"}, {Knows("lean4")}),
   About({"engine", "lean4"}, {Entails("engine", "lean4")}),
   About({"engine", "lean4"}, {Entails("engine", "lean4"), Entails("lean4", "engine")})}

Tails ==
  {<<{}, {}, {}, {}, {}>>,
   <<{}, {"read"}, {Latest}, {UseOnce}, {}>>,
   <<{10}, {}, {Latest}, {UseOnce}, {}>>,
   <<{10}, {"read"}, {}, {UseOnce}, {}>>,
   <<{10}, {"read"}, {Latest}, {}, {}>>,
   <<{10}, {"read"}, {Latest}, {Unlimited}, {}>>,
   <<{10}, {"read"}, {Latest}, {UseOnce}, {}>>}
    \cup {<<{10}, {"read"}, {Latest}, {AtMost(3)}, {e}>> : e \in Epistemics}

Ordered(s) ==
  {[s EXCEPT !.orderBy = {f}] : f \in MCFieldRefs} \cup {[s EXCEPT !.groupBy = {f}] : f \in MCFieldRefs}

MCInputs ==
  Ordered(Simple) \cup
  {Extended([Simple EXCEPT !.where = w, !.select = r, !.having = h], t[1], t[2], t[3], t[4], t[5]) :
     w \in {{}} \cup {{c} : c \in Conditions}, r \in Results,
     h \in {{}, {Modelled}, {ELogic(Guard, Slow)}}, t \in Tails}
====
