---- MODULE MCStatements ----
(***************************************************************************)
(* A small universe of statements: fields of the ECHIDNA proof octad and   *)
(* one that does not resolve, and the expressions the parser builds over   *)
(* them, with the type annotations it gives them.                          *)
(***************************************************************************)
EXTENDS SafetyLevels

MCFieldRefs ==
  {"document.theorem_statement", "semantic.llm_model", "temporal.version",
   "tensor.time_ms", "graph.nosuch"}

MCSchema ==
  [f \in MCFieldRefs \ {"graph.nosuch"} |->
     [type |-> CASE f = "temporal.version" -> Plain("int")
                 [] f = "tensor.time_ms"   -> Plain("float")
                 [] OTHER                  -> Plain("string"),
      nullable |-> f = "semantic.llm_model"]]

MCSources == {"octad", "store"}
MCAgents == {"engine", "lean4", "validator"}

----------------------------------------------------------------------------
(* Expressions, as parsePrimary and parseComparison build them. *)

Null == ELiteral("null", TAny)
Text == ELiteral("string", Plain("string"))
Number == ELiteral("number", Plain("int"))
Param == EParam(TAny)
CountOf(ref) == EAggregate(EField(ref), TAny)

Comparisons ==
  {ECompare(op, EField(f), r) :
     op \in {"eq", "lt"}, f \in MCFieldRefs,
     r \in {Null, Text, Number, Param, EField("tensor.time_ms"), CountOf("temporal.version")}}

InRange == ECompare("lt", EField("temporal.version"), Number)
Slow == ECompare("lt", EField("tensor.time_ms"), Number)
Modelled == ECompare("eq", EField("semantic.llm_model"), Text)
Guard == ECompare("noteq", Null, EField("semantic.llm_model"))

\* A bare statement, for subqueries and to add clauses to.
Simple ==
  [select |-> {SelField("document.theorem_statement")}, source |-> "octad", where |-> {},
   groupBy |-> {}, having |-> {}, orderBy |-> {}, limit |-> {}, effects |-> {},
   version |-> {}, linear |-> {}, epistemic |-> {}]

Conditions ==
  Comparisons
    \cup {ELogic(InRange, Slow), ELogic(Guard, Modelled), ENot(Guard), ELogic(InRange, ENot(Slow))}
    \cup {EStar, ESubquery([Simple EXCEPT !.orderBy = {"graph.nosuch"}]),
          EEpistemic(InRange, TBool), EAnnounce(Slow, InRange, TBool)}

----------------------------------------------------------------------------
(* Clauses *)

Latest == [kind |-> "latest", low |-> 0, high |-> 0]
Exactly(n) == [kind |-> "exact", low |-> n, high |-> 0]
AtLeast(n) == [kind |-> "atleast", low |-> n, high |-> 0]
Between(m, n) == [kind |-> "range", low |-> m, high |-> n]

Unlimited == [kind |-> "unlimited", uses |-> 0]
UseOnce == [kind |-> "useonce", uses |-> 0]
AtMost(n) == [kind |-> "bounded", uses |-> n]

Entails(a, b) == [kind |-> "entails", from |-> a, to |-> b]
Knows(a) == [kind |-> "knows", from |-> a, to |-> a]
Common == [kind |-> "common", from |-> "engine", to |-> "engine"]
About(agents, requires) == [agents |-> agents, requires |-> requires]

Extended(s, limit, effects, version, linear, epistemic) ==
  [s EXCEPT !.limit = limit, !.effects = effects, !.version = version, !.linear = linear,
            !.epistemic = epistemic]
====
