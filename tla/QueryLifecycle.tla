---- MODULE QueryLifecycle ----
(***************************************************************************)
(* What the query pool promises: a table of queries, each of them free or  *)
(* at a position of the pipeline, on which every call takes effect at one  *)
(* instant between its start and its return.                               *)
(*                                                                         *)
(* A thread's outcome is what its last call returned or, while it is inside *)
(* a call, which call that is.  vqlut_parse opens its query some time       *)
(* before it returns.                                                      *)
(***************************************************************************)
EXTENDS Naturals

CONSTANTS Threads, Slots

VARIABLES query, outcome

Modes == {"slipstream", "dependent_types", "ultimate_type_safe"}

\* The functions that move a query along the pipeline, and the position each one
\* moves it on from.
StageOps == {"bind_schema", "check_types", "check_effects", "compile"}

Place(op) ==
  CASE op = "bind_schema"   -> 1
    [] op = "check_types"   -> 2
    [] op = "check_effects" -> 3
    [] op = "compile"       -> 4

Free == [position |-> 0, mode |-> "slipstream", level |-> 0]

\* The safety level of a query at a position of the pipeline.
LevelOf(position, mode) ==
  CASE position = 1 -> 0
    [] position = 2 -> 1
    [] position = 3 -> 4
    [] position = 4 -> 7
    [] position = 5 /\ mode = "slipstream"         -> 4
    [] position = 5 /\ mode = "dependent_types"    -> 7
    [] position = 5 /\ mode = "ultimate_type_safe" -> 9

Query(position, mode) ==
  [position |-> position, mode |-> mode, level |-> LevelOf(position, mode)]

Answer(code, level, error) ==
  [code |-> code, level |-> level, error |-> error, op |-> "none", slot |-> 0]

Inside(op, s) == [code |-> "none", level |-> 0, error |-> "none", op |-> op, slot |-> s]

Ok == Answer("ok", 0, "none")

Between(t) == outcome[t].op = "none"
Respond(t, answer) == outcome' = [outcome EXCEPT ![t] = answer]

Init ==
  /\ query = [s \in Slots |-> Free]
  /\ outcome = [t \in Threads |-> Answer("none", 0, "none")]

Open(t, s, mode) ==
  /\ Between(t)
  /\ Respond(t, Inside("parse", s))
  /\ query[s] = Free
  /\ query' = [query EXCEPT ![s] = Query(1, mode)]

Opened(t) == outcome[t].op = "parse" /\ Respond(t, Ok) /\ UNCHANGED query

\* A call on an open query starts.
Invoke(t, op, s) ==
  /\ Between(t)
  /\ Respond(t, Inside(op, s))
  /\ query[s] # Free
  /\ UNCHANGED query

\* The call thread t is inside of is the stage function of its query's position.
InOrder(t) == query[outcome[t].slot].position = Place(outcome[t].op)

\* It moves the query to the next position.
Advance(t) ==
  LET s == outcome[t].slot IN
  /\ outcome[t].op \in StageOps
  /\ Respond(t, Ok)
  /\ InOrder(t)
  /\ query' = [query EXCEPT ![s] = Query(Place(outcome[t].op) + 1, query[s].mode)]

\* Any other one leaves it alone.
RefuseStage(t) ==
  /\ outcome[t].op \in StageOps
  /\ Respond(t, Answer("internal_error", 0, "wrong_stage"))
  /\ ~InOrder(t)
  /\ UNCHANGED query

Observe(t) ==
  /\ outcome[t].op = "get_safety_level"
  /\ Respond(t, Answer("level", query[outcome[t].slot].level, "none"))
  /\ UNCHANGED query

\* Closing a query that is free already changes nothing and is no error.
Close(t, s) ==
  /\ Between(t)
  /\ Respond(t, Ok)
  /\ query' = [query EXCEPT ![s] = Free]

\* A call that changes no query: destroying what is no slot, or a refusal.
Answered(t, answer) == Between(t) /\ Respond(t, answer) /\ UNCHANGED query

CloseNothing(t) == Answered(t, Ok)
RefuseMode(t) == Answered(t, Answer("internal_error", 0, "invalid_mode"))
RefuseHandle(t, code) == Answered(t, Answer(code, 0, "invalid_handle"))

RefuseFull(t) ==
  /\ Answered(t, Answer("internal_error", 0, "exhausted"))
  /\ \A s \in Slots : query[s] # Free

Next ==
  \E t \in Threads :
    \/ Opened(t) \/ Advance(t) \/ RefuseStage(t) \/ Observe(t)
    \/ RefuseMode(t) \/ RefuseFull(t) \/ CloseNothing(t)
    \/ \E code \in {"internal_error", "no_level"} : RefuseHandle(t, code)
    \/ \E s \in Slots : \/ Close(t, s)
                        \/ \E mode \in Modes : Open(t, s, mode)
                        \/ \E op \in StageOps \cup {"get_safety_level"} : Invoke(t, op, s)

Spec == Init /\ [][Next]_<<query, outcome>>
====
