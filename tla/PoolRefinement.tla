---- MODULE PoolRefinement ----
(***************************************************************************)
(* The pool with calls on one handle serialised implements QueryLifecycle. *)
(* vqlut_parse takes effect when allocSlot marks the slot, a stage function *)
(* when its last store lands, vqlut_get_safety_level at its read.          *)
(***************************************************************************)
EXTENDS ContextPool

\* A query's position in the pipeline.
Position(stage) ==
  CASE stage = "parsed"         -> 1
    [] stage = "schema_bound"   -> 2
    [] stage = "type_checked"   -> 3
    [] stage = "effect_checked" -> 4
    [] stage = "compiled"       -> 5

\* The query as it was before a stage function whose stores are under way, and as a
\* vqlut_parse under way is going to leave it.
QueryAt(stage, mode) ==
  [position |-> Position(stage), mode |-> mode, level |-> LevelAt(stage, mode)]

Writing(t, h) == call[t].slot = h /\ call[t].phase = "write" /\ call[t].op # "parse"

AbstractQuery(h) ==
  IF \E t \in Threads : Writing(t, h)
  THEN LET op == call[CHOOSE t \in Threads : Writing(t, h)].op
       IN  QueryAt(Expected(op), pool[h].mode)
  ELSE IF \E t \in Threads : Opening(t, h)
  THEN QueryAt("parsed", call[CHOOSE t \in Threads : Opening(t, h)].mode)
  ELSE [position |-> IF pool[h].active THEN Position(pool[h].stage) ELSE 0,
        mode |-> pool[h].mode, level |-> pool[h].level]

AbstractOutcome(t) ==
  [code |-> ret[t].code, level |-> ret[t].level, error |-> ret[t].error,
   op |-> call[t].op, slot |-> call[t].slot]

Lifecycle == INSTANCE QueryLifecycle
  WITH query <- [h \in Slots |-> AbstractQuery(h)],
       outcome <- [t \in Threads |-> AbstractOutcome(t)]

\* With the calls on each handle serialised by the host, and calls on different handles
\* interleaving freely, every call behaves as if it ran alone: what it returns and what
\* it leaves behind is what one atomic operation on a table of queries would.
LifecycleImplemented == Lifecycle!Spec
====
