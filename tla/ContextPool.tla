---- MODULE ContextPool ----
(***************************************************************************)
(* The query-context pool behind the C ABI of src/interface/ffi/src/main.zig. *)
(*                                                                         *)
(* Threads of the host program call vqlut_parse, the four stage functions, *)
(* vqlut_get_safety_level and vqlut_destroy.  allocSlot, getContext and    *)
(* freeSlot hold pool_mutex, so each is one step.  getContext hands back a *)
(* pointer into the pool, and everything a call does through it afterwards *)
(* happens without the mutex: every read and every write of a field is a   *)
(* step of its own, and the stores of one call may take effect in any      *)
(* order (nothing in the code orders them for another thread).             *)
(*                                                                         *)
(* A handle is the slot's index plus one, so slots are numbered from 1.    *)
(* The plan field is left out: no function ever assigns it but null.       *)
(***************************************************************************)
EXTENDS Naturals, FiniteSets

CONSTANTS
  Threads,        \* host threads that call the library
  MaxContexts,    \* MAX_CONTEXTS, the number of slots
  Requested       \* the modes the host asks for

Modes == {"slipstream", "dependent_types", "ultimate_type_safe"}

ASSUME MaxContextsAssumption == MaxContexts \in Nat \ {0}
ASSUME RequestedAssumption == Requested \subseteq Modes

VARIABLES
  pool,           \* context_pool: a QueryContext per slot
  call,           \* the call each thread is executing, or NoCall
  ret,            \* what each thread's last call left it: result and last_error_msg
  done            \* history: stage functions that returned ok for the slot's query

vars == <<pool, call, ret, done>>

----------------------------------------------------------------------------
(* Tags and the values they stand for. *)

Slots == 1 .. MaxContexts

\* Handle 0 is never valid, and MaxContexts + 1 stands for every larger one.
Handles == 0 .. MaxContexts + 1

StageOps == {"bind_schema", "check_types", "check_effects", "compile"}
Stages == {"parsed", "schema_bound", "type_checked", "effect_checked", "compiled"}

\* The SafetyLevel tags the stage functions assign.
Levels == {0, 1, 4, 7, 9}

Fields == {"stage", "mode", "level"}

\* The messages setError is called with, None when last_error_msg is null.
Errors == {"none", "invalid_mode", "exhausted", "invalid_handle", "wrong_stage"}

\* Mutant: vqlut_check_effects with the stage test of vqlut_check_types.
ExpectedPasted(op) ==
  CASE op = "bind_schema"   -> "parsed"
    [] op = "check_types"   -> "schema_bound"
    [] op = "check_effects" -> "schema_bound"
    [] op = "compile"       -> "effect_checked"

\* The stage a stage function insists on, and the one it moves the query to.
Expected(op) ==
  CASE op = "bind_schema"   -> "parsed"
    [] op = "check_types"   -> "schema_bound"
    [] op = "check_effects" -> "type_checked"
    [] op = "compile"       -> "effect_checked"

Reached(op) ==
  CASE op = "bind_schema"   -> "schema_bound"
    [] op = "check_types"   -> "type_checked"
    [] op = "check_effects" -> "effect_checked"
    [] op = "compile"       -> "compiled"

\* Mutant: the top mode compiles to the tag after linear_safe, which the ABI counts to.
CompiledLevelTen(mode) ==
  CASE mode = "slipstream"         -> 4
    [] mode = "dependent_types"    -> 7
    [] mode = "ultimate_type_safe" -> 10

\* The level vqlut_compile settles on.
CompiledLevel(mode) ==
  CASE mode = "slipstream"         -> 4
    [] mode = "dependent_types"    -> 7
    [] mode = "ultimate_type_safe" -> 9

\* The level a stage function records, from the mode it read.
LevelReached(op, mode) ==
  CASE op = "bind_schema"   -> 1
    [] op = "check_types"   -> 4
    [] op = "check_effects" -> 7
    [] op = "compile"       -> CompiledLevel(mode)

\* A QueryContext as reset() leaves it, and as allocSlot hands it out.
EmptyContext == [active |-> FALSE, stage |-> "parsed", mode |-> "slipstream", level |-> 0]

\* Mutant: allocSlot resets the slot it found and forgets to mark it.
FreshUnmarked == EmptyContext

FreshContext == [EmptyContext EXCEPT !.active = TRUE]

\* The fields a call reads through the pointer, and those it writes.
ReadsOf(op) ==
  CASE op = "get_safety_level" -> {"level"}
    [] op = "compile"          -> {"stage", "mode"}
    [] OTHER                   -> {"stage"}


\* Mutant: vqlut_parse does not store the mode it was asked for.
WritesWithoutMode(op) == {"stage", "level"}

WritesOf(op) == IF op = "parse" THEN {"mode", "stage", "level"} ELSE {"stage", "level"}

----------------------------------------------------------------------------
(* The state of a call.  "alloc" is the window of vqlut_parse between       *)
(* allocSlot and getContext; in "read" and "write" the call holds a pointer *)
(* to its slot and todo is the set of fields it has yet to access.          *)

Phases == {"idle", "alloc", "read", "write"}

NoCall == [op |-> "none", slot |-> 0, phase |-> "idle", todo |-> {},
           mode |-> "slipstream", stage |-> "parsed", orphan |-> FALSE]

\* mode is the argument of vqlut_parse, otherwise what the call has read.
CallOf(op, h, phase, todo, mode) ==
  [NoCall EXCEPT !.op = op, !.slot = h, !.phase = phase, !.todo = todo, !.mode = mode]

Idle(t) == call[t].phase = "idle"

\* Some call in flight has been given the slot.
Busy(h) == \E t \in Threads : ~Idle(t) /\ call[t].slot = h

\* What a thread is left with: the tag or level returned, and the threadlocal
\* last_error_msg.  Every return path sets or clears the message and only the thread
\* itself can read it, so its value inside a call is not kept.
Result(code, level, error) == [code |-> code, level |-> level, error |-> error]
Ok == Result("ok", 0, "none")

\* Mutant: last_error_msg is not threadlocal.
ReturnGlobal(t, result) ==
  ret' = [u \in Threads |-> IF u = t THEN result ELSE [ret[u] EXCEPT !.error = result.error]]

Return(t, result) == ret' = [ret EXCEPT ![t] = result]

Finish(t, result) == call' = [call EXCEPT ![t] = NoCall] /\ Return(t, result)

\* A call that has started has returned nothing yet.
Enter(t, c) == call' = [call EXCEPT ![t] = c] /\ Return(t, Result("none", 0, "none"))

Fail(t, error) == Finish(t, Result("internal_error", 0, error))

----------------------------------------------------------------------------
(* vqlut_parse *)

\* intToEnum refuses the mode tag before a slot is taken.
ParseInvalidMode(t) ==
  /\ Idle(t)
  /\ Fail(t, "invalid_mode")
  /\ UNCHANGED <<pool, done>>

\* allocSlot scans for the first slot that is not active.
FirstFree(h) ==
  /\ ~pool[h].active
  /\ \A g \in Slots : g < h => pool[g].active

ParseAlloc(t, mode) ==
  /\ Idle(t)
  /\ \E h \in Slots :
       /\ FirstFree(h)
       /\ pool' = [pool EXCEPT ![h] = FreshContext]
       /\ done' = [done EXCEPT ![h] = {}]
       /\ Enter(t, CallOf("parse", h, "alloc", {}, mode))

ParseExhausted(t) ==
  /\ Idle(t)
  /\ \A h \in Slots : pool[h].active
  /\ Fail(t, "exhausted")
  /\ UNCHANGED <<pool, done>>

\* getContext under a second acquisition of the mutex.
ParseConfigure(t) ==
  /\ call[t].phase = "alloc"
  /\ pool[call[t].slot].active
  /\ call' = [call EXCEPT ![t] = [call[t] EXCEPT !.phase = "write", !.todo = WritesOf("parse")]]
  /\ UNCHANGED <<pool, ret, done>>

\* Mutant: vqlut_parse waits for the slot to come alive.
ParseWaits(t) ==
  /\ call[t].phase = "alloc"
  /\ ~pool[call[t].slot].active
  /\ UNCHANGED vars

\* Mutant: vqlut_parse takes another slot when it has lost its own.
ParseRetries(t) ==
  /\ call[t].phase = "alloc"
  /\ ~pool[call[t].slot].active
  /\ \E h \in Slots :
       /\ FirstFree(h)
       /\ pool' = [pool EXCEPT ![h] = FreshContext]
       /\ done' = [done EXCEPT ![h] = {}]
       /\ Enter(t, CallOf("parse", h, "alloc", {}, call[t].mode))

\* The slot was destroyed since allocSlot: nothing is configured, and ok is returned.
ParseLost(t) ==
  /\ call[t].phase = "alloc"
  /\ ~pool[call[t].slot].active
  /\ Finish(t, Ok)
  /\ UNCHANGED <<pool, done>>

----------------------------------------------------------------------------
(* The stage functions and vqlut_get_safety_level: getContext first. *)

Live(h) == h \in Slots /\ pool[h].active

Lookup(t, op, h) ==
  /\ Idle(t)
  /\ Live(h)
  /\ Enter(t, CallOf(op, h, "read", ReadsOf(op), "slipstream"))
  /\ UNCHANGED <<pool, done>>

\* The four stage functions answer a dead handle alike, vqlut_get_safety_level with
\* 0xFFFFFFFF.
LookupFails(t, code, h) ==
  /\ Idle(t)
  /\ ~Live(h)
  /\ Finish(t, Result(code, 0, "invalid_handle"))
  /\ UNCHANGED <<pool, done>>

\* vqlut_get_safety_level reads achieved_level and returns it.
ReadLevel(t) ==
  /\ call[t].phase = "read"
  /\ call[t].op = "get_safety_level"
  /\ Finish(t, Result("level", pool[call[t].slot].level, "none"))
  /\ UNCHANGED <<pool, done>>

\* The call with the field just read through the pointer.
AfterRead(t, f) ==
  LET ctx == pool[call[t].slot]
  IN  [call[t] EXCEPT !.todo = @ \ {f},
                      !.stage = IF f = "stage" THEN ctx.stage ELSE @,
                      !.mode = IF f = "mode" THEN ctx.mode ELSE @]

ReadField(t, f) ==
  /\ call[t].phase = "read"
  /\ call[t].op \in StageOps
  /\ f \in call[t].todo
  /\ call[t].todo # {f}
  /\ call' = [call EXCEPT ![t] = AfterRead(t, f)]
  /\ UNCHANGED <<pool, ret, done>>

\* The last read decides whether the call may go on.
StageAccepted(t, f) ==
  /\ call[t].phase = "read"
  /\ call[t].op \in StageOps
  /\ call[t].todo = {f}
  /\ AfterRead(t, f).stage = Expected(call[t].op)
  /\ call' = [call EXCEPT ![t] = [AfterRead(t, f) EXCEPT !.phase = "write",
                                                         !.todo = WritesOf(call[t].op)]]
  /\ UNCHANGED <<pool, ret, done>>

StageRefused(t, f) ==
  /\ call[t].phase = "read"
  /\ call[t].op \in StageOps
  /\ call[t].todo = {f}
  /\ AfterRead(t, f).stage # Expected(call[t].op)
  /\ Fail(t, "wrong_stage")
  /\ UNCHANGED <<pool, done>>

\* Mutant: a store assigns the whole struct, active included.
StoredWhole(c, f) ==
  [active |-> TRUE, mode |-> c.mode,
   stage |-> IF c.op = "parse" THEN "parsed" ELSE Reached(c.op),
   level |-> IF c.op = "parse" THEN 0 ELSE LevelReached(c.op, c.mode)]

\* The context with one field stored the way the call stores it.
Stored(c, f) ==
  LET stage == IF c.op = "parse" THEN "parsed" ELSE Reached(c.op)
      level == IF c.op = "parse" THEN 0 ELSE LevelReached(c.op, c.mode)
  IN  [pool[c.slot] EXCEPT !.stage = IF f = "stage" THEN stage ELSE @,
                           !.mode = IF f = "mode" THEN c.mode ELSE @,
                           !.level = IF f = "level" THEN level ELSE @]

WriteField(t, f) ==
  /\ call[t].phase = "write"
  /\ f \in call[t].todo
  /\ call[t].todo # {f}
  /\ pool' = [pool EXCEPT ![call[t].slot] = Stored(call[t], f)]
  /\ call' = [call EXCEPT ![t] = [call[t] EXCEPT !.todo = @ \ {f}]]
  /\ UNCHANGED <<ret, done>>

\* The history credits a stage function to the query it was called on only.
Credited(c) == IF c.op \in StageOps /\ ~c.orphan THEN {c.op} ELSE {}

WriteLast(t, f) ==
  /\ call[t].phase = "write"
  /\ call[t].todo = {f}
  /\ pool' = [pool EXCEPT ![call[t].slot] = Stored(call[t], f)]
  /\ done' = [done EXCEPT ![call[t].slot] = @ \cup Credited(call[t])]
  /\ Finish(t, Ok)

----------------------------------------------------------------------------
(* vqlut_destroy: freeSlot resets the slot whether or not it is active.    *)
(* Calls still holding a pointer to it become orphans (history only).      *)

Orphaned(h) ==
  [u \in Threads |-> IF ~Idle(u) /\ call[u].slot = h
                     THEN [call[u] EXCEPT !.orphan = TRUE] ELSE call[u]]

\* Mutant: freeSlot takes the handle for the index.
DestroyNextSlot(t, h) ==
  /\ Idle(t)
  /\ h + 1 \in Slots
  /\ pool' = [pool EXCEPT ![h + 1] = EmptyContext]
  /\ done' = [done EXCEPT ![h + 1] = {}]
  /\ call' = Orphaned(h + 1)
  /\ Return(t, Ok)

Destroy(t, h) ==
  /\ Idle(t)
  /\ h \in Slots
  /\ pool' = [pool EXCEPT ![h] = EmptyContext]
  /\ done' = [done EXCEPT ![h] = {}]
  /\ call' = Orphaned(h)
  /\ Return(t, Ok)

DestroyNothing(t, h) ==
  /\ Idle(t)
  /\ h \notin Slots
  /\ Finish(t, Ok)
  /\ UNCHANGED <<pool, done>>

----------------------------------------------------------------------------
Init ==
  /\ pool = [h \in Slots |-> EmptyContext]
  /\ call = [t \in Threads |-> NoCall]
  /\ ret = [t \in Threads |-> Result("none", 0, "none")]
  /\ done = [h \in Slots |-> {}]

\* A call already under way goes on.
Continue(t) ==
  \/ ParseConfigure(t)
  \/ ParseLost(t)
  \/ ReadLevel(t)
  \/ \E f \in Fields : \/ ReadField(t, f) \/ StageAccepted(t, f) \/ StageRefused(t, f)
                       \/ WriteField(t, f) \/ WriteLast(t, f)

Parse(t) == ParseInvalidMode(t) \/ ParseExhausted(t) \/ \E mode \in Requested : ParseAlloc(t, mode)

\* The calls that are given a handle.
Use(t, h) ==
  \/ \E op \in StageOps \cup {"get_safety_level"} : Lookup(t, op, h)
  \/ \E code \in {"internal_error", "no_level"} : LookupFails(t, code, h)

Discard(t, h) == Destroy(t, h) \/ DestroyNothing(t, h)

Apply(t, h) == Use(t, h) \/ Discard(t, h)

\* Any thread, any handle, at any time.
Next == \E t \in Threads : Parse(t) \/ Continue(t) \/ \E h \in Handles : Apply(t, h)

\* The host serialises the calls it makes on one handle, and nothing else.
SerialNext ==
  \E t \in Threads : Parse(t) \/ Continue(t) \/ \E h \in Handles : ~Busy(h) /\ Apply(t, h)

\* The host's threads share a handle from the return of its vqlut_parse on, and destroy
\* it once no call uses it.
Opening(t, h) == call[t].slot = h /\ call[t].op = "parse"

SharedNext ==
  \E t \in Threads :
    \/ Parse(t) \/ Continue(t)
    \/ \E h \in Handles : \/ Use(t, h) /\ \A u \in Threads : ~Opening(u, h)
                          \/ Discard(t, h) /\ ~Busy(h)

\* pool_mutex is held for a bounded scan and a thread in a call keeps running.
Fairness == \A t \in Threads : WF_vars(Continue(t))

Spec == Init /\ [][Next]_vars
FairSpec == Spec /\ Fairness
SerialSpec == Init /\ [][SerialNext]_vars
SharedSpec == Init /\ [][SharedNext]_vars

----------------------------------------------------------------------------
(* Properties *)

Results ==
  [code : {"none", "ok", "internal_error", "no_level", "level"},
   level : Levels, error : Errors]

Calls ==
  [op : StageOps \cup {"none", "parse", "get_safety_level"}, slot : Slots \cup {0},
   phase : Phases, todo : SUBSET Fields, mode : Modes, stage : Stages, orphan : BOOLEAN]

\* Every variable has its type.
TypeOK ==
  /\ pool \in [Slots -> [active : BOOLEAN, stage : Stages, mode : Modes, level : Levels]]
  /\ call \in [Threads -> Calls]
  /\ ret \in [Threads -> Results]
  /\ done \in [Slots -> SUBSET StageOps]

\* The phases a call passes through, and what it may still have to access in each.
Shape(c) ==
  \/ c = NoCall
  \/ c.slot \in Slots /\ c.phase = "alloc" /\ c.op = "parse"
  \/ /\ c.slot \in Slots /\ c.phase = "read" /\ c.op \in StageOps \cup {"get_safety_level"}
     /\ c.todo # {} /\ c.todo \subseteq ReadsOf(c.op)
  \/ /\ c.slot \in Slots /\ c.phase = "write" /\ c.op \in StageOps \cup {"parse"}
     /\ c.todo # {} /\ c.todo \subseteq WritesOf(c.op)

CallShape == \A t \in Threads : Shape(call[t])

\* Two vqlut_parse calls under way never configure the same slot, unless a destroy of
\* that slot came in between: allocSlot marks the slot active in the scan that finds it.
ParsesGetDistinctSlots ==
  \A t, u \in Threads :
    /\ t # u
    /\ call[t].op = "parse" /\ ~call[t].orphan
    /\ call[u].op = "parse" /\ ~call[u].orphan
    => call[t].slot # call[u].slot

\* last_error_msg is threadlocal and every return sets or clears it: a thread between
\* calls sees an error message exactly when its own last call failed, whatever the
\* calls of the other threads returned meanwhile.
LastErrorIsOwn ==
  \A t \in Threads :
    Idle(t) => (ret[t].error # "none" <=> ret[t].code \in {"internal_error", "no_level"})

\* A slot comes to life in allocSlot and dies in freeSlot only: no store made through a
\* pointer kept across a destroy revives the slot or ends the query that took it over.
SlotChangesHands ==
  \A h \in Slots :
    /\ ~pool[h].active /\ pool'[h].active =>
         \E t \in Threads : Idle(t) /\ call'[t].op = "parse" /\ call'[t].slot = h
    /\ pool[h].active /\ ~pool'[h].active =>
         \E t \in Threads : Idle(t) /\ Idle(t)' /\ ret'[t].code = "ok"

ActiveOnlyUnderLock == [][SlotChangesHands]_vars

\* Every call returns to its caller, however the other threads interleave with it.
CallsReturn == \A t \in Threads : ~Idle(t) ~> Idle(t)

\* The steps a call has before it, at most.
StepsLeft(c) ==
  CASE c.phase = "idle"  -> 0
    [] c.phase = "alloc" -> 1 + Cardinality(WritesOf(c.op))
    [] c.phase = "read"  -> Cardinality(c.todo)
                              + (IF c.op \in StageOps THEN Cardinality(WritesOf(c.op)) ELSE 0)
    [] c.phase = "write" -> Cardinality(c.todo)

\* No call waits for another or tries again: whatever the other threads do, destroying the
\* very slot included, each step of a call brings it nearer to its return, which is four
\* steps away at most, and the steps of others never set it back.
Nearer(t) ==
  /\ StepsLeft(call[t]) \in 0 .. 4
  /\ Continue(t) => StepsLeft(call'[t]) < StepsLeft(call[t])
  /\ ~Idle(t) => StepsLeft(call'[t]) <= StepsLeft(call[t])

CallsAdvance == [][\A t \in Threads : Nearer(t)]_vars

\* The stage functions that lie behind a query at a stage.
OpsBefore(stage) ==
  CASE stage = "parsed"         -> {}
    [] stage = "schema_bound"   -> {"bind_schema"}
    [] stage = "type_checked"   -> {"bind_schema", "check_types"}
    [] stage = "effect_checked" -> {"bind_schema", "check_types", "check_effects"}
    [] stage = "compiled"       -> StageOps

\* The level that belongs to a stage.
LevelAt(stage, mode) ==
  CASE stage = "parsed"         -> 0
    [] stage = "schema_bound"   -> 1
    [] stage = "type_checked"   -> 4
    [] stage = "effect_checked" -> 7
    [] stage = "compiled"       -> CompiledLevel(mode)

Settled(h) ==
  IF pool[h].active
  THEN /\ done[h] = OpsBefore(pool[h].stage)
       /\ pool[h].level = LevelAt(pool[h].stage, pool[h].mode)
  ELSE pool[h] = EmptyContext /\ done[h] = {}

\* A slot no call is working on is settled: its query has reached its stage by the stage
\* functions before it, each of which returned ok for this very query, and the recorded
\* level is the one that belongs to that stage and to the query's mode.
StageEarned == \A h \in Slots : ~Busy(h) => Settled(h)

\* A call under way works on an active slot, the one it was given, and no other call
\* works on that slot.
PointersStayValid ==
  \A t \in Threads : ~Idle(t) =>
    /\ call[t].slot \in Slots
    /\ pool[call[t].slot].active
    /\ ~call[t].orphan
    /\ \A u \in Threads \ {t} : call[u].slot # call[t].slot

\* What a slot looks like while a call c works on it: what c has read still holds, and
\* the fields it has not stored yet are as they were.
Underway(c) ==
  LET ctx == pool[c.slot] IN
  \/ c.phase = "alloc" /\ ctx = FreshContext /\ done[c.slot] = {}
  \/ /\ c.phase = "read" /\ Settled(c.slot)
     /\ c.op \in StageOps /\ "stage" \notin c.todo => c.stage = ctx.stage
     /\ c.op = "compile" /\ "mode" \notin c.todo => c.mode = ctx.mode
  \/ /\ c.phase = "write" /\ c.op = "parse" /\ done[c.slot] = {}
     /\ ctx.stage = "parsed" /\ ctx.level = 0
     /\ "mode" \notin c.todo => ctx.mode = c.mode
  \/ /\ c.phase = "write" /\ c.op \in StageOps /\ done[c.slot] = OpsBefore(Expected(c.op))
     /\ ctx.stage = IF "stage" \in c.todo THEN Expected(c.op) ELSE Reached(c.op)
     /\ ctx.level = IF "level" \in c.todo THEN LevelAt(Expected(c.op), ctx.mode)
                                         ELSE LevelReached(c.op, c.mode)
     /\ c.op = "compile" => c.mode = ctx.mode

CallsCoherent == \A t \in Threads : ~Idle(t) => Underway(call[t])

\* The level of a query that lives goes down in one case only: vqlut_compile settles the
\* seventh level of a slipstream query as the fourth.
LevelFalls(h) ==
  pool[h].active /\ pool'[h].active /\ pool'[h].level < pool[h].level =>
    /\ pool[h].mode = "slipstream"
    /\ pool[h].level = 7 /\ pool'[h].level = 4
    /\ \E t \in Threads : call[t].op = "compile" /\ call[t].slot = h

LevelFallsAtCompile == [][\A h \in Slots : LevelFalls(h)]_vars

\* achieved_level is "Highest safety level achieved so far": while a query lives, it
\* never goes down.
LevelRises ==
  [][\A h \in Slots : pool[h].active /\ pool'[h].active => pool'[h].level >= pool[h].level]_vars
====
