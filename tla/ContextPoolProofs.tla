---- MODULE ContextPoolProofs ----
(***************************************************************************)
(* Proofs about the query pool, for every number of threads and slots and  *)
(* every set of requested modes.                                           *)
(***************************************************************************)
EXTENDS PoolRefinement, FiniteSetTheorems, TLAPS

----------------------------------------------------------------------------
(* Typing, whatever handles the threads use. *)

Typing == TypeOK /\ CallShape

Contexts == [active : BOOLEAN, stage : Stages, mode : Modes, level : Levels]

LEMMA TypingInit == Init => Typing
  BY DEF Init, Typing, TypeOK, CallShape, Shape, Slots, EmptyContext, NoCall, Calls, Phases,
         Fields, Modes, Stages, Levels, StageOps, Result, Results, Errors

\* The results a call can leave behind are typed.
LEMMA ResultTypes ==
  /\ Ok \in Results
  /\ \A e \in Errors : Result("internal_error", 0, e) \in Results
  /\ \A c \in {"internal_error", "no_level"} : Result(c, 0, "invalid_handle") \in Results
  /\ \A l \in Levels : Result("level", l, "none") \in Results
  /\ Result("none", 0, "none") \in Results
  BY DEF Ok, Result, Results, Errors, Levels

\* What is known of a call in a phase other than idle.
LEMMA ActiveCall ==
  ASSUME Typing, NEW t \in Threads, ~Idle(t)
  PROVE  /\ call[t] \in Calls
         /\ call[t].slot \in Slots
         /\ pool[call[t].slot] \in Contexts
         /\ done[call[t].slot] \in SUBSET StageOps
         /\ call[t].phase = "alloc" => call[t].op = "parse"
         /\ call[t].phase = "read" =>
               call[t].op \in StageOps \cup {"get_safety_level"} /\ call[t].todo \subseteq ReadsOf(call[t].op)
         /\ call[t].phase = "write" =>
               call[t].op \in StageOps \cup {"parse"} /\ call[t].todo \subseteq WritesOf(call[t].op)
  BY DEF Typing, TypeOK, CallShape, Shape, Idle, NoCall, Contexts

\* One thread's call is replaced by a well-formed one.
LEMMA CallTyping ==
  ASSUME Typing, NEW t \in Threads, NEW c \in Calls, Shape(c), call' = [call EXCEPT ![t] = c]
  PROVE  call' \in [Threads -> Calls] /\ CallShape'
  BY DEF Typing, TypeOK, CallShape

LEMMA NoCallTyping == NoCall \in Calls /\ Shape(NoCall)
  BY DEF NoCall, Calls, Shape, Phases, Fields, Modes, Stages, StageOps

LEMMA FinishTyping ==
  ASSUME Typing, NEW t \in Threads, NEW r \in Results, Finish(t, r)
  PROVE  call' \in [Threads -> Calls] /\ ret' \in [Threads -> Results] /\ CallShape'
  BY CallTyping, NoCallTyping DEF Finish, Return, Typing, TypeOK

LEMMA EnterTyping ==
  ASSUME Typing, NEW t \in Threads, NEW c \in Calls, Shape(c), Enter(t, c)
  PROVE  call' \in [Threads -> Calls] /\ ret' \in [Threads -> Results] /\ CallShape'
  BY CallTyping, ResultTypes DEF Enter, Return, Typing, TypeOK

\* A context after one store of a call that is writing.
LEMMA StoredTyping ==
  ASSUME Typing, NEW t \in Threads, NEW f, call[t].phase = "write"
  PROVE  Stored(call[t], f) \in Contexts
  <1>1. /\ pool[call[t].slot] \in Contexts /\ call[t].mode \in Modes
        /\ call[t].op \in StageOps \cup {"parse"}
    BY ActiveCall DEF Idle, Calls
  <1>2. call[t].op # "parse" => Reached(call[t].op) \in Stages
    BY <1>1 DEF StageOps, Reached, Stages
  <1>3. call[t].op # "parse" => LevelReached(call[t].op, call[t].mode) \in Levels
    BY <1>1 DEF StageOps, LevelReached, CompiledLevel, Modes, Levels
  <1> QED BY <1>1, <1>2, <1>3 DEF Stored, Contexts, Stages, Levels

\* A call after one read.
LEMMA ReadTyping ==
  ASSUME Typing, NEW t \in Threads, NEW f, call[t].phase = "read"
  PROVE  /\ AfterRead(t, f) \in Calls
         /\ AfterRead(t, f).op = call[t].op
         /\ AfterRead(t, f).slot = call[t].slot
         /\ AfterRead(t, f).phase = "read"
         /\ AfterRead(t, f).todo = call[t].todo \ {f}
         /\ AfterRead(t, f).orphan = call[t].orphan
         /\ AfterRead(t, f).stage = IF f = "stage" THEN pool[call[t].slot].stage ELSE call[t].stage
         /\ AfterRead(t, f).mode = IF f = "mode" THEN pool[call[t].slot].mode ELSE call[t].mode
  <1>1. /\ pool[call[t].slot] \in Contexts /\ call[t] \in Calls
    BY ActiveCall DEF Idle
  <1> QED BY <1>1 DEF AfterRead, Contexts, Calls

LEMMA TypingStep == Typing /\ [Next]_vars => Typing'
  <1> SUFFICES ASSUME Typing, [Next]_vars PROVE Typing'
    OBVIOUS
  <1> USE DEF Typing
  <1>1. ASSUME NEW t \in Threads, ParseInvalidMode(t) PROVE Typing'
    BY <1>1, ResultTypes, FinishTyping DEF ParseInvalidMode, Fail, TypeOK, Errors
  <1>2. ASSUME NEW t \in Threads, ParseExhausted(t) PROVE Typing'
    BY <1>2, ResultTypes, FinishTyping DEF ParseExhausted, Fail, TypeOK, Errors
  <1>3. ASSUME NEW t \in Threads, NEW mode \in Requested, ParseAlloc(t, mode) PROVE Typing'
    <2> PICK h \in Slots :
          /\ pool' = [pool EXCEPT ![h] = FreshContext]
          /\ done' = [done EXCEPT ![h] = {}]
          /\ Enter(t, CallOf("parse", h, "alloc", {}, mode))
      BY <1>3 DEF ParseAlloc
    <2> DEFINE c == CallOf("parse", h, "alloc", {}, mode)
    <2>1. c \in Calls /\ Shape(c)
      BY RequestedAssumption DEF CallOf, NoCall, Calls, Shape, Phases, Stages
    <2>2. FreshContext \in Contexts
      BY DEF FreshContext, EmptyContext, Contexts, Stages, Modes, Levels
    <2> HIDE DEF c
    <2>3. Enter(t, c)
      BY DEF c
    <2> QED BY <2>1, <2>2, <2>3, EnterTyping DEF TypeOK, Contexts
  <1>4. ASSUME NEW t \in Threads, ParseConfigure(t) PROVE Typing'
    <2> DEFINE c == [call[t] EXCEPT !.phase = "write", !.todo = WritesOf("parse")]
    <2>1. /\ call[t] \in Calls /\ call[t].slot \in Slots /\ call[t].op = "parse"
      BY <1>4, ActiveCall DEF ParseConfigure, Idle
    <2>2. c \in Calls /\ Shape(c)
      BY <2>1 DEF Calls, Shape, Phases, WritesOf, Fields
    <2> QED BY <1>4, <2>2, CallTyping DEF ParseConfigure, TypeOK
  <1>5. ASSUME NEW t \in Threads, ParseLost(t) PROVE Typing'
    BY <1>5, ResultTypes, FinishTyping DEF ParseLost, TypeOK
  <1>6. ASSUME NEW t \in Threads, ReadLevel(t) PROVE Typing'
    <2>1. pool[call[t].slot].level \in Levels
      BY <1>6, ActiveCall DEF ReadLevel, Idle, Contexts
    <2> QED BY <1>6, <2>1, ResultTypes, FinishTyping DEF ReadLevel, TypeOK
  <1>7. ASSUME NEW t \in Threads, NEW f \in Fields, ReadField(t, f) PROVE Typing'
    <2>1. /\ call[t].slot \in Slots /\ call[t].op \in StageOps
          /\ call[t].todo \subseteq ReadsOf(call[t].op)
      BY <1>7, ActiveCall DEF ReadField, Idle
    <2>2. call[t].todo \ {f} # {}
      BY <1>7 DEF ReadField
    <2>3. Shape(AfterRead(t, f))
      BY <1>7, <2>1, <2>2, ReadTyping DEF ReadField, Shape
    <2> QED BY <1>7, <2>3, ReadTyping, CallTyping DEF ReadField, TypeOK
  <1>8. ASSUME NEW t \in Threads, NEW f \in Fields, StageAccepted(t, f) PROVE Typing'
    <2> DEFINE c == [AfterRead(t, f) EXCEPT !.phase = "write", !.todo = WritesOf(call[t].op)]
    <2>1. call[t].slot \in Slots /\ call[t].op \in StageOps
      BY <1>8, ActiveCall DEF StageAccepted, Idle
    <2>2. /\ AfterRead(t, f) \in Calls /\ AfterRead(t, f).op = call[t].op
          /\ AfterRead(t, f).slot = call[t].slot
      BY <1>8, ReadTyping DEF StageAccepted
    <2>3. c \in Calls /\ Shape(c)
      BY <2>1, <2>2 DEF Calls, Shape, Phases, WritesOf, Fields
    <2> QED BY <1>8, <2>3, CallTyping DEF StageAccepted, TypeOK
  <1>9. ASSUME NEW t \in Threads, NEW f \in Fields, StageRefused(t, f) PROVE Typing'
    BY <1>9, ResultTypes, FinishTyping DEF StageRefused, Fail, TypeOK, Errors
  <1>10. ASSUME NEW t \in Threads, NEW f \in Fields, WriteField(t, f) PROVE Typing'
    <2> DEFINE c == [call[t] EXCEPT !.todo = call[t].todo \ {f}]
    <2>1. /\ call[t] \in Calls /\ call[t].slot \in Slots /\ call[t].phase = "write"
          /\ call[t].op \in StageOps \cup {"parse"}
          /\ call[t].todo \subseteq WritesOf(call[t].op)
          /\ call[t].todo \ {f} # {}
      BY <1>10, ActiveCall DEF WriteField, Idle
    <2>2. c \in Calls /\ Shape(c)
      BY <2>1 DEF Calls, Shape
    <2>3. Stored(call[t], f) \in Contexts
      BY <2>1, StoredTyping
    <2>4. call' = [call EXCEPT ![t] = c]
      BY <1>10 DEF WriteField
    <2> HIDE DEF c
    <2>5. call' \in [Threads -> Calls] /\ CallShape'
      BY <2>2, <2>4, CallTyping
    <2> QED BY <1>10, <2>3, <2>5 DEF WriteField, TypeOK, Contexts
  <1>11. ASSUME NEW t \in Threads, NEW f \in Fields, WriteLast(t, f) PROVE Typing'
    <2>1. Stored(call[t], f) \in Contexts
      BY <1>11, StoredTyping DEF WriteLast
    <2>2. Credited(call[t]) \subseteq StageOps
      BY DEF Credited
    <2> QED BY <1>11, <2>1, <2>2, ResultTypes, FinishTyping DEF WriteLast, TypeOK, Contexts
  <1>12. ASSUME NEW t \in Threads, NEW h \in Handles,
                NEW op \in StageOps \cup {"get_safety_level"}, Lookup(t, op, h)
         PROVE  Typing'
    <2> DEFINE c == CallOf(op, h, "read", ReadsOf(op), "slipstream")
    <2>1. h \in Slots
      BY <1>12 DEF Lookup, Live
    <2>2. ReadsOf(op) # {} /\ ReadsOf(op) \subseteq Fields
      BY DEF ReadsOf, Fields, StageOps
    <2>3. c \in Calls /\ Shape(c)
      BY <2>1, <2>2 DEF CallOf, NoCall, Calls, Shape, Phases, Modes, Stages
    <2> HIDE DEF c
    <2>4. Enter(t, c)
      BY <1>12 DEF Lookup, c
    <2> QED BY <1>12, <2>3, <2>4, EnterTyping DEF Lookup, TypeOK
  <1>13. ASSUME NEW t \in Threads, NEW h \in Handles,
                NEW code \in {"internal_error", "no_level"}, LookupFails(t, code, h)
         PROVE  Typing'
    BY <1>13, ResultTypes, FinishTyping DEF LookupFails, TypeOK
  <1>14. ASSUME NEW t \in Threads, NEW h \in Handles, Destroy(t, h) PROVE Typing'
    <2>1. EmptyContext \in Contexts
      BY DEF EmptyContext, Contexts, Stages, Modes, Levels
    <2>2. ASSUME NEW u \in Threads PROVE call'[u] \in Calls /\ Shape(call'[u])
      <3>1. CASE Idle(u) \/ call[u].slot # h
        BY <1>14, <3>1 DEF Destroy, Orphaned, TypeOK, CallShape
      <3>2. CASE ~Idle(u) /\ call[u].slot = h
        <4>1. call'[u] = [call[u] EXCEPT !.orphan = TRUE]
          BY <1>14, <3>2 DEF Destroy, Orphaned
        <4>2. call[u] \in Calls /\ Shape(call[u]) /\ call[u] # NoCall
          BY <3>2 DEF TypeOK, CallShape, Idle, NoCall
        <4> DEFINE c == [call[u] EXCEPT !.orphan = TRUE]
        <4>3. /\ c \in Calls /\ c.op = call[u].op /\ c.slot = call[u].slot
              /\ c.phase = call[u].phase /\ c.todo = call[u].todo
          BY <4>2 DEF Calls
        <4> HIDE DEF c
        <4>4. Shape(c)
          BY <4>2, <4>3 DEF Shape
        <4> QED BY <4>1, <4>3, <4>4 DEF c
      <3> QED BY <3>1, <3>2
    <2>3. call' \in [Threads -> Calls] /\ CallShape'
      BY <1>14, <2>2 DEF Destroy, Orphaned, CallShape
    <2> QED BY <1>14, <2>1, <2>3, ResultTypes DEF Destroy, Return, TypeOK, Contexts
  <1>15. ASSUME NEW t \in Threads, NEW h \in Handles, DestroyNothing(t, h) PROVE Typing'
    BY <1>15, ResultTypes, FinishTyping DEF DestroyNothing, TypeOK
  <1>16. CASE UNCHANGED vars
    BY <1>16 DEF vars, TypeOK, CallShape
  <1> QED
    BY <1>1, <1>2, <1>3, <1>4, <1>5, <1>6, <1>7, <1>8, <1>9, <1>10, <1>11, <1>12, <1>13,
       <1>14, <1>15, <1>16
    DEF Next, Parse, Continue, Apply, Use, Discard

\* Every field of every slot and every call stays within its type, however the threads
\* interleave and whatever handles they pass.
THEOREM TypeCorrect == Spec => []TypeOK
  <1>1. Typing => TypeOK
    BY DEF Typing
  <1> QED BY <1>1, TypingInit, TypingStep, PTL DEF Spec

LEMMA TypingAlways == Spec => []Typing
  BY TypingInit, TypingStep, PTL DEF Spec

----------------------------------------------------------------------------
(* What holds of the pool whatever handles the threads use. *)

\* Each thread finds the error message of its own last call.
THEOREM LastErrorTheorem == Spec => []LastErrorIsOwn
  <1>1. Init => LastErrorIsOwn
    BY DEF Init, LastErrorIsOwn, Result
  <1>2. Typing /\ LastErrorIsOwn /\ [Next]_vars => LastErrorIsOwn'
    <2> SUFFICES ASSUME Typing, LastErrorIsOwn, [Next]_vars PROVE LastErrorIsOwn'
      OBVIOUS
    <2> USE DEF Typing, TypeOK, LastErrorIsOwn, Idle
    <2>1. ASSUME NEW t \in Threads, NEW r, Finish(t, r),
                 r.error # "none" <=> r.code \in {"internal_error", "no_level"}
          PROVE  LastErrorIsOwn'
      BY <2>1 DEF Finish, Return
    <2>2. ASSUME NEW t \in Threads, NEW c, c.phase # "idle", Enter(t, c)
          PROVE  LastErrorIsOwn'
      BY <2>2 DEF Enter, Return
    <2>3. ASSUME NEW t \in Threads, Parse(t) PROVE LastErrorIsOwn'
      BY <2>3, <2>1, <2>2 DEF Parse, ParseInvalidMode, ParseExhausted, ParseAlloc, Fail, Result,
                              CallOf, NoCall
    <2>4. ASSUME NEW t \in Threads, Continue(t) PROVE LastErrorIsOwn'
      <3>1. CASE ParseConfigure(t)
        BY <3>1 DEF ParseConfigure
      <3>2. CASE ParseLost(t) \/ ReadLevel(t)
        BY <3>2, <2>1 DEF ParseLost, ReadLevel, Ok, Result
      <3>3. ASSUME NEW f \in Fields, ReadField(t, f) \/ StageAccepted(t, f) PROVE LastErrorIsOwn'
        <4>1. CASE ReadField(t, f)
          BY <4>1, ReadTyping DEF ReadField
        <4>2. CASE StageAccepted(t, f)
          <5>1. AfterRead(t, f) \in Calls
            BY <4>2, ReadTyping DEF StageAccepted
          <5>2. call'[t].phase = "write" /\ \A u \in Threads \ {t} : call'[u] = call[u]
            BY <4>2, <5>1 DEF StageAccepted, Calls
          <5> QED BY <4>2, <5>2 DEF StageAccepted
        <4> QED BY <3>3, <4>1, <4>2
      <3>4. ASSUME NEW f \in Fields, StageRefused(t, f) \/ WriteLast(t, f) PROVE LastErrorIsOwn'
        BY <3>4, <2>1 DEF StageRefused, WriteLast, Fail, Ok, Result
      <3>5. ASSUME NEW f \in Fields, WriteField(t, f) PROVE LastErrorIsOwn'
        BY <3>5 DEF WriteField, Calls
      <3> QED BY <2>4, <3>1, <3>2, <3>3, <3>4, <3>5 DEF Continue
    <2>5. ASSUME NEW t \in Threads, NEW h \in Handles, Apply(t, h) PROVE LastErrorIsOwn'
      <3>1. ASSUME NEW op \in StageOps \cup {"get_safety_level"}, Lookup(t, op, h)
            PROVE  LastErrorIsOwn'
        BY <3>1, <2>2 DEF Lookup, CallOf, NoCall
      <3>2. ASSUME NEW code \in {"internal_error", "no_level"}, LookupFails(t, code, h)
            PROVE  LastErrorIsOwn'
        BY <3>2, <2>1 DEF LookupFails, Result
      <3>3. CASE Destroy(t, h)
        <4>1. \A u \in Threads : Idle(u)' <=> Idle(u)
          BY <3>3 DEF Destroy, Orphaned, Calls
        <4> QED BY <3>3, <4>1 DEF Destroy, Return, Ok, Result
      <3>4. CASE DestroyNothing(t, h)
        BY <3>4, <2>1 DEF DestroyNothing, Ok, Result
      <3> QED BY <2>5, <3>1, <3>2, <3>3, <3>4 DEF Apply, Use, Discard
    <2>6. CASE UNCHANGED vars
      BY <2>6 DEF vars
    <2> QED BY <2>3, <2>4, <2>5, <2>6 DEF Next
  <1> QED BY <1>1, <1>2, TypingAlways, PTL DEF Spec

\* What a call under way does to the pool never touches the active flags.
LEMMA ContinueKeepsActive ==
  ASSUME Typing, NEW t \in Threads, Continue(t)
  PROVE  /\ \A h \in Slots : pool'[h].active = pool[h].active
         /\ call' \in [Threads -> Calls]
         /\ \A u \in Threads \ {t} : call'[u] = call[u]
         /\ call'[t] # NoCall => /\ call'[t].op = call[t].op /\ call'[t].slot = call[t].slot
                                /\ call'[t].orphan = call[t].orphan
  <1> USE DEF Typing
  <1>1. pool \in [Slots -> Contexts] /\ call \in [Threads -> Calls] /\ call[t] \in Calls
    BY DEF TypeOK, Contexts
  <1>2. CASE ParseConfigure(t)
    BY <1>1, <1>2 DEF ParseConfigure, Calls, Phases, WritesOf, Fields
  <1>3. CASE ParseLost(t) \/ ReadLevel(t)
    BY <1>1, <1>3, NoCallTyping DEF ParseLost, ReadLevel, Finish
  <1>4. ASSUME NEW f \in Fields, ReadField(t, f)
        PROVE  /\ \A h \in Slots : pool'[h].active = pool[h].active
               /\ call' = [call EXCEPT ![t] = AfterRead(t, f)]
               /\ AfterRead(t, f) \in Calls /\ AfterRead(t, f).op = call[t].op
               /\ AfterRead(t, f).slot = call[t].slot /\ AfterRead(t, f).orphan = call[t].orphan
    BY <1>4, ReadTyping DEF ReadField
  <1>5. ASSUME NEW f \in Fields, StageAccepted(t, f)
        PROVE  /\ \A h \in Slots : pool'[h].active = pool[h].active
               /\ \E c \in Calls : /\ call' = [call EXCEPT ![t] = c] /\ c.op = call[t].op
                                   /\ c.slot = call[t].slot /\ c.orphan = call[t].orphan
    <2> PICK a, c : a = AfterRead(t, f) /\ c = [a EXCEPT !.phase = "write", !.todo = WritesOf(call[t].op)]
      OBVIOUS
    <2>1. /\ a \in Calls /\ a.op = call[t].op /\ a.slot = call[t].slot /\ a.orphan = call[t].orphan
      BY <1>5, ReadTyping DEF StageAccepted
    <2>2. /\ c \in Calls /\ c.op = call[t].op /\ c.slot = call[t].slot /\ c.orphan = call[t].orphan
      BY <2>1 DEF Calls, Phases, WritesOf, Fields
    <2> QED BY <1>5, <2>2 DEF StageAccepted
  <1>6. ASSUME NEW f \in Fields, StageRefused(t, f)
        PROVE  pool' = pool /\ call' = [call EXCEPT ![t] = NoCall]
    BY <1>6 DEF StageRefused, Fail, Finish
  <1>7. ASSUME NEW f \in Fields, call[t].phase = "write"
        PROVE  Stored(call[t], f).active = pool[call[t].slot].active /\ call[t].slot \in Slots
    BY <1>1, <1>7, ActiveCall DEF Stored, Contexts, Idle
  <1>8. ASSUME NEW f \in Fields, WriteField(t, f)
        PROVE  /\ \A h \in Slots : pool'[h].active = pool[h].active
               /\ \E c \in Calls : /\ call' = [call EXCEPT ![t] = c] /\ c.op = call[t].op
                                   /\ c.slot = call[t].slot /\ c.orphan = call[t].orphan
    <2> PICK c : c = [call[t] EXCEPT !.todo = @ \ {f}]
      OBVIOUS
    <2>1. /\ c \in Calls /\ c.op = call[t].op /\ c.slot = call[t].slot /\ c.orphan = call[t].orphan
      BY <1>1 DEF Calls
    <2> QED BY <1>1, <1>7, <1>8, <2>1 DEF WriteField
  <1>9. ASSUME NEW f \in Fields, WriteLast(t, f)
        PROVE  /\ \A h \in Slots : pool'[h].active = pool[h].active
               /\ call' = [call EXCEPT ![t] = NoCall]
    BY <1>1, <1>7, <1>9 DEF WriteLast, Finish
  <1> QED
    BY <1>1, <1>2, <1>3, <1>4, <1>5, <1>6, <1>8, <1>9, NoCallTyping DEF Continue

\* The active flag of a slot is set by allocSlot and cleared by freeSlot, and a store
\* through a stale pointer does neither.
THEOREM ActiveTheorem == Spec => ActiveOnlyUnderLock
  <1>1. Typing /\ [Next]_vars => [SlotChangesHands]_vars
    <2> SUFFICES ASSUME Typing, Next, NEW h \in Slots, pool'[h].active # pool[h].active
                 PROVE  /\ ~pool[h].active /\ pool'[h].active =>
                            \E t \in Threads : Idle(t) /\ call'[t].op = "parse" /\ call'[t].slot = h
                        /\ pool[h].active /\ ~pool'[h].active =>
                            \E t \in Threads : Idle(t) /\ Idle(t)' /\ ret'[t].code = "ok"
      BY DEF SlotChangesHands
    <2> USE DEF Typing, TypeOK
    <2>1. ASSUME NEW t \in Threads, Parse(t)
          PROVE  /\ ~pool[h].active /\ Idle(t) /\ call'[t].op = "parse" /\ call'[t].slot = h
      <3>1. ~ParseInvalidMode(t) /\ ~ParseExhausted(t)
        BY DEF ParseInvalidMode, ParseExhausted
      <3>2. PICK mode \in Requested : ParseAlloc(t, mode)
        BY <2>1, <3>1 DEF Parse
      <3> QED BY <3>2 DEF ParseAlloc, FirstFree, Enter, CallOf, NoCall
    <2>2. ASSUME NEW t \in Threads, Continue(t) PROVE FALSE
      BY <2>2, ContinueKeepsActive
    <2>3. ASSUME NEW t \in Threads, NEW g \in Handles, Apply(t, g)
          PROVE  Idle(t) /\ Idle(t)' /\ ret'[t].code = "ok" /\ ~pool'[h].active
      <3>1. Destroy(t, g)
        BY <2>3 DEF Apply, Use, Discard, Lookup, LookupFails, DestroyNothing
      <3> QED BY <3>1 DEF Destroy, Orphaned, Return, Ok, Result, Idle, EmptyContext
    <2> QED BY <2>1, <2>2, <2>3 DEF Next, Contexts
  <1> QED BY <1>1, TypingAlways, PTL DEF Spec, ActiveOnlyUnderLock

----------------------------------------------------------------------------
(* The steps of a call. *)

\* How many fields a call has to access.
LEMMA FieldSets ==
  /\ \A S \in SUBSET Fields : IsFiniteSet(S) /\ Cardinality(S) \in Nat
  /\ \A f : Cardinality({f}) = 1
  /\ \A op \in StageOps : Cardinality(WritesOf(op)) = 2
  /\ Cardinality(WritesOf("parse")) = 3
  /\ \A op \in StageOps \cup {"get_safety_level"} :
       \A S \in SUBSET ReadsOf(op) : Cardinality(S) <= 2
  /\ \A S \in SUBSET ReadsOf("get_safety_level") : Cardinality(S) <= 1
  <1>1. \A f : IsFiniteSet({f}) /\ Cardinality({f}) = 1
    BY FS_Singleton
  <1>2. \A f, g : f # g => IsFiniteSet({f, g}) /\ Cardinality({f, g}) = 2
    <2> TAKE f, g
    <2> HAVE f # g
    <2>1. {f, g} = {f} \cup {g} /\ g \notin {f}
      OBVIOUS
    <2>2. /\ IsFiniteSet({f} \cup {g})
          /\ Cardinality({f} \cup {g}) = IF g \in {f} THEN Cardinality({f}) ELSE Cardinality({f}) + 1
      BY <1>1, FS_AddElement
    <2>3. Cardinality({f} \cup {g}) = 1 + 1
      BY <1>1, <2>1, <2>2
    <2> QED BY <2>1, <2>2, <2>3
  <1>3. IsFiniteSet(Fields) /\ Cardinality(Fields) = 3
    <2>1. Fields = {"stage", "mode"} \cup {"level"} /\ "level" \notin {"stage", "mode"}
      BY DEF Fields
    <2>2. IsFiniteSet({"stage", "mode"}) /\ Cardinality({"stage", "mode"}) = 2
      BY <1>2
    <2>3. /\ IsFiniteSet({"stage", "mode"} \cup {"level"})
          /\ Cardinality({"stage", "mode"} \cup {"level"}) = Cardinality({"stage", "mode"}) + 1
      BY <2>1, <2>2, FS_AddElement
    <2> QED BY <2>1, <2>2, <2>3
  <1>4. \A S \in SUBSET Fields : IsFiniteSet(S) /\ Cardinality(S) \in Nat
    BY <1>3, FS_Subset, FS_CardinalityType
  <1>5. Cardinality(WritesOf("parse")) = 3
    BY <1>3 DEF WritesOf, Fields
  <1>6. ASSUME NEW op \in StageOps PROVE Cardinality(WritesOf(op)) = 2
    <2>1. WritesOf(op) = {"stage", "level"} /\ "stage" # "level"
      BY DEF WritesOf, StageOps
    <2> QED BY <1>2, <2>1
  <1>7. ASSUME NEW op \in StageOps \cup {"get_safety_level"}, NEW S \in SUBSET ReadsOf(op)
        PROVE  Cardinality(S) <= 2 /\ (op = "get_safety_level" => Cardinality(S) <= 1)
    <2>1. CASE op = "compile"
      <3>1. ReadsOf(op) = {"stage", "mode"}
        BY <2>1 DEF ReadsOf
      <3>2. IsFiniteSet({"stage", "mode"}) /\ Cardinality({"stage", "mode"}) = 2
        BY <1>2
      <3>3. Cardinality(S) <= Cardinality({"stage", "mode"})
        BY <3>1, <3>2, FS_Subset
      <3> QED BY <2>1, <3>2, <3>3
    <2>2. CASE op # "compile"
      <3>1. PICK f : ReadsOf(op) = {f}
        BY <2>2 DEF ReadsOf, StageOps
      <3>2. IsFiniteSet({f}) /\ Cardinality({f}) = 1
        BY <1>1
      <3>3. S \in SUBSET {f}
        BY <3>1
      <3>4. Cardinality(S) <= Cardinality({f}) /\ IsFiniteSet(S)
        BY <3>2, <3>3, FS_Subset
      <3>5. Cardinality(S) \in Nat
        BY <3>4, FS_CardinalityType
      <3> QED BY <3>2, <3>4, <3>5
    <2> QED BY <2>1, <2>2
  <1> QED BY <1>1, <1>4, <1>5, <1>6, <1>7

\* One field less to access is one step less.
LEMMA OneFieldLess ==
  ASSUME NEW S \in SUBSET Fields, NEW f \in S
  PROVE  Cardinality(S) \in Nat /\ Cardinality(S) > 0 /\ Cardinality(S \ {f}) = Cardinality(S) - 1
  <1>1. IsFiniteSet(S) /\ Cardinality(S) \in Nat /\ S # {}
    BY FieldSets
  <1>2. Cardinality(S) # 0
    BY <1>1, FS_EmptySet
  <1>3. Cardinality(S \ {f}) = Cardinality(S) - 1
    BY <1>1, FS_RemoveElement
  <1> QED BY <1>1, <1>2, <1>3

LEMMA StepsOfCall ==
  ASSUME NEW c \in Calls, Shape(c)
  PROVE  StepsLeft(c) \in 0 .. 4 /\ (c.phase # "idle" => StepsLeft(c) > 0)
  <1>1. c.todo \in SUBSET Fields
    BY DEF Calls
  <1>2. Cardinality(c.todo) \in Nat /\ (c.todo # {} => Cardinality(c.todo) > 0)
    BY <1>1, FieldSets, OneFieldLess
  <1>3. CASE c = NoCall
    BY <1>3 DEF NoCall, StepsLeft
  <1>4. CASE c.phase = "alloc" /\ c.op = "parse"
    BY <1>4, FieldSets DEF StepsLeft
  <1>5. CASE /\ c.phase = "read" /\ c.op \in StageOps \cup {"get_safety_level"}
             /\ c.todo # {} /\ c.todo \subseteq ReadsOf(c.op)
    <2>1. Cardinality(c.todo) <= 2
      BY <1>5, FieldSets
    <2>2. c.op \in StageOps => Cardinality(WritesOf(c.op)) = 2
      BY FieldSets
    <2> QED BY <1>2, <1>5, <2>1, <2>2 DEF StepsLeft
  <1>6. CASE /\ c.phase = "write" /\ c.op \in StageOps \cup {"parse"}
             /\ c.todo # {} /\ c.todo \subseteq WritesOf(c.op)
    <2>1. IsFiniteSet(Fields) /\ Fields = WritesOf("parse")
      BY FieldSets DEF WritesOf, Fields
    <2>2. Cardinality(c.todo) <= 3
      BY <1>1, <2>1, FieldSets, FS_Subset
    <2> QED BY <1>2, <1>6, <2>2 DEF StepsLeft
  <1> QED BY <1>3, <1>4, <1>5, <1>6 DEF Shape

\* A call that ends has no step left.
LEMMA NearerByFinish ==
  ASSUME Typing, NEW t \in Threads, ~Idle(t), call' = [call EXCEPT ![t] = NoCall]
  PROVE  StepsLeft(call'[t]) < StepsLeft(call[t])
  <1>1. call[t] \in Calls /\ Shape(call[t]) /\ call'[t] = NoCall
    BY DEF Typing, TypeOK, CallShape
  <1>2. StepsLeft(NoCall) = 0
    BY DEF StepsLeft, NoCall
  <1>3. StepsLeft(call[t]) \in 0 .. 4 /\ StepsLeft(call[t]) > 0
    BY <1>1, StepsOfCall DEF Idle
  <1> QED BY <1>1, <1>2, <1>3

\* A call that accesses a field and goes on has one step less.
LEMMA NearerByField ==
  ASSUME NEW c \in Calls, NEW d \in Calls, c.phase \in {"read", "write"}, NEW f \in c.todo,
         d.phase = c.phase, d.op = c.op, d.todo = c.todo \ {f}
  PROVE  StepsLeft(d) < StepsLeft(c)
  <1>1. c.todo \in SUBSET Fields
    BY DEF Calls
  <1>2. /\ Cardinality(c.todo) \in Nat /\ Cardinality(c.todo) > 0
        /\ Cardinality(d.todo) = Cardinality(c.todo) - 1
    BY <1>1, OneFieldLess
  <1>3. c.op \in StageOps => Cardinality(WritesOf(c.op)) = 2
    BY FieldSets
  <1> QED BY <1>2, <1>3 DEF StepsLeft

\* Each step of a call brings it nearer to its return.
LEMMA ContinueNearer ==
  ASSUME Typing, NEW t \in Threads, Continue(t)
  PROVE  StepsLeft(call'[t]) < StepsLeft(call[t])
  <1>1. call \in [Threads -> Calls] /\ call[t] \in Calls
    BY DEF Typing, TypeOK
  <1>2. CASE ParseConfigure(t)
    <2>1. call[t].phase = "alloc" /\ ~Idle(t)
      BY <1>2 DEF ParseConfigure, Idle
    <2>2. call[t].op = "parse"
      BY <2>1, ActiveCall
    <2>3. PICK d : d = call'[t] /\ d.phase = "write" /\ d.todo = WritesOf("parse")
      <3>1. PICK d : d = [call[t] EXCEPT !.phase = "write", !.todo = WritesOf("parse")]
        OBVIOUS
      <3>2. call'[t] = d
        BY <1>1, <1>2, <3>1 DEF ParseConfigure
      <3>3. d.phase = "write" /\ d.todo = WritesOf("parse")
        BY <1>1, <3>1 DEF Calls
      <3> QED BY <3>2, <3>3
    <2>4. Cardinality(WritesOf("parse")) = 3
      BY FieldSets
    <2>5. StepsLeft(d) = 3
      BY <2>3, <2>4 DEF StepsLeft
    <2>6. StepsLeft(call[t]) = 4
      BY <2>1, <2>2, <2>4 DEF StepsLeft
    <2> QED BY <2>3, <2>5, <2>6
  <1>3. CASE ParseLost(t) \/ ReadLevel(t)
    <2>1. ~Idle(t) /\ call' = [call EXCEPT ![t] = NoCall]
      BY <1>3 DEF ParseLost, ReadLevel, Finish, Idle
    <2> QED BY <2>1, NearerByFinish
  <1>4. ASSUME NEW f \in Fields, ReadField(t, f)
        PROVE  StepsLeft(call'[t]) < StepsLeft(call[t])
    <2>1. call[t].phase = "read" /\ f \in call[t].todo /\ call' = [call EXCEPT ![t] = AfterRead(t, f)]
      BY <1>4 DEF ReadField
    <2>2. PICK d \in Calls : /\ d = AfterRead(t, f) /\ d.phase = "read" /\ d.op = call[t].op
                             /\ d.todo = call[t].todo \ {f}
      BY <2>1, ReadTyping
    <2>3. StepsLeft(d) < StepsLeft(call[t])
      BY <1>1, <2>1, <2>2, NearerByField
    <2> QED BY <1>1, <2>1, <2>2, <2>3
  <1>5. ASSUME NEW f \in Fields, StageAccepted(t, f)
        PROVE  StepsLeft(call'[t]) < StepsLeft(call[t])
    <2>1. call[t].phase = "read" /\ call[t].todo = {f} /\ call[t].op \in StageOps
      BY <1>5 DEF StageAccepted
    <2>2. PICK a \in Calls : a = AfterRead(t, f)
      BY <2>1, ReadTyping
    <2>3. PICK d : d = [a EXCEPT !.phase = "write", !.todo = WritesOf(call[t].op)]
      OBVIOUS
    <2>4. call'[t] = d
      BY <1>1, <1>5, <2>2, <2>3 DEF StageAccepted
    <2>5. d.phase = "write" /\ d.todo = WritesOf(call[t].op)
      BY <2>2, <2>3 DEF Calls
    <2>6. Cardinality(WritesOf(call[t].op)) = 2 /\ Cardinality(call[t].todo) = 1
      BY <2>1, FieldSets
    <2>7. StepsLeft(d) = 2
      BY <2>5, <2>6 DEF StepsLeft
    <2>8. StepsLeft(call[t]) = 3
      BY <2>1, <2>6 DEF StepsLeft
    <2> QED BY <2>4, <2>7, <2>8
  <1>6. ASSUME NEW f \in Fields, StageRefused(t, f)
        PROVE  StepsLeft(call'[t]) < StepsLeft(call[t])
    <2>1. ~Idle(t) /\ call' = [call EXCEPT ![t] = NoCall]
      BY <1>6 DEF StageRefused, Fail, Finish, Idle
    <2> QED BY <2>1, NearerByFinish
  <1>7. ASSUME NEW f \in Fields, WriteField(t, f)
        PROVE  StepsLeft(call'[t]) < StepsLeft(call[t])
    <2>1. PICK d : d = [call[t] EXCEPT !.todo = @ \ {f}]
      OBVIOUS
    <2>2. call[t].phase = "write" /\ f \in call[t].todo /\ call'[t] = d
      BY <1>1, <1>7, <2>1 DEF WriteField
    <2>3. /\ d \in Calls /\ d.phase = "write" /\ d.op = call[t].op
          /\ d.todo = call[t].todo \ {f}
      BY <1>1, <2>1, <2>2 DEF Calls
    <2>4. StepsLeft(d) < StepsLeft(call[t])
      BY <1>1, <2>2, <2>3, NearerByField
    <2> QED BY <2>2, <2>4
  <1>8. ASSUME NEW f \in Fields, WriteLast(t, f)
        PROVE  StepsLeft(call'[t]) < StepsLeft(call[t])
    <2>1. ~Idle(t) /\ call' = [call EXCEPT ![t] = NoCall]
      BY <1>8 DEF WriteLast, Finish, Idle
    <2> QED BY <2>1, NearerByFinish
  <1> QED BY <1>2, <1>3, <1>4, <1>5, <1>6, <1>7, <1>8 DEF Continue

\* What another thread does to a call that is under way: it may become an orphan, no more.
LEMMA OthersLeaveCall ==
  ASSUME Typing, NEW t \in Threads, ~Idle(t), NEW u \in Threads, u # t,
         Parse(u) \/ Continue(u) \/ \E h \in Handles : Apply(u, h)
  PROVE  StepsLeft(call'[t]) = StepsLeft(call[t])
  <1>1. call \in [Threads -> Calls] /\ call[t] \in Calls
    BY DEF Typing, TypeOK
  <1>2. CASE Parse(u)
    BY <1>1, <1>2 DEF Parse, ParseInvalidMode, ParseAlloc, ParseExhausted, Fail, Finish, Enter
  <1>3. CASE Continue(u)
    BY <1>3, ContinueKeepsActive
  <1>4. ASSUME NEW h \in Handles, Apply(u, h) PROVE StepsLeft(call'[t]) = StepsLeft(call[t])
    <2>1. CASE Use(u, h)
      BY <1>1, <2>1 DEF Use, Lookup, LookupFails, Finish, Enter
    <2>2. CASE Destroy(u, h)
      <3>1. PICK d : d = [call[t] EXCEPT !.orphan = TRUE]
        OBVIOUS
      <3>2. call'[t] \in {call[t], d}
        BY <2>2, <3>1 DEF Destroy, Orphaned
      <3>3. d.phase = call[t].phase /\ d.op = call[t].op /\ d.todo = call[t].todo
        BY <1>1, <3>1 DEF Calls
      <3>4. StepsLeft(d) = StepsLeft(call[t])
        BY <3>3 DEF StepsLeft
      <3> QED BY <3>2, <3>4
    <2>3. CASE DestroyNothing(u, h)
      BY <1>1, <2>3 DEF DestroyNothing, Finish
    <2> QED BY <1>4, <2>1, <2>2, <2>3 DEF Apply, Discard
  <1> QED BY <1>2, <1>3, <1>4

\* No call waits for another or tries again, for any number of threads and slots and under
\* any host: whatever the other threads do, a call is four of its own steps away from its
\* return at most, and every one of them brings it nearer.  With threads that keep running
\* this is why calls return.
THEOREM CallsAdvanceTheorem == Spec => CallsAdvance
  <1>1. Typing /\ [Next]_vars => [\A t \in Threads : Nearer(t)]_vars
    <2> SUFFICES ASSUME Typing, Next, NEW t \in Threads PROVE Nearer(t)
      OBVIOUS
    <2>1. call[t] \in Calls /\ Shape(call[t])
      BY DEF Typing, TypeOK, CallShape
    <2>2. StepsLeft(call[t]) \in 0 .. 4
      BY <2>1, StepsOfCall
    <2>3. Continue(t) => StepsLeft(call'[t]) < StepsLeft(call[t])
      BY ContinueNearer
    <2>4. ASSUME ~Idle(t) PROVE StepsLeft(call'[t]) <= StepsLeft(call[t])
      <3>1. PICK u \in Threads : Parse(u) \/ Continue(u) \/ \E h \in Handles : Apply(u, h)
        BY DEF Next
      <3>2. CASE u = t
        <4>1. Continue(t)
          BY <2>4, <3>1, <3>2
             DEF Parse, ParseInvalidMode, ParseAlloc, ParseExhausted, Apply, Use, Discard,
                 Lookup, LookupFails, Destroy, DestroyNothing
        <4>2. PICK d : d = call'[t] /\ d \in Calls /\ Shape(d)
          <5>1. Typing'
            BY TypingStep
          <5> QED BY <5>1 DEF Typing, TypeOK, CallShape
        <4>3. StepsLeft(d) \in 0 .. 4
          BY <4>2, StepsOfCall
        <4> QED BY <2>2, <2>3, <4>1, <4>2, <4>3
      <3>3. CASE u # t
        <4>1. StepsLeft(call'[t]) = StepsLeft(call[t])
          BY <2>4, <3>1, <3>3, OthersLeaveCall
        <4> QED BY <2>2, <4>1
      <3> QED BY <3>2, <3>3
    <2> QED BY <2>2, <2>3, <2>4 DEF Nearer
  <1> QED BY <1>1, TypingAlways, PTL DEF Spec, CallsAdvance

----------------------------------------------------------------------------
(* Slots. *)

\* A parse that no destroy has overtaken owns an active slot.
ParsesOwnSlots ==
  \A t \in Threads : call[t].op = "parse" /\ ~call[t].orphan => pool[call[t].slot].active

\* No two vqlut_parse calls are given the same slot.
THEOREM DistinctSlotsTheorem == Spec => []ParsesGetDistinctSlots
  <1> DEFINE Inv == ParsesOwnSlots /\ ParsesGetDistinctSlots
  <1>1. Init => Inv
    BY DEF Init, ParsesOwnSlots, ParsesGetDistinctSlots, NoCall
  <1>2. Typing /\ Inv /\ [Next]_vars => Inv'
    <2> SUFFICES ASSUME Typing, Inv, [Next]_vars PROVE Inv'
      OBVIOUS
    <2>0. /\ pool \in [Slots -> Contexts] /\ call \in [Threads -> Calls]
          /\ \A u \in Threads : call[u].op = "parse" => call[u].slot \in Slots
      BY DEF Typing, TypeOK, Contexts, CallShape, Shape, NoCall
    \* A step that finishes a call and leaves the active flags alone.
    <2>1. ASSUME NEW t \in Threads, NEW r, Finish(t, r), UNCHANGED pool PROVE Inv'
      BY <2>0, <2>1 DEF Finish, NoCall, ParsesOwnSlots, ParsesGetDistinctSlots
    <2>2. ASSUME NEW t \in Threads, Parse(t) PROVE Inv'
      <3>1. ASSUME NEW mode \in Requested, ParseAlloc(t, mode) PROVE Inv'
        <4> PICK h \in Slots : FirstFree(h) /\ pool' = [pool EXCEPT ![h] = FreshContext]
                              /\ Enter(t, CallOf("parse", h, "alloc", {}, mode))
          BY <3>1 DEF ParseAlloc
        <4>1. /\ call'[t].slot = h /\ \A u \in Threads \ {t} : call'[u] = call[u]
          BY <2>0 DEF Enter, CallOf, NoCall
        <4>2. \A u \in Threads : call[u].op = "parse" /\ ~call[u].orphan => call[u].slot # h
          BY DEF FirstFree, ParsesOwnSlots
        <4>3. pool'[h].active /\ \A g \in Slots \ {h} : pool'[g] = pool[g]
          BY <2>0 DEF FreshContext, EmptyContext
        <4> QED BY <2>0, <4>1, <4>2, <4>3 DEF ParsesOwnSlots, ParsesGetDistinctSlots
      <3> QED BY <2>1, <2>2, <3>1 DEF Parse, ParseInvalidMode, ParseExhausted, Fail
    <2>3. ASSUME NEW t \in Threads, Continue(t) PROVE Inv'
      BY <2>0, <2>3, ContinueKeepsActive DEF ParsesOwnSlots, ParsesGetDistinctSlots, NoCall
    <2>4. ASSUME NEW t \in Threads, NEW h \in Handles, Apply(t, h) PROVE Inv'
      <3>1. ASSUME NEW op \in StageOps \cup {"get_safety_level"}, Lookup(t, op, h) PROVE Inv'
        BY <2>0, <3>1 DEF Lookup, Enter, CallOf, NoCall, StageOps, ParsesOwnSlots,
                          ParsesGetDistinctSlots
      <3>2. CASE Destroy(t, h)
        <4>1. \A u \in Threads : /\ call'[u].op = call[u].op /\ call'[u].slot = call[u].slot
                                 /\ ~call'[u].orphan => ~call[u].orphan
          BY <2>0, <3>2 DEF Destroy, Orphaned, Calls
        <4>2. \A u \in Threads : call[u].op = "parse" /\ call[u].slot = h => call'[u].orphan
          <5>1. \A u \in Threads : call[u].op = "parse" => ~Idle(u)
            BY DEF Typing, CallShape, Shape, NoCall, Idle
          <5> QED BY <2>0, <3>2, <5>1 DEF Destroy, Orphaned, Calls
        <4>3. \A g \in Slots \ {h} : pool'[g] = pool[g]
          BY <2>0, <3>2 DEF Destroy
        <4> QED BY <2>0, <4>1, <4>2, <4>3 DEF ParsesOwnSlots, ParsesGetDistinctSlots
      <3> QED BY <2>1, <2>4, <3>1, <3>2 DEF Apply, Use, Discard, LookupFails, DestroyNothing
    <2>5. CASE UNCHANGED vars
      BY <2>5 DEF vars, ParsesOwnSlots, ParsesGetDistinctSlots
    <2> QED BY <2>2, <2>3, <2>4, <2>5 DEF Next
  <1>3. Inv => ParsesGetDistinctSlots
    OBVIOUS
  <1> QED BY <1>1, <1>2, <1>3, TypingAlways, PTL DEF Spec

----------------------------------------------------------------------------
(* What holds when the calls on one handle are serialised.  StageEarned is  *)
(* not inductive: in the middle of a call the slot is not settled, and that *)
(* the call will settle it depends on what it has read and what it has yet  *)
(* to store.  CallsCoherent says so, and PointersStayValid keeps the slot   *)
(* out of every other call's reach meanwhile.                               *)

SerialInv == Typing /\ StageEarned /\ PointersStayValid /\ CallsCoherent

LEMMA SerialImpliesNext == [SerialNext]_vars => [Next]_vars
  BY DEF SerialNext, Next

LEMMA SerialInit == Init => SerialInv
  BY TypingInit
  DEF Init, SerialInv, StageEarned, PointersStayValid, CallsCoherent, Settled, Idle, NoCall,
      EmptyContext

\* Nobody but t is concerned with slot h, and t changes nothing else: then it is enough
\* that t leaves h settled, or in the state that belongs to its own call.
LEMMA OneSlotChanges ==
  ASSUME SerialInv, NEW t \in Threads, NEW h \in Slots,
         Idle(t) \/ call[t].slot = h,
         \A u \in Threads \ {t} : call'[u] = call[u] /\ call[u].slot # h,
         \A g \in Slots \ {h} : pool'[g] = pool[g] /\ done'[g] = done[g],
         \/ call'[t] = NoCall /\ Settled(h)'
         \/ /\ call'[t].phase # "idle" /\ call'[t].slot = h /\ ~call'[t].orphan
            /\ pool'[h].active /\ Underway(call[t])'
  PROVE  StageEarned' /\ PointersStayValid' /\ CallsCoherent'
  <1> USE DEF SerialInv
  <1>1. ASSUME NEW g \in Slots, ~Busy(g)' PROVE Settled(g)'
    <2>1. CASE g = h
      BY <1>1, <2>1 DEF Busy, Idle, Settled
    <2>2. CASE g # h
      <3>1. ~Busy(g)
        BY <1>1, <2>2 DEF Busy, Idle
      <3>2. Settled(g)
        BY <3>1 DEF StageEarned
      <3> QED BY <2>2, <3>2 DEF Settled
    <2> QED BY <2>1, <2>2
  <1>2. ASSUME NEW u \in Threads, u # t, ~Idle(u)'
        PROVE  /\ call[u].slot \in Slots \ {h} /\ call'[u] = call[u] /\ ~Idle(u)
               /\ pool'[call[u].slot] = pool[call[u].slot]
               /\ done'[call[u].slot] = done[call[u].slot]
    BY <1>2 DEF Idle, PointersStayValid
  <1>3. ASSUME NEW u \in Threads, ~Idle(u)' PROVE Underway(call[u])'
    <2>1. CASE u = t
      BY <1>3, <2>1 DEF Idle, NoCall
    <2>2. CASE u # t
      <3>1. PICK c : c = call[u]
        OBVIOUS
      <3>2. PICK g : g = c.slot
        OBVIOUS
      <3>3. Underway(c)
        BY <1>2, <1>3, <2>2, <3>1 DEF CallsCoherent
      <3>4. call'[u] = c /\ pool'[g] = pool[g] /\ done'[g] = done[g]
        BY <1>2, <1>3, <2>2, <3>1, <3>2
      <3>5. Settled(g) => Settled(g)'
        BY <3>4 DEF Settled
      <3>6. Underway(c)'
        BY <3>2, <3>3, <3>4, <3>5 DEF Underway
      <3> QED BY <3>4, <3>6 DEF Underway, Settled
    <2> QED BY <2>1, <2>2
  <1>4. PointersStayValid'
    <2> SUFFICES ASSUME NEW u \in Threads, ~Idle(u)'
                 PROVE  /\ call'[u].slot \in Slots /\ pool'[call'[u].slot].active
                        /\ ~call'[u].orphan
                        /\ \A v \in Threads \ {u} : call'[v].slot # call'[u].slot
      BY DEF PointersStayValid, Slots
    <2>1. CASE u = t
      BY <2>1 DEF Idle, NoCall
    <2>2. CASE u # t
      <3>1. /\ pool[call[u].slot].active /\ ~call[u].orphan
            /\ \A v \in Threads \ {u} : call[v].slot # call[u].slot
        BY <1>2, <2>2 DEF PointersStayValid
      <3>2. call'[t].slot = 0 \/ call'[t].slot = h
        BY DEF NoCall
      <3>3. call[u].slot # 0
        BY <1>2, <2>2 DEF Slots
      <3> QED BY <1>2, <2>2, <3>1, <3>2, <3>3
    <2> QED BY <2>1, <2>2
  <1> QED BY <1>1, <1>3, <1>4 DEF StageEarned, CallsCoherent, Slots

\* A call of t is under way on its slot, which is nobody else's.
LEMMA OwnSlot ==
  ASSUME SerialInv, NEW t \in Threads, ~Idle(t)
  PROVE  /\ call[t].slot \in Slots
         /\ pool[call[t].slot] \in Contexts
         /\ pool[call[t].slot].active
         /\ done[call[t].slot] \in SUBSET StageOps
         /\ ~call[t].orphan
         /\ Underway(call[t])
         /\ \A u \in Threads \ {t} : call[u].slot # call[t].slot
  BY ActiveCall DEF SerialInv, PointersStayValid, CallsCoherent

\* Nothing the invariant speaks of changes.
LEMMA NothingChanges ==
  ASSUME SerialInv, UNCHANGED <<pool, call, done>>
  PROVE  StageEarned' /\ PointersStayValid' /\ CallsCoherent'
  BY DEF SerialInv, StageEarned, PointersStayValid, CallsCoherent, Settled, Underway, Busy, Idle

\* A call that returns at once, having touched no slot.
LEMMA ReturnsAtOnce ==
  ASSUME SerialInv, NEW t \in Threads, Idle(t), NEW r, Finish(t, r), UNCHANGED <<pool, done>>
  PROVE  StageEarned' /\ PointersStayValid' /\ CallsCoherent'
  <1>1. call[t] = NoCall /\ call \in [Threads -> Calls]
    BY DEF SerialInv, Typing, TypeOK, CallShape, Shape, Idle
  <1>2. call' = call
    BY <1>1 DEF Finish
  <1> QED BY <1>2, NothingChanges

\* A stage function at its last read finds the stage of its slot, and the mode if it
\* asked for it.
LEMMA ReadCoherent ==
  ASSUME SerialInv, NEW t \in Threads, NEW f \in Fields, call[t].phase = "read",
         call[t].op \in StageOps
  PROVE  LET c == AfterRead(t, f)  ctx == pool[call[t].slot] IN
         /\ Settled(call[t].slot)
         /\ "stage" \notin c.todo => c.stage = ctx.stage
         /\ c.op = "compile" /\ "mode" \notin c.todo => c.mode = ctx.mode
  <1>1. Underway(call[t])
    BY OwnSlot DEF Idle
  <1>2. Typing
    BY DEF SerialInv
  <1> QED BY <1>1, <1>2, ReadTyping DEF Underway

\* A call's last store settles its slot.
LEMMA LastStoreSettles ==
  ASSUME SerialInv, NEW t \in Threads, NEW f \in Fields, WriteLast(t, f),
         NEW h, h = call[t].slot
  PROVE  Settled(h)' /\ pool'[h].active
  <1> DEFINE c == call[t]  ctx == pool[h]
  <1>1. /\ h \in Slots /\ ctx \in Contexts /\ ctx.active /\ done[h] \in SUBSET StageOps
        /\ ~c.orphan /\ Underway(c) /\ c \in Calls /\ pool \in [Slots -> Contexts]
        /\ done \in [Slots -> SUBSET StageOps]
    BY OwnSlot DEF WriteLast, Idle, SerialInv, Typing, TypeOK, Contexts
  <1>2. /\ c.todo = {f} /\ pool'[h] = Stored(c, f)
        /\ done'[h] = done[h] \cup Credited(c)
    BY <1>1 DEF WriteLast
  <1>3. CASE c.op = "parse"
    <2>1. /\ done[h] = {} /\ ctx.stage = "parsed" /\ ctx.level = 0
      BY <1>1, <1>3 DEF Underway, StageOps, WriteLast
    <2>2. pool'[h].active /\ pool'[h].stage = "parsed" /\ pool'[h].level = 0
      BY <1>1, <1>2, <1>3, <2>1 DEF Stored, Contexts
    <2>3. done'[h] = {}
      BY <1>2, <1>3, <2>1 DEF Credited, StageOps
    <2>4. OpsBefore("parsed") = {} /\ \A m : LevelAt("parsed", m) = 0
      BY DEF OpsBefore, LevelAt
    <2> QED BY <2>2, <2>3, <2>4 DEF Settled
  <1>4. CASE c.op # "parse"
    <2>1. /\ c.op \in StageOps /\ done[h] = OpsBefore(Expected(c.op))
          /\ ctx.stage = IF "stage" \in c.todo THEN Expected(c.op) ELSE Reached(c.op)
          /\ ctx.level = IF "level" \in c.todo THEN LevelAt(Expected(c.op), ctx.mode)
                                              ELSE LevelReached(c.op, c.mode)
          /\ c.op = "compile" => c.mode = ctx.mode
      BY <1>1, <1>4 DEF Underway, WriteLast
    <2>2. f = "stage" \/ f = "level"
      BY <1>2, <1>4, ActiveCall DEF WriteLast, Idle, WritesOf, SerialInv
    <2>3. /\ pool'[h].active /\ pool'[h].stage = Reached(c.op)
          /\ pool'[h].level = LevelReached(c.op, c.mode) /\ pool'[h].mode = ctx.mode
      BY <1>1, <1>2, <1>4, <2>1, <2>2 DEF Stored, Contexts
    <2>4. LevelReached(c.op, c.mode) = LevelAt(Reached(c.op), ctx.mode)
      BY <2>1 DEF LevelReached, LevelAt, Reached, StageOps
    <2>5. done'[h] = OpsBefore(Expected(c.op)) \cup {c.op}
      <3>1. Credited(c) = {c.op}
        BY <1>1, <2>1 DEF Credited
      <3> QED BY <1>2, <2>1, <3>1
    <2>6. OpsBefore(Expected(c.op)) \cup {c.op} = OpsBefore(Reached(c.op))
      BY <2>1 DEF StageOps, OpsBefore, Expected, Reached
    <2>7. /\ done'[h] = OpsBefore(pool'[h].stage) /\ pool'[h].active
          /\ pool'[h].level = LevelAt(pool'[h].stage, pool'[h].mode)
      BY <2>3, <2>4, <2>5, <2>6
    <2> QED BY <2>7 DEF Settled
  <1> QED BY <1>3, <1>4

\* A store before the last one leaves the slot in the state that belongs to the call.
LEMMA StoreCoherent ==
  ASSUME SerialInv, NEW t \in Threads, NEW f \in Fields, WriteField(t, f)
  PROVE  Underway(call[t])' /\ pool'[call[t].slot].active
  <1> DEFINE c == call[t]  h == call[t].slot  ctx == pool[h]  d == call'[t]
  <1>1. /\ h \in Slots /\ ctx \in Contexts /\ ctx.active /\ Underway(c) /\ c \in Calls
        /\ c.phase = "write" /\ pool \in [Slots -> Contexts] /\ call \in [Threads -> Calls]
    BY OwnSlot DEF WriteField, Idle, SerialInv, Typing, TypeOK, Contexts
  <1>2. /\ f \in c.todo /\ pool'[h] = Stored(c, f) /\ done'[h] = done[h]
        /\ d.op = c.op /\ d.slot = h /\ d.mode = c.mode /\ d.phase = "write"
        /\ d.todo = c.todo \ {f}
    BY <1>1 DEF WriteField, Calls
  <1>3. CASE c.op = "parse"
    <2>1. /\ done[h] = {} /\ ctx.stage = "parsed" /\ ctx.level = 0
          /\ "mode" \notin c.todo => ctx.mode = c.mode
      BY <1>1, <1>3 DEF Underway, StageOps
    <2>2. /\ pool'[h].active /\ pool'[h].stage = "parsed" /\ pool'[h].level = 0
          /\ pool'[h].mode = IF f = "mode" THEN c.mode ELSE ctx.mode
      BY <1>1, <1>2, <1>3, <2>1 DEF Stored, Contexts
    <2> QED BY <1>2, <1>3, <2>1, <2>2 DEF Underway
  <1>4. CASE c.op # "parse"
    <2>1. /\ c.op \in StageOps /\ done[h] = OpsBefore(Expected(c.op))
          /\ ctx.stage = IF "stage" \in c.todo THEN Expected(c.op) ELSE Reached(c.op)
          /\ ctx.level = IF "level" \in c.todo THEN LevelAt(Expected(c.op), ctx.mode)
                                              ELSE LevelReached(c.op, c.mode)
          /\ c.op = "compile" => c.mode = ctx.mode
      BY <1>1, <1>4 DEF Underway
    <2>2. f = "stage" \/ f = "level"
      BY <1>1, <1>2, <1>4, ActiveCall DEF Idle, WritesOf, SerialInv
    <2>3. /\ pool'[h].active /\ pool'[h].mode = ctx.mode
          /\ pool'[h].stage = IF f = "stage" THEN Reached(c.op) ELSE ctx.stage
          /\ pool'[h].level = IF f = "level" THEN LevelReached(c.op, c.mode) ELSE ctx.level
      BY <1>1, <1>2, <1>4, <2>2 DEF Stored, Contexts
    <2>4. /\ pool'[h].stage = IF "stage" \in d.todo THEN Expected(d.op) ELSE Reached(d.op)
          /\ pool'[h].level = IF "level" \in d.todo THEN LevelAt(Expected(d.op), pool'[h].mode)
                                                  ELSE LevelReached(d.op, d.mode)
          /\ d.op = "compile" => d.mode = pool'[h].mode
      BY <1>2, <2>1, <2>2, <2>3
    <2> QED BY <1>2, <2>1, <2>3, <2>4 DEF Underway
  <1> QED BY <1>3, <1>4

LEMMA ParseSerial ==
  ASSUME SerialInv, NEW t \in Threads, Parse(t)
  PROVE  StageEarned' /\ PointersStayValid' /\ CallsCoherent'
  <1>1. CASE ParseInvalidMode(t) \/ ParseExhausted(t)
    BY <1>1, ReturnsAtOnce DEF ParseInvalidMode, ParseExhausted, Fail
  <1>2. ASSUME NEW mode \in Requested, ParseAlloc(t, mode)
        PROVE  StageEarned' /\ PointersStayValid' /\ CallsCoherent'
    <2> PICK h \in Slots :
          /\ FirstFree(h)
          /\ pool' = [pool EXCEPT ![h] = FreshContext]
          /\ done' = [done EXCEPT ![h] = {}]
          /\ Enter(t, CallOf("parse", h, "alloc", {}, mode))
      BY <1>2 DEF ParseAlloc
    <2>1. /\ pool \in [Slots -> Contexts] /\ done \in [Slots -> SUBSET StageOps]
          /\ call \in [Threads -> Calls] /\ \A u \in Threads : Idle(u) => call[u].slot = 0
      BY DEF SerialInv, Typing, TypeOK, Contexts, CallShape, Shape, Idle, NoCall
    <2>2. \A u \in Threads : call[u].slot # h
      BY <2>1 DEF FirstFree, SerialInv, PointersStayValid, Slots
    <2>3. /\ call'[t].phase = "alloc" /\ call'[t].slot = h /\ ~call'[t].orphan
          /\ call'[t].op = "parse"
          /\ \A u \in Threads \ {t} : call'[u] = call[u]
      BY <2>1 DEF Enter, CallOf, NoCall
    <2>4. /\ pool'[h] = FreshContext /\ pool'[h].active /\ done'[h] = {}
          /\ \A g \in Slots \ {h} : pool'[g] = pool[g] /\ done'[g] = done[g]
      BY <2>1 DEF FreshContext, EmptyContext
    <2>5. Underway(call[t])'
      BY <2>3, <2>4 DEF Underway, FreshContext, EmptyContext
    <2>6. Idle(t)
      BY <1>2 DEF ParseAlloc
    <2> QED BY <2>2, <2>3, <2>4, <2>5, <2>6, OneSlotChanges
  <1> QED BY <1>1, <1>2 DEF Parse

LEMMA ContinueSerial ==
  ASSUME SerialInv, NEW t \in Threads, Continue(t)
  PROVE  StageEarned' /\ PointersStayValid' /\ CallsCoherent'
  <1>1. ~Idle(t)
    BY DEF Continue, ParseConfigure, ParseLost, ReadLevel, ReadField, StageAccepted, StageRefused,
           WriteField, WriteLast, Idle
  <1> PICK h : h = call[t].slot
    OBVIOUS
  <1>2. /\ h \in Slots /\ pool[h] \in Contexts /\ pool[h].active /\ ~call[t].orphan
        /\ Underway(call[t])
        /\ \A u \in Threads \ {t} : call[u].slot # h
        /\ call \in [Threads -> Calls] /\ pool \in [Slots -> Contexts]
        /\ done \in [Slots -> SUBSET StageOps]
    BY <1>1, OwnSlot DEF SerialInv, Typing, TypeOK, Contexts
  \* The call returns and leaves its slot as it found it, settled.
  <1>3. ASSUME NEW r, Finish(t, r), Settled(h), UNCHANGED <<pool, done>>
        PROVE  StageEarned' /\ PointersStayValid' /\ CallsCoherent'
    <2>1. Settled(h)'
      BY <1>3 DEF Settled
    <2>2. call'[t] = NoCall /\ \A u \in Threads \ {t} : call'[u] = call[u]
      BY <1>2, <1>3 DEF Finish
    <2> QED BY <1>2, <1>3, <2>1, <2>2, OneSlotChanges
  \* The call goes on and leaves its slot as it found it.
  <1>4. ASSUME NEW c, c.phase # "idle", c.slot = h, ~c.orphan, call' = [call EXCEPT ![t] = c],
               Underway(c)', UNCHANGED <<pool, done>>
        PROVE  StageEarned' /\ PointersStayValid' /\ CallsCoherent'
    <2>1. call'[t] = c /\ \A u \in Threads \ {t} : call'[u] = call[u]
      BY <1>2, <1>4
    <2>2. Underway(call[t])'
      BY <1>4, <2>1
    <2> QED BY <1>2, <1>4, <2>1, <2>2, OneSlotChanges
  <1>5. CASE ParseConfigure(t)
    <2> PICK c : c = [call[t] EXCEPT !.phase = "write", !.todo = WritesOf("parse")]
      OBVIOUS
    <2>1. /\ call[t].op = "parse" /\ pool[h] = FreshContext /\ done[h] = {}
      BY <1>1, <1>2, <1>5, ActiveCall DEF ParseConfigure, Underway, SerialInv
    <2>2. /\ c.phase = "write" /\ c.op = "parse" /\ c.slot = h /\ ~c.orphan
          /\ c.todo = {"mode", "stage", "level"}
      BY <1>2, <2>1 DEF Calls, WritesOf
    <2>3. call' = [call EXCEPT ![t] = c] /\ UNCHANGED <<pool, done>>
      BY <1>5 DEF ParseConfigure
    <2>4. Underway(c)'
      BY <2>1, <2>2, <2>3 DEF Underway, FreshContext, EmptyContext
    <2> QED BY <1>4, <2>2, <2>3, <2>4
  <1>6. CASE ParseLost(t)
    BY <1>2, <1>6 DEF ParseLost
  <1>7. CASE ReadLevel(t)
    <2>1. Settled(h)
      BY <1>2, <1>7 DEF ReadLevel, Underway
    <2> QED BY <1>3, <1>7, <2>1 DEF ReadLevel
  <1>8. ASSUME NEW f \in Fields, ReadField(t, f)
        PROVE  StageEarned' /\ PointersStayValid' /\ CallsCoherent'
    <2> PICK c : c = AfterRead(t, f)
      OBVIOUS
    <2>1. /\ c.slot = h /\ c.phase = "read" /\ c.op = call[t].op /\ ~c.orphan
      BY <1>2, <1>8, ReadTyping DEF ReadField, SerialInv
    <2>2. Underway(c)
      BY <1>8, <2>1, ReadCoherent DEF ReadField, Underway
    <2>3. Underway(c)'
      BY <1>8, <2>2 DEF ReadField, Underway, Settled
    <2> QED BY <1>4, <1>8, <2>1, <2>3 DEF ReadField
  <1>9. ASSUME NEW f \in Fields, StageAccepted(t, f)
        PROVE  StageEarned' /\ PointersStayValid' /\ CallsCoherent'
    <2> PICK a, c : a = AfterRead(t, f) /\ c = [a EXCEPT !.phase = "write", !.todo = WritesOf(call[t].op)]
      OBVIOUS
    <2>1. /\ a \in Calls /\ a.slot = h /\ a.op = call[t].op /\ ~a.orphan /\ a.todo = {}
          /\ a.stage = Expected(call[t].op) /\ call[t].op \in StageOps
      BY <1>2, <1>9, ReadTyping DEF StageAccepted, SerialInv
    <2>2. /\ Settled(h) /\ pool[h].stage = Expected(call[t].op)
          /\ call[t].op = "compile" => a.mode = pool[h].mode
      BY <1>9, <2>1, ReadCoherent DEF StageAccepted
    <2>3. /\ c.phase = "write" /\ c.op = call[t].op /\ c.slot = h /\ ~c.orphan
          /\ c.todo = {"stage", "level"} /\ c.mode = a.mode
      BY <2>1 DEF Calls, WritesOf, StageOps
    <2>4. call' = [call EXCEPT ![t] = c] /\ UNCHANGED <<pool, done>>
      BY <1>9 DEF StageAccepted
    <2>5. /\ done[h] = OpsBefore(Expected(c.op)) /\ pool[h].stage = Expected(c.op)
          /\ pool[h].level = LevelAt(Expected(c.op), pool[h].mode)
          /\ c.op = "compile" => c.mode = pool[h].mode
      BY <1>2, <2>2, <2>3 DEF Settled
    <2>6. Underway(c)'
      BY <2>1, <2>3, <2>4, <2>5 DEF Underway
    <2> QED BY <1>4, <2>3, <2>4, <2>6
  <1>10. ASSUME NEW f \in Fields, StageRefused(t, f)
         PROVE  StageEarned' /\ PointersStayValid' /\ CallsCoherent'
    <2>1. Settled(h)
      BY <1>10, ReadCoherent DEF StageRefused
    <2> QED BY <1>3, <1>10, <2>1 DEF StageRefused, Fail
  <1>11. ASSUME NEW f \in Fields, WriteField(t, f)
         PROVE  StageEarned' /\ PointersStayValid' /\ CallsCoherent'
    <2>1. Underway(call[t])' /\ pool'[h].active
      BY <1>11, StoreCoherent
    <2>2. /\ call'[t].slot = h /\ call'[t].phase = "write" /\ ~call'[t].orphan
          /\ \A u \in Threads \ {t} : call'[u] = call[u]
          /\ \A g \in Slots \ {h} : pool'[g] = pool[g] /\ done'[g] = done[g]
      BY <1>2, <1>11 DEF WriteField, Calls
    <2> QED BY <1>2, <2>1, <2>2, OneSlotChanges
  <1>12. ASSUME NEW f \in Fields, WriteLast(t, f)
         PROVE  StageEarned' /\ PointersStayValid' /\ CallsCoherent'
    <2>1. Settled(h)'
      BY <1>12, LastStoreSettles
    <2>2. /\ call'[t] = NoCall
          /\ \A u \in Threads \ {t} : call'[u] = call[u]
          /\ \A g \in Slots \ {h} : pool'[g] = pool[g] /\ done'[g] = done[g]
      BY <1>2, <1>12 DEF WriteLast, Finish
    <2> QED BY <1>2, <2>1, <2>2, OneSlotChanges
  <1> QED
    BY <1>5, <1>6, <1>7, <1>8, <1>9, <1>10, <1>11, <1>12 DEF Continue

LEMMA ApplySerial ==
  ASSUME SerialInv, NEW t \in Threads, NEW h \in Handles, ~Busy(h), Apply(t, h)
  PROVE  StageEarned' /\ PointersStayValid' /\ CallsCoherent'
  <1>1. /\ call \in [Threads -> Calls] /\ pool \in [Slots -> Contexts]
        /\ done \in [Slots -> SUBSET StageOps]
        /\ \A u \in Threads : Idle(u) => call[u] = NoCall
    BY DEF SerialInv, Typing, TypeOK, Contexts, CallShape, Shape, Idle
  <1>2. h \in Slots => \A u \in Threads : call[u].slot # h
    BY <1>1 DEF Busy, NoCall, Slots
  <1>3. ASSUME NEW op \in StageOps \cup {"get_safety_level"}, Lookup(t, op, h)
        PROVE  StageEarned' /\ PointersStayValid' /\ CallsCoherent'
    <2>1. h \in Slots /\ pool[h].active /\ Idle(t) /\ UNCHANGED <<pool, done>>
      BY <1>3 DEF Lookup, Live
    <2>2. Settled(h)
      BY <2>1 DEF SerialInv, StageEarned
    <2> PICK c : c = CallOf(op, h, "read", ReadsOf(op), "slipstream")
      OBVIOUS
    <2>3. /\ c.phase = "read" /\ c.slot = h /\ c.op = op /\ c.todo = ReadsOf(op) /\ ~c.orphan
      BY DEF CallOf, NoCall
    <2>4. call' = [call EXCEPT ![t] = c]
      BY <1>3 DEF Lookup, Enter
    <2>5. Underway(c)'
      BY <2>1, <2>2, <2>3 DEF Underway, Settled, ReadsOf, StageOps
    <2>6. call'[t] = c /\ \A u \in Threads \ {t} : call'[u] = call[u]
      BY <1>1, <2>4
    <2>7. Underway(call[t])'
      BY <2>5, <2>6
    <2> QED BY <1>2, <2>1, <2>3, <2>6, <2>7, OneSlotChanges
  <1>4. ASSUME NEW code \in {"internal_error", "no_level"}, LookupFails(t, code, h)
        PROVE  StageEarned' /\ PointersStayValid' /\ CallsCoherent'
    BY <1>4, ReturnsAtOnce DEF LookupFails
  <1>5. CASE Destroy(t, h)
    <2>1. h \in Slots /\ Idle(t) /\ pool' = [pool EXCEPT ![h] = EmptyContext]
          /\ done' = [done EXCEPT ![h] = {}]
      BY <1>5 DEF Destroy
    <2>2. call' = call
      BY <1>1, <1>2, <1>5, <2>1 DEF Destroy, Orphaned
    <2>3. Settled(h)'
      BY <1>1, <2>1 DEF Settled, EmptyContext
    <2>4. \A g \in Slots \ {h} : pool'[g] = pool[g] /\ done'[g] = done[g]
      BY <1>1, <2>1
    <2> QED BY <1>1, <1>2, <2>1, <2>2, <2>3, <2>4, OneSlotChanges
  <1>6. CASE DestroyNothing(t, h)
    BY <1>6, ReturnsAtOnce DEF DestroyNothing
  <1> QED BY <1>3, <1>4, <1>5, <1>6 DEF Apply, Use, Discard

LEMMA SerialStep == SerialInv /\ [SerialNext]_vars => SerialInv'
  <1> SUFFICES ASSUME SerialInv, [SerialNext]_vars PROVE SerialInv'
    OBVIOUS
  <1>1. Typing'
    BY SerialImpliesNext, TypingStep DEF SerialInv
  <1>2. StageEarned' /\ PointersStayValid' /\ CallsCoherent'
    <2>1. CASE UNCHANGED vars
      BY <2>1, NothingChanges DEF vars
    <2>2. CASE SerialNext
      BY <2>2, ParseSerial, ContinueSerial, ApplySerial DEF SerialNext
    <2> QED BY <2>1, <2>2
  <1> QED BY <1>1, <1>2 DEF SerialInv

LEMMA SerialAlways == SerialSpec => []SerialInv
  BY SerialInit, SerialStep, PTL DEF SerialSpec

\* With the calls on each handle serialised, a slot no call is working on has reached
\* its stage by successful stage functions on this very query, and its recorded level is
\* the one of that stage and mode: for any number of threads and slots.
THEOREM StageEarnedTheorem == SerialSpec => []StageEarned
  <1>1. SerialInv => StageEarned
    BY DEF SerialInv
  <1> QED BY <1>1, SerialAlways, PTL

\* With the calls on each handle serialised, the pointer getContext returned stays good
\* for as long as the call that holds it runs.
THEOREM PointersTheorem == SerialSpec => []PointersStayValid
  <1>1. SerialInv => PointersStayValid
    BY DEF SerialInv
  <1> QED BY <1>1, SerialAlways, PTL

\* A store lowers the level only when it is vqlut_compile's of a slipstream query.
LEMMA StoreLowers ==
  ASSUME SerialInv, NEW t \in Threads, NEW f \in Fields,
         call[t].phase = "write", f \in call[t].todo,
         Stored(call[t], f).level < pool[call[t].slot].level
  PROVE  /\ call[t].op = "compile" /\ pool[call[t].slot].mode = "slipstream"
         /\ pool[call[t].slot].level = 7 /\ Stored(call[t], f).level = 4
  <1> DEFINE c == call[t]  ctx == pool[call[t].slot]
  <1>1. /\ c.slot \in Slots /\ ctx \in Contexts /\ Underway(c) /\ c \in Calls
    BY OwnSlot DEF Idle, SerialInv, Typing, TypeOK, Contexts
  <1>2. Stored(c, f).level = IF f = "level" THEN IF c.op = "parse" THEN 0 ELSE LevelReached(c.op, c.mode)
                                            ELSE ctx.level
    BY <1>1 DEF Stored, Contexts
  <1>3. ctx.level \in Levels
    BY <1>1 DEF Contexts
  <1>4. f = "level"
    BY <1>2, <1>3 DEF Levels
  <1>5. c.op # "parse"
    <2>1. c.op = "parse" => ctx.level = 0
      BY <1>1 DEF Underway, StageOps
    <2> QED BY <1>2, <1>4, <2>1
  <1>6. /\ c.op \in StageOps
        /\ ctx.level = LevelAt(Expected(c.op), ctx.mode)
        /\ c.op = "compile" => c.mode = ctx.mode
    BY <1>1, <1>4, <1>5 DEF Underway
  <1>7. c.op = "compile"
    BY <1>2, <1>4, <1>5, <1>6 DEF StageOps, LevelAt, Expected, LevelReached
  <1>8. ctx.level = 7 /\ Stored(c, f).level = CompiledLevel(ctx.mode)
    BY <1>2, <1>4, <1>6, <1>7 DEF LevelAt, Expected, LevelReached
  <1>9. ctx.mode \in Modes
    BY <1>1 DEF Contexts
  <1> QED BY <1>7, <1>8, <1>9 DEF CompiledLevel, Modes

\* "Highest safety level achieved so far" is true of the level recorded for a query but in
\* one case: with the calls on each handle serialised, only vqlut_compile of a slipstream
\* query ever takes it down, from the seventh level to the fourth.
THEOREM LevelTheorem == SerialSpec => LevelFallsAtCompile
  <1>1. SerialInv /\ [SerialNext]_vars => [\A h \in Slots : LevelFalls(h)]_vars
    <2> SUFFICES ASSUME SerialInv, SerialNext, NEW h \in Slots,
                        pool[h].active, pool'[h].active, pool'[h].level < pool[h].level
                 PROVE  /\ pool[h].mode = "slipstream"
                        /\ pool[h].level = 7 /\ pool'[h].level = 4
                        /\ \E t \in Threads : call[t].op = "compile" /\ call[t].slot = h
      BY DEF LevelFalls
    <2>1. pool \in [Slots -> Contexts] /\ pool[h].level \in Levels
      BY DEF SerialInv, Typing, TypeOK, Contexts
    <2>2. pool'[h] # pool[h]
      BY <2>1 DEF Levels
    <2>3. ASSUME NEW t \in Threads, Parse(t) PROVE FALSE
      BY <2>1, <2>2, <2>3 DEF Parse, ParseInvalidMode, ParseExhausted, ParseAlloc, FirstFree
    <2>4. ASSUME NEW t \in Threads, NEW g \in Handles, Apply(t, g) PROVE FALSE
      BY <2>1, <2>2, <2>4
         DEF Apply, Use, Discard, Lookup, LookupFails, Destroy, DestroyNothing, EmptyContext
    <2>5. ASSUME NEW t \in Threads, Continue(t)
          PROVE  /\ pool[h].mode = "slipstream"
                 /\ pool[h].level = 7 /\ pool'[h].level = 4
                 /\ call[t].op = "compile" /\ call[t].slot = h
      <3>1. PICK f \in Fields : WriteField(t, f) \/ WriteLast(t, f)
        BY <2>2, <2>5 DEF Continue, ParseConfigure, ParseLost, ReadLevel, ReadField,
                          StageAccepted, StageRefused
      <3>2. /\ call[t].phase = "write" /\ f \in call[t].todo
            /\ pool' = [pool EXCEPT ![call[t].slot] = Stored(call[t], f)]
        BY <3>1 DEF WriteField, WriteLast
      <3>3. call[t].slot = h /\ pool'[h] = Stored(call[t], f)
        BY <2>1, <2>2, <3>2
      <3> QED BY <3>2, <3>3, StoreLowers
    <2> QED BY <2>3, <2>4, <2>5 DEF SerialNext
  <1> QED BY <1>1, SerialAlways, PTL DEF SerialSpec, LevelFallsAtCompile

----------------------------------------------------------------------------
(* The refinement of QueryLifecycle.  A slot is seen through the one call  *)
(* that works on it, if there is any: QueryOf says so of any calls and any *)
(* pool, so that it can be applied before and after a step.                *)

Plain(ctx) ==
  [position |-> IF ctx.active THEN Position(ctx.stage) ELSE 0,
   mode |-> ctx.mode, level |-> ctx.level]

\* What a slot stands for while call c works on it.
SeenBy(c, ctx) ==
  IF c.phase = "write" /\ c.op # "parse" THEN QueryAt(Expected(c.op), ctx.mode)
  ELSE IF c.op = "parse" THEN QueryAt("parsed", c.mode)
  ELSE Plain(ctx)

QueryOf(calls, contexts, h) ==
  LET writing(t) == calls[t].slot = h /\ calls[t].phase = "write" /\ calls[t].op # "parse"
      opening(t) == calls[t].slot = h /\ calls[t].op = "parse"
  IN  IF \E t \in Threads : writing(t)
      THEN QueryAt(Expected(calls[CHOOSE t \in Threads : writing(t)].op), contexts[h].mode)
      ELSE IF \E t \in Threads : opening(t)
      THEN QueryAt("parsed", calls[CHOOSE t \in Threads : opening(t)].mode)
      ELSE Plain(contexts[h])

Queries == [h \in Slots |-> AbstractQuery(h)]
Outcomes == [t \in Threads |-> AbstractOutcome(t)]

LEMMA AbstractQueryOf ==
  ASSUME NEW h
  PROVE  AbstractQuery(h) = QueryOf(call, pool, h) /\ AbstractQuery(h)' = QueryOf(call', pool', h)
  BY DEF AbstractQuery, QueryOf, Writing, Opening, Plain

\* Of all calls, the one of thread t alone works on slot h.
Owner(calls, t, h) == calls[t].slot = h /\ \A u \in Threads \ {t} : calls[u].slot # h

LEMMA OwnedSlot ==
  ASSUME NEW calls, NEW contexts, NEW h, NEW t \in Threads, Owner(calls, t, h)
  PROVE  QueryOf(calls, contexts, h) = SeenBy(calls[t], contexts[h])
  <1> DEFINE writing(u) == calls[u].slot = h /\ calls[u].phase = "write" /\ calls[u].op # "parse"
             opening(u) == calls[u].slot = h /\ calls[u].op = "parse"
  <1>1. \A u \in Threads : writing(u) \/ opening(u) => u = t
    BY DEF Owner
  <1>2. CASE writing(t)
    <2>1. (CHOOSE u \in Threads : writing(u)) = t
      BY <1>1, <1>2
    <2> QED BY <1>2, <2>1 DEF QueryOf, SeenBy
  <1>3. CASE opening(t)
    <2>1. (CHOOSE u \in Threads : opening(u)) = t
      BY <1>1, <1>3
    <2>2. ~\E u \in Threads : writing(u)
      BY <1>1, <1>3
    <2> QED BY <1>3, <2>1, <2>2 DEF QueryOf, SeenBy
  <1>4. CASE ~writing(t) /\ ~opening(t)
    <2>1. ~\E u \in Threads : writing(u) \/ opening(u)
      BY <1>1, <1>4
    <2> QED BY <1>4, <2>1 DEF QueryOf, SeenBy, Owner
  <1> QED BY <1>2, <1>3, <1>4

LEMMA UnownedSlot ==
  ASSUME NEW calls, NEW contexts, NEW h, \A u \in Threads : calls[u].slot # h
  PROVE  QueryOf(calls, contexts, h) = Plain(contexts[h])
  BY DEF QueryOf

\* A slot that neither the step's thread nor its stores touch stands for what it did.
LEMMA OtherSlotStays ==
  ASSUME SerialInv, NEW t \in Threads, NEW g \in Slots,
         \A u \in Threads \ {t} : call'[u] = call[u],
         call[t].slot # g, call'[t].slot # g, pool'[g] = pool[g]
  PROVE  AbstractQuery(g)' = AbstractQuery(g)
  <1>1. CASE \E u \in Threads : call[u].slot = g
    <2>1. PICK u \in Threads : call[u].slot = g
      BY <1>1
    <2>2. u # t /\ ~Idle(u)
      BY <2>1 DEF SerialInv, Typing, CallShape, Shape, NoCall, Idle, Slots
    <2>3. Owner(call, u, g)
      BY <2>1, <2>2 DEF SerialInv, PointersStayValid, Owner
    <2>4. call'[u] = call[u] /\ Owner(call', u, g)
      BY <2>1, <2>2, <2>3 DEF Owner
    <2>5. QueryOf(call, pool, g) = SeenBy(call[u], pool[g])
      BY <2>3, OwnedSlot
    <2>6. QueryOf(call', pool', g) = SeenBy(call'[u], pool'[g])
      BY <2>4, OwnedSlot
    <2> QED BY <2>4, <2>5, <2>6, AbstractQueryOf
  <1>2. CASE \A u \in Threads : call[u].slot # g
    <2>1. \A u \in Threads : call'[u].slot # g
      BY <1>2
    <2> QED BY <1>2, <2>1, UnownedSlot, AbstractQueryOf
  <1> QED BY <1>1, <1>2

\* When only slot h and the call of t change, only these change in the abstract state.
LEMMA OneQueryChanges ==
  ASSUME SerialInv, NEW t \in Threads, NEW h \in Slots,
         \A u \in Threads \ {t} : call'[u] = call[u],
         call[t].slot \in {0, h}, call'[t].slot \in {0, h},
         \A g \in Slots \ {h} : pool'[g] = pool[g]
  PROVE  Queries' = [Queries EXCEPT ![h] = AbstractQuery(h)']
  <1>1. ASSUME NEW g \in Slots \ {h} PROVE AbstractQuery(g)' = AbstractQuery(g)
    <2>1. g # 0
      BY DEF Slots
    <2> QED BY <2>1, OtherSlotStays
  <1>2. Queries' = [g \in Slots |-> AbstractQuery(g)']
    BY DEF Queries, Slots
  <1>3. [Queries EXCEPT ![h] = AbstractQuery(h)'] = [g \in Slots |-> AbstractQuery(g)']
    BY <1>1 DEF Queries
  <1> QED BY <1>2, <1>3

LEMMA NoQueryChanges ==
  ASSUME SerialInv, NEW t \in Threads, NEW h \in Slots,
         \A u \in Threads \ {t} : call'[u] = call[u],
         call[t].slot \in {0, h}, call'[t].slot \in {0, h},
         \A g \in Slots \ {h} : pool'[g] = pool[g],
         AbstractQuery(h)' = AbstractQuery(h)
  PROVE  Queries' = Queries
  <1>1. Queries' = [Queries EXCEPT ![h] = AbstractQuery(h)]
    BY OneQueryChanges
  <1>2. Queries = [Queries EXCEPT ![h] = AbstractQuery(h)]
    BY DEF Queries
  <1> QED BY <1>1, <1>2

LEMMA QueriesSame ==
  ASSUME UNCHANGED <<pool, call>>
  PROVE  Queries' = Queries
  BY DEF Queries, AbstractQuery, Writing, Opening, Slots

\* What a thread is left with when it returns, and what it shows while it is in a call.
LEMMA FinishOutcome ==
  ASSUME Typing, NEW t \in Threads, NEW code, NEW level, NEW error,
         Finish(t, Result(code, level, error))
  PROVE  Lifecycle!Respond(t, Lifecycle!Answer(code, level, error))
  <1>1. call \in [Threads -> Calls] /\ ret \in [Threads -> Results]
    BY DEF Typing, TypeOK
  <1>2. /\ call'[t] = NoCall /\ ret'[t] = Result(code, level, error)
        /\ \A u \in Threads \ {t} : call'[u] = call[u] /\ ret'[u] = ret[u]
    BY <1>1 DEF Finish, Return
  <1>3. AbstractOutcome(t)' = Lifecycle!Answer(code, level, error)
    BY <1>2 DEF AbstractOutcome, Lifecycle!Answer, Result, NoCall
  <1>4. \A u \in Threads \ {t} : AbstractOutcome(u)' = AbstractOutcome(u)
    BY <1>2 DEF AbstractOutcome
  <1> QED BY <1>3, <1>4 DEF Lifecycle!Respond

LEMMA EnterOutcome ==
  ASSUME Typing, NEW t \in Threads, NEW c, Enter(t, c)
  PROVE  Lifecycle!Respond(t, Lifecycle!Inside(c.op, c.slot))
  <1>1. call \in [Threads -> Calls] /\ ret \in [Threads -> Results]
    BY DEF Typing, TypeOK
  <1>2. /\ call'[t] = c /\ ret'[t] = Result("none", 0, "none")
        /\ \A u \in Threads \ {t} : call'[u] = call[u] /\ ret'[u] = ret[u]
    BY <1>1 DEF Enter, Return
  <1>3. AbstractOutcome(t)' = Lifecycle!Inside(c.op, c.slot)
    BY <1>2 DEF AbstractOutcome, Lifecycle!Inside, Result
  <1>4. \A u \in Threads \ {t} : AbstractOutcome(u)' = AbstractOutcome(u)
    BY <1>2 DEF AbstractOutcome
  <1> QED BY <1>3, <1>4 DEF Lifecycle!Respond

LEMMA OutcomesSame ==
  ASSUME UNCHANGED ret, NEW t \in Threads,
         \A u \in Threads \ {t} : call'[u] = call[u],
         call'[t].op = call[t].op, call'[t].slot = call[t].slot
  PROVE  Outcomes' = Outcomes
  BY DEF Outcomes, AbstractOutcome

LEMMA IdleBetween ==
  ASSUME Typing, NEW t \in Threads, Idle(t)
  PROVE  Lifecycle!Between(t) /\ call[t] = NoCall
  BY DEF Typing, CallShape, Shape, NoCall, Idle, Lifecycle!Between, AbstractOutcome

\* A slot nobody works on stands for itself; a slot that is not active is free.
LEMMA FreeSlots ==
  ASSUME SerialInv, NEW h \in Slots
  PROVE  /\ ~Busy(h) => AbstractQuery(h) = Plain(pool[h]) /\ \A u \in Threads : call[u].slot # h
         /\ ~pool[h].active => AbstractQuery(h) = Lifecycle!Free /\ ~Busy(h)
         /\ pool[h].active => AbstractQuery(h) # Lifecycle!Free
  <1>1. ASSUME ~Busy(h)
        PROVE  AbstractQuery(h) = Plain(pool[h]) /\ \A u \in Threads : call[u].slot # h
    <2>1. \A u \in Threads : call[u].slot # h
      BY <1>1 DEF SerialInv, Typing, CallShape, Shape, NoCall, Busy, Idle, Slots
    <2> QED BY <2>1, UnownedSlot, AbstractQueryOf
  <1>2. ASSUME ~pool[h].active PROVE AbstractQuery(h) = Lifecycle!Free /\ ~Busy(h)
    <2>1. ~Busy(h)
      BY <1>2 DEF SerialInv, PointersStayValid, Busy
    <2>2. pool[h] = EmptyContext
      BY <1>2, <2>1 DEF SerialInv, StageEarned, Settled
    <2> QED BY <1>1, <2>1, <2>2 DEF Plain, EmptyContext, Lifecycle!Free
  <1>3. ASSUME pool[h].active PROVE AbstractQuery(h) # Lifecycle!Free
    <2>1. pool[h].stage \in Stages
      BY DEF SerialInv, Typing, TypeOK
    <2>2. \A stage \in Stages : Position(stage) # 0
      BY DEF Stages, Position
    <2>3. CASE ~Busy(h)
      BY <1>1, <1>3, <2>1, <2>2, <2>3 DEF Plain, Lifecycle!Free
    <2>4. CASE Busy(h)
      <3>1. PICK u \in Threads : ~Idle(u) /\ call[u].slot = h
        BY <2>4 DEF Busy
      <3>2. Owner(call, u, h)
        BY <3>1, OwnSlot DEF Owner
      <3>3. AbstractQuery(h) = SeenBy(call[u], pool[h])
        BY <3>2, OwnedSlot, AbstractQueryOf
      <3>4. call[u].phase = "write" /\ call[u].op # "parse" => Expected(call[u].op) \in Stages
        <4>1. call[u].phase = "write" /\ call[u].op # "parse" => call[u].op \in StageOps
          BY <3>1, ActiveCall DEF SerialInv
        <4> QED BY <4>1 DEF StageOps, Expected, Stages
      <3>5. SeenBy(call[u], pool[h]).position # 0
        BY <1>3, <2>1, <2>2, <3>4 DEF SeenBy, QueryAt, Plain, Stages
      <3> QED BY <3>3, <3>5 DEF Lifecycle!Free
    <2> QED BY <2>3, <2>4
  <1> QED BY <1>1, <1>2, <1>3

\* What the stages and levels are in the table of queries.
LEMMA StagePlaces ==
  ASSUME NEW op \in StageOps, NEW mode \in Modes
  PROVE  /\ Position(Expected(op)) = Lifecycle!Place(op)
         /\ Position(Reached(op)) = Lifecycle!Place(op) + 1
         /\ \A stage \in Stages : Position(stage) = Lifecycle!Place(op) => stage = Expected(op)
         /\ QueryAt(Reached(op), mode) = Lifecycle!Query(Lifecycle!Place(op) + 1, mode)
         /\ LevelAt(Reached(op), mode) = LevelReached(op, mode)
         /\ QueryAt("parsed", mode) = Lifecycle!Query(1, mode)
  BY DEF StageOps, Modes, Stages, Position, Expected, Reached, Lifecycle!Place, QueryAt,
         LevelAt, LevelReached, CompiledLevel, Lifecycle!Query, Lifecycle!LevelOf

\* vqlut_parse refuses, or opens the slot it finds.
LEMMA ParseRefines ==
  ASSUME SerialInv, NEW t \in Threads, Parse(t)
  PROVE  Lifecycle!Next
  <1>0. Typing
    BY DEF SerialInv
  <1>1. CASE ParseInvalidMode(t)
    <2>1. Idle(t) /\ UNCHANGED pool /\ Finish(t, Result("internal_error", 0, "invalid_mode"))
      BY <1>1 DEF ParseInvalidMode, Fail
    <2>2. call' = call
      BY <1>0, <2>1, IdleBetween DEF Finish, Typing, TypeOK
    <2>3. Lifecycle!RefuseMode(t)
      BY <1>0, <2>1, <2>2, IdleBetween, FinishOutcome, QueriesSame
         DEF Lifecycle!RefuseMode, Lifecycle!Answered, Queries
    <2> QED BY <2>3 DEF Lifecycle!Next
  <1>2. CASE ParseExhausted(t)
    <2>1. /\ Idle(t) /\ UNCHANGED pool /\ Finish(t, Result("internal_error", 0, "exhausted"))
          /\ \A h \in Slots : pool[h].active
      BY <1>2 DEF ParseExhausted, Fail
    <2>2. call' = call
      BY <1>0, <2>1, IdleBetween DEF Finish, Typing, TypeOK
    <2>3. \A h \in Slots : Queries[h] # Lifecycle!Free
      BY <2>1, FreeSlots DEF Queries
    <2>4. Lifecycle!RefuseFull(t)
      BY <1>0, <2>1, <2>2, <2>3, IdleBetween, FinishOutcome, QueriesSame
         DEF Lifecycle!RefuseFull, Lifecycle!Answered, Queries
    <2> QED BY <2>4 DEF Lifecycle!Next
  <1>3. ASSUME NEW mode \in Requested, ParseAlloc(t, mode) PROVE Lifecycle!Next
    <2>1. PICK h \in Slots : /\ FirstFree(h) /\ Idle(t)
                            /\ pool' = [pool EXCEPT ![h] = FreshContext]
                            /\ Enter(t, CallOf("parse", h, "alloc", {}, mode))
      BY <1>3 DEF ParseAlloc
    <2>2. mode \in Modes
      BY RequestedAssumption
    <2>3. PICK c : c = CallOf("parse", h, "alloc", {}, mode)
      OBVIOUS
    <2>4. c.op = "parse" /\ c.slot = h /\ c.phase = "alloc" /\ c.mode = mode
      BY <2>3 DEF CallOf, NoCall
    <2>5. /\ call'[t] = c /\ \A u \in Threads \ {t} : call'[u] = call[u]
          /\ call[t].slot = 0 /\ \A g \in Slots \ {h} : pool'[g] = pool[g]
      BY <1>0, <2>1, <2>3, IdleBetween DEF Enter, Typing, TypeOK, NoCall
    <2>6. AbstractQuery(h) = Lifecycle!Free /\ \A u \in Threads : call[u].slot # h
      BY <2>1, FreeSlots DEF FirstFree
    <2>7. AbstractQuery(h)' = Lifecycle!Query(1, mode)
      <3>1. Owner(call', t, h)
        BY <2>4, <2>5, <2>6 DEF Owner
      <3>2. AbstractQuery(h)' = SeenBy(c, pool'[h])
        BY <2>5, <3>1, OwnedSlot, AbstractQueryOf
      <3>3. QueryAt("parsed", mode) = Lifecycle!Query(1, mode)
        BY <2>2, StagePlaces DEF StageOps
      <3> QED BY <2>4, <3>2, <3>3 DEF SeenBy
    <2>8. Queries' = [Queries EXCEPT ![h] = Lifecycle!Query(1, mode)]
      BY <2>4, <2>5, <2>7, OneQueryChanges
    <2>9. Lifecycle!Respond(t, Lifecycle!Inside("parse", h))
      BY <1>0, <2>1, <2>3, <2>4, EnterOutcome
    <2>10. Queries[h] = Lifecycle!Free
      BY <2>6 DEF Queries
    <2>11. Lifecycle!Open(t, h, mode)
      BY <1>0, <2>1, <2>8, <2>9, <2>10, IdleBetween DEF Lifecycle!Open, Queries
    <2>12. mode \in Lifecycle!Modes
      BY <2>2 DEF Modes, Lifecycle!Modes
    <2> QED BY <2>11, <2>12 DEF Lifecycle!Next
  <1> QED BY <1>1, <1>2, <1>3 DEF Parse

\* A call that is given a handle starts, or returns at once.
LEMMA ApplyRefines ==
  ASSUME SerialInv, NEW t \in Threads, NEW h \in Handles, ~Busy(h), Apply(t, h)
  PROVE  Lifecycle!Next
  <1>0. Typing
    BY DEF SerialInv
  <1>1. ASSUME NEW op \in StageOps \cup {"get_safety_level"}, Lookup(t, op, h)
        PROVE  Lifecycle!Next
    <2>1. PICK c : c = CallOf(op, h, "read", ReadsOf(op), "slipstream")
      OBVIOUS
    <2>2. /\ c.op = op /\ c.slot = h /\ c.phase = "read" /\ op # "parse"
      BY <2>1 DEF CallOf, NoCall, StageOps
    <2>3. h \in Slots /\ pool[h].active /\ Idle(t) /\ Enter(t, c) /\ UNCHANGED pool
      BY <1>1, <2>1 DEF Lookup, Live
    <2>4. /\ call'[t] = c /\ \A u \in Threads \ {t} : call'[u] = call[u] /\ call[t].slot = 0
      BY <1>0, <2>3, IdleBetween DEF Enter, Typing, TypeOK, NoCall
    <2>5. /\ AbstractQuery(h) # Lifecycle!Free /\ AbstractQuery(h) = Plain(pool[h])
          /\ \A u \in Threads : call[u].slot # h
      BY <2>3, FreeSlots
    <2>6. AbstractQuery(h)' = AbstractQuery(h)
      <3>1. Owner(call', t, h)
        BY <2>2, <2>4, <2>5 DEF Owner
      <3>2. AbstractQuery(h)' = SeenBy(c, pool'[h])
        BY <2>4, <3>1, OwnedSlot, AbstractQueryOf
      <3> QED BY <2>2, <2>3, <2>5, <3>2 DEF SeenBy
    <2>7. Queries' = Queries
      BY <1>0, <2>2, <2>3, <2>4, <2>6, IdleBetween, NoQueryChanges DEF NoCall
    <2>8. Lifecycle!Respond(t, Lifecycle!Inside(op, h))
      BY <1>0, <2>2, <2>3, EnterOutcome
    <2>9. Queries[h] # Lifecycle!Free
      BY <2>3, <2>5 DEF Queries
    <2>10. Lifecycle!Invoke(t, op, h)
      BY <1>0, <2>3, <2>7, <2>8, <2>9, IdleBetween DEF Lifecycle!Invoke, Queries
    <2>11. op \in Lifecycle!StageOps \cup {"get_safety_level"}
      BY DEF StageOps, Lifecycle!StageOps
    <2> QED BY <2>3, <2>10, <2>11 DEF Lifecycle!Next
  <1>2. ASSUME NEW code \in {"internal_error", "no_level"}, LookupFails(t, code, h)
        PROVE  Lifecycle!Next
    <2>1. Idle(t) /\ UNCHANGED pool /\ Finish(t, Result(code, 0, "invalid_handle"))
      BY <1>2 DEF LookupFails
    <2>2. call' = call
      BY <1>0, <2>1, IdleBetween DEF Finish, Typing, TypeOK
    <2>3. Lifecycle!RefuseHandle(t, code)
      BY <1>0, <2>1, <2>2, IdleBetween, FinishOutcome, QueriesSame
         DEF Lifecycle!RefuseHandle, Lifecycle!Answered, Queries
    <2> QED BY <2>3 DEF Lifecycle!Next
  <1>3. CASE Destroy(t, h)
    <2>1. /\ Idle(t) /\ h \in Slots /\ pool' = [pool EXCEPT ![h] = EmptyContext]
          /\ Return(t, Ok) /\ call' = Orphaned(h)
      BY <1>3 DEF Destroy
    <2>2. \A u \in Threads : call[u].slot # h
      BY <2>1, FreeSlots
    <2>3. call' = call /\ call[t] = NoCall /\ \A g \in Slots \ {h} : pool'[g] = pool[g]
      BY <1>0, <2>1, <2>2, IdleBetween DEF Orphaned, Typing, TypeOK
    <2>4. AbstractQuery(h)' = Lifecycle!Free
      <3>1. AbstractQuery(h)' = Plain(pool'[h])
        BY <2>2, <2>3, UnownedSlot, AbstractQueryOf
      <3>2. pool'[h] = EmptyContext
        BY <1>0, <2>1 DEF Typing, TypeOK
      <3> QED BY <3>1, <3>2 DEF Plain, EmptyContext, Lifecycle!Free
    <2>5. Queries' = [Queries EXCEPT ![h] = Lifecycle!Free]
      <3>1. call[t].slot \in {0, h} /\ call'[t].slot \in {0, h}
        BY <2>3 DEF NoCall
      <3> QED BY <2>1, <2>3, <2>4, <3>1, OneQueryChanges
    <2>6. Lifecycle!Respond(t, Lifecycle!Ok)
      <3>1. Finish(t, Result("ok", 0, "none"))
        BY <1>0, <2>1, <2>3 DEF Finish, Ok, Typing, TypeOK
      <3> QED BY <1>0, <3>1, FinishOutcome DEF Lifecycle!Ok
    <2>7. Lifecycle!Close(t, h)
      BY <1>0, <2>1, <2>5, <2>6, IdleBetween DEF Lifecycle!Close, Queries
    <2> QED BY <2>1, <2>7 DEF Lifecycle!Next
  <1>4. CASE DestroyNothing(t, h)
    <2>1. Idle(t) /\ UNCHANGED pool /\ Finish(t, Result("ok", 0, "none"))
      BY <1>4 DEF DestroyNothing, Ok
    <2>2. call' = call
      BY <1>0, <2>1, IdleBetween DEF Finish, Typing, TypeOK
    <2>3. Lifecycle!CloseNothing(t)
      BY <1>0, <2>1, <2>2, IdleBetween, FinishOutcome, QueriesSame
         DEF Lifecycle!CloseNothing, Lifecycle!Answered, Lifecycle!Ok, Queries
    <2> QED BY <2>3 DEF Lifecycle!Next
  <1> QED BY <1>1, <1>2, <1>3, <1>4 DEF Apply, Use, Discard

\* The slot a call works on, seen through that call.
LEMMA OwnQuery ==
  ASSUME SerialInv, NEW t \in Threads, ~Idle(t), NEW h, h = call[t].slot
  PROVE  /\ h \in Slots /\ Owner(call, t, h)
         /\ AbstractQuery(h) = SeenBy(call[t], pool[h]) /\ Queries[h] = SeenBy(call[t], pool[h])
  <1>1. h \in Slots /\ Owner(call, t, h)
    BY OwnSlot DEF Owner
  <1>2. AbstractQuery(h) = SeenBy(call[t], pool[h])
    BY <1>1, OwnedSlot, AbstractQueryOf
  <1> QED BY <1>1, <1>2 DEF Queries

\* A call that goes on, and through which its slot looks as before, is a stutter.
LEMMA CallGoesOn ==
  ASSUME SerialInv, NEW t \in Threads, ~Idle(t), NEW h, h = call[t].slot, UNCHANGED ret,
         \A u \in Threads \ {t} : call'[u] = call[u],
         \A g \in Slots \ {h} : pool'[g] = pool[g],
         call'[t].slot = h, call'[t].op = call[t].op,
         SeenBy(call'[t], pool'[h]) = SeenBy(call[t], pool[h])
  PROVE  UNCHANGED <<Queries, Outcomes>>
  <1>1. h \in Slots /\ Owner(call, t, h) /\ AbstractQuery(h) = SeenBy(call[t], pool[h])
    BY OwnQuery
  <1>2. Owner(call', t, h)
    BY <1>1 DEF Owner
  <1>3. AbstractQuery(h)' = SeenBy(call'[t], pool'[h])
    BY <1>2, OwnedSlot, AbstractQueryOf
  <1>4. Queries' = Queries
    BY <1>1, <1>3, NoQueryChanges
  <1> QED BY <1>4, OutcomesSame

\* A call that returns leaves its slot to stand for itself.
LEMMA CallEnds ==
  ASSUME SerialInv, NEW t \in Threads, ~Idle(t), NEW h, h = call[t].slot,
         NEW r, Finish(t, r), \A g \in Slots \ {h} : pool'[g] = pool[g]
  PROVE  Queries' = [Queries EXCEPT ![h] = Plain(pool'[h])]
  <1>1. h \in Slots /\ Owner(call, t, h)
    BY OwnQuery
  <1>2. call'[t] = NoCall /\ \A u \in Threads \ {t} : call'[u] = call[u]
    BY DEF Finish, SerialInv, Typing, TypeOK
  <1>3. \A u \in Threads : call'[u].slot # h
    BY <1>1, <1>2 DEF Owner, NoCall, Slots
  <1>4. AbstractQuery(h)' = Plain(pool'[h])
    BY <1>3, UnownedSlot, AbstractQueryOf
  <1>5. call[t].slot \in {0, h} /\ call'[t].slot \in {0, h}
    BY <1>2 DEF NoCall
  <1> QED BY <1>1, <1>2, <1>4, <1>5, OneQueryChanges

LEMMA CallReturnsUnchanged ==
  ASSUME SerialInv, NEW t \in Threads, ~Idle(t), NEW r, Finish(t, r), UNCHANGED pool,
         SeenBy(call[t], pool[call[t].slot]) = Plain(pool[call[t].slot])
  PROVE  Queries' = Queries
  <1> PICK h : h = call[t].slot
    OBVIOUS
  <1>1. h \in Slots /\ Queries[h] = Plain(pool[h])
    BY OwnQuery
  <1>2. Queries' = [Queries EXCEPT ![h] = Plain(pool[h])]
    BY CallEnds
  <1> QED BY <1>1, <1>2 DEF Queries

\* vqlut_parse on its way to its return.
LEMMA ParsingRefines ==
  ASSUME SerialInv, NEW t \in Threads, ParseConfigure(t) \/ ParseLost(t)
  PROVE  UNCHANGED <<Queries, Outcomes>>
  <1> PICK h : h = call[t].slot
    OBVIOUS
  <1>1. ~Idle(t) /\ call[t].phase = "alloc"
    BY DEF ParseConfigure, ParseLost, Idle
  <1>2. /\ h \in Slots /\ pool[h].active /\ call[t] \in Calls /\ call[t].op = "parse"
        /\ call \in [Threads -> Calls]
    BY <1>1, OwnSlot, ActiveCall DEF SerialInv, Typing, TypeOK
  <1>3. ParseConfigure(t)
    BY <1>2 DEF ParseLost
  <1>4. /\ call'[t].slot = h /\ call'[t].op = "parse" /\ call'[t].mode = call[t].mode
        /\ \A u \in Threads \ {t} : call'[u] = call[u]
        /\ UNCHANGED <<pool, ret>>
    BY <1>2, <1>3 DEF ParseConfigure, Calls
  <1>5. SeenBy(call'[t], pool'[h]) = SeenBy(call[t], pool[h])
    BY <1>2, <1>4 DEF SeenBy
  <1> QED BY <1>1, <1>2, <1>4, <1>5, CallGoesOn

LEMMA ReadLevelRefines ==
  ASSUME SerialInv, NEW t \in Threads, ReadLevel(t)
  PROVE  Lifecycle!Next
  <1> PICK h : h = call[t].slot
    OBVIOUS
  <1>1. /\ ~Idle(t) /\ call[t].phase = "read" /\ call[t].op = "get_safety_level"
        /\ Finish(t, Result("level", pool[h].level, "none")) /\ UNCHANGED pool
    BY DEF ReadLevel, Idle
  <1>2. SeenBy(call[t], pool[h]) = Plain(pool[h])
    BY <1>1 DEF SeenBy
  <1>3. Queries' = Queries
    BY <1>1, <1>2, CallReturnsUnchanged
  <1>4. Queries[h].level = pool[h].level
    BY <1>1, <1>2, OwnQuery DEF Plain
  <1>5. Lifecycle!Respond(t, Lifecycle!Answer("level", Queries[h].level, "none"))
    BY <1>1, <1>4, FinishOutcome DEF SerialInv
  <1>6. Outcomes[t].op = "get_safety_level" /\ Outcomes[t].slot = h
    BY <1>1 DEF Outcomes, AbstractOutcome
  <1>7. Lifecycle!Observe(t)
    BY <1>3, <1>5, <1>6 DEF Lifecycle!Observe, Queries, Outcomes
  <1> QED BY <1>7 DEF Lifecycle!Next

LEMMA ReadFieldRefines ==
  ASSUME SerialInv, NEW t \in Threads, NEW f \in Fields, ReadField(t, f)
  PROVE  UNCHANGED <<Queries, Outcomes>>
  <1> PICK h : h = call[t].slot
    OBVIOUS
  <1> PICK c : c = AfterRead(t, f)
    OBVIOUS
  <1>1. /\ ~Idle(t) /\ call[t].phase = "read" /\ call[t].op \in StageOps
        /\ UNCHANGED <<pool, ret>> /\ call' = [call EXCEPT ![t] = c]
    BY DEF ReadField, Idle
  <1>2. c.slot = h /\ c.phase = "read" /\ c.op = call[t].op
    BY <1>1, ReadTyping DEF SerialInv
  <1>3. call'[t] = c /\ \A u \in Threads \ {t} : call'[u] = call[u]
    BY <1>1 DEF SerialInv, Typing, TypeOK
  <1>4. SeenBy(c, pool'[h]) = SeenBy(call[t], pool[h])
    BY <1>1, <1>2 DEF SeenBy, StageOps
  <1> QED BY <1>1, <1>2, <1>3, <1>4, CallGoesOn

\* A stage function that has found its stage is about to move the query on, one that has
\* not refuses it.
LEMMA LastReadRefines ==
  ASSUME SerialInv, NEW t \in Threads, NEW f \in Fields, StageAccepted(t, f) \/ StageRefused(t, f)
  PROVE  Lifecycle!Next \/ UNCHANGED <<Queries, Outcomes>>
  <1> PICK h : h = call[t].slot
    OBVIOUS
  <1> PICK op : op = call[t].op
    OBVIOUS
  <1> PICK a : a = AfterRead(t, f)
    OBVIOUS
  <1>1. /\ ~Idle(t) /\ call[t].phase = "read" /\ op \in StageOps /\ call[t].todo = {f}
        /\ UNCHANGED pool
    BY DEF StageAccepted, StageRefused, Idle, Fail
  <1>2. /\ h \in Slots /\ pool[h] \in Contexts /\ pool[h].active
        /\ call \in [Threads -> Calls] /\ Typing
    BY <1>1, OwnSlot DEF SerialInv, Typing, TypeOK
  <1>3. a \in Calls /\ a.op = op /\ a.slot = h /\ a.todo = {}
    BY <1>1, <1>2, ReadTyping
  <1>4. Settled(h) /\ a.stage = pool[h].stage
    BY <1>1, <1>3, ReadCoherent
  <1>5. SeenBy(call[t], pool[h]) = Plain(pool[h])
    BY <1>1 DEF SeenBy, StageOps
  <1>6. CASE StageAccepted(t, f)
    <2> PICK c : c = [a EXCEPT !.phase = "write", !.todo = WritesOf(op)]
      OBVIOUS
    <2>1. /\ a.stage = Expected(op) /\ call' = [call EXCEPT ![t] = c] /\ UNCHANGED ret
      BY <1>6 DEF StageAccepted
    <2>2. c.phase = "write" /\ c.op = op /\ c.slot = h
      BY <1>3 DEF Calls
    <2>3. call'[t] = c /\ \A u \in Threads \ {t} : call'[u] = call[u]
      BY <1>2, <2>1
    <2>4. pool[h].stage = Expected(op) /\ pool[h].level = LevelAt(Expected(op), pool[h].mode)
      BY <1>2, <1>4, <2>1 DEF Settled
    <2>5. SeenBy(c, pool[h]) = Plain(pool[h])
      BY <1>1, <1>2, <2>2, <2>4 DEF SeenBy, Plain, QueryAt, StageOps
    <2> QED BY <1>1, <1>5, <2>1, <2>2, <2>3, <2>5, CallGoesOn
  <1>7. CASE StageRefused(t, f)
    <2>1. /\ a.stage # Expected(op)
          /\ Finish(t, Result("internal_error", 0, "wrong_stage"))
      BY <1>7 DEF StageRefused, Fail
    <2>2. Queries' = Queries
      BY <1>1, <1>5, <2>1, CallReturnsUnchanged
    <2>3. Queries[h].position = Position(pool[h].stage)
      BY <1>1, <1>2, <1>5, OwnQuery DEF Plain
    <2>4. Position(pool[h].stage) # Lifecycle!Place(op)
      <3>1. pool[h].stage \in Stages /\ "slipstream" \in Modes
        BY <1>2 DEF Contexts, Modes
      <3> QED BY <1>1, <1>4, <2>1, <3>1, StagePlaces
    <2>5. Outcomes[t].op = op /\ Outcomes[t].slot = h
      BY DEF Outcomes, AbstractOutcome
    <2>6. Lifecycle!Respond(t, Lifecycle!Answer("internal_error", 0, "wrong_stage"))
      BY <1>2, <2>1, FinishOutcome
    <2>7. op \in Lifecycle!StageOps
      BY <1>1 DEF StageOps, Lifecycle!StageOps
    <2>8. Lifecycle!RefuseStage(t)
      BY <2>2, <2>3, <2>4, <2>5, <2>6, <2>7
         DEF Lifecycle!RefuseStage, Lifecycle!InOrder, Queries, Outcomes
    <2> QED BY <2>8 DEF Lifecycle!Next
  <1> QED BY <1>6, <1>7

LEMMA WriteFieldRefines ==
  ASSUME SerialInv, NEW t \in Threads, NEW f \in Fields, WriteField(t, f)
  PROVE  UNCHANGED <<Queries, Outcomes>>
  <1> PICK h : h = call[t].slot
    OBVIOUS
  <1>1. /\ ~Idle(t) /\ call[t].phase = "write" /\ UNCHANGED ret /\ f \in call[t].todo
    BY DEF WriteField, Idle
  <1>2. /\ h \in Slots /\ pool[h] \in Contexts /\ call[t] \in Calls
        /\ call \in [Threads -> Calls] /\ pool \in [Slots -> Contexts]
        /\ call[t].op \in StageOps \cup {"parse"} /\ call[t].todo \subseteq WritesOf(call[t].op)
    BY <1>1, OwnSlot, ActiveCall DEF SerialInv, Typing, TypeOK, Contexts
  <1>3. /\ call'[t].slot = h /\ call'[t].op = call[t].op /\ call'[t].mode = call[t].mode
        /\ call'[t].phase = "write"
        /\ \A u \in Threads \ {t} : call'[u] = call[u]
        /\ \A g \in Slots \ {h} : pool'[g] = pool[g]
        /\ pool'[h] = Stored(call[t], f)
    BY <1>2 DEF WriteField, Calls
  <1>4. call[t].op # "parse" => pool'[h].mode = pool[h].mode
    BY <1>1, <1>2, <1>3 DEF Stored, Contexts, WritesOf
  <1>5. SeenBy(call'[t], pool'[h]) = SeenBy(call[t], pool[h])
    BY <1>1, <1>3, <1>4 DEF SeenBy
  <1> QED BY <1>1, <1>3, <1>5, CallGoesOn

\* The last store of vqlut_parse leaves the query it promised, the last one of a stage
\* function the next query on the pipeline.
LEMMA WriteLastRefines ==
  ASSUME SerialInv, NEW t \in Threads, NEW f \in Fields, WriteLast(t, f)
  PROVE  Lifecycle!Next
  <1> PICK h : h = call[t].slot
    OBVIOUS
  <1> PICK c : c = call[t]
    OBVIOUS
  <1>1. /\ ~Idle(t) /\ c.phase = "write" /\ c.todo = {f} /\ Finish(t, Result("ok", 0, "none"))
    BY DEF WriteLast, Idle, Ok
  <1>2. /\ h \in Slots /\ pool[h] \in Contexts /\ pool[h].active /\ c \in Calls
        /\ pool \in [Slots -> Contexts] /\ Underway(c) /\ Typing
        /\ c.op \in StageOps \cup {"parse"} /\ c.todo \subseteq WritesOf(c.op)
    BY <1>1, OwnSlot, ActiveCall DEF SerialInv, Typing, TypeOK, Contexts
  <1>3. /\ pool'[h] = Stored(c, f) /\ \A g \in Slots \ {h} : pool'[g] = pool[g]
    BY <1>2 DEF WriteLast
  <1>4. Queries' = [Queries EXCEPT ![h] = Plain(pool'[h])]
    BY <1>1, <1>3, CallEnds
  <1>5. Queries[h] = SeenBy(c, pool[h])
    BY <1>1, OwnQuery
  <1>6. Lifecycle!Respond(t, Lifecycle!Ok)
    BY <1>1, <1>2, FinishOutcome DEF Lifecycle!Ok
  <1>7. Outcomes[t].op = c.op /\ Outcomes[t].slot = h
    BY DEF Outcomes, AbstractOutcome
  <1>8. CASE c.op = "parse"
    <2>1. /\ pool[h].stage = "parsed" /\ pool[h].level = 0
          /\ "mode" \notin c.todo => pool[h].mode = c.mode
      BY <1>1, <1>2, <1>8 DEF Underway, StageOps
    <2>2. /\ pool'[h].active /\ pool'[h].stage = "parsed" /\ pool'[h].level = 0
          /\ pool'[h].mode = c.mode
      BY <1>1, <1>2, <1>3, <1>8, <2>1 DEF Stored, Contexts
    <2>3. Plain(pool'[h]) = QueryAt("parsed", c.mode)
      BY <2>2 DEF Plain, QueryAt, LevelAt
    <2>4. Queries' = Queries
      BY <1>4, <1>5, <1>8, <2>3 DEF SeenBy, Queries
    <2>5. Lifecycle!Opened(t)
      BY <1>6, <1>7, <1>8, <2>4 DEF Lifecycle!Opened, Queries, Outcomes
    <2> QED BY <2>5 DEF Lifecycle!Next
  <1>9. CASE c.op # "parse"
    <2> PICK op : op = c.op
      OBVIOUS
    <2>1. op \in StageOps /\ op \in Lifecycle!StageOps
      BY <1>2, <1>9 DEF StageOps, Lifecycle!StageOps
    <2>2. /\ pool[h].stage = IF "stage" \in c.todo THEN Expected(op) ELSE Reached(op)
          /\ pool[h].level = IF "level" \in c.todo THEN LevelAt(Expected(op), pool[h].mode)
                                                   ELSE LevelReached(op, c.mode)
          /\ op = "compile" => c.mode = pool[h].mode
      BY <1>1, <1>2, <1>9 DEF Underway
    <2>3. f = "stage" \/ f = "level"
      BY <1>1, <1>2, <1>9 DEF WritesOf
    <2>4. /\ pool'[h].active /\ pool'[h].stage = Reached(op)
          /\ pool'[h].level = LevelReached(op, c.mode) /\ pool'[h].mode = pool[h].mode
      BY <1>1, <1>2, <1>3, <1>9, <2>2, <2>3 DEF Stored, Contexts
    <2>5. LevelReached(op, c.mode) = LevelAt(Reached(op), pool[h].mode)
      BY <2>1, <2>2 DEF LevelReached, LevelAt, Reached, StageOps
    <2>6. pool[h].mode \in Modes
      BY <1>2 DEF Contexts
    <2>7. Plain(pool'[h]) = Lifecycle!Query(Lifecycle!Place(op) + 1, pool[h].mode)
      <3>1. Plain(pool'[h]) = QueryAt(Reached(op), pool[h].mode)
        BY <2>4, <2>5 DEF Plain, QueryAt
      <3> QED BY <2>1, <2>6, <3>1, StagePlaces
    <2>8. Queries[h].position = Lifecycle!Place(op) /\ Queries[h].mode = pool[h].mode
      <3>1. Position(Expected(op)) = Lifecycle!Place(op)
        BY <2>1, <2>6, StagePlaces
      <3> QED BY <1>1, <1>5, <1>9, <3>1 DEF SeenBy, QueryAt
    <2>9. Queries' = [Queries EXCEPT ![h] = Lifecycle!Query(Lifecycle!Place(op) + 1, Queries[h].mode)]
      BY <1>4, <2>7, <2>8
    <2>10. Lifecycle!Advance(t)
      BY <1>6, <1>7, <2>1, <2>8, <2>9
         DEF Lifecycle!Advance, Lifecycle!InOrder, Queries, Outcomes
    <2> QED BY <2>10 DEF Lifecycle!Next
  <1> QED BY <1>8, <1>9

LEMMA ContinueRefines ==
  ASSUME SerialInv, NEW t \in Threads, Continue(t)
  PROVE  Lifecycle!Next \/ UNCHANGED <<Queries, Outcomes>>
  BY ParsingRefines, ReadLevelRefines, ReadFieldRefines, LastReadRefines, WriteFieldRefines,
     WriteLastRefines
  DEF Continue

LEMMA LifecycleInit == Init => Lifecycle!Init
  <1> SUFFICES ASSUME Init PROVE Lifecycle!Init
    OBVIOUS
  <1>1. ASSUME NEW h \in Slots PROVE AbstractQuery(h) = Lifecycle!Free
    <2>1. \A u \in Threads : call[u].slot # h
      BY DEF Init, NoCall, Slots
    <2>2. AbstractQuery(h) = Plain(EmptyContext)
      BY <2>1, UnownedSlot, AbstractQueryOf DEF Init
    <2> QED BY <2>2 DEF Plain, EmptyContext, Lifecycle!Free
  <1>2. ASSUME NEW t \in Threads PROVE AbstractOutcome(t) = Lifecycle!Answer("none", 0, "none")
    BY DEF Init, AbstractOutcome, NoCall, Result, Lifecycle!Answer
  <1> QED BY <1>1, <1>2 DEF Lifecycle!Init

LEMMA LifecycleStep ==
  SerialInv /\ [SerialNext]_vars => [Lifecycle!Next]_<<Queries, Outcomes>>
  <1> SUFFICES ASSUME SerialInv, [SerialNext]_vars
               PROVE  Lifecycle!Next \/ UNCHANGED <<Queries, Outcomes>>
    OBVIOUS
  <1>1. CASE UNCHANGED vars
    BY <1>1, QueriesSame DEF vars, Outcomes, AbstractOutcome
  <1>2. CASE SerialNext
    BY <1>2, ParseRefines, ContinueRefines, ApplyRefines DEF SerialNext
  <1> QED BY <1>1, <1>2

\* With the calls on each handle serialised, the pool implements a table of queries on
\* which every call takes effect at one instant, for any number of threads and slots:
\* the stores of a stage function land one by one and the reads of another thread's call
\* fall between them, and yet each call answers and leaves behind what it would alone.
THEOREM LifecycleTheorem == SerialSpec => LifecycleImplemented
  <1>1. Init => Lifecycle!Init
    BY LifecycleInit
  <1>2. SerialInv /\ [SerialNext]_vars => [Lifecycle!Next]_<<Queries, Outcomes>>
    BY LifecycleStep
  <1> QED BY <1>1, <1>2, SerialAlways, PTL
          DEF SerialSpec, LifecycleImplemented, Lifecycle!Spec, Queries, Outcomes
====
