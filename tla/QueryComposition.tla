---- MODULE QueryComposition ----
(***************************************************************************)
(* composeJoin of src/core/Composition.idr, applied again and again: a     *)
(* query is composed with one part after the other, each of them over the  *)
(* same source.                                                            *)
(***************************************************************************)
EXTENDS SafetyCertificates

CONSTANT Parts      \* the statements queries are composed of

ASSUME PartsAssumption == Parts \subseteq Statements

VARIABLES
  query,            \* the query composed so far
  joined            \* history: the parts it was composed of

vars == <<query, joined>>

----------------------------------------------------------------------------
(* The clauses of a join.  A clause only one side has is kept as it is. *)

Smaller(m, n) == IF m < n THEN m ELSE n
Larger(m, n) == IF m < n THEN n ELSE m

\* Mutant: the conditions are put side by side.
JoinWhereBoth(a, b) == a \cup b

JoinWhere(a, b) ==
  IF a = {} THEN b ELSE IF b = {} THEN a ELSE {ELogic(l, r) : l \in a, r \in b}

\* Read with Write is ReadWrite, which also absorbs everything; otherwise the first stays.
JoinEffect(e, f) ==
  IF {e, f} = {"read", "write"} \/ "readwrite" \in {e, f} THEN "readwrite" ELSE e

JoinEffects(a, b) ==
  IF a = {} THEN b ELSE IF b = {} THEN a ELSE {JoinEffect(e, f) : e \in a, f \in b}

\* Mutant: of two lower bounds the lower one wins.
JoinVersionLoosens(v, w) ==
  CASE v.kind = "latest" -> v
    [] v.kind # "latest" /\ w.kind = "latest" -> w
    [] v.kind = "atleast" /\ w.kind = "atleast" -> [v EXCEPT !.low = Smaller(v.low, w.low)]
    [] v.kind = "range" /\ w.kind = "range" ->
         [v EXCEPT !.low = Larger(v.low, w.low), !.high = Smaller(v.high, w.high)]
    [] v.kind \in {"atleast", "range"} /\ w.kind = "exact" -> w
    [] OTHER -> v

\* VerLatest before all, then a common kind, then VerExact, otherwise the first.
JoinVersionOf(v, w) ==
  CASE v.kind = "latest" -> v
    [] v.kind # "latest" /\ w.kind = "latest" -> w
    [] v.kind = "atleast" /\ w.kind = "atleast" -> [v EXCEPT !.low = Larger(v.low, w.low)]
    [] v.kind = "range" /\ w.kind = "range" ->
         [v EXCEPT !.low = Larger(v.low, w.low), !.high = Smaller(v.high, w.high)]
    [] v.kind \in {"atleast", "range"} /\ w.kind = "exact" -> w
    [] OTHER -> v

\* Mutant: constraints of different kinds cancel.
JoinVersionSameKind(a, b) ==
  IF a = {} THEN b ELSE IF b = {} THEN a
  ELSE {JoinVersionOf(p[1], p[2]) : p \in {p \in a \X b : p[1].kind = p[2].kind}}

JoinVersion(a, b) ==
  IF a = {} THEN b ELSE IF b = {} THEN a ELSE {JoinVersionOf(v, w) : v \in a, w \in b}

\* UseOnce before any bound, the smaller bound, LinUnlimited last.
JoinLinearOf(v, w) ==
  CASE v.kind = "unlimited" -> w
    [] v.kind # "unlimited" /\ w.kind = "unlimited" -> v
    [] v.kind = "useonce" -> v
    [] v.kind = "bounded" /\ w.kind = "useonce" -> w
    [] v.kind = "bounded" /\ w.kind = "bounded" -> [v EXCEPT !.uses = Smaller(v.uses, w.uses)]

JoinLinear(a, b) ==
  IF a = {} THEN b ELSE IF b = {} THEN a ELSE {JoinLinearOf(v, w) : v \in a, w \in b}

\* Mutant: the agents of the second clause are forgotten.
JoinEpistemicFirst(c, d) == [agents |-> c.agents, requires |-> c.requires \cup d.requires]

JoinEpistemicOf(c, d) ==
  [agents |-> c.agents \cup d.agents, requires |-> c.requires \cup d.requires]

JoinEpistemic(a, b) ==
  IF a = {} THEN b ELSE IF b = {} THEN a ELSE {JoinEpistemicOf(c, d) : c \in a, d \in b}

\* Mutant: the larger LIMIT wins.
JoinLimitLarger(a, b) ==
  IF a = {} THEN b ELSE IF b = {} THEN a ELSE {Larger(m, n) : m \in a, n \in b}

JoinLimit(a, b) ==
  IF a = {} THEN b ELSE IF b = {} THEN a ELSE {Smaller(m, n) : m \in a, n \in b}

\* HAVING is dropped.
ComposeJoin(p, q) ==
  [select |-> p.select \cup q.select, source |-> p.source,
   where |-> JoinWhere(p.where, q.where), groupBy |-> p.groupBy \cup q.groupBy,
   having |-> {}, orderBy |-> p.orderBy \cup q.orderBy,
   limit |-> JoinLimit(p.limit, q.limit), effects |-> JoinEffects(p.effects, q.effects),
   version |-> JoinVersion(p.version, q.version), linear |-> JoinLinear(p.linear, q.linear),
   epistemic |-> JoinEpistemic(p.epistemic, q.epistemic)]

Composable(p, q) == p.source = q.source

----------------------------------------------------------------------------
Init ==
  /\ query \in Parts
  /\ joined = {query}

Join(part) ==
  /\ Composable(query, part)
  /\ query' = ComposeJoin(query, part)
  /\ joined' = joined \cup {part}

Next == \E part \in Parts : Join(part)

Spec == Init /\ [][Next]_vars

----------------------------------------------------------------------------
(* Properties *)

\* Every variable has its type.
TypeOK == query \in Statements /\ joined \subseteq Parts

PreservedAt(k) == (\A p \in joined : DispatchLevel(k, p)) => DispatchLevel(k, query)

\* Composition Preservation for the checks the pipeline runs, at the levels 0 to 9: a check
\* that every part passes is passed by the query composed of them, in whatever order, and
\* so is every run of checks from level 0 up.
ChecksPreserved == \A k \in 0 .. 9 : PreservedAt(k)

\* "The 10-level safety hierarchy is closed under relational join", for the checks of all
\* eleven levels: joining queries with sound knowledge requirements makes no circle of them.
AllLevelsPreserved == \A k \in SafetyLevels : PreservedAt(k)

\* Composition Preservation for the proof predicates: when every part has a certificate
\* for a level, the composed query has one, at all eleven levels.
CertificatesPreserved ==
  \A k \in SafetyLevels :
    (\A p \in joined : HasCertificate(p, k)) => HasCertificate(query, k)

\* The uses a linearity annotation grants, unlimited ones aside.
Grants(a) == IF a.kind = "useonce" THEN 1 ELSE a.uses

\* "Stricter wins" and "take the minimum (stricter bound)": the composed query grants no
\* part more rows than the part's LIMIT, and no more uses than the part's annotation,
\* save that a bound of zero uses gives way to CONSUME AFTER 1 USE.
BoundsTighten ==
  \A p \in joined :
    /\ \A n \in p.limit : \E m \in query.limit : m <= n
    /\ \A a \in p.linear : \E b \in query.linear :
         a.kind # "unlimited" =>
           b.kind # "unlimited" /\ Grants(b) <= Larger(1, Grants(a))

\* The effects a declaration stands for.
EffectsOf(e) ==
  CASE e = "readwrite" -> {"read", "write"}
    [] OTHER           -> {e}

\* "Combine effect declarations: union of effects": the composed query declares every
\* effect that a part of it declares.
EffectsUnited ==
  \A p \in joined : \A e \in p.effects :
    \E f \in query.effects : EffectsOf(e) \subseteq EffectsOf(f)

\* All effects and all version constraints of the parts.
Declared == UNION {EffectsOf(e) : e \in UNION {p.effects : p \in joined}}
Constraints == UNION {p.version : p \in joined}

\* A join declares no effect that no part declares, and when no part consumes it declares
\* all of theirs.
EffectsCombined ==
  LET kept == UNION {EffectsOf(e) : e \in query.effects}
  IN  kept \subseteq Declared /\ ("consume" \notin Declared => kept = Declared)

\* Version constraints that are all lower bounds, or all ranges, combine to their
\* intersection, which may be empty.
VersionsCombined ==
  \A kind \in {"atleast", "range"} : \A v \in query.version :
    (\A w \in Constraints : w.kind = kind) =>
      /\ v.kind = kind
      /\ \A w \in Constraints : w.low <= v.low
      /\ \E w \in Constraints : w.low = v.low
      /\ kind = "range" =>
           /\ \A w \in Constraints : v.high <= w.high
           /\ \E w \in Constraints : w.high = v.high

\* What a long chain of joins makes of the clauses that do combine, in whatever order and
\* however often a part comes: "union of effects" and "tighten" hold of these.
ClausesCombine == EffectsCombined /\ VersionsCombined

\* Level 10 is lost in one way only: parts whose knowledge requirements are sound join to a
\* query that fails the check because an ENTAILS of one part is the reverse of one of
\* another part.
Opposed(p, q) ==
  \E c \in p.epistemic, d \in q.epistemic : \E r \in c.requires, s \in d.requires :
    r.kind = "entails" /\ s.kind = "entails" /\ r.from = s.to /\ r.to = s.from

CirclesSpanParts ==
  (\A p \in joined : CheckLevel10(p)) /\ ~CheckLevel10(query) =>
    \E p, q \in joined : p # q /\ Opposed(p, q)
====
