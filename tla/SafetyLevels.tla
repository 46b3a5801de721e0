---- MODULE SafetyLevels ----
(***************************************************************************)
(* Statements, the octad schema and the eleven level checks of             *)
(* src/core/Grammar.idr, src/core/Schema.idr and src/core/Checker.idr.     *)
(*                                                                         *)
(* The checker looks at an expression only through five traversals.  Each  *)
(* is a structural recursion, so an expression is represented by what the  *)
(* five return for it, and a constructor of Expr by how it combines that   *)
(* for its operands.  Lists that the checks only search are sets, and a    *)
(* Maybe is a set of at most one element.  OFFSET, PROOF and the requested *)
(* level, which no check reads, are left out.                              *)
(***************************************************************************)
EXTENDS Naturals, FiniteSets

CONSTANTS
  FieldRefs,      \* the field references a statement may contain
  Schema,         \* the FieldDef of each reference that resolves
  Sources,        \* octads, federations and stores
  Agents          \* identities of epistemic agents (agentId)

----------------------------------------------------------------------------
(* Types *)

\* "bytes" stands for all types that equal themselves and no other (vectors, timestamps,
\* hashes, lists and the epistemic types), "record" for those made of a record.
Bases == {"string", "int", "float", "bool", "bytes", "octad", "record", "any"}

\* A VqlType: a base type, or TNull of one.
Types == [base : Bases, null : BOOLEAN]

Plain(base) == [base |-> base, null |-> FALSE]
TAny == Plain("any")
TBool == Plain("bool")

ASSUME SchemaAssumption ==
  /\ DOMAIN Schema \subseteq FieldRefs
  /\ \A f \in DOMAIN Schema : Schema[f] \in [type : Types, nullable : BOOLEAN]

\* Structural equality has no case for record types: they equal nothing.
VqlTypeEq(a, b) == a = b /\ a.base # "record"

TypesCompatible(a, b) ==
  \/ VqlTypeEq(a, b)
  \/ a.null /\ VqlTypeEq(Plain(a.base), b)
  \/ b.null /\ VqlTypeEq(a, Plain(b.base))
  \/ {a, b} = {Plain("int"), Plain("float")}

Bound(ref) == ref \in DOMAIN Schema
ResolveType(ref) == IF Bound(ref) THEN Schema[ref].type ELSE TAny
IsNullable(ref) == Bound(ref) => Schema[ref].nullable

----------------------------------------------------------------------------
(* Expressions: what resolveExprType, extractFieldRefs, extractComparisons, *)
(* findNullGuardedRefs and containsLiteralString return, and the shape that *)
(* the null-guard pattern and the proof predicates match on.                *)

Shapes == {"field", "null", "operator", "value", "uncovered"}

\* The proof predicates descend into no constructor that the checker does not descend into.
Exprs ==
  {e \in [type : Types, shape : Shapes, refs : SUBSET FieldRefs, named : SUBSET FieldRefs,
          compared : SUBSET (Types \X Types), guards : SUBSET FieldRefs, literal : BOOLEAN] :
     e.named \subseteq e.refs}

Leaf(type, shape) ==
  [type |-> type, shape |-> shape, refs |-> {}, named |-> {}, compared |-> {},
   guards |-> {}, literal |-> FALSE]

EField(ref) ==
  [Leaf(ResolveType(ref), "field") EXCEPT !.refs = {ref}, !.named = {ref}]

ELiteral(kind, type) ==
  [Leaf(type, IF kind = "null" THEN "null" ELSE "value") EXCEPT !.literal = (kind = "string")]

EParam(type) == Leaf(type, "value")
EStar == Leaf(TAny, "uncovered")

\* An operator node over two operands, every traversal descending into both.
Over(l, r, type) ==
  [type |-> type, shape |-> "operator", refs |-> l.refs \cup r.refs,
   named |-> l.named \cup r.named, compared |-> l.compared \cup r.compared,
   guards |-> l.guards \cup r.guards, literal |-> l.literal \/ r.literal]

\* A field tested for equality with NULL, in either order.
NullTest(op, l, r) == op \in {"eq", "noteq"} /\ {l.shape, r.shape} = {"field", "null"}

ECompare(op, l, r) ==
  [Over(l, r, TBool) EXCEPT
     !.compared = l.compared \cup r.compared \cup {<<l.type, r.type>>},
     !.guards = IF NullTest(op, l, r) THEN l.refs \cup r.refs ELSE l.guards \cup r.guards]


\* Mutant: null guards are looked for in the left operand only.
ELogicLeft(l, r) == [Over(l, r, TBool) EXCEPT !.guards = l.guards]

ELogic(l, r) == Over(l, r, TBool)
ENot(e) == Over(e, e, TBool)

\* Null guards are not looked for below an aggregate or an epistemic operator, and the
\* proof predicates do not look for field references below the latter.
EAggregate(e, type) == [Over(e, e, type) EXCEPT !.guards = {}]

EEpistemic(e, type) ==
  [Over(e, e, type) EXCEPT !.shape = "uncovered", !.named = {}, !.guards = {}]

EAnnounce(prop, body, type) ==
  [Over(prop, body, type) EXCEPT !.shape = "uncovered", !.named = {}, !.guards = {}]

----------------------------------------------------------------------------
(* Statements *)

Maybe(S) == {m \in SUBSET S : \A x, y \in m : x = y}

\* A SELECT item: the references the checker and the proof predicates see, and its type.
SelectItems ==
  {item \in [refs : SUBSET FieldRefs, named : SUBSET FieldRefs, type : Types] :
     item.named \subseteq item.refs}

SelField(ref) == [refs |-> {ref}, named |-> {ref}, type |-> ResolveType(ref)]
SelModality == [refs |-> {}, named |-> {}, type |-> Plain("octad")]
SelAggregate(e) == [refs |-> e.refs, named |-> {}, type |-> e.type]
SelStar == [refs |-> {}, named |-> {}, type |-> TAny]

Effects == {"read", "write", "readwrite", "consume"}
Versions == [kind : {"latest", "atleast", "exact", "range"}, low : Nat, high : Nat]
Linearity == [kind : {"unlimited", "useonce", "bounded"}, uses : Nat]
Requirements == [kind : {"knows", "believes", "common", "entails"}, from : Agents, to : Agents]
Epistemic == [agents : SUBSET Agents, requires : SUBSET Requirements]

Statements ==
  [select : SUBSET SelectItems, source : Sources, where : Maybe(Exprs),
   groupBy : SUBSET FieldRefs, having : Maybe(Exprs), orderBy : SUBSET FieldRefs,
   limit : Maybe(Nat), effects : Maybe(Effects), version : Maybe(Versions),
   linear : Maybe(Linearity), epistemic : Maybe(Epistemic)]

\* Mutant: the ORDER BY fields are forgotten.
FieldRefsUnordered(s) ==
  (UNION {item.refs : item \in s.select}) \cup (UNION {e.refs : e \in s.where})
    \cup s.groupBy \cup (UNION {e.refs : e \in s.having})

StatementFieldRefs(s) ==
  (UNION {item.refs : item \in s.select}) \cup (UNION {e.refs : e \in s.where})
    \cup s.groupBy \cup (UNION {e.refs : e \in s.having}) \cup s.orderBy

\* Of a subquery only the field references are looked at.
ESubquery(s) == [Leaf(Plain("octad"), "uncovered") EXCEPT !.refs = StatementFieldRefs(s)]

----------------------------------------------------------------------------
(* The level checks *)

SafetyLevels == 0 .. 10

Unguarded(e) == {ref \in e.refs : IsNullable(ref) /\ ref \notin e.guards}

CheckLevel1(s) == \A ref \in StatementFieldRefs(s) : Bound(ref)

CheckLevel2(s) == \A e \in s.where : \A p \in e.compared : TypesCompatible(p[1], p[2])

CheckLevel3(s) == \A e \in s.where \cup s.having : Unguarded(e) = {}

CheckLevel4(s) == \A e \in s.where : ~e.literal

CheckLevel5(s) == \A item \in s.select : item.type # TAny

CheckLevel6(s) == s.limit # {}
CheckLevel7(s) == s.effects # {}
CheckLevel8(s) == s.version # {}
CheckLevel9(s) == \E a \in s.linear : a.kind # "unlimited"

\* The agents a requirement names: COMMON KNOWLEDGE names none, ENTAILS names two.
NamedAgents(r) ==
  CASE r.kind = "common"  -> {}
    [] r.kind = "entails" -> {r.from, r.to}
    [] OTHER              -> {r.from}

\* Only an ENTAILS and its reverse make a circle (an agent entailing itself is both).
CircularEntails(requires) ==
  \E r, q \in requires :
    r.kind = "entails" /\ q.kind = "entails" /\ r.from = q.to /\ r.to = q.from

CheckLevel10(s) ==
  \E c \in s.epistemic :
    /\ c.agents # {}
    /\ \A r \in c.requires : NamedAgents(r) \subseteq c.agents
    /\ ~CircularEntails(c.requires)

DispatchLevel(level, s) ==
  CASE level = 0  -> TRUE
    [] level = 1  -> CheckLevel1(s)
    [] level = 2  -> CheckLevel2(s)
    [] level = 3  -> CheckLevel3(s)
    [] level = 4  -> CheckLevel4(s)
    [] level = 5  -> CheckLevel5(s)
    [] level = 6  -> CheckLevel6(s)
    [] level = 7  -> CheckLevel7(s)
    [] level = 8  -> CheckLevel8(s)
    [] level = 9  -> CheckLevel9(s)
    [] level = 10 -> CheckLevel10(s)

\* A statement stands at a level when every check up to it passes.
Certified(s, level) == \A k \in 0 .. level : DispatchLevel(k, s)
====
