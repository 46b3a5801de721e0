---- MODULE QueryCompositionProofs ----
(***************************************************************************)
(* Composition Preservation, proved for every schema, every set of parts   *)
(* and every number of joins.                                              *)
(***************************************************************************)
EXTENDS QueryComposition, TLAPS

----------------------------------------------------------------------------
(* Each clause of a join is a clause. *)

LEMMA LogicType ==
  ASSUME NEW l \in Exprs, NEW r \in Exprs
  PROVE  ELogic(l, r) \in Exprs
  BY DEF ELogic, Over, Exprs, TBool, Plain, Types, Bases, Shapes

LEMMA JoinWhereType ==
  ASSUME NEW a \in Maybe(Exprs), NEW b \in Maybe(Exprs)
  PROVE  JoinWhere(a, b) \in Maybe(Exprs)
  BY LogicType DEF JoinWhere, Maybe

LEMMA JoinEffectsType ==
  ASSUME NEW a \in Maybe(Effects), NEW b \in Maybe(Effects)
  PROVE  JoinEffects(a, b) \in Maybe(Effects)
  BY DEF JoinEffects, JoinEffect, Maybe, Effects

LEMMA JoinVersionOfType ==
  ASSUME NEW v \in Versions, NEW w \in Versions
  PROVE  JoinVersionOf(v, w) \in Versions
  BY DEF JoinVersionOf, Versions, Larger, Smaller

LEMMA JoinVersionType ==
  ASSUME NEW a \in Maybe(Versions), NEW b \in Maybe(Versions)
  PROVE  JoinVersion(a, b) \in Maybe(Versions)
  BY JoinVersionOfType DEF JoinVersion, Maybe

LEMMA JoinLinearOfType ==
  ASSUME NEW v \in Linearity, NEW w \in Linearity
  PROVE  JoinLinearOf(v, w) \in Linearity
  BY DEF JoinLinearOf, Linearity, Smaller

LEMMA JoinLinearType ==
  ASSUME NEW a \in Maybe(Linearity), NEW b \in Maybe(Linearity)
  PROVE  JoinLinear(a, b) \in Maybe(Linearity)
  BY JoinLinearOfType DEF JoinLinear, Maybe

LEMMA JoinEpistemicType ==
  ASSUME NEW a \in Maybe(Epistemic), NEW b \in Maybe(Epistemic)
  PROVE  JoinEpistemic(a, b) \in Maybe(Epistemic)
<1>1. ASSUME NEW c \in Epistemic, NEW d \in Epistemic
      PROVE  JoinEpistemicOf(c, d) \in Epistemic
  BY DEF JoinEpistemicOf, Epistemic
<1> QED BY <1>1 DEF JoinEpistemic, Maybe

LEMMA JoinLimitType ==
  ASSUME NEW a \in Maybe(Nat), NEW b \in Maybe(Nat)
  PROVE  JoinLimit(a, b) \in Maybe(Nat)
  BY DEF JoinLimit, Maybe, Smaller

LEMMA ComposeJoinType ==
  ASSUME NEW p \in Statements, NEW q \in Statements
  PROVE  ComposeJoin(p, q) \in Statements
<1>1. /\ JoinWhere(p.where, q.where) \in Maybe(Exprs)
      /\ JoinLimit(p.limit, q.limit) \in Maybe(Nat)
      /\ JoinEffects(p.effects, q.effects) \in Maybe(Effects)
      /\ JoinVersion(p.version, q.version) \in Maybe(Versions)
      /\ JoinLinear(p.linear, q.linear) \in Maybe(Linearity)
      /\ JoinEpistemic(p.epistemic, q.epistemic) \in Maybe(Epistemic)
  BY JoinWhereType, JoinLimitType, JoinEffectsType, JoinVersionType, JoinLinearType,
     JoinEpistemicType DEF Statements
<1>2. {} \in Maybe(Exprs)
  BY DEF Maybe
<1> QED BY <1>1, <1>2 DEF ComposeJoin, Statements

\* Every variable keeps its type, whatever is joined.
THEOREM CompositionTypes == Spec => []TypeOK
<1>1. Init => TypeOK
  BY PartsAssumption DEF Init, TypeOK
<1>2. TypeOK /\ [Next]_vars => TypeOK'
  <2> SUFFICES ASSUME TypeOK, [Next]_vars PROVE TypeOK'
    OBVIOUS
  <2>1. ASSUME NEW part \in Parts, Join(part) PROVE TypeOK'
    BY <2>1, ComposeJoinType, PartsAssumption DEF Join, TypeOK
  <2>2. CASE UNCHANGED vars
    BY <2>2 DEF vars, TypeOK
  <2> QED BY <2>1, <2>2 DEF Next
<1> QED BY <1>1, <1>2, PTL DEF Spec

----------------------------------------------------------------------------
(* What a join does to the clauses a level looks at. *)

\* The condition of a join: one of the two, or their conjunction.
LEMMA JoinWhereCases ==
  ASSUME NEW a \in Maybe(Exprs), NEW b \in Maybe(Exprs), NEW e \in JoinWhere(a, b)
  PROVE  \/ e \in a
         \/ e \in b
         \/ \E l \in a, r \in b : e = ELogic(l, r)
  BY DEF JoinWhere

\* A clause is present in the join when it is present on either side.
LEMMA JoinPresent ==
  ASSUME NEW p \in Statements, NEW q \in Statements
  PROVE  /\ p.limit # {} => JoinLimit(p.limit, q.limit) # {}
         /\ p.effects # {} => JoinEffects(p.effects, q.effects) # {}
         /\ p.version # {} => JoinVersion(p.version, q.version) # {}
         /\ p.linear # {} => JoinLinear(p.linear, q.linear) # {}
         /\ p.epistemic # {} => JoinEpistemic(p.epistemic, q.epistemic) # {}
  BY DEF JoinLimit, JoinEffects, JoinVersion, JoinLinear, JoinEpistemic

\* The join refers to no field that neither side refers to.
LEMMA JoinFieldRefs ==
  ASSUME NEW p \in Statements, NEW q \in Statements
  PROVE  StatementFieldRefs(ComposeJoin(p, q))
           \subseteq StatementFieldRefs(p) \cup StatementFieldRefs(q)
<1>1. ASSUME NEW e \in JoinWhere(p.where, q.where), NEW ref \in e.refs
      PROVE  \E x \in p.where \cup q.where : ref \in x.refs
  <2>1. /\ p.where \in Maybe(Exprs) /\ q.where \in Maybe(Exprs)
    BY DEF Statements
  <2>2. ASSUME NEW l \in p.where, NEW r \in q.where, e = ELogic(l, r)
        PROVE  ref \in l.refs \/ ref \in r.refs
    BY <1>1, <2>2 DEF ELogic, Over
  <2> QED BY <1>1, <2>1, <2>2, JoinWhereCases
<1> QED BY <1>1 DEF StatementFieldRefs, ComposeJoin

LEMMA JoinNamedFieldRefs ==
  ASSUME NEW p \in Statements, NEW q \in Statements
  PROVE  NamedFieldRefs(ComposeJoin(p, q)) \subseteq NamedFieldRefs(p) \cup NamedFieldRefs(q)
<1>1. ASSUME NEW e \in JoinWhere(p.where, q.where), NEW ref \in e.named
      PROVE  \E x \in p.where \cup q.where : ref \in x.named
  <2>1. /\ p.where \in Maybe(Exprs) /\ q.where \in Maybe(Exprs)
    BY DEF Statements
  <2>2. ASSUME NEW l \in p.where, NEW r \in q.where, e = ELogic(l, r)
        PROVE  ref \in l.named \/ ref \in r.named
    BY <1>1, <2>2 DEF ELogic, Over
  <2> QED BY <1>1, <2>1, <2>2, JoinWhereCases
<1> QED BY <1>1 DEF NamedFieldRefs, ComposeJoin

----------------------------------------------------------------------------
(* Every check up to level 9 that both sides pass, the join passes. *)

LEMMA JoinPasses ==
  ASSUME NEW p \in Statements, NEW q \in Statements, NEW k \in 0 .. 9,
         DispatchLevel(k, p), DispatchLevel(k, q)
  PROVE  DispatchLevel(k, ComposeJoin(p, q))
<1> DEFINE j == ComposeJoin(p, q)
<1>1. /\ p.where \in Maybe(Exprs) /\ q.where \in Maybe(Exprs)
      /\ j.where = JoinWhere(p.where, q.where) /\ j.having = {}
      /\ j.select = p.select \cup q.select
      /\ j.limit = JoinLimit(p.limit, q.limit)
      /\ j.effects = JoinEffects(p.effects, q.effects)
      /\ j.version = JoinVersion(p.version, q.version)
      /\ j.linear = JoinLinear(p.linear, q.linear)
  BY DEF Statements, ComposeJoin
<1> HIDE DEF j
<1>2. CASE k = 0
  BY <1>2 DEF DispatchLevel
<1>3. CASE k = 1
  BY <1>3, JoinFieldRefs DEF DispatchLevel, CheckLevel1, j
<1>4. CASE k = 2
  <2>1. CheckLevel2(p) /\ CheckLevel2(q)
    BY <1>4 DEF DispatchLevel
  <2>2. ASSUME NEW e \in j.where, NEW c \in e.compared PROVE TypesCompatible(c[1], c[2])
    <3>1. CASE \E l \in p.where, r \in q.where : e = ELogic(l, r)
      BY <2>1, <2>2, <3>1 DEF CheckLevel2, ELogic, Over
    <3> QED BY <1>1, <2>1, <2>2, <3>1, JoinWhereCases DEF CheckLevel2
  <2> QED BY <1>4, <2>2 DEF DispatchLevel, CheckLevel2, j
<1>5. CASE k = 3
  <2>1. CheckLevel3(p) /\ CheckLevel3(q)
    BY <1>5 DEF DispatchLevel
  <2>2. ASSUME NEW e \in j.where PROVE Unguarded(e) = {}
    <3>1. CASE \E l \in p.where, r \in q.where : e = ELogic(l, r)
      BY <2>1, <3>1 DEF CheckLevel3, Unguarded, ELogic, Over
    <3> QED BY <1>1, <2>1, <2>2, <3>1, JoinWhereCases DEF CheckLevel3
  <2> QED BY <1>1, <1>5, <2>2 DEF DispatchLevel, CheckLevel3, j
<1>6. CASE k = 4
  <2>1. CheckLevel4(p) /\ CheckLevel4(q)
    BY <1>6 DEF DispatchLevel
  <2>2. ASSUME NEW e \in j.where PROVE ~e.literal
    <3>1. ASSUME NEW l \in p.where, NEW r \in q.where, e = ELogic(l, r) PROVE ~e.literal
      <4>1. ~l.literal /\ ~r.literal
        BY <2>1 DEF CheckLevel4
      <4>2. e.literal = (l.literal \/ r.literal)
        BY <3>1 DEF ELogic, Over
      <4> QED BY <4>1, <4>2
    <3> QED BY <1>1, <2>1, <2>2, <3>1, JoinWhereCases DEF CheckLevel4
  <2> QED BY <1>6, <2>2 DEF DispatchLevel, CheckLevel4, j
<1>7. CASE k = 5
  BY <1>1, <1>7 DEF DispatchLevel, CheckLevel5, j
<1>8. CASE k = 6
  BY <1>1, <1>8, JoinPresent DEF DispatchLevel, CheckLevel6, j
<1>9. CASE k = 7
  BY <1>1, <1>9, JoinPresent DEF DispatchLevel, CheckLevel7, j
<1>10. CASE k = 8
  BY <1>1, <1>10, JoinPresent DEF DispatchLevel, CheckLevel8, j
<1>11. CASE k = 9
  <2>1. CheckLevel9(p) /\ CheckLevel9(q) /\ p.linear \in Maybe(Linearity) /\ q.linear \in Maybe(Linearity)
    BY <1>11 DEF DispatchLevel, Statements
  <2>2. PICK v \in p.linear, w \in q.linear : v.kind # "unlimited" /\ w.kind # "unlimited"
    BY <2>1 DEF CheckLevel9
  <2>3. v \in Linearity /\ w \in Linearity
    BY <2>1, <2>2 DEF Maybe
  <2>4. JoinLinearOf(v, w).kind # "unlimited"
    BY <2>2, <2>3 DEF JoinLinearOf, Linearity
  <2>5. JoinLinearOf(v, w) \in JoinLinear(p.linear, q.linear)
    BY <2>2 DEF JoinLinear
  <2> QED BY <1>1, <1>11, <2>4, <2>5 DEF DispatchLevel, CheckLevel9, j
<1> QED BY <1>2, <1>3, <1>4, <1>5, <1>6, <1>7, <1>8, <1>9, <1>10, <1>11

\* Composition Preservation for the pipeline's checks: however many parts are joined, in
\* whatever order, a check of the levels 0 to 9 that every one of them passes is passed by
\* the composed query.
THEOREM CompositionPreservation == Spec => []ChecksPreserved
<1>1. Init => ChecksPreserved
  BY DEF Init, ChecksPreserved, PreservedAt
<1>2. TypeOK /\ ChecksPreserved /\ [Next]_vars => ChecksPreserved'
  <2> SUFFICES ASSUME TypeOK, ChecksPreserved, [Next]_vars,
                      NEW k \in 0 .. 9, \A p \in joined' : DispatchLevel(k, p)
               PROVE  DispatchLevel(k, query')
    BY DEF ChecksPreserved, PreservedAt
  <2>1. ASSUME NEW part \in Parts, Join(part) PROVE DispatchLevel(k, query')
    <3>1. DispatchLevel(k, query) /\ DispatchLevel(k, part)
      BY <2>1 DEF Join, ChecksPreserved, PreservedAt
    <3>2. query \in Statements /\ part \in Statements
      BY PartsAssumption DEF TypeOK
    <3> QED BY <2>1, <3>1, <3>2, JoinPasses DEF Join
  <2>2. CASE UNCHANGED vars
    BY <2>2 DEF vars, ChecksPreserved, PreservedAt
  <2> QED BY <2>1, <2>2 DEF Next
<1> QED BY <1>1, <1>2, CompositionTypes, PTL DEF Spec

----------------------------------------------------------------------------
(* The proof predicates are preserved at every level. *)

LEMMA JoinProvable ==
  ASSUME NEW p \in Statements, NEW q \in Statements, NEW k \in SafetyLevels,
         Provable(k, p), Provable(k, q)
  PROVE  Provable(k, ComposeJoin(p, q))
<1> DEFINE j == ComposeJoin(p, q)
<1>1. /\ p.where \in Maybe(Exprs) /\ q.where \in Maybe(Exprs)
      /\ j.where = JoinWhere(p.where, q.where)
      /\ j.limit = JoinLimit(p.limit, q.limit)
      /\ j.effects = JoinEffects(p.effects, q.effects)
      /\ j.version = JoinVersion(p.version, q.version)
      /\ j.linear = JoinLinear(p.linear, q.linear)
      /\ j.epistemic = JoinEpistemic(p.epistemic, q.epistemic)
  BY DEF Statements, ComposeJoin
<1> HIDE DEF j
<1>2. CASE k = 1
  BY <1>2, JoinNamedFieldRefs DEF Provable, j
<1>3. CASE k = 2
  <2>1. ASSUME NEW e \in j.where PROVE ExprTypeSafe(e)
    <3>1. CASE \E l \in p.where, r \in q.where : e = ELogic(l, r)
      BY <3>1 DEF ExprTypeSafe, ELogic, Over
    <3> QED BY <1>1, <1>3, <2>1, <3>1, JoinWhereCases DEF Provable
  <2> QED BY <1>3, <2>1 DEF Provable, j
<1>4. CASE k \in {6, 7, 8, 9, 10}
  BY <1>1, <1>4, JoinPresent DEF Provable, j
<1>5. CASE k \in {0, 3, 4, 5}
  BY <1>5 DEF Provable
<1> QED BY <1>2, <1>3, <1>4, <1>5 DEF SafetyLevels

\* Composition Preservation as Composition.idr proves it: when every part has a
\* certificate for a level, the composed query has one, for all eleven levels.
THEOREM CertificatePreservation == Spec => []CertificatesPreserved
<1>1. Init => CertificatesPreserved
  BY DEF Init, CertificatesPreserved
<1>2. TypeOK /\ CertificatesPreserved /\ [Next]_vars => CertificatesPreserved'
  <2> SUFFICES ASSUME TypeOK, CertificatesPreserved, [Next]_vars,
                      NEW k \in SafetyLevels, \A p \in joined' : HasCertificate(p, k)
               PROVE  HasCertificate(query', k)
    BY DEF CertificatesPreserved
  <2>1. ASSUME NEW part \in Parts, Join(part) PROVE HasCertificate(query', k)
    <3>1. HasCertificate(query, k) /\ HasCertificate(part, k)
      BY <2>1 DEF Join, CertificatesPreserved
    <3>2. query \in Statements /\ part \in Statements
      BY PartsAssumption DEF TypeOK
    <3>3. ASSUME NEW i \in 0 .. k PROVE Provable(i, query')
      <4>1. i \in SafetyLevels
        BY DEF SafetyLevels
      <4> QED BY <2>1, <3>1, <3>2, <4>1, JoinProvable DEF Join, HasCertificate
    <3> QED BY <3>3 DEF HasCertificate
  <2>2. CASE UNCHANGED vars
    BY <2>2 DEF vars, CertificatesPreserved
  <2> QED BY <2>1, <2>2 DEF Next
<1> QED BY <1>1, <1>2, CompositionTypes, PTL DEF Spec

----------------------------------------------------------------------------
(* Bounds never grow. *)

LEMMA JoinLimitTightens ==
  ASSUME NEW a \in Maybe(Nat), NEW b \in Maybe(Nat)
  PROVE  /\ \A n \in a : \E m \in JoinLimit(a, b) : m <= n
         /\ \A n \in b : \E m \in JoinLimit(a, b) : m <= n
<1>1. a \subseteq Nat /\ b \subseteq Nat
  BY DEF Maybe
<1>2. CASE a = {} \/ b = {}
  BY <1>1, <1>2 DEF JoinLimit
<1>3. CASE a # {} /\ b # {}
  <2>1. ASSUME NEW m \in a, NEW n \in b
        PROVE  \E k \in JoinLimit(a, b) : k <= m /\ k <= n
    <3>1. Smaller(m, n) <= m /\ Smaller(m, n) <= n
      BY <1>1 DEF Smaller
    <3>2. Smaller(m, n) \in JoinLimit(a, b)
      BY <1>3 DEF JoinLimit
    <3> QED BY <3>1, <3>2
  <2> QED BY <1>3, <2>1
<1> QED BY <1>2, <1>3

\* An annotation b grants no more than an annotation a, in the sense of BoundsTighten.
Tightens(b, a) ==
  a.kind # "unlimited" => b.kind # "unlimited" /\ Grants(b) <= Larger(1, Grants(a))

LEMMA TightensReflexive ==
  ASSUME NEW a \in Linearity
  PROVE  Tightens(a, a)
  BY DEF Tightens, Linearity, Grants, Larger

\* Joining tightens what either side tightened already.
LEMMA JoinLinearOfTightens ==
  ASSUME NEW a \in Linearity, NEW v \in Linearity, NEW w \in Linearity
  PROVE  /\ Tightens(v, a) => Tightens(JoinLinearOf(v, w), a)
         /\ Tightens(w, a) => Tightens(JoinLinearOf(v, w), a)
  BY DEF Tightens, Linearity, Grants, Larger, JoinLinearOf, Smaller

LEMMA JoinLinearTightens ==
  ASSUME NEW a \in Linearity, NEW V \in Maybe(Linearity), NEW W \in Maybe(Linearity),
         \/ \E v \in V : Tightens(v, a)
         \/ \E w \in W : Tightens(w, a)
  PROVE  \E b \in JoinLinear(V, W) : Tightens(b, a)
<1>1. V \subseteq Linearity /\ W \subseteq Linearity
  BY DEF Maybe
<1>2. CASE V = {} \/ W = {}
  BY <1>2 DEF JoinLinear
<1>3. CASE V # {} /\ W # {}
  <2>1. PICK v \in V, w \in W : Tightens(v, a) \/ Tightens(w, a)
    BY <1>3
  <2>2. JoinLinearOf(v, w) \in JoinLinear(V, W)
    BY <1>3 DEF JoinLinear
  <2> QED BY <1>1, <2>1, <2>2, JoinLinearOfTightens
<1> QED BY <1>2, <1>3

\* Stricter wins: however many parts are joined, the composed query grants no part more
\* rows or uses than the part's own clauses do.
THEOREM BoundsTheorem == Spec => []BoundsTighten
<1> DEFINE Bounded(q, p) == /\ \A n \in p.limit : \E m \in q.limit : m <= n
                            /\ \A a \in p.linear : \E b \in q.linear : Tightens(b, a)
<1>1. BoundsTighten <=> \A p \in joined : Bounded(query, p)
  BY DEF BoundsTighten, Tightens
<1>2. ASSUME NEW p \in Statements PROVE Bounded(p, p)
  <2>1. p.limit \subseteq Nat /\ p.linear \subseteq Linearity
    BY DEF Statements, Maybe
  <2> QED BY <2>1, TightensReflexive
<1>3. Init => BoundsTighten
  BY <1>1, <1>2, PartsAssumption DEF Init
<1>4. TypeOK /\ BoundsTighten /\ [Next]_vars => BoundsTighten'
  <2> SUFFICES ASSUME TypeOK, BoundsTighten, [Next]_vars PROVE BoundsTighten'
    OBVIOUS
  <2>1. ASSUME NEW part \in Parts, Join(part), NEW p \in joined' PROVE Bounded(query', p)
    <3>1. /\ query \in Statements /\ part \in Statements /\ p \in Statements
          /\ p \in joined \/ p = part
      BY <2>1, PartsAssumption DEF TypeOK, Join
    <3>2. Bounded(query, p) \/ Bounded(part, p)
      BY <1>1, <1>2, <3>1
    <3>3. /\ query'.limit = JoinLimit(query.limit, part.limit)
          /\ query'.linear = JoinLinear(query.linear, part.linear)
      BY <2>1 DEF Join, ComposeJoin
    <3>4. /\ query.limit \in Maybe(Nat) /\ part.limit \in Maybe(Nat) /\ p.limit \subseteq Nat
          /\ query.linear \in Maybe(Linearity) /\ part.linear \in Maybe(Linearity)
          /\ p.linear \subseteq Linearity
      BY <3>1 DEF Statements, Maybe
    <3>5. ASSUME NEW n \in p.limit PROVE \E m \in query'.limit : m <= n
      <4>1. PICK k \in query.limit \cup part.limit : k <= n
        BY <3>2, <3>5
      <4>2. PICK m \in query'.limit : m <= k
        BY <3>3, <3>4, <4>1, JoinLimitTightens
      <4>3. JoinLimit(query.limit, part.limit) \subseteq Nat
        BY <3>4, JoinLimitType DEF Maybe
      <4>4. m \in Nat /\ k \in Nat /\ n \in Nat
        BY <3>3, <3>4, <4>3 DEF Maybe
      <4> QED BY <4>1, <4>2, <4>4
    <3>6. ASSUME NEW a \in p.linear PROVE \E b \in query'.linear : Tightens(b, a)
      BY <3>2, <3>3, <3>4, <3>6, JoinLinearTightens
    <3> QED BY <3>5, <3>6
  <2>2. CASE UNCHANGED vars
    BY <2>2 DEF vars, BoundsTighten
  <2>3. CASE \E part \in Parts : Join(part)
    <3>1. \A p \in joined' : Bounded(query', p)
      BY <2>1, <2>3
    <3> QED BY <3>1 DEF BoundsTighten, Tightens
  <2> QED BY <2>2, <2>3 DEF Next
<1> QED BY <1>3, <1>4, CompositionTypes, PTL DEF Spec

----------------------------------------------------------------------------
(* What the clauses of a long chain of joins come to. *)

\* The effects of a clause.
Kept(a) == UNION {EffectsOf(e) : e \in a}

LEMMA KeptIn ==
  ASSUME NEW a, NEW x
  PROVE  x \in Kept(a) <=> \E e \in a : x \in EffectsOf(e)
BY DEF Kept

LEMMA JoinEffectsCombine ==
  ASSUME NEW a \in Maybe(Effects), NEW b \in Maybe(Effects)
  PROVE  /\ Kept(JoinEffects(a, b)) \subseteq Kept(a) \cup Kept(b)
         /\ "consume" \notin Kept(a) \cup Kept(b) =>
              Kept(JoinEffects(a, b)) = Kept(a) \cup Kept(b)
<1>1. CASE a = {} \/ b = {}
  <2>1. Kept({}) = {}
    BY DEF Kept
  <2> QED BY <1>1, <2>1 DEF JoinEffects
<1>2. CASE a # {} /\ b # {}
  <2>1. PICK e \in Effects, f \in Effects : a = {e} /\ b = {f}
    BY <1>2 DEF Maybe
  <2>2. JoinEffects(a, b) = {JoinEffect(e, f)}
    BY <1>2, <2>1 DEF JoinEffects
  <2>3. \A g : Kept({g}) = EffectsOf(g)
    BY DEF Kept
  <2>4. /\ Kept(a) = EffectsOf(e) /\ Kept(b) = EffectsOf(f)
        /\ Kept(JoinEffects(a, b)) = EffectsOf(JoinEffect(e, f))
    BY <2>1, <2>2, <2>3
  <2>5. EffectsOf(JoinEffect(e, f)) \subseteq EffectsOf(e) \cup EffectsOf(f)
    BY DEF JoinEffect, EffectsOf, Effects
  <2>6. "consume" \notin EffectsOf(e) \cup EffectsOf(f) =>
          EffectsOf(JoinEffect(e, f)) = EffectsOf(e) \cup EffectsOf(f)
    BY DEF JoinEffect, EffectsOf, Effects
  <2> QED BY <2>4, <2>5, <2>6
<1> QED BY <1>1, <1>2

\* The constraints of the versions a query may read: v is what the constraints ws of one
\* kind come to.
Intersects(v, ws, kind) ==
  /\ v.kind = kind
  /\ \A w \in ws : w.low <= v.low
  /\ \E w \in ws : w.low = v.low
  /\ kind = "range" =>
       /\ \A w \in ws : v.high <= w.high
       /\ \E w \in ws : w.high = v.high

LEMMA JoinVersionIntersects ==
  ASSUME NEW v \in Versions, NEW u \in Versions, NEW ws \in SUBSET Versions,
         NEW kind \in {"atleast", "range"}, Intersects(v, ws, kind), u.kind = kind
  PROVE  Intersects(JoinVersionOf(v, u), ws \cup {u}, kind)
<1>1. v.kind = kind /\ v.low \in Nat /\ v.high \in Nat /\ u.low \in Nat /\ u.high \in Nat
  BY DEF Intersects, Versions
<1>2. \A w \in ws : w.low \in Nat /\ w.high \in Nat
  BY DEF Versions
<1>3. PICK j : j = JoinVersionOf(v, u)
  OBVIOUS
<1>4. j.kind = kind /\ j.low = Larger(v.low, u.low)
  BY <1>1, <1>3 DEF JoinVersionOf, Versions
<1>5. kind = "range" => j.high = Smaller(v.high, u.high)
  BY <1>1, <1>3 DEF JoinVersionOf, Versions
<1>6. /\ \A w \in ws \cup {u} : w.low <= j.low
      /\ \E w \in ws \cup {u} : w.low = j.low
  BY <1>1, <1>2, <1>4 DEF Intersects, Larger
<1>7. kind = "range" => /\ \A w \in ws \cup {u} : j.high <= w.high
                        /\ \E w \in ws \cup {u} : w.high = j.high
  BY <1>1, <1>2, <1>5 DEF Intersects, Smaller
<1> QED BY <1>3, <1>4, <1>6, <1>7 DEF Intersects

LEMMA AloneIntersects ==
  ASSUME NEW u \in Versions
  PROVE  Intersects(u, {u}, u.kind)
BY DEF Intersects, Versions

\* The constraints ws come to the clause version of a query.
Reduces(version, ws) ==
  /\ version = {} => ws = {}
  /\ \A kind \in {"atleast", "range"} : \A v \in version :
       (\A w \in ws : w.kind = kind) => Intersects(v, ws, kind)

LEMMA JoinReduces ==
  ASSUME NEW a \in Maybe(Versions), NEW b \in Maybe(Versions), NEW ws \in SUBSET Versions,
         Reduces(a, ws)
  PROVE  Reduces(JoinVersion(a, b), ws \cup b)
<1>1. CASE b = {}
  BY <1>1 DEF JoinVersion, Reduces
<1>2. CASE a = {} /\ b # {}
  <2>1. PICK u \in Versions : b = {u}
    BY <1>2 DEF Maybe
  <2>2. JoinVersion(a, b) = {u} /\ ws \cup b = {u}
    BY <1>2, <2>1 DEF JoinVersion, Reduces
  <2> QED BY <2>1, <2>2, AloneIntersects DEF Reduces
<1>3. CASE a # {} /\ b # {}
  <2>1. PICK v \in Versions, u \in Versions : a = {v} /\ b = {u}
    BY <1>3 DEF Maybe
  <2>2. JoinVersion(a, b) = {JoinVersionOf(v, u)}
    BY <1>3, <2>1 DEF JoinVersion
  <2>3. ASSUME NEW kind \in {"atleast", "range"}, \A w \in ws \cup {u} : w.kind = kind
        PROVE  Intersects(JoinVersionOf(v, u), ws \cup {u}, kind)
    <3>1. Intersects(v, ws, kind) /\ u.kind = kind
      BY <2>1, <2>3 DEF Reduces
    <3> QED BY <3>1, JoinVersionIntersects
  <2> QED BY <2>1, <2>2, <2>3 DEF Reduces
<1> QED BY <1>1, <1>2, <1>3

\* The effects and the constraints of one part more.
LEMMA OnePartMore ==
  ASSUME NEW part, Join(part)
  PROVE  /\ Declared' = Declared \cup Kept(part.effects)
         /\ Constraints' = Constraints \cup part.version
         /\ query'.effects = JoinEffects(query.effects, part.effects)
         /\ query'.version = JoinVersion(query.version, part.version)
<1>1. joined' = joined \cup {part}
  BY DEF Join
<1>2. Declared' = Declared \cup Kept(part.effects)
  BY <1>1 DEF Declared, Kept
<1>3. Constraints' = Constraints \cup part.version
  BY <1>1 DEF Constraints
<1> QED BY <1>2, <1>3 DEF Join, ComposeJoin

Combined == EffectsCombined /\ Reduces(query.version, Constraints)

LEMMA ClauseTypes ==
  ASSUME NEW p \in Statements
  PROVE  p.effects \in Maybe(Effects) /\ p.version \in Maybe(Versions)
BY DEF Statements

\* However many parts are joined, in whatever order: the composed query declares no effect
\* of its own, all effects of its parts when none of them consumes, and the intersection of
\* their version constraints when these are of one kind.
THEOREM ClausesTheorem == Spec => []ClausesCombine
<1>1. Combined => ClausesCombine
  BY DEF Combined, ClausesCombine, VersionsCombined, Reduces, Intersects
<1>2. Init => Combined
  <2> SUFFICES ASSUME Init PROVE Combined
    OBVIOUS
  <2>1. query \in Statements /\ joined = {query}
    BY PartsAssumption DEF Init
  <2>2. Declared = Kept(query.effects) /\ Constraints = query.version
    BY <2>1 DEF Declared, Kept, Constraints
  <2>3. EffectsCombined
    BY <2>2 DEF EffectsCombined, Kept
  <2>4. query.version = {} \/ \E u \in Versions : query.version = {u}
    BY <2>1, ClauseTypes DEF Maybe
  <2>5. Reduces(query.version, query.version)
    BY <2>4, AloneIntersects DEF Reduces
  <2> QED BY <2>2, <2>3, <2>5 DEF Combined
<1>3. TypeOK /\ Combined /\ [Next]_vars => Combined'
  <2> SUFFICES ASSUME TypeOK, Combined, [Next]_vars PROVE Combined'
    OBVIOUS
  <2>1. ASSUME NEW part \in Parts, Join(part) PROVE Combined'
    <3>1. /\ query.effects \in Maybe(Effects) /\ part.effects \in Maybe(Effects)
          /\ query.version \in Maybe(Versions) /\ part.version \in Maybe(Versions)
      BY PartsAssumption, ClauseTypes DEF TypeOK
    <3>2. Constraints \in SUBSET Versions
      BY PartsAssumption, ClauseTypes DEF Constraints, TypeOK, Maybe
    <3>3. Reduces(JoinVersion(query.version, part.version), Constraints \cup part.version)
      BY <3>1, <3>2, JoinReduces DEF Combined
    <3>4. Kept(query.effects) \subseteq Declared
          /\ ("consume" \notin Declared => Kept(query.effects) = Declared)
      BY DEF Combined, EffectsCombined, Kept
    <3>5. PICK a, b, k : a = Kept(query.effects) /\ b = Kept(part.effects)
                         /\ k = Kept(JoinEffects(query.effects, part.effects))
      OBVIOUS
    <3>6. k \subseteq a \cup b /\ ("consume" \notin a \cup b => k = a \cup b)
      BY <3>1, <3>5, JoinEffectsCombine
    <3>7. k \subseteq Declared \cup b
          /\ ("consume" \notin Declared \cup b => k = Declared \cup b)
      BY <3>4, <3>5, <3>6
    <3>8. EffectsCombined'
      BY <2>1, <3>5, <3>7, OnePartMore DEF EffectsCombined, Kept
    <3> QED BY <2>1, <3>3, <3>8, OnePartMore DEF Combined
  <2>2. CASE UNCHANGED vars
    BY <2>2 DEF vars, Combined, EffectsCombined, Declared, Constraints
  <2> QED BY <2>1, <2>2 DEF Next
<1> QED BY <1>1, <1>2, <1>3, CompositionTypes, PTL DEF Spec

----------------------------------------------------------------------------
(* Knowledge requirements. *)

\* The agents of a clause are those its requirements name, and there are some.
Grounded(c) == c.agents # {} /\ \A r \in c.requires : NamedAgents(r) \subseteq c.agents

\* Every requirement of the clause is one of a part.
FromParts(c, parts) ==
  \A r \in c.requires : \E p \in parts : \E d \in p.epistemic : r \in d.requires

LEMMA JoinGrounded ==
  ASSUME NEW c, NEW d, Grounded(c), Grounded(d)
  PROVE  Grounded(JoinEpistemicOf(c, d))
<1>1. PICK j : j = JoinEpistemicOf(c, d)
  OBVIOUS
<1>2. j.agents = c.agents \cup d.agents /\ j.requires = c.requires \cup d.requires
  BY <1>1 DEF JoinEpistemicOf
<1> QED BY <1>1, <1>2 DEF Grounded

LEMMA JoinFromParts ==
  ASSUME NEW c, NEW d, NEW parts, NEW part, FromParts(c, parts), d \in part.epistemic
  PROVE  FromParts(JoinEpistemicOf(c, d), parts \cup {part})
<1>1. PICK j : j = JoinEpistemicOf(c, d)
  OBVIOUS
<1>2. j.requires = c.requires \cup d.requires
  BY <1>1 DEF JoinEpistemicOf
<1> QED BY <1>1, <1>2 DEF FromParts

\* What is sure of the knowledge a composed query requires when its parts pass level 10.
Known ==
  (\A p \in joined : CheckLevel10(p)) =>
    \E c \in query.epistemic : Grounded(c) /\ FromParts(c, joined)

\* Joining parts whose knowledge requirements are sound leaves them sound but for circles
\* that lead from one part to another: no agent gets lost, however many parts are joined, and
\* the parts themselves bring no circle.
THEOREM CirclesTheorem == Spec => []CirclesSpanParts
<1>1. TypeOK /\ Known => CirclesSpanParts
  <2> SUFFICES ASSUME TypeOK, Known, \A p \in joined : CheckLevel10(p), ~CheckLevel10(query)
               PROVE  \E p, q \in joined : p # q /\ Opposed(p, q)
    BY DEF CirclesSpanParts
  <2>1. PICK c \in query.epistemic : Grounded(c) /\ FromParts(c, joined)
    BY DEF Known
  <2>2. CircularEntails(c.requires)
    BY <2>1 DEF Grounded, CheckLevel10
  <2>3. PICK r \in c.requires, s \in c.requires :
          r.kind = "entails" /\ s.kind = "entails" /\ r.from = s.to /\ r.to = s.from
    BY <2>2 DEF CircularEntails
  <2>4. PICK p \in joined : \E d \in p.epistemic : r \in d.requires
    BY <2>1 DEF FromParts
  <2>5. PICK q \in joined : \E e \in q.epistemic : s \in e.requires
    BY <2>1 DEF FromParts
  <2>6. Opposed(p, q)
    BY <2>3, <2>4, <2>5 DEF Opposed
  <2>7. p # q
    <3> SUFFICES ASSUME p = q PROVE FALSE
      OBVIOUS
    <3>1. p \in Statements /\ CheckLevel10(p)
      BY PartsAssumption DEF TypeOK
    <3>2. \A x, y \in p.epistemic : x = y
      BY <3>1 DEF Statements, Maybe
    <3>3. PICK d \in p.epistemic : ~CircularEntails(d.requires)
      BY <3>1 DEF CheckLevel10
    <3>4. r \in d.requires /\ s \in d.requires
      BY <2>4, <2>5, <3>2, <3>3
    <3> QED BY <2>3, <3>3, <3>4 DEF CircularEntails
  <2> QED BY <2>6, <2>7
<1>2. Init => Known
  <2> SUFFICES ASSUME Init, CheckLevel10(query)
               PROVE  \E c \in query.epistemic : Grounded(c) /\ FromParts(c, joined)
    BY DEF Init, Known
  <2> QED BY DEF Init, CheckLevel10, Grounded, FromParts
<1>3. Known /\ [Next]_vars => Known'
  <2> SUFFICES ASSUME Known, [Next]_vars PROVE Known'
    OBVIOUS
  <2>1. ASSUME NEW part \in Parts, Join(part), \A p \in joined' : CheckLevel10(p)
        PROVE  \E c \in query'.epistemic : Grounded(c) /\ FromParts(c, joined')
    <3>1. /\ joined' = joined \cup {part}
          /\ query'.epistemic = JoinEpistemic(query.epistemic, part.epistemic)
      BY <2>1 DEF Join, ComposeJoin
    <3>2. PICK c \in query.epistemic : Grounded(c) /\ FromParts(c, joined)
      BY <2>1, <3>1 DEF Known
    <3>3. PICK d \in part.epistemic : Grounded(d)
      BY <2>1, <3>1 DEF CheckLevel10, Grounded
    <3>4. JoinEpistemicOf(c, d) \in query'.epistemic
      BY <3>1, <3>2, <3>3 DEF JoinEpistemic
    <3> QED BY <3>1, <3>2, <3>3, <3>4, JoinGrounded, JoinFromParts
  <2>2. CASE UNCHANGED vars
    BY <2>2 DEF vars, Known
  <2> QED BY <2>1, <2>2 DEF Next, Known
<1> QED BY <1>1, <1>2, <1>3, CompositionTypes, PTL DEF Spec
====
