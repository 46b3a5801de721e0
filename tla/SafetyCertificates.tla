---- MODULE SafetyCertificates ----
(***************************************************************************)
(* The proof predicates of src/core/Levels.idr: whether a certificate for  *)
(* a level exists at all, that is, whether its type is inhabited.          *)
(* The predicates of levels 3, 4 and 5 have a constructor for every        *)
(* statement, and CompareSafe leaves the compared types free.              *)
(***************************************************************************)
EXTENDS SafetyLevels

\* extractFieldRefs of Levels.idr stops at subqueries, aggregates in SELECT and epistemic
\* operators.
NamedFieldRefs(s) ==
  (UNION {item.named : item \in s.select}) \cup (UNION {e.named : e \in s.where})
    \cup s.groupBy \cup (UNION {e.named : e \in s.having}) \cup s.orderBy

\* ExprTypeSafe has no constructor for a WHERE that is a star, a subquery or an epistemic
\* operator at the top.
ExprTypeSafe(e) == e.shape # "uncovered"

Provable(level, s) ==
  CASE level = 1  -> \A ref \in NamedFieldRefs(s) : Bound(ref)
    [] level = 2  -> \A e \in s.where : ExprTypeSafe(e)
    [] level = 6  -> s.limit # {}
    [] level = 7  -> s.effects # {}
    [] level = 8  -> s.version # {}
    [] level = 9  -> s.linear # {}
    [] level = 10 -> s.epistemic # {}
    [] OTHER      -> TRUE

\* A SafetyCertificate holds the predicates of its level and of all lower ones.
HasCertificate(s, level) == \A k \in 0 .. level : Provable(k, s)
====
