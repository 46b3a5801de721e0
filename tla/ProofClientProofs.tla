---- MODULE ProofClientProofs ----
(***************************************************************************)
(* What the results of the proof client's calls tell its tasks, for any    *)
(* number of tasks, calls and sessions, and whatever the tasks ask.        *)
(***************************************************************************)
EXTENDS ProofClient, FiniteSetTheorems, TLAPS

\* A task awaits a call, and the call it awaits.
Waiting(t) == doing[t] # <<>>
Now(t) == doing[t][1]

\* A session stands at b some time after it stood at a.
Advances(a, b) ==
  \/ b = "deleted"
  \/ a # "deleted" /\ Rank(a) <= Rank(b) /\ (Rank(a) = 3 => a = b)

Gone(id) == id = 0 \/ (id \in DOMAIN sessions /\ sessions[id] = "deleted")

Behind(status, id) == id \in DOMAIN sessions /\ Advances(status, sessions[id])

\* What an outcome and a body say of a call: the server rules on it, and it is done, or its
\* session is gone.
Ruled(outcome) == outcome \in {"Ok", "NotFound", "BadRequest"}

Done(request, outcome, body) ==
  /\ outcome = "Ok"
  /\ Submits(request) \/ Cancels(request) \/ (Drives(request) /\ body.success)

Farewell(request, outcome) == outcome = "NotFound" \/ (outcome = "Ok" /\ Cancels(request))

\* A call's outcome and body are true of it and stay so.
Fits(c, outcome, body) ==
  /\ Ruled(outcome) => (Effective(c.number) <=> Done(c.request, outcome, body))
  /\ Farewell(c.request, outcome) => Gone(c.request.id)
  /\ outcome = "Ok" /\ Submits(c.request) => body \in ProofResponse /\ body.id \in DOMAIN sessions
  /\ outcome = "Ok" /\ Polls(c.request) =>
       body \in ProofResponse /\ Behind(body.status, c.request.id)

\* What is said of a request does not fall behind what result r says of the same session.
Later(r, request, outcome, body) ==
  /\ ToldGone(r) /\ Names(request) /\ request.id = r.request.id => outcome # "Ok"
  /\ Polls(r.request) /\ request = r.request /\ r.outcome = "Ok" /\ outcome = "Ok" =>
       Advances(r.body.status, body.status)

----------------------------------------------------------------------------
(* The inductive invariant. *)

Numbered ==
  /\ \A t \in Tasks : Waiting(t) => Now(t).number <= made
  /\ \A x \in wire \cup answers \cup results \cup effects : x.number <= made

\* A number stands for one call, which is on its way, or served, or neither.
Distinct ==
  /\ \A t, u \in Tasks : Waiting(t) /\ Waiting(u) /\ Now(t).number = Now(u).number => t = u
  /\ \A m \in wire, t \in Tasks : Waiting(t) /\ m.number = Now(t).number => m = Now(t)
  /\ \A m, n \in wire : m.number = n.number => m = n
  /\ \A m \in wire, x \in answers \cup effects : x.number # m.number
  /\ \A a, b \in answers : a.number = b.number => a = b

\* A result ends its call; one that says what became of the call leaves nothing behind.
Ended ==
  /\ \A r \in results, t \in Tasks :
       Waiting(t) => r.number # Now(t).number /\ (r.task = t => r.number < Now(t).number)
  /\ \A r \in results, x \in wire \cup answers : r.number = x.number => r.outcome = "Http"

\* Calls name sessions there have been, or none.
Proper(request) ==
  /\ request.id \in {0} \cup DOMAIN sessions
  /\ request.path \in {"/proofs", "/proofs/:id/tactics"} => request.verb = "POST"

Named ==
  /\ Inherited <= Len(sessions)
  /\ \A m \in wire : Proper(m.request)

Truthful ==
  /\ \A t \in Tasks, a \in answers :
       Waiting(t) /\ a.number = Now(t).number => Fits(Now(t), ok_or_err(a.status), a.body)
  /\ \A r \in results : Fits(r, r.outcome, r.body)

Ordered ==
  /\ \A t \in Tasks, a \in answers, r \in results :
       Waiting(t) /\ a.number = Now(t).number /\ r.task = t =>
         Later(r, Now(t).request, ok_or_err(a.status), a.body)
  /\ \A r, s \in results :
       r.task = s.task /\ r.number < s.number => Later(r, s.request, s.outcome, s.body)

ClientInv ==
  ClientTypeOK /\ Numbered /\ Distinct /\ Ended /\ Named /\ Truthful /\ Ordered

----------------------------------------------------------------------------
(* Facts about data. *)

LEMMA Ranks ==
  /\ \A s \in Standings : Rank(s) \in 1 .. 3
  /\ Rank("pending") = 1 /\ Rank("in_progress") = 2
  /\ \A s \in Standings \ {"pending", "in_progress"} : Rank(s) = 3
  /\ \A s \in Standings : Rank(s) = 1 => s = "pending"
  /\ \A s \in Standings : Rank(s) = 2 => s = "in_progress"
BY DEF Rank, Standings, ProofStatus

LEMMA AdvancesOrder ==
  /\ \A a \in Standings : Advances(a, a)
  /\ \A a, b, c \in Standings : Advances(a, b) /\ Advances(b, c) => Advances(a, c)
<1>1. \A a \in Standings : Rank(a) \in Nat
  BY Ranks
<1>. QED
  BY <1>1 DEF Advances

LEMMA Outcomes ==
  /\ ok_or_err(200) = "Ok" /\ ok_or_err(400) = "BadRequest"
  /\ ok_or_err(404) = "NotFound" /\ ok_or_err(500) = "UnexpectedStatus"
BY DEF ok_or_err

LEMMA CallTypes ==
  ASSUME NEW ids \in SUBSET Nat, NEW request \in Calls(ids)
  PROVE  /\ request \in Requests /\ request.id \in {0} \cup ids
         /\ request.path \in {"/proofs", "/proofs/:id/tactics"} => request.verb = "POST"
<1>1. \/ request \in {health, list_provers}
      \/ \E k \in ProverKind : request \in {get_prover(k), submit_proof(k)}
      \/ \E f \in ExchangeFormat : request = import_proof(f)
      \/ \E i \in ids, f \in ExchangeFormat : request = export_proof(i, f)
      \/ \E i \in ids : request \in {get_proof(i), cancel_proof(i), apply_tactic(i), suggest_tactics(i)}
  BY DEF Calls
<1>. DEFINE slugs == {None} \cup ProverKind \cup ExchangeFormat
<1>2. \A verb \in {"GET", "POST", "DELETE"}, path \in Paths, id \in Nat, slug \in slugs :
        /\ Request(verb, path, id, slug) \in Requests
        /\ Request(verb, path, id, slug).id = id
        /\ Request(verb, path, id, slug).path = path
        /\ Request(verb, path, id, slug).verb = verb
  BY DEF Request, Requests, SessionId
<1>3. \A path \in {"/health", "/provers", "/provers/:kind", "/proofs", "/proofs/:id",
                   "/proofs/:id/tactics", "/proofs/:id/tactics/suggest", "/proofs/:id/export",
                   "/exchange/import"} : path \in Paths
  BY DEF Paths
<1>4. None \in slugs /\ ProverKind \subseteq slugs /\ ExchangeFormat \subseteq slugs /\ 0 \in Nat
  OBVIOUS
<1>. HIDE DEF slugs
<1>5. CASE request \in {health, list_provers}
  BY <1>2, <1>3, <1>4, <1>5 DEF health, list_provers
<1>6. CASE \E k \in ProverKind : request \in {get_prover(k), submit_proof(k)}
  BY <1>2, <1>3, <1>4, <1>6 DEF get_prover, submit_proof
<1>7. CASE \E f \in ExchangeFormat : request = import_proof(f)
  BY <1>2, <1>3, <1>4, <1>7 DEF import_proof
<1>8. CASE \E i \in ids, f \in ExchangeFormat : request = export_proof(i, f)
  BY <1>2, <1>3, <1>4, <1>8 DEF export_proof
<1>9. CASE \E i \in ids :
             request \in {get_proof(i), cancel_proof(i), apply_tactic(i), suggest_tactics(i)}
  BY <1>2, <1>3, <1>4, <1>9 DEF get_proof, cancel_proof, apply_tactic, suggest_tactics
<1>. QED
  BY <1>1, <1>5, <1>6, <1>7, <1>8, <1>9

\* A call is a submission, a cancellation or a tactic, one of them at most.
LEMMA Kinds ==
  ASSUME NEW request
  PROVE  /\ Submits(request) => ~Cancels(request) /\ ~Drives(request)
         /\ Proper(request) /\ Drives(request) => ~Cancels(request)
<1>1. ASSUME Submits(request) PROVE ~Cancels(request) /\ ~Drives(request)
  BY <1>1 DEF Submits, Cancels, Drives
<1>2. ASSUME Proper(request), Drives(request) PROVE ~Cancels(request)
  BY <1>2 DEF Cancels, Drives, Proper
<1>. QED
  BY <1>1, <1>2

LEMMA WaitingTypes ==
  ASSUME ClientTypeOK, NEW t \in Tasks, Waiting(t)
  PROVE  Now(t) \in Sent /\ Now(t).number \in Nat /\ Now(t).request \in Requests
<1>1. doing[t] \in Seq(Sent) /\ doing[t] # <<>>
  BY DEF ClientTypeOK, Waiting
<1>2. doing[t][1] \in Sent
  BY <1>1
<1>. QED
  BY <1>2 DEF Now, Sent

\* What is true of a call stays true while sessions advance and other calls take effect.
LEMMA FitsOn ==
  ASSUME NEW c, NEW outcome, NEW body,
         sessions \in Seq(Standings), sessions' \in Seq(Standings),
         DOMAIN sessions \subseteq DOMAIN sessions',
         \A id \in DOMAIN sessions : Advances(sessions[id], sessions'[id]),
         effects \subseteq effects',
         Ruled(outcome) => (Effective(c.number)' => Effective(c.number)),
         Fits(c, outcome, body)
  PROVE  Fits(c, outcome, body)'
<1>1. Ruled(outcome) => (Effective(c.number)' <=> Done(c.request, outcome, body))
  BY DEF Fits, Effective
<1>2. Gone(c.request.id) => Gone(c.request.id)'
  BY DEF Gone, Advances
<1>3. ASSUME body \in ProofResponse, Behind(body.status, c.request.id)
      PROVE  Behind(body.status, c.request.id)'
  <2>1. body.status \in Standings
    BY <1>3 DEF ProofResponse, Standings
  <2>2. c.request.id \in DOMAIN sessions /\ c.request.id \in DOMAIN sessions'
    BY <1>3 DEF Behind
  <2>3. sessions[c.request.id] \in Standings /\ sessions'[c.request.id] \in Standings
    BY <2>2
  <2>. QED
    BY <1>3, <2>1, <2>2, <2>3, AdvancesOrder DEF Behind
<1>. QED
  BY <1>1, <1>2, <1>3 DEF Fits

----------------------------------------------------------------------------
THEOREM ClientInit_Inv == ClientInit => ClientInv
<1>. SUFFICES ASSUME ClientInit PROVE ClientInv
  OBVIOUS
<1>1. /\ \A t \in Tasks : ~Waiting(t)
      /\ wire = {} /\ answers = {} /\ results = {} /\ effects = {} /\ made = 0
  BY DEF ClientInit, Waiting
<1>2. sessions \in Seq(Standings) /\ Len(sessions) = Inherited /\ Inherited \in Nat
  BY ClientAssumption DEF ClientInit, Standings, ProofStatus
<1>3. doing \in [Tasks -> Seq(Sent)] /\ \A t \in Tasks : Len(doing[t]) <= 1
  BY DEF ClientInit
<1>4. ClientTypeOK
  BY <1>1, <1>2, <1>3, ClientAssumption DEF ClientTypeOK
<1>. QED
  BY <1>1, <1>2, <1>4
     DEF ClientInv, Numbered, Distinct, Ended, Named, Truthful, Ordered

----------------------------------------------------------------------------
(* The steps of the tasks. *)

LEMMA CallKeeps == ASSUME NEW t \in Tasks PROVE ClientInv /\ Call(t) => ClientInv'
<1>. SUFFICES ASSUME ClientInv, Call(t) PROVE ClientInv'
  OBVIOUS
<1>. USE DEF ClientInv
<1>1. PICK request \in Calls(HandedOut \cup {0}) :
        /\ doing' = [doing EXCEPT ![t] = <<[number |-> made + 1, request |-> request]>>]
        /\ wire' = wire \cup {[number |-> made + 1, request |-> request]}
  BY DEF Call
<1>2. /\ ~Waiting(t) /\ made < MaxCalls /\ made' = made + 1 /\ made \in Nat
      /\ UNCHANGED <<answers, results, sessions, effects>>
  BY ClientAssumption DEF Call, Waiting, ClientTypeOK
<1>3. PICK sent : sent = [number |-> made + 1, request |-> request]
  OBVIOUS
<1>4. HandedOut \cup {0} \subseteq {0} \cup DOMAIN sessions
      /\ DOMAIN sessions \subseteq Nat
  <2>1. sessions \in Seq(Standings) /\ Inherited <= Len(sessions) /\ Inherited \in Nat
    BY ClientAssumption DEF ClientTypeOK, Named
  <2>2. 1 .. Inherited \subseteq DOMAIN sessions /\ DOMAIN sessions \subseteq Nat
    BY <2>1
  <2>3. \A r \in results : r.outcome = "Ok" /\ Submits(r.request) => r.body.id \in DOMAIN sessions
    BY DEF Truthful, Fits
  <2>. QED
    BY <2>2, <2>3 DEF HandedOut
<1>5. request \in Requests /\ Proper(request)
  BY <1>1, <1>4, CallTypes DEF Proper
<1>6. sent \in Sent /\ sent.number = made + 1 /\ sent.request = request
  BY <1>2, <1>3, <1>5 DEF Sent
<1>7. /\ Waiting(t)' /\ Now(t)' = sent
      /\ \A u \in Tasks \ {t} : (Waiting(u)' <=> Waiting(u)) /\ Now(u)' = Now(u)
      /\ wire' = wire \cup {sent}
  BY <1>1, <1>3 DEF ClientTypeOK, Waiting, Now
<1>8. ClientTypeOK'
  <2>1. made' \in 0 .. MaxCalls
    BY <1>2, ClientAssumption DEF ClientTypeOK
  <2>2. <<sent>> \in Seq(Sent) /\ Len(<<sent>>) <= 1
    BY <1>6
  <2>3. doing' \in [Tasks -> Seq(Sent)] /\ \A u \in Tasks : Len(doing'[u]) <= 1
    BY <1>1, <1>3, <2>2 DEF ClientTypeOK
  <2>. QED
    BY <1>2, <1>6, <1>7, <2>1, <2>3 DEF ClientTypeOK
<1>9. /\ \A u \in Tasks : Waiting(u) => Now(u).number \in Nat /\ Now(u).number <= made
      /\ \A x \in wire \cup answers \cup results \cup effects : x.number \in Nat /\ x.number <= made
  <2>1. \A x \in wire \cup answers \cup results \cup effects : x.number \in Nat
    BY DEF ClientTypeOK, Sent
  <2>. QED
    BY <2>1, WaitingTypes DEF Numbered
<1>10. Numbered'
  BY <1>2, <1>6, <1>7, <1>9 DEF Numbered
<1>11. Distinct'
  BY <1>2, <1>6, <1>7, <1>9 DEF Distinct
<1>12. Ended'
  BY <1>2, <1>6, <1>7, <1>9 DEF Ended
<1>13. Named'
  BY <1>2, <1>5, <1>6, <1>7 DEF Named, Proper
<1>14. \A a \in answers : a.number # sent.number
  BY <1>2, <1>6, <1>9
<1>15. Truthful'
  <2>1. \A r \in results : Fits(r, r.outcome, r.body)'
    BY <1>2 DEF Truthful, Fits, Effective, Gone, Behind
  <2>2. ASSUME NEW u \in Tasks, NEW a \in answers, Waiting(u)', a.number = Now(u).number'
        PROVE  Fits(Now(u), ok_or_err(a.status), a.body)'
    <3>1. u # t /\ Waiting(u) /\ a.number = Now(u).number
      BY <1>7, <1>14, <2>2
    <3>2. Fits(Now(u), ok_or_err(a.status), a.body)
      BY <3>1 DEF Truthful
    <3>. QED
      BY <1>2, <1>7, <3>1, <3>2 DEF Fits, Effective, Gone, Behind
  <2>. QED
    BY <1>2, <2>1, <2>2 DEF Truthful
<1>16. Ordered'
  BY <1>2, <1>7, <1>14 DEF Ordered
<1>. QED
  BY <1>8, <1>10, <1>11, <1>12, <1>13, <1>15, <1>16

\* However a call ends.
LEMMA EndKeeps ==
  ASSUME NEW t \in Tasks, NEW outcome \in {"Ok"} \cup ClientError, NEW body \in Bodies,
         ClientInv, Waiting(t), Ends(t, outcome, body), answers' \subseteq answers,
         UNCHANGED <<wire, made, sessions, effects>>,
         Fits(Now(t), outcome, body),
         outcome # "Http" => \A x \in wire \cup answers' : x.number # Now(t).number,
         \A r \in results : r.task = t => Later(r, Now(t).request, outcome, body)
  PROVE  ClientInv'
<1>. USE DEF ClientInv
<1>1. PICK c : c = Now(t)
  OBVIOUS
<1>2. PICK s : s = [task |-> t, number |-> c.number, request |-> c.request,
                    outcome |-> outcome, body |-> body]
  OBVIOUS
<1>3. /\ results' = results \cup {s} /\ doing' = [doing EXCEPT ![t] = <<>>]
      /\ UNCHANGED <<wire, made, sessions, effects>>
  BY <1>1, <1>2 DEF Ends, Now
<1>4. /\ ~Waiting(t)'
      /\ \A u \in Tasks \ {t} : (Waiting(u)' <=> Waiting(u)) /\ Now(u)' = Now(u)
  BY <1>3 DEF ClientTypeOK, Waiting, Now
<1>5. c \in Sent /\ c.number \in Nat /\ c.request \in Requests
  BY <1>1, WaitingTypes
<1>6. /\ s.task = t /\ s.number = c.number /\ s.request = c.request
      /\ s.outcome = outcome /\ s.body = body
      /\ s \in [task : Tasks, number : Nat, request : Requests,
                outcome : {"Ok"} \cup ClientError, body : Bodies]
  BY <1>2, <1>5
<1>7. ClientTypeOK'
  <2>1. doing' \in [Tasks -> Seq(Sent)] /\ \A u \in Tasks : Len(doing'[u]) <= 1
    BY <1>3 DEF ClientTypeOK
  <2>. QED
    BY <1>3, <1>6, <2>1 DEF ClientTypeOK
<1>8. Numbered' /\ Named'
  BY <1>1, <1>3, <1>4, <1>6 DEF Numbered, Named, Proper
<1>9. Distinct'
  BY <1>3, <1>4 DEF Distinct
<1>10. Ended'
  BY <1>1, <1>3, <1>4, <1>6 DEF Ended, Distinct
<1>11. Truthful'
  <2>1. \A u \in Tasks, a \in answers :
          Waiting(u)' /\ a.number = Now(u)'.number =>
            Fits(Now(u), ok_or_err(a.status), a.body) /\ Now(u)' = Now(u)
    BY <1>4 DEF Truthful
  <2>2. Fits(c, outcome, body)
    BY <1>1
  <2>3. Fits(s, s.outcome, s.body)'
    BY <1>3, <1>6, <2>2 DEF Fits, Effective, Gone, Behind
  <2>4. \A r \in results : Fits(r, r.outcome, r.body)'
    BY <1>3 DEF Truthful, Fits, Effective, Gone, Behind
  <2>. QED
    BY <1>3, <2>1, <2>3, <2>4 DEF Truthful, Fits, Effective, Gone, Behind
<1>12. Ordered'
  <2>1. \A u \in Tasks, a \in answers, r \in results' :
          Waiting(u)' /\ a.number = Now(u)'.number /\ r.task = u =>
            Later(r, Now(u)'.request, ok_or_err(a.status), a.body)
    BY <1>3, <1>4, <1>6 DEF Ordered
  <2>2. \A r \in results : r.task = s.task => Later(r, s.request, s.outcome, s.body)
    BY <1>1, <1>6
  <2>3. \A r \in results : r.number \in Nat /\ (r.task = s.task => r.number < s.number)
    BY <1>1, <1>6 DEF Ended, ClientTypeOK
  <2>4. \A r, q \in results' :
          r.task = q.task /\ r.number < q.number => Later(r, q.request, q.outcome, q.body)
    BY <1>3, <1>5, <1>6, <2>2, <2>3 DEF Ordered
  <2>. QED
    BY <1>3, <2>1, <2>4 DEF Ordered
<1>. QED
  BY <1>7, <1>8, <1>9, <1>10, <1>11, <1>12

LEMMA NoResponseKeeps == ASSUME NEW t \in Tasks PROVE ClientInv /\ NoResponse(t) => ClientInv'
<1>. SUFFICES ASSUME ClientInv, NoResponse(t) PROVE ClientInv'
  OBVIOUS
<1>1. Fits(Now(t), "Http", Empty)
  BY DEF Fits, Ruled, Farewell
<1>2. \A r \in results : Later(r, Now(t).request, "Http", Empty)
  BY DEF Later
<1>3. "Http" \in {"Ok"} \cup ClientError /\ Empty \in Bodies
  BY DEF ClientError, Bodies
<1>4. /\ Waiting(t) /\ Ends(t, "Http", Empty)
      /\ answers' = answers /\ UNCHANGED <<wire, made, sessions, effects>>
  BY DEF NoResponse, Waiting
<1>. QED
  BY <1>1, <1>2, <1>3, <1>4, EndKeeps

LEMMA ResponseKeeps == ASSUME NEW t \in Tasks PROVE ClientInv /\ Response(t) => ClientInv'
<1>. SUFFICES ASSUME ClientInv, Response(t) PROVE ClientInv'
  OBVIOUS
<1>1. PICK a \in answers :
        /\ a.number = Now(t).number /\ answers' = answers \ {a}
        /\ Ends(t, ok_or_err(a.status), a.body) \/ Ends(t, "Http", Empty)
  BY DEF Response, Now
<1>2. Waiting(t) /\ UNCHANGED <<wire, made, sessions, effects>>
  BY DEF Response, Waiting
<1>3. a.body \in Bodies /\ ok_or_err(a.status) \in {"Ok"} \cup ClientError
      /\ "Http" \in {"Ok"} \cup ClientError /\ Empty \in Bodies
  <2>1. a.body \in Bodies /\ a.status \in {200, 400, 404, 500}
    BY DEF ClientInv, ClientTypeOK
  <2>. QED
    BY <2>1, Outcomes DEF ClientError, Bodies
<1>4. \A x \in wire \cup answers' : x.number # Now(t).number
  BY <1>1 DEF ClientInv, Distinct
<1>5. CASE Ends(t, ok_or_err(a.status), a.body)
  <2>1. Fits(Now(t), ok_or_err(a.status), a.body)
    BY <1>1, <1>2 DEF ClientInv, Truthful
  <2>2. \A r \in results :
          r.task = t => Later(r, Now(t).request, ok_or_err(a.status), a.body)
    BY <1>1, <1>2 DEF ClientInv, Ordered
  <2>. QED
    BY <1>1, <1>2, <1>3, <1>4, <1>5, <2>1, <2>2, EndKeeps
<1>6. CASE Ends(t, "Http", Empty)
  <2>1. Fits(Now(t), "Http", Empty)
    BY DEF Fits, Ruled, Farewell
  <2>2. \A r \in results : Later(r, Now(t).request, "Http", Empty)
    BY DEF Later
  <2>. QED
    BY <1>1, <1>2, <1>3, <1>4, <1>6, <2>1, <2>2, EndKeeps
<1>. QED
  BY <1>1, <1>5, <1>6

----------------------------------------------------------------------------
(* The steps of the server. *)

\* Whatever the server does of a request, if what it says fits.
LEMMA ServeKeeps ==
  ASSUME NEW m \in wire, NEW status \in {200, 400, 404, 500}, NEW body \in Bodies,
         ClientInv, Served(m), Says(m, status, body),
         UNCHANGED <<doing, results, made>>,
         sessions' \in Seq(Standings), DOMAIN sessions \subseteq DOMAIN sessions',
         \A id \in DOMAIN sessions : Advances(sessions[id], sessions'[id]),
         effects \subseteq effects',
         \A e \in effects' : e \in effects \/ (e.number = m.number /\ e \in [number : Nat, id : Nat]),
         Fits(m, ok_or_err(status), body)',
         \A r \in results : Later(r, m.request, ok_or_err(status), body)
  PROVE  ClientInv'
<1>. USE DEF ClientInv
<1>1. PICK a : a = [number |-> m.number, status |-> status, body |-> body]
  OBVIOUS
<1>2. /\ wire' = wire \ {m} /\ answers' = answers \cup {a}
      /\ UNCHANGED <<doing, results, made>>
      /\ a.number = m.number /\ a.status = status /\ a.body = body
  BY <1>1 DEF Served, Says
<1>3. m \in Sent /\ m.number \in Nat /\ m.number <= made /\ sessions \in Seq(Standings)
  BY DEF ClientTypeOK, Sent, Numbered
<1>4. \A u \in Tasks : (Waiting(u)' <=> Waiting(u)) /\ Now(u)' = Now(u)
  BY <1>2 DEF Waiting, Now
<1>5. ClientTypeOK'
  <2>1. a \in [number : Nat, status : {200, 400, 404, 500}, body : Bodies]
    BY <1>1, <1>3
  <2>. QED
    BY <1>2, <2>1 DEF ClientTypeOK
<1>6. Numbered'
  BY <1>2, <1>3, <1>4 DEF Numbered
<1>7. Distinct'
  BY <1>2, <1>4 DEF Distinct
<1>8. Ended'
  BY <1>2, <1>4 DEF Ended
<1>9. Named'
  <2>1. Len(sessions) <= Len(sessions') /\ Inherited \in Nat
    BY <1>3, ClientAssumption
  <2>2. Len(sessions) \in Nat /\ Len(sessions') \in Nat
    BY <1>3
  <2>3. Inherited <= Len(sessions')
    BY <2>1, <2>2 DEF Named
  <2>. QED
    BY <1>2, <2>3 DEF Named, Proper
<1>10. Truthful'
  <2>1. ASSUME NEW r \in results PROVE Fits(r, r.outcome, r.body)'
    <3>1. Ruled(r.outcome) => (Effective(r.number)' => Effective(r.number))
      BY DEF Ended, Effective, Ruled
    <3>. QED
      BY <1>3, <3>1, FitsOn DEF Truthful
  <2>2. ASSUME NEW u \in Tasks, NEW b \in answers', Waiting(u)', b.number = Now(u)'.number
        PROVE  Fits(Now(u), ok_or_err(b.status), b.body)'
    <3>1. PICK c : c = Now(u)
      OBVIOUS
    <3>2. Now(u)' = Now(u) /\ Waiting(u)
      BY <1>4, <2>2
    <3>3. Waiting(u) /\ b.number = Now(u).number
      BY <2>2, <3>2
    <3>4. Fits(c, ok_or_err(b.status), b.body)'
      <4>1. CASE b = a
        <5>1. c = m
          BY <1>2, <3>1, <3>3, <4>1 DEF Distinct
        <5>. QED
          BY <1>2, <4>1, <5>1
      <4>2. CASE b # a
        <5>1. b \in answers
          BY <1>2, <4>2
        <5>2. Fits(c, ok_or_err(b.status), b.body)
          BY <3>1, <3>3, <5>1 DEF Truthful
        <5>3. Effective(c.number)' => Effective(c.number)
          BY <3>1, <3>3, <5>1 DEF Distinct, Effective
        <5>. QED
          BY <1>3, <5>2, <5>3, FitsOn
      <4>. QED
        BY <4>1, <4>2
    <3>. QED
      BY <3>1, <3>2, <3>4 DEF Fits, Effective, Gone, Behind
  <2>. QED
    BY <1>2, <2>1, <2>2 DEF Truthful
<1>11. Ordered'
  <2>1. ASSUME NEW u \in Tasks, NEW b \in answers', NEW r \in results,
               Waiting(u)', b.number = Now(u)'.number, r.task = u
        PROVE  Later(r, Now(u)'.request, ok_or_err(b.status), b.body)
    <3>1. Waiting(u) /\ b.number = Now(u).number /\ Now(u)' = Now(u)
      BY <1>4, <2>1
    <3>2. CASE b = a
      <4>1. Now(u) = m
        BY <1>2, <3>1, <3>2 DEF Distinct
      <4>. QED
        BY <1>2, <2>1, <3>1, <3>2, <4>1
    <3>3. CASE b # a
      BY <1>2, <2>1, <3>1, <3>3 DEF Ordered
    <3>. QED
      BY <3>2, <3>3
  <2>2. \A r, q \in results :
          r.task = q.task /\ r.number < q.number => Later(r, q.request, q.outcome, q.body)
    BY DEF Ordered
  <2>. QED
    BY <1>2, <2>1, <2>2 DEF Ordered
<1>. QED
  BY <1>5, <1>6, <1>7, <1>8, <1>9, <1>10, <1>11

\* Standing still is an advance.
LEMMA SameStandings ==
  ASSUME ClientTypeOK
  PROVE  \A id \in DOMAIN sessions : sessions[id] \in Standings /\ Advances(sessions[id], sessions[id])
<1>1. sessions \in Seq(Standings)
  BY DEF ClientTypeOK
<1>2. \A id \in DOMAIN sessions : sessions[id] \in Standings
  BY <1>1
<1>. QED
  BY <1>2, AdvancesOrder

\* What is said of a request fits it, and changes nothing.
LEMMA ReadKeeps ==
  ASSUME NEW m \in wire, NEW status \in {200, 400, 404, 500}, NEW body \in Bodies,
         ClientInv, Served(m), Says(m, status, body),
         UNCHANGED <<doing, results, made, sessions, effects>>,
         Fits(m, ok_or_err(status), body),
         \A r \in results : Later(r, m.request, ok_or_err(status), body)
  PROVE  ClientInv'
<1>1. sessions' = sessions /\ effects' = effects /\ sessions \in Seq(Standings)
  BY DEF ClientInv, ClientTypeOK
<1>2. Fits(m, ok_or_err(status), body)'
  BY <1>1 DEF Fits, Effective, Gone, Behind
<1>3. \A id \in DOMAIN sessions : Advances(sessions[id], sessions'[id])
  BY <1>1, SameStandings DEF ClientInv
<1>. QED
  BY <1>1, <1>2, <1>3, ServeKeeps

\* The calls on their way, and what the client makes of errors about them.
LEMMA WireFacts ==
  ASSUME ClientInv, NEW m \in wire
  PROVE  /\ m \in Sent /\ m.number \in Nat /\ m.request \in Requests /\ Proper(m.request)
         /\ ~Effective(m.number)
         /\ \A body : Fits(m, ok_or_err(500), body) /\ Fits(m, ok_or_err(400), body)
         /\ \A body : Gone(m.request.id) => Fits(m, ok_or_err(404), body)
         /\ \A r, body : /\ Later(r, m.request, ok_or_err(400), body)
                         /\ Later(r, m.request, ok_or_err(404), body)
                         /\ Later(r, m.request, ok_or_err(500), body)
         /\ Empty \in Bodies
<1>1. m \in Sent /\ m.number \in Nat /\ m.request \in Requests /\ Proper(m.request)
  BY DEF ClientInv, ClientTypeOK, Sent, Named
<1>2. ~Effective(m.number)
  BY DEF ClientInv, Distinct, Effective
<1>. QED
  BY <1>1, <1>2, Outcomes DEF Fits, Ruled, Done, Farewell, Later, Bodies

\* A session that is known is not gone, and nobody was told that it is.
LEMMA KnownFacts ==
  ASSUME ClientInv, NEW id, Known(id)
  PROVE  /\ id \in DOMAIN sessions /\ id \in Nat /\ sessions[id] \in ProofStatus /\ ~Gone(id)
         /\ \A r \in results : r.request.id = id => ~ToldGone(r)
<1>1. sessions \in Seq(Standings) /\ id \in DOMAIN sessions /\ sessions[id] # "deleted"
  BY DEF ClientInv, ClientTypeOK, Known
<1>2. id \in Nat /\ id # 0 /\ sessions[id] \in ProofStatus
  BY <1>1 DEF Standings
<1>3. ~Gone(id)
  BY <1>1, <1>2 DEF Gone
<1>4. \A r \in results : ToldGone(r) => Gone(r.request.id)
  BY DEF ClientInv, Truthful, Fits, Farewell, ToldGone
<1>. QED
  BY <1>1, <1>2, <1>3, <1>4

\* What is said of a known session, or of none, is not behind anything, if it is no poll.
LEMMA SaidInTime ==
  ASSUME ClientInv, NEW m, ~Polls(m.request), Names(m.request) => Known(m.request.id)
  PROVE  \A r \in results : \A outcome, body : Later(r, m.request, outcome, body)
BY KnownFacts DEF Later

\* A call that changes the server is marked so.
LEMMA DidFacts ==
  ASSUME NEW m, m.number \in Nat, NEW id \in Nat, Did(m, id)
  PROVE  /\ effects \subseteq effects' /\ Effective(m.number)'
         /\ \A e \in effects' :
              e \in effects \/ (e.number = m.number /\ e \in [number : Nat, id : Nat])
<1>1. PICK n : n = m.number
  OBVIOUS
<1>2. PICK d : d = [number |-> n, id |-> id]
  OBVIOUS
<1>3. d.number = m.number /\ d \in [number : Nat, id : Nat]
  BY <1>1, <1>2
<1>4. effects' = effects \cup {d}
  BY <1>1, <1>2 DEF Did
<1>. QED
  BY <1>3, <1>4 DEF Effective

LEMMA MalformedKeeps == ASSUME NEW m \in wire PROVE ClientInv /\ Malformed(m) => ClientInv'
<1>. SUFFICES ASSUME ClientInv, Malformed(m) PROVE ClientInv'
  OBVIOUS
<1>1. /\ Served(m) /\ Says(m, 400, Empty)
      /\ UNCHANGED <<doing, results, made, sessions, effects>>
  BY DEF Malformed, Unchanged
<1>. QED
  BY <1>1, WireFacts, ReadKeeps

LEMMA UnableKeeps == ASSUME NEW m \in wire PROVE ClientInv /\ Unable(m) => ClientInv'
<1>. SUFFICES ASSUME ClientInv, Unable(m) PROVE ClientInv'
  OBVIOUS
<1>1. /\ Served(m) /\ Says(m, 500, Empty)
      /\ UNCHANGED <<doing, results, made, sessions, effects>>
  BY DEF Unable, Unchanged
<1>2. Fits(m, ok_or_err(500), Empty) /\ Empty \in Bodies
  BY WireFacts
<1>3. \A r \in results : Later(r, m.request, ok_or_err(500), Empty)
  BY WireFacts
<1>. QED
  BY <1>1, <1>2, <1>3, ReadKeeps

LEMMA SubmitKeeps == ASSUME NEW m \in wire PROVE ClientInv /\ ServeSubmit(m) => ClientInv'
<1>. SUFFICES ASSUME ClientInv, ServeSubmit(m) PROVE ClientInv'
  OBVIOUS
<1>1. /\ Served(m) /\ Submits(m.request) /\ UNCHANGED <<doing, results, made>>
      /\ sessions' = Append(sessions, "pending")
      /\ Did(m, Len(sessions) + 1)
      /\ Says(m, 200, View(Len(sessions) + 1, "pending")) \/ Says(m, 500, Empty)
  BY DEF ServeSubmit
<1>2. ~Polls(m.request) /\ ~Cancels(m.request) /\ ~Drives(m.request) /\ ~Names(m.request)
  BY <1>1 DEF Submits, Polls, Cancels, Drives, Names
<1>3. sessions \in Seq(Standings) /\ "pending" \in Standings /\ Len(sessions) + 1 \in Nat
  BY DEF ClientInv, ClientTypeOK, Standings, ProofStatus
<1>4. /\ sessions' \in Seq(Standings) /\ DOMAIN sessions \subseteq DOMAIN sessions'
      /\ Len(sessions) + 1 \in DOMAIN sessions'
      /\ \A id \in DOMAIN sessions : sessions'[id] = sessions[id]
  BY <1>1, <1>3
<1>5. \A id \in DOMAIN sessions : Advances(sessions[id], sessions'[id])
  BY <1>4, SameStandings DEF ClientInv
<1>6. /\ effects \subseteq effects' /\ Effective(m.number)'
      /\ \A e \in effects' :
           e \in effects \/ (e.number = m.number /\ e \in [number : Nat, id : Nat])
  BY <1>1, <1>3, WireFacts, DidFacts
<1>7. CASE Says(m, 500, Empty)
  <2>1. Fits(m, ok_or_err(500), Empty)'
    BY Outcomes DEF Fits, Ruled, Farewell
  <2>2. Empty \in Bodies /\ \A r \in results : Later(r, m.request, ok_or_err(500), Empty)
    BY WireFacts
  <2>. QED
    BY <1>1, <1>4, <1>5, <1>6, <1>7, <2>1, <2>2, ServeKeeps
<1>8. CASE Says(m, 200, View(Len(sessions) + 1, "pending"))
  <2>1. PICK body : body = View(Len(sessions) + 1, "pending")
    OBVIOUS
  <2>2. body \in ProofResponse /\ body.id = Len(sessions) + 1 /\ body \in Bodies
    BY <1>3, <2>1 DEF View, ProofResponse, ProofStatus, Bodies
  <2>3. Fits(m, ok_or_err(200), body)'
    BY <1>1, <1>2, <1>4, <1>6, <2>2, Outcomes DEF Fits, Done, Farewell
  <2>4. \A r \in results : Later(r, m.request, ok_or_err(200), body)
    BY <1>2 DEF Later
  <2>. QED
    BY <1>1, <1>4, <1>5, <1>6, <1>8, <2>1, <2>2, <2>3, <2>4, ServeKeeps
<1>. QED
  BY <1>1, <1>7, <1>8

LEMMA CancelKeeps == ASSUME NEW m \in wire PROVE ClientInv /\ ServeCancel(m) => ClientInv'
<1>. SUFFICES ASSUME ClientInv, ServeCancel(m) PROVE ClientInv'
  OBVIOUS
<1>1. Served(m) /\ Cancels(m.request) /\ UNCHANGED <<doing, results, made>>
  BY DEF ServeCancel
<1>2. ~Polls(m.request) /\ ~Submits(m.request)
  BY <1>1 DEF Submits, Polls, Cancels
<1>3. PICK id : id = m.request.id
  OBVIOUS
<1>4. id \in {0} \cup DOMAIN sessions
  BY <1>3, WireFacts DEF Proper
<1>5. CASE ~Known(id)
  <2>1. Gone(id)
    BY <1>4, <1>5 DEF Gone, Known
  <2>2. Fits(m, ok_or_err(404), Empty)
    BY <1>3, <2>1, WireFacts
  <2>3. Says(m, 404, Empty) /\ Unchanged
    BY <1>3, <1>5 DEF ServeCancel
  <2>. QED
    BY <1>1, <2>2, <2>3, WireFacts, ReadKeeps DEF Unchanged
<1>6. CASE Known(id)
  <2>1. /\ sessions' = [sessions EXCEPT ![id] = "deleted"] /\ Did(m, id)
        /\ Says(m, 200, Empty) \/ Says(m, 500, Empty)
    BY <1>3, <1>6 DEF ServeCancel
  <2>2. sessions \in Seq(Standings) /\ "deleted" \in Standings /\ id \in DOMAIN sessions
    BY <1>6 DEF ClientInv, ClientTypeOK, Standings, Known
  <2>3. /\ sessions' \in Seq(Standings) /\ DOMAIN sessions' = DOMAIN sessions /\ id \in Nat
        /\ \A i \in DOMAIN sessions : sessions'[i] = IF i = id THEN "deleted" ELSE sessions[i]
    BY <2>1, <2>2
  <2>4. \A i \in DOMAIN sessions : Advances(sessions[i], sessions'[i])
    BY <2>3, SameStandings DEF ClientInv, Advances
  <2>5. /\ effects \subseteq effects' /\ Effective(m.number)'
        /\ \A e \in effects' :
             e \in effects \/ (e.number = m.number /\ e \in [number : Nat, id : Nat])
    BY <2>1, <2>3, WireFacts, DidFacts
  <2>6. Gone(id)'
    BY <2>2, <2>3 DEF Gone
  <2>7. Fits(m, ok_or_err(500), Empty)' /\ Fits(m, ok_or_err(200), Empty)'
    BY <1>1, <1>2, <1>3, <2>5, <2>6, Outcomes DEF Fits, Ruled, Done, Farewell
  <2>8. \A r \in results : Later(r, m.request, ok_or_err(200), Empty)
    BY <1>2, <1>3, <1>6, SaidInTime
  <2>9. Empty \in Bodies /\ \A r \in results : Later(r, m.request, ok_or_err(500), Empty)
    BY WireFacts
  <2>. QED
    BY <1>1, <2>1, <2>3, <2>4, <2>5, <2>7, <2>8, <2>9, ServeKeeps
<1>. QED
  BY <1>5, <1>6

LEMMA TacticKeeps == ASSUME NEW m \in wire PROVE ClientInv /\ ServeTactic(m) => ClientInv'
<1>. SUFFICES ASSUME ClientInv, ServeTactic(m) PROVE ClientInv'
  OBVIOUS
<1>1. Served(m) /\ Drives(m.request) /\ UNCHANGED <<doing, results, made>>
  BY DEF ServeTactic
<1>2. ~Polls(m.request) /\ ~Submits(m.request)
  BY <1>1 DEF Submits, Polls, Drives
<1>3. PICK id : id = m.request.id
  OBVIOUS
<1>4. id \in {0} \cup DOMAIN sessions
  BY <1>3, WireFacts DEF Proper
<1>5. CASE ~Known(id) /\ Says(m, 404, Empty) /\ Unchanged
  <2>1. Gone(id)
    BY <1>4, <1>5 DEF Gone, Known
  <2>2. Fits(m, ok_or_err(404), Empty)
    BY <1>3, <2>1, WireFacts
  <2>. QED
    BY <1>1, <1>5, <2>2, WireFacts, ReadKeeps DEF Unchanged
<1>6. CASE /\ Known(id)
           /\ Says(m, 200, [success |-> FALSE, proof_state |-> View(id, sessions[id])])
           /\ Unchanged
  <2>1. PICK body : body = [success |-> FALSE, proof_state |-> View(id, sessions[id])]
    OBVIOUS
  <2>2. View(id, sessions[id]) \in ProofResponse
    BY <1>6, KnownFacts DEF View, ProofResponse
  <2>3. body \in Bodies /\ body.success = FALSE
    BY <2>1, <2>2 DEF TacticResponse, Bodies
  <2>4. ~Cancels(m.request)
    BY <1>1, WireFacts, Kinds
  <2>5. Fits(m, ok_or_err(200), body)
    BY <1>2, <2>3, <2>4, WireFacts, Outcomes DEF Fits, Done, Farewell
  <2>6. \A r \in results : Later(r, m.request, ok_or_err(200), body)
    BY <1>2, <1>3, <1>6, SaidInTime
  <2>. QED
    BY <1>1, <1>6, <2>1, <2>3, <2>5, <2>6, ReadKeeps DEF Unchanged
<1>7. CASE Open(id) /\ \E status \in {"in_progress", "success"} :
             /\ sessions' = [sessions EXCEPT ![id] = status]
             /\ Did(m, id)
             /\ \/ Says(m, 200, [success |-> TRUE, proof_state |-> View(id, status)])
                \/ Says(m, 500, Empty)
  <2>1. PICK status \in {"in_progress", "success"} :
          /\ sessions' = [sessions EXCEPT ![id] = status]
          /\ Did(m, id)
          /\ \/ Says(m, 200, [success |-> TRUE, proof_state |-> View(id, status)])
             \/ Says(m, 500, Empty)
    BY <1>7
  <2>2. /\ sessions \in Seq(Standings) /\ status \in Standings /\ status \in ProofStatus
        /\ id \in DOMAIN sessions /\ sessions[id] \in {"pending", "in_progress"}
    BY <1>7 DEF ClientInv, ClientTypeOK, Standings, ProofStatus, Open
  <2>3. /\ sessions' \in Seq(Standings) /\ DOMAIN sessions' = DOMAIN sessions /\ id \in Nat
        /\ \A i \in DOMAIN sessions : sessions'[i] = IF i = id THEN status ELSE sessions[i]
    BY <2>1, <2>2
  <2>4. Advances(sessions[id], status)
    BY <2>2, Ranks DEF Advances, Standings, ProofStatus
  <2>5. \A i \in DOMAIN sessions : Advances(sessions[i], sessions'[i])
    BY <2>3, <2>4, SameStandings DEF ClientInv
  <2>6. /\ effects \subseteq effects' /\ Effective(m.number)'
        /\ \A e \in effects' :
             e \in effects \/ (e.number = m.number /\ e \in [number : Nat, id : Nat])
    BY <2>1, <2>3, WireFacts, DidFacts
  <2>7. PICK body : body = [success |-> TRUE, proof_state |-> View(id, status)]
    OBVIOUS
  <2>8. View(id, status) \in ProofResponse
    BY <2>2, <2>3 DEF View, ProofResponse
  <2>9. body \in Bodies /\ body.success = TRUE
    BY <2>7, <2>8 DEF TacticResponse, Bodies
  <2>10. ~Cancels(m.request)
    BY <1>1, WireFacts, Kinds
  <2>11. Fits(m, ok_or_err(500), Empty)' /\ Fits(m, ok_or_err(200), body)'
    BY <1>1, <1>2, <2>6, <2>9, <2>10, Outcomes DEF Fits, Ruled, Done, Farewell
  <2>12. Known(id)
    BY <2>2 DEF Known
  <2>13. \A r \in results : Later(r, m.request, ok_or_err(200), body)
    BY <1>2, <1>3, <2>12, SaidInTime
  <2>14. Empty \in Bodies /\ \A r \in results : Later(r, m.request, ok_or_err(500), Empty)
    BY WireFacts
  <2>15. CASE Says(m, 200, body)
    BY <1>1, <2>3, <2>5, <2>6, <2>9, <2>11, <2>13, <2>15, ServeKeeps
  <2>16. CASE Says(m, 500, Empty)
    BY <1>1, <2>3, <2>5, <2>6, <2>11, <2>14, <2>16, ServeKeeps
  <2>. QED
    BY <2>1, <2>7, <2>15, <2>16
<1>. QED
  BY <1>3, <1>5, <1>6, <1>7 DEF ServeTactic

LEMMA ServeReadKeeps == ASSUME NEW m \in wire PROVE ClientInv /\ ServeRead(m) => ClientInv'
<1>. SUFFICES ASSUME ClientInv, ServeRead(m) PROVE ClientInv'
  OBVIOUS
<1>1. /\ Served(m) /\ UNCHANGED <<doing, results, made, sessions, effects>>
      /\ ~Submits(m.request) /\ ~Cancels(m.request) /\ ~Drives(m.request)
  BY DEF ServeRead, Unchanged
<1>2. PICK id : id = m.request.id
  OBVIOUS
<1>3. PICK path : path = m.request.path
  OBVIOUS
<1>4. id \in {0} \cup DOMAIN sessions /\ path \in Paths
  BY <1>2, <1>3, WireFacts DEF Proper, Requests
<1>5. IF Names(m.request) /\ ~Known(id) THEN Says(m, 404, Empty)
      ELSE Says(m, 200, IF path = "/proofs/:id" THEN View(id, sessions[id]) ELSE BodyAt(path))
  BY <1>2, <1>3 DEF ServeRead
<1>6. CASE Names(m.request) /\ ~Known(id)
  <2>1. Gone(id)
    BY <1>4, <1>6 DEF Gone, Known
  <2>2. Fits(m, ok_or_err(404), Empty)
    BY <1>2, <2>1, WireFacts
  <2>. QED
    BY <1>1, <1>5, <1>6, <2>2, WireFacts, ReadKeeps
<1>7. CASE path = "/proofs/:id" /\ Known(id)
  <2>1. PICK body : body = View(id, sessions[id])
    OBVIOUS
  <2>2. id \in DOMAIN sessions /\ id \in Nat
    BY <1>7, KnownFacts
  <2>3. sessions[id] \in ProofStatus
    BY <1>7, KnownFacts
  <2>4. body \in ProofResponse /\ body.status = sessions[id] /\ body \in Bodies
    BY <2>1, <2>2, <2>3 DEF View, ProofResponse, Bodies
  <2>5. Behind(body.status, id)
    BY <2>2, <2>4, SameStandings DEF Behind, ClientInv
  <2>6. Fits(m, ok_or_err(200), body)
    BY <1>1, <1>2, <2>4, <2>5, WireFacts, Outcomes DEF Fits, Done, Farewell
  <2>7. ASSUME NEW r \in results PROVE Later(r, m.request, ok_or_err(200), body)
    <3>1. r.request.id = id => ~ToldGone(r)
      BY <1>7, KnownFacts
    <3>2. Polls(r.request) /\ m.request = r.request /\ r.outcome = "Ok" => Behind(r.body.status, id)
      BY <1>2 DEF ClientInv, Truthful, Fits
    <3>. QED
      BY <1>2, <2>4, <3>1, <3>2 DEF Later, Behind
  <2>8. Says(m, 200, body)
    BY <1>3, <1>5, <1>7, <2>1
  <2>. QED
    BY <1>1, <2>4, <2>6, <2>7, <2>8, ReadKeeps
<1>8. CASE path # "/proofs/:id" /\ (Names(m.request) => Known(id))
  <2>1. ~Polls(m.request)
    BY <1>3, <1>8 DEF Polls
  <2>2. path # "/proofs" /\ path # "/proofs/:id/tactics"
    BY <1>1, <1>3, WireFacts DEF Proper, Submits, Drives
  <2>3. BodyAt(path) \in {Plain, ProverInfo, Tactic, ExportResponse, ImportResponse}
    BY <1>4, <1>8, <2>2 DEF BodyAt, Paths
  <2>4. PICK body : body = BodyAt(path)
    OBVIOUS
  <2>5. body \in Bodies /\ Says(m, 200, body)
    BY <1>5, <1>8, <2>3, <2>4 DEF Bodies
  <2>6. Fits(m, ok_or_err(200), body)
    BY <1>1, <2>1, WireFacts, Outcomes DEF Fits, Done, Farewell
  <2>7. \A r \in results : Later(r, m.request, ok_or_err(200), body)
    BY <1>2, <1>8, <2>1, SaidInTime
  <2>. QED
    BY <1>1, <2>5, <2>6, <2>7, ReadKeeps
<1>9. path = "/proofs/:id" => Names(m.request)
  BY <1>3 DEF Names
<1>. QED
  BY <1>6, <1>7, <1>8, <1>9

LEMMA ProgressKeeps == ClientInv /\ Progress => ClientInv'
<1>. SUFFICES ASSUME ClientInv, Progress PROVE ClientInv'
  OBVIOUS
<1>1. PICK id \in DOMAIN sessions, v \in ProofStatus \ {"pending"} :
        /\ sessions' = [sessions EXCEPT ![id] = v]
        /\ sessions[id] \in {"pending", "in_progress"}
  BY ClientAssumption DEF Progress, ProofStatus
<1>2. UNCHANGED <<doing, wire, answers, results, made, effects>>
  BY DEF Progress
<1>3. sessions \in Seq(Standings) /\ v \in Standings
  BY <1>1 DEF ClientInv, ClientTypeOK, Standings
<1>4. /\ sessions' \in Seq(Standings) /\ DOMAIN sessions' = DOMAIN sessions
      /\ Len(sessions') = Len(sessions)
      /\ \A i \in DOMAIN sessions : sessions'[i] = IF i = id THEN v ELSE sessions[i]
  BY <1>1, <1>3
<1>5. Advances(sessions[id], v)
  BY <1>1, <1>3, Ranks DEF Advances, Standings, ProofStatus
<1>6. \A i \in DOMAIN sessions : Advances(sessions[i], sessions'[i])
  BY <1>4, <1>5, SameStandings DEF ClientInv
<1>7. \A u \in Tasks : (Waiting(u)' <=> Waiting(u)) /\ Now(u)' = Now(u)
  BY <1>2 DEF Waiting, Now
<1>8. ClientTypeOK'
  BY <1>2, <1>4 DEF ClientInv, ClientTypeOK
<1>9. Numbered' /\ Distinct' /\ Ended' /\ Named' /\ Ordered'
  BY <1>2, <1>4, <1>7
     DEF ClientInv, Numbered, Distinct, Ended, Named, Proper, Ordered
<1>10. ASSUME NEW c, NEW outcome, NEW body, Fits(c, outcome, body)
       PROVE  Fits(c, outcome, body)'
  <2>1. Effective(c.number)' => Effective(c.number)
    BY <1>2 DEF Effective
  <2>. QED
    BY <1>2, <1>3, <1>4, <1>6, <1>10, <2>1, FitsOn
<1>11. Truthful'
  <2>1. \A r \in results : Fits(r, r.outcome, r.body)'
    BY <1>10 DEF ClientInv, Truthful
  <2>2. ASSUME NEW u \in Tasks, NEW a \in answers, Waiting(u)', a.number = Now(u)'.number
        PROVE  Fits(Now(u), ok_or_err(a.status), a.body)'
    <3>1. PICK c : c = Now(u)
      OBVIOUS
    <3>2. Now(u)' = Now(u) /\ Waiting(u)
      BY <1>7, <2>2
    <3>3. Fits(c, ok_or_err(a.status), a.body)
      BY <2>2, <3>1, <3>2 DEF ClientInv, Truthful
    <3>4. Fits(c, ok_or_err(a.status), a.body)'
      BY <1>10, <3>3
    <3>. QED
      BY <3>1, <3>2, <3>4 DEF Fits, Effective, Gone, Behind
  <2>. QED
    BY <1>2, <2>1, <2>2 DEF Truthful
<1>. QED
  BY <1>8, <1>9, <1>11 DEF ClientInv

----------------------------------------------------------------------------
THEOREM ClientNext_Inv == ClientInv /\ [ClientNext]_clientVars => ClientInv'
<1>. SUFFICES ASSUME ClientInv, [ClientNext]_clientVars PROVE ClientInv'
  OBVIOUS
<1>1. ASSUME NEW t \in Tasks, Task(t) PROVE ClientInv'
  BY <1>1, CallKeeps, NoResponseKeeps, ResponseKeeps DEF Task
<1>2. ASSUME NEW m \in wire, Server(m) PROVE ClientInv'
  BY <1>2, SubmitKeeps, CancelKeeps, TacticKeeps, ServeReadKeeps, MalformedKeeps,
     UnableKeeps DEF Server
<1>3. CASE Progress
  BY <1>3, ProgressKeeps
<1>4. CASE UNCHANGED clientVars
  <2>1. UNCHANGED <<doing, wire, answers, results, made, sessions, effects>>
    BY <1>4 DEF clientVars
  <2>2. ClientTypeOK' /\ Numbered' /\ Distinct' /\ Ended' /\ Named'
    BY <2>1 DEF ClientInv, ClientTypeOK, Numbered, Distinct, Ended, Named, Proper, Waiting, Now
  <2>3. Truthful'
    BY <2>1 DEF ClientInv, Truthful, Waiting, Now, Fits, Effective, Gone, Behind
  <2>4. Ordered'
    BY <2>1 DEF ClientInv, Ordered, Waiting, Now
  <2>. QED
    BY <2>2, <2>3, <2>4 DEF ClientInv
<1>. QED
  BY <1>1, <1>2, <1>3, <1>4 DEF ClientNext

LEMMA ClientInvariant == ClientSpec => []ClientInv
BY ClientInit_Inv, ClientNext_Inv, PTL DEF ClientSpec

----------------------------------------------------------------------------
\* Every variable of the client and its server keeps its type.
THEOREM ClientTypes == ClientSpec => []ClientTypeOK
BY ClientInvariant, PTL DEF ClientInv

\* Of a success its kind and body say whether it took effect; a rejected call, or one whose
\* session was not found, did not and will not.
THEOREM TruthTheorem == ClientSpec => []ResultsTellTheTruth
<1>1. ClientInv => ResultsTellTheTruth
  <2>. SUFFICES ASSUME ClientInv, NEW r \in results, Ruled(r.outcome)
                PROVE  (Effective(r.number) <=> SaysDone(r)) /\ ~InFlight(r.number)
    BY DEF ResultsTellTheTruth, Ruled
  <2>1. Effective(r.number) <=> Done(r.request, r.outcome, r.body)
    BY DEF ClientInv, Truthful, Fits
  <2>2. ~InFlight(r.number)
    BY DEF ClientInv, Ended, InFlight, Ruled
  <2>. QED
    BY <2>1, <2>2 DEF Done, SaysDone
<1>. QED
  BY <1>1, ClientInvariant, PTL

\* NotFound is said of sessions that are gone, and whoever was told that one is gone has no
\* success with it any more.
THEOREM NotFoundTheorem == ClientSpec => []NotFoundIsGone
<1>1. ClientInv => NotFoundIsGone
  <2>. SUFFICES ASSUME ClientInv PROVE NotFoundIsGone
    OBVIOUS
  <2>1. ASSUME NEW r \in results, r.outcome = "NotFound" PROVE ~Known(r.request.id)
    <3>1. Gone(r.request.id)
      BY <2>1 DEF ClientInv, Truthful, Fits, Farewell
    <3>. QED
      BY <3>1, KnownFacts
  <2>2. ASSUME NEW r \in results, NEW s \in results, r.task = s.task, r.number < s.number,
               ToldGone(r), Names(s.request), s.request.id = r.request.id
        PROVE  s.outcome # "Ok"
    BY <2>2 DEF ClientInv, Ordered, Later
  <2>. QED
    BY <2>1, <2>2 DEF NotFoundIsGone
<1>. QED
  BY <1>1, ClientInvariant, PTL

\* To a task that polls a session its status only moves on.
THEOREM StatusTheorem == ClientSpec => []StatusesMoveOn
<1>1. ClientInv => StatusesMoveOn
  <2>. SUFFICES ASSUME ClientInv, NEW r \in results, NEW s \in results, Polled(r, s)
                PROVE  /\ r.outcome = "NotFound" => s.outcome # "Ok"
                       /\ Succeeded(r) /\ Succeeded(s) =>
                            /\ Rank(r.body.status) <= Rank(s.body.status)
                            /\ Rank(r.body.status) = 3 => s.body.status = r.body.status
    BY DEF StatusesMoveOn
  <2>1. Later(r, s.request, s.outcome, s.body) /\ Polls(r.request) /\ s.request = r.request
    BY DEF ClientInv, Ordered, Polled
  <2>3. Names(s.request)
    BY <2>1 DEF Polls, Names
  <2>2. ASSUME Succeeded(r), Succeeded(s) PROVE s.body.status # "deleted"
    <3>1. s.body \in ProofResponse
      BY <2>2 DEF ClientInv, Truthful, Fits, Polled, Succeeded
    <3>. QED
      BY <3>1 DEF ProofResponse, ProofStatus
  <2>. QED
    BY <2>1, <2>2, <2>3 DEF Later, ToldGone, Advances, Succeeded
<1>. QED
  BY <1>1, ClientInvariant, PTL

----------------------------------------------------------------------------
(* That a call changes the server once needs more: what the results and the *)
(* answers on their way claim of the sessions, and how many submissions may *)
(* have opened one.                                                         *)

Refusals == {"BadRequest", "NotFound"}

\* Answer a is for the call task t awaits.
Awaits(t, a) == Waiting(t) /\ a.number = Now(t).number

\* The session a call that ended well opened or cancelled.
Subject(request, body) == IF Submits(request) THEN body.id ELSE request.id

Alike(p, q) == (Submits(p) /\ Submits(q)) \/ (Cancels(p) /\ Cancels(q))

\* Of two calls that ended well not both opened, and not both cancelled, the same session.
Apart(c, outcome, body, d, outcomed, bodyd) ==
  outcome = "Ok" /\ outcomed = "Ok" /\ Alike(c.request, d.request) =>
    Subject(c.request, body) # Subject(d.request, bodyd)

Sole ==
  /\ \A r, s \in results : r # s => Apart(r, r.outcome, r.body, s, s.outcome, s.body)
  /\ \A t \in Tasks, a \in answers, r \in results :
       Awaits(t, a) => Apart(Now(t), ok_or_err(a.status), a.body, r, r.outcome, r.body)
  /\ \A t, u \in Tasks, a, b \in answers :
       t # u /\ Awaits(t, a) /\ Awaits(u, b) =>
         Apart(Now(t), ok_or_err(a.status), a.body, Now(u), ok_or_err(b.status), b.body)

OneEffect == \A e, f \in effects : e.number = f.number => e = f

\* The submissions: awaited, on their way to the server, refused by it without the task
\* knowing yet, and ended without the task having been told of a refusal.
Submitters == {t \in Tasks : doing[t] # <<>> /\ Submits(doing[t][1].request)}
Unserved == {m \in wire : Submits(m.request)}
Refused ==
  {t \in Submitters : \E a \in answers : Awaits(t, a) /\ ok_or_err(a.status) \in Refusals}
Unsettled == {r \in results : Submits(r.request) /\ r.outcome \notin Refusals}

\* A submission on its way has not opened a session yet, a refused one will not: the others
\* are at least as many as the sessions opened.
Counted ==
  /\ IsFiniteSet(Submitters) /\ IsFiniteSet(Unserved) /\ IsFiniteSet(Unsettled)
  /\ Len(sessions) + Cardinality(Unserved) + Cardinality(Refused)
       <= Inherited + Cardinality(Unsettled) + Cardinality(Submitters)

OnceInv == OneEffect /\ Sole /\ Counted

\* Task t's call ends, and r is what it leaves.
Leaves(t, r) ==
  /\ results' = results \cup {r} /\ doing' = [doing EXCEPT ![t] = <<>>]
  /\ r.number = Now(t).number /\ r.request = Now(t).request
  /\ UNCHANGED <<wire, sessions, effects>>
  /\ \/ r.outcome = "Http" /\ \E a : a.number = Now(t).number /\ answers' \in {answers, answers \ {a}}
     \/ \E a \in answers : /\ a.number = Now(t).number /\ answers' = answers \ {a}
                           /\ r.outcome = ok_or_err(a.status) /\ r.body = a.body

\* The server serves m and answers with a status and a body.
AnswersWith(m, status, body) ==
  /\ UNCHANGED <<doing, results>> /\ Served(m) /\ Says(m, status, body)
  /\ \A id : Gone(id) => Gone(id)'
  /\ \/ /\ effects' = effects /\ Len(sessions') = Len(sessions)
        /\ ok_or_err(status) = "Ok" => ~Submits(m.request) /\ ~Cancels(m.request)
     \/ /\ \E id : Did(m, id)
        /\ ok_or_err(status) \notin Refusals
        /\ \/ /\ Submits(m.request) /\ Len(sessions') = Len(sessions) + 1
              /\ ok_or_err(status) = "Ok" => body.id = Len(sessions) + 1
           \/ /\ Cancels(m.request) /\ Len(sessions') = Len(sessions)
              /\ ~Gone(m.request.id) /\ Gone(m.request.id)'
           \/ ~Submits(m.request) /\ ~Cancels(m.request) /\ Len(sessions') = Len(sessions)

LEMMA EndForm ==
  ASSUME NEW t \in Tasks, ClientInv, NoResponse(t) \/ Response(t)
  PROVE  \E r : Leaves(t, r)
<1>1. CASE NoResponse(t)
  <2>1. PICK r : r = [task |-> t, number |-> doing[t][1].number, request |-> doing[t][1].request,
                      outcome |-> "Http", body |-> Empty]
    OBVIOUS
  <2>2. r.number = Now(t).number /\ r.request = Now(t).request /\ r.outcome = "Http"
    BY <2>1 DEF Now
  <2>3. results' = results \cup {r} /\ doing' = [doing EXCEPT ![t] = <<>>]
        /\ UNCHANGED <<wire, answers, sessions, effects>>
    BY <1>1, <2>1 DEF NoResponse, Ends
  <2>. QED
    BY <2>2, <2>3 DEF Leaves
<1>2. CASE Response(t)
  <2>1. PICK a, outcome, body :
          /\ a \in answers
          /\ a.number = Now(t).number /\ answers' = answers \ {a}
          /\ Ends(t, outcome, body)
          /\ \/ outcome = ok_or_err(a.status) /\ body = a.body
             \/ outcome = "Http"
    BY <1>2 DEF Response, Now
  <2>2. PICK r : r = [task |-> t, number |-> doing[t][1].number, request |-> doing[t][1].request,
                      outcome |-> outcome, body |-> body]
    OBVIOUS
  <2>3. r.number = Now(t).number /\ r.request = Now(t).request
        /\ r.outcome = outcome /\ r.body = body
    BY <2>2 DEF Now
  <2>4. results' = results \cup {r} /\ doing' = [doing EXCEPT ![t] = <<>>]
        /\ UNCHANGED <<wire, sessions, effects>>
    BY <1>2, <2>1, <2>2 DEF Response, Ends
  <2>. QED
    BY <2>1, <2>3, <2>4 DEF Leaves
<1>. QED
  BY <1>1, <1>2

\* A session that is gone stays so, whatever becomes of one that is not.
LEMMA GoneStays ==
  ASSUME ClientInv, NEW id \in DOMAIN sessions, sessions[id] # "deleted", NEW status,
         sessions' = [sessions EXCEPT ![id] = status]
  PROVE  /\ \A i : Gone(i) => Gone(i)'
         /\ Len(sessions') = Len(sessions) /\ DOMAIN sessions' = DOMAIN sessions
         /\ sessions'[id] = status
<1>1. sessions \in Seq(Standings)
  BY DEF ClientInv, ClientTypeOK
<1>2. /\ Len(sessions') = Len(sessions) /\ DOMAIN sessions' = DOMAIN sessions
      /\ \A i \in DOMAIN sessions : sessions'[i] = IF i = id THEN status ELSE sessions[i]
  BY <1>1
<1>. QED
  BY <1>2 DEF Gone

\* The server looks at a session, or refuses, or is unable.
LEMMA LookForm ==
  ASSUME NEW m, NEW status, NEW body, Served(m), Says(m, status, body),
         UNCHANGED <<doing, results, sessions, effects>>,
         ok_or_err(status) = "Ok" => ~Submits(m.request) /\ ~Cancels(m.request)
  PROVE  AnswersWith(m, status, body)
BY DEF AnswersWith, Gone

LEMMA AnswerForm ==
  ASSUME NEW m \in wire, ClientInv, Server(m)
  PROVE  \E status, body : AnswersWith(m, status, body)
<1>1. Served(m) /\ UNCHANGED <<doing, results>>
  BY DEF Server, ServeSubmit, ServeCancel, ServeTactic, ServeRead, Malformed, Unable
<1>2. Proper(m.request)
  BY WireFacts
<1>3. /\ ok_or_err(200) \notin Refusals /\ ok_or_err(500) \notin Refusals
      /\ ok_or_err(400) # "Ok" /\ ok_or_err(404) # "Ok" /\ ok_or_err(500) # "Ok"
  BY Outcomes DEF Refusals
<1>4. ASSUME NEW status \in {400, 404, 500}, Says(m, status, Empty), Unchanged
      PROVE  AnswersWith(m, status, Empty)
  BY <1>1, <1>3, <1>4, LookForm DEF Unchanged
<1>5. CASE ServeSubmit(m)
  <2>1. /\ sessions' = Append(sessions, "pending") /\ Submits(m.request)
        /\ Did(m, Len(sessions) + 1)
        /\ Says(m, 200, View(Len(sessions) + 1, "pending")) \/ Says(m, 500, Empty)
    BY <1>5 DEF ServeSubmit
  <2>2. sessions \in Seq(Standings)
    BY DEF ClientInv, ClientTypeOK
  <2>3. /\ Len(sessions') = Len(sessions) + 1 /\ DOMAIN sessions \subseteq DOMAIN sessions'
        /\ \A id \in DOMAIN sessions : sessions'[id] = sessions[id]
    BY <2>1, <2>2
  <2>4. \A id : Gone(id) => Gone(id)'
    BY <2>3 DEF Gone
  <2>5. PICK body : body = View(Len(sessions) + 1, "pending")
    OBVIOUS
  <2>6. body.id = Len(sessions) + 1
    BY <2>5 DEF View
  <2>7. CASE Says(m, 200, body)
    <3>. ok_or_err(200) \notin Refusals
      BY <1>3
    <3>. QED
      BY <1>1, <2>1, <2>3, <2>4, <2>6, <2>7 DEF AnswersWith
  <2>8. CASE Says(m, 500, Empty)
    <3>. ok_or_err(500) \notin Refusals /\ ok_or_err(500) # "Ok"
      BY <1>3
    <3>. QED
      BY <1>1, <2>1, <2>3, <2>4, <2>8 DEF AnswersWith
  <2>. QED
    BY <2>1, <2>5, <2>7, <2>8
<1>6. CASE ServeCancel(m)
  <2>1. PICK id : id = m.request.id
    OBVIOUS
  <2>2. CASE ~Known(id)
    <3>1. Says(m, 404, Empty) /\ Unchanged
      BY <1>6, <2>1, <2>2 DEF ServeCancel
    <3>. QED
      BY <1>4, <3>1
  <2>3. CASE Known(id)
    <3>1. /\ sessions' = [sessions EXCEPT ![id] = "deleted"] /\ Did(m, id)
          /\ Says(m, 200, Empty) \/ Says(m, 500, Empty)
      BY <1>6, <2>1, <2>3 DEF ServeCancel
    <3>2. id \in DOMAIN sessions /\ sessions[id] # "deleted"
      BY <2>3 DEF Known
    <3>3. /\ \A i : Gone(i) => Gone(i)'
          /\ Len(sessions') = Len(sessions) /\ DOMAIN sessions' = DOMAIN sessions
          /\ sessions'[id] = "deleted"
      BY <3>1, <3>2, GoneStays
    <3>4. 0 \notin DOMAIN sessions
      BY DEF ClientInv, ClientTypeOK
    <3>5. ~Gone(m.request.id) /\ Gone(m.request.id)'
      BY <2>1, <3>2, <3>3, <3>4 DEF Gone
    <3>6. Cancels(m.request)
      BY <1>6 DEF ServeCancel
    <3>7. ASSUME NEW status \in {200, 500}, Says(m, status, Empty)
          PROVE  AnswersWith(m, status, Empty)
      <4>1. ok_or_err(status) \notin Refusals
        BY <1>3
      <4>. QED
        BY <1>1, <3>1, <3>3, <3>5, <3>6, <3>7, <4>1 DEF AnswersWith
    <3>. QED
      BY <3>1, <3>7
  <2>. QED
    BY <2>2, <2>3
<1>7. CASE ServeTactic(m)
  <2>1. PICK id : id = m.request.id
    OBVIOUS
  <2>2. ASSUME NEW code, NEW body, Says(m, code, body), Unchanged
        PROVE  AnswersWith(m, code, body)
    <3>1. ~Submits(m.request) /\ ~Cancels(m.request)
      BY <1>2, <1>7, Kinds DEF ServeTactic
    <3>. QED
      BY <1>1, <2>2, <3>1, LookForm DEF Unchanged
  <2>3. ASSUME NEW status, Open(id), sessions' = [sessions EXCEPT ![id] = status], Did(m, id),
               NEW code \in {200, 500}, NEW body, Says(m, code, body)
        PROVE  AnswersWith(m, code, body)
    <3>1. \A i : Gone(i) => Gone(i)'
      BY <2>3, GoneStays DEF Open
    <3>2. Len(sessions') = Len(sessions)
      BY <2>3, GoneStays DEF Open
    <3>3. ~Submits(m.request) /\ ~Cancels(m.request)
      BY <1>2, <1>7, Kinds DEF ServeTactic
    <3>4. ok_or_err(code) \notin Refusals
      BY <1>3
    <3>. QED
      BY <1>1, <2>3, <3>1, <3>2, <3>3, <3>4 DEF AnswersWith
  <2>. QED
    BY <1>7, <2>1, <2>2, <2>3 DEF ServeTactic
<1>8. CASE ServeRead(m)
  <2>1. UNCHANGED <<sessions, effects>> /\ ~Submits(m.request) /\ ~Cancels(m.request)
    BY <1>8 DEF ServeRead, Unchanged
  <2>2. \E status, body : Says(m, status, body)
    BY <1>8 DEF ServeRead
  <2>. QED
    BY <1>1, <2>1, <2>2, LookForm
<1>9. CASE Malformed(m) \/ Unable(m)
  BY <1>4, <1>9 DEF Malformed, Unable
<1>. QED
  BY <1>5, <1>6, <1>7, <1>8, <1>9 DEF Server

\* The sets the count is made of.
LEMMA Countable ==
  ASSUME ClientInv, Counted
  PROVE  /\ Cardinality(Submitters) \in Nat /\ Cardinality(Unserved) \in Nat
         /\ Cardinality(Unsettled) \in Nat /\ Cardinality(Refused) \in Nat
         /\ IsFiniteSet(Refused) /\ Refused \subseteq Submitters
         /\ Len(sessions) \in Nat /\ Inherited \in Nat
<1>1. Refused \subseteq Submitters
  BY DEF Refused
<1>2. IsFiniteSet(Refused)
  BY <1>1, FS_Subset DEF Counted
<1>3. Len(sessions) \in Nat
  BY DEF ClientInv, ClientTypeOK
<1>. QED
  BY <1>1, <1>2, <1>3, FS_CardinalityType, ClientAssumption DEF Counted

LEMMA ApartSwaps ==
  ASSUME NEW c, NEW outcome, NEW body, NEW d, NEW outcomed, NEW bodyd,
         Apart(c, outcome, body, d, outcomed, bodyd)
  PROVE  Apart(d, outcomed, bodyd, c, outcome, body)
<1>1. Alike(d.request, c.request) => Alike(c.request, d.request)
  BY DEF Alike
<1>. QED
  BY <1>1 DEF Apart

LEMMA CallOnce == ASSUME NEW t \in Tasks PROVE ClientInv /\ OnceInv /\ Call(t) => OnceInv'
<1>. SUFFICES ASSUME ClientInv, OnceInv, Call(t) PROVE OnceInv'
  OBVIOUS
<1>1. PICK request :
        /\ doing' = [doing EXCEPT ![t] = <<[number |-> made + 1, request |-> request]>>]
        /\ wire' = wire \cup {[number |-> made + 1, request |-> request]}
  BY DEF Call
<1>. PICK sent : sent = [number |-> made + 1, request |-> request]
  OBVIOUS
<1>2. /\ ~Waiting(t) /\ made \in Nat /\ UNCHANGED <<answers, results, sessions, effects>>
  BY ClientAssumption DEF Call, Waiting, ClientInv, ClientTypeOK
<1>3. sent.number = made + 1 /\ sent.request = request
  OBVIOUS
<1>4. /\ Waiting(t)' /\ Now(t)' = sent
      /\ \A u \in Tasks \ {t} : (Waiting(u)' <=> Waiting(u)) /\ Now(u)' = Now(u) /\ doing'[u] = doing[u]
      /\ wire' = wire \cup {sent}
  BY <1>1 DEF ClientInv, ClientTypeOK, Waiting, Now
<1>5. \A x \in wire \cup answers : x.number # sent.number
  <2>1. \A x \in wire \cup answers : x.number \in Nat /\ x.number <= made
    BY DEF ClientInv, ClientTypeOK, Sent, Numbered
  <2>. QED
    BY <1>2, <1>3, <2>1
<1>6. \A u \in Tasks, a \in answers : Awaits(u, a)' => u # t /\ Awaits(u, a) /\ Now(u)' = Now(u)
  BY <1>4, <1>5 DEF Awaits
<1>7. OneEffect'
  BY <1>2 DEF OnceInv, OneEffect
<1>8. Sole'
  BY <1>2, <1>6 DEF OnceInv, Sole
<1>10. Unsettled' = Unsettled
  BY <1>2 DEF Unsettled
<1>11. Refused' \subseteq Refused
  BY <1>2, <1>4, <1>6 DEF Refused, Submitters
<1>12. IsFiniteSet(Refused') /\ Cardinality(Refused') <= Cardinality(Refused)
       /\ Cardinality(Refused') \in Nat
  BY <1>11, Countable, FS_Subset, FS_CardinalityType DEF OnceInv
<1>13. CASE Submits(request)
  <2>1. Submitters' = Submitters \cup {t} /\ t \notin Submitters
    BY <1>2, <1>3, <1>4, <1>13 DEF Submitters, Waiting, Now
  <2>2. Unserved' = Unserved \cup {sent} /\ sent \notin Unserved
    BY <1>3, <1>4, <1>5, <1>13 DEF Unserved
  <2>3. /\ IsFiniteSet(Submitters') /\ Cardinality(Submitters') = Cardinality(Submitters) + 1
        /\ IsFiniteSet(Unserved') /\ Cardinality(Unserved') = Cardinality(Unserved) + 1
    BY <2>1, <2>2, FS_AddElement DEF OnceInv, Counted
  <2>4. Counted'
    BY <1>2, <1>10, <1>12, <2>3, Countable DEF OnceInv, Counted
  <2>. QED
    BY <1>7, <1>8, <2>4 DEF OnceInv
<1>14. CASE ~Submits(request)
  <2>1. Submitters' = Submitters
    BY <1>2, <1>3, <1>4, <1>14 DEF Submitters, Waiting, Now
  <2>2. Unserved' = Unserved
    BY <1>3, <1>4, <1>14 DEF Unserved
  <2>3. Counted'
    BY <1>2, <1>10, <1>12, <2>1, <2>2, Countable DEF OnceInv, Counted
  <2>. QED
    BY <1>7, <1>8, <2>3 DEF OnceInv
<1>. QED
  BY <1>13, <1>14

LEMMA EndOnce ==
  ASSUME NEW t \in Tasks, NEW r, ClientInv, OnceInv, Waiting(t), Leaves(t, r)
  PROVE  OnceInv'
<1>1. /\ ~Waiting(t)'
      /\ \A u \in Tasks \ {t} : (Waiting(u)' <=> Waiting(u)) /\ Now(u)' = Now(u) /\ doing'[u] = doing[u]
      /\ answers' \subseteq answers
  BY DEF ClientInv, ClientTypeOK, Waiting, Now, Leaves
<1>2. \A u \in Tasks, a \in answers' :
        Awaits(u, a)' => u # t /\ a \in answers /\ Awaits(u, a) /\ Now(u)' = Now(u)
  BY <1>1 DEF Awaits
<1>3. r \notin results
  BY DEF ClientInv, Ended, Leaves
<1>4. r.outcome # "Http" =>
        \E a \in answers : /\ Awaits(t, a) /\ r.outcome = ok_or_err(a.status) /\ r.body = a.body
  BY DEF Leaves, Awaits
<1>5. UNCHANGED <<wire, sessions, effects>> /\ results' = results \cup {r} /\ r.request = Now(t).request
  BY DEF Leaves
<1>6. OneEffect'
  BY <1>5 DEF OnceInv, OneEffect
<1>7. Sole'
  <2>1. ASSUME NEW q \in results PROVE Apart(r, r.outcome, r.body, q, q.outcome, q.body)
    BY <1>4, <1>5 DEF OnceInv, Sole, Apart
  <2>2. ASSUME NEW u \in Tasks \ {t}, NEW b \in answers, Awaits(u, b)
        PROVE  Apart(Now(u), ok_or_err(b.status), b.body, r, r.outcome, r.body)
    <3>1. ASSUME NEW a \in answers, Awaits(t, a)
          PROVE  Apart(Now(u), ok_or_err(b.status), b.body, Now(t), ok_or_err(a.status), a.body)
      BY <2>2, <3>1 DEF OnceInv, Sole
    <3>. QED
      BY <1>4, <1>5, <3>1 DEF Apart
  <2>3. \A q, s \in results' : q # s => Apart(q, q.outcome, q.body, s, s.outcome, s.body)
    BY <1>5, <2>1, ApartSwaps DEF OnceInv, Sole
  <2>4. \A u \in Tasks, a \in answers', q \in results' :
          Awaits(u, a)' => Apart(Now(u)', ok_or_err(a.status), a.body, q, q.outcome, q.body)
    BY <1>2, <1>5, <2>2 DEF OnceInv, Sole
  <2>5. \A u, v \in Tasks, a, b \in answers' :
          u # v /\ Awaits(u, a)' /\ Awaits(v, b)' =>
            Apart(Now(u)', ok_or_err(a.status), a.body, Now(v)', ok_or_err(b.status), b.body)
    BY <1>2 DEF OnceInv, Sole
  <2>. QED
    BY <2>3, <2>4, <2>5 DEF Sole
<1>9. Unserved' = Unserved
  BY <1>5 DEF Unserved
<1>10. Submitters' = Submitters \ {t}
  BY <1>1 DEF Submitters, Waiting
<1>11. Refused' \subseteq Refused \ {t}
  <2>1. ASSUME NEW u \in Refused' PROVE u \in Refused \ {t}
    <3>1. /\ u \in Submitters \ {t}
          /\ \E a \in answers' : Awaits(u, a)' /\ ok_or_err(a.status) \in Refusals
      BY <1>10, <2>1 DEF Refused
    <3>2. u \in Tasks
      BY <3>1 DEF Submitters
    <3>. QED
      BY <1>2, <3>1, <3>2 DEF Refused
  <2>. QED
    BY <2>1
<1>12. /\ IsFiniteSet(Submitters')
       /\ Cardinality(Submitters') = IF t \in Submitters THEN Cardinality(Submitters) - 1
                                                         ELSE Cardinality(Submitters)
  <2>1. IsFiniteSet(Submitters)
    BY DEF OnceInv, Counted
  <2>. QED
    BY <1>10, <2>1, FS_RemoveElement
<1>13. /\ Cardinality(Refused') \in Nat
       /\ Cardinality(Refused') <= Cardinality(Refused) - (IF t \in Refused THEN 1 ELSE 0)
  <2>1. /\ IsFiniteSet(Refused \ {t})
        /\ Cardinality(Refused \ {t}) = IF t \in Refused THEN Cardinality(Refused) - 1
                                                        ELSE Cardinality(Refused)
    BY Countable, FS_RemoveElement DEF OnceInv
  <2>2. IsFiniteSet(Refused') /\ Cardinality(Refused') <= Cardinality(Refused \ {t})
    BY <1>11, <2>1, FS_Subset
  <2>. QED
    BY <2>1, <2>2, FS_CardinalityType, Countable DEF OnceInv
<1>14. t \in Submitters <=> Submits(r.request)
  BY <1>5 DEF Submitters, Now, Waiting
<1>15. Submits(r.request) /\ r.outcome \in Refusals => t \in Refused
  BY <1>4, <1>14 DEF Refused, Refusals
<1>16. CASE Submits(r.request) /\ r.outcome \notin Refusals
  <2>1. Unsettled' = Unsettled \cup {r} /\ r \notin Unsettled
    BY <1>3, <1>5, <1>16 DEF Unsettled
  <2>2. IsFiniteSet(Unsettled') /\ Cardinality(Unsettled') = Cardinality(Unsettled) + 1
    BY <2>1, FS_AddElement DEF OnceInv, Counted
  <2>3. Counted'
    BY <1>5, <1>9, <1>12, <1>13, <1>14, <1>16, <2>2, Countable DEF OnceInv, Counted
  <2>. QED
    BY <1>6, <1>7, <2>3 DEF OnceInv
<1>17. CASE ~(Submits(r.request) /\ r.outcome \notin Refusals)
  <2>1. Unsettled' = Unsettled
    BY <1>5, <1>17 DEF Unsettled
  <2>2. Counted'
    BY <1>5, <1>9, <1>12, <1>13, <1>14, <1>15, <1>17, <2>1, Countable DEF OnceInv, Counted
  <2>. QED
    BY <1>6, <1>7, <2>2 DEF OnceInv
<1>. QED
  BY <1>16, <1>17

\* What the server answers is apart from all that was answered before.
LEMMA NewClaim ==
  ASSUME ClientInv, OnceInv, NEW m \in wire, NEW status, NEW body, AnswersWith(m, status, body),
         NEW c, NEW outcome, NEW words, Fits(c, outcome, words)
  PROVE  Apart(m, ok_or_err(status), body, c, outcome, words)
<1>. SUFFICES ASSUME ok_or_err(status) = "Ok", outcome = "Ok", Alike(m.request, c.request)
              PROVE  Subject(m.request, body) # Subject(c.request, words)
  BY DEF Apart
<1>1. CASE Submits(m.request)
  <2>1. ~Cancels(m.request) /\ Submits(c.request)
    BY <1>1, Kinds DEF Alike
  <2>2. body.id = Len(sessions) + 1
    BY <1>1, <2>1 DEF AnswersWith
  <2>3. words.id \in DOMAIN sessions
    BY <2>1 DEF Fits
  <2>4. Len(sessions) + 1 \notin DOMAIN sessions
    BY DEF ClientInv, ClientTypeOK
  <2>. QED
    BY <1>1, <2>1, <2>2, <2>3, <2>4 DEF Subject
<1>2. CASE ~Submits(m.request)
  <2>1. Cancels(m.request) /\ Cancels(c.request)
    BY <1>2 DEF Alike
  <2>2. ~Submits(c.request)
    BY <2>1, Kinds
  <2>3. ~Gone(m.request.id)
    BY <1>2, <2>1 DEF AnswersWith
  <2>4. Gone(c.request.id)
    BY <2>1 DEF Fits, Farewell
  <2>. QED
    BY <1>2, <2>2, <2>3, <2>4 DEF Subject
<1>. QED
  BY <1>1, <1>2

LEMMA AnswerOnce ==
  ASSUME NEW m \in wire, NEW status, NEW body, ClientInv, OnceInv, AnswersWith(m, status, body)
  PROVE  OnceInv'
<1>. PICK a : a = [number |-> m.number, status |-> status, body |-> body]
  OBVIOUS
<1>1. a.number = m.number /\ a.status = status /\ a.body = body
  OBVIOUS
<1>2. /\ UNCHANGED <<doing, results>> /\ wire' = wire \ {m} /\ answers' = answers \cup {a}
      /\ \A id : Gone(id) => Gone(id)'
  BY DEF AnswersWith, Served, Says
<1>3. \A u \in Tasks : (Waiting(u)' <=> Waiting(u)) /\ Now(u)' = Now(u)
  BY <1>2 DEF Waiting, Now
\* The new answer is for the one task, if any, that awaits m.
<1>4. ASSUME NEW u \in Tasks, Awaits(u, a)' PROVE Waiting(u) /\ Now(u) = m
  <2>1. Waiting(u) /\ m.number = Now(u).number
    BY <1>1, <1>3, <1>4 DEF Awaits
  <2>. QED
    BY <2>1 DEF ClientInv, Distinct
<1>5. \A u \in Tasks : \A b : Awaits(u, b)' <=> Awaits(u, b)
  BY <1>3 DEF Awaits
<1>6. OneEffect'
  <2>1. CASE effects' = effects
    BY <2>1 DEF OnceInv, OneEffect
  <2>2. CASE \E id : Did(m, id)
    <3>1. PICK id : Did(m, id)
      BY <2>2
    <3>. PICK e : e = [number |-> m.number, id |-> id]
      OBVIOUS
    <3>2. effects' = effects \cup {e} /\ e.number = m.number
      BY <3>1 DEF Did
    <3>3. \A f \in effects : f.number # m.number
      BY DEF ClientInv, Distinct
    <3>. QED
      BY <3>2, <3>3 DEF OnceInv, OneEffect
  <2>. QED
    BY <2>1, <2>2 DEF AnswersWith
<1>8. Sole'
  <2>1. ASSUME NEW r \in results PROVE Apart(m, ok_or_err(status), body, r, r.outcome, r.body)
    <3>1. Fits(r, r.outcome, r.body)
      BY DEF ClientInv, Truthful
    <3>. QED
      BY <3>1, NewClaim
  <2>2. ASSUME NEW u \in Tasks, NEW b \in answers, Awaits(u, b)
        PROVE  Apart(m, ok_or_err(status), body, Now(u), ok_or_err(b.status), b.body)
    <3>1. Fits(Now(u), ok_or_err(b.status), b.body)
      BY <2>2 DEF ClientInv, Truthful, Awaits
    <3>. QED
      BY <3>1, NewClaim
  <2>3. \A u \in Tasks, b \in answers', r \in results :
          Awaits(u, b)' => Apart(Now(u)', ok_or_err(b.status), b.body, r, r.outcome, r.body)
    BY <1>1, <1>2, <1>3, <1>4, <1>5, <2>1 DEF OnceInv, Sole
  <2>4. ASSUME NEW u \in Tasks, NEW v \in Tasks, NEW b \in answers', NEW d \in answers',
               u # v, Awaits(u, b)', Awaits(v, d)'
        PROVE  Apart(Now(u), ok_or_err(b.status), b.body, Now(v), ok_or_err(d.status), d.body)
    <3>1. CASE b = a /\ d = a
      <4>1. Waiting(u) /\ Waiting(v) /\ Now(u) = m /\ Now(v) = m
        BY <1>4, <2>4, <3>1
      <4>. QED
        BY <2>4, <4>1 DEF ClientInv, Distinct
    <3>2. CASE b = a /\ d \in answers
      BY <1>1, <1>4, <1>5, <2>2, <2>4, <3>2
    <3>3. CASE b \in answers /\ d = a
      BY <1>1, <1>4, <1>5, <2>2, <2>4, <3>3, ApartSwaps
    <3>4. CASE b \in answers /\ d \in answers
      BY <1>5, <2>4, <3>4 DEF OnceInv, Sole
    <3>. QED
      BY <1>2, <2>4, <3>1, <3>2, <3>3, <3>4
  <2>5. \A r, s \in results : r # s => Apart(r, r.outcome, r.body, s, s.outcome, s.body)
    BY DEF OnceInv, Sole
  <2>6. /\ \A u \in Tasks, b \in answers', r \in results' :
            Awaits(u, b)' => Apart(Now(u)', ok_or_err(b.status), b.body, r, r.outcome, r.body)
        /\ \A r, s \in results' : r # s => Apart(r, r.outcome, r.body, s, s.outcome, s.body)
    BY <1>2, <2>3, <2>5
  <2>7. \A u, v \in Tasks, b, d \in answers' :
          u # v /\ Awaits(u, b)' /\ Awaits(v, d)' =>
            Apart(Now(u)', ok_or_err(b.status), b.body, Now(v)', ok_or_err(d.status), d.body)
    BY <1>3, <2>4
  <2>. QED
    BY <2>6, <2>7 DEF Sole
<1>9. Submitters' = Submitters /\ Unsettled' = Unsettled
  BY <1>2 DEF Submitters, Unsettled
<1>10. ASSUME NEW u \in Refused', u \notin Refused
       PROVE  Waiting(u) /\ Now(u) = m /\ Submits(m.request) /\ ok_or_err(status) \in Refusals
  <2>1. PICK b \in answers' : Awaits(u, b)' /\ ok_or_err(b.status) \in Refusals
    BY <1>10 DEF Refused
  <2>2. u \in Submitters /\ u \in Tasks
    BY <1>9, <1>10 DEF Refused, Submitters
  <2>3. b = a
    BY <1>2, <1>5, <1>10, <2>1, <2>2 DEF Refused
  <2>4. Waiting(u) /\ Now(u) = m
    BY <1>4, <2>1, <2>2, <2>3
  <2>. QED
    BY <1>1, <2>1, <2>2, <2>3, <2>4 DEF Submitters, Now
<1>11. CASE ~Submits(m.request)
  <2>1. Refused' \subseteq Refused
    BY <1>10, <1>11
  <2>2. Cardinality(Refused') \in Nat /\ Cardinality(Refused') <= Cardinality(Refused)
    BY <2>1, Countable, FS_Subset, FS_CardinalityType DEF OnceInv
  <2>3. Unserved' = Unserved
    BY <1>2, <1>11 DEF Unserved
  <2>4. Len(sessions') = Len(sessions)
    BY <1>11 DEF AnswersWith
  <2>5. Counted'
    BY <1>9, <2>2, <2>3, <2>4, Countable DEF OnceInv, Counted
  <2>. QED
    BY <1>6, <1>8, <2>5 DEF OnceInv
<1>12. CASE Submits(m.request)
  <2>1. Unserved' = Unserved \ {m} /\ m \in Unserved
    BY <1>2, <1>12 DEF Unserved
  <2>2. IsFiniteSet(Unserved') /\ Cardinality(Unserved') = Cardinality(Unserved) - 1
    BY <2>1, FS_RemoveElement DEF OnceInv, Counted
  <2>3. CASE ok_or_err(status) \notin Refusals
    <3>1. Refused' \subseteq Refused
      BY <1>10, <2>3
    <3>2. Cardinality(Refused') \in Nat /\ Cardinality(Refused') <= Cardinality(Refused)
      BY <3>1, Countable, FS_Subset, FS_CardinalityType DEF OnceInv
    <3>3. Len(sessions') \in {Len(sessions), Len(sessions) + 1}
      BY DEF AnswersWith
    <3>4. Counted'
      BY <1>9, <2>2, <3>2, <3>3, Countable DEF OnceInv, Counted
    <3>. QED
      BY <1>6, <1>8, <3>4 DEF OnceInv
  <2>4. CASE ok_or_err(status) \in Refusals
    <3>1. Len(sessions') = Len(sessions)
      BY <2>4 DEF AnswersWith
    <3>2. PICK u : Refused' \subseteq Refused \cup {u}
      <4>1. CASE Refused' \subseteq Refused
        BY <4>1
      <4>2. CASE ~(Refused' \subseteq Refused)
        <5>1. PICK u \in Refused' : u \notin Refused
          BY <4>2
        <5>2. ASSUME NEW v \in Refused', v \notin Refused PROVE v = u
          <6>1. Waiting(u) /\ Now(u) = m /\ Waiting(v) /\ Now(v) = m
            BY <1>10, <5>1, <5>2
          <6>2. u \in Tasks /\ v \in Tasks
            BY <1>9, <5>1, <5>2 DEF Refused, Submitters
          <6>. QED
            BY <6>1, <6>2 DEF ClientInv, Distinct
        <5>. QED
          BY <5>2
      <4>. QED
        BY <4>1, <4>2
    <3>3. /\ IsFiniteSet(Refused \cup {u})
          /\ Cardinality(Refused \cup {u}) <= Cardinality(Refused) + 1
          /\ Cardinality(Refused \cup {u}) \in Nat
      <4>1. IsFiniteSet(Refused) /\ Cardinality(Refused) \in Nat
        BY Countable DEF OnceInv
      <4>2. /\ IsFiniteSet(Refused \cup {u})
            /\ Cardinality(Refused \cup {u}) =
                 IF u \in Refused THEN Cardinality(Refused) ELSE Cardinality(Refused) + 1
        BY <4>1, FS_AddElement
      <4>. QED
        BY <4>1, <4>2
    <3>4. Cardinality(Refused') \in Nat /\ Cardinality(Refused') <= Cardinality(Refused) + 1
      <4>1. IsFiniteSet(Refused') /\ Cardinality(Refused') <= Cardinality(Refused \cup {u})
        BY <3>2, <3>3, FS_Subset
      <4>. QED
        BY <3>3, <4>1, FS_CardinalityType, Countable DEF OnceInv
    <3>5. Counted'
      BY <1>9, <2>2, <3>1, <3>4, Countable DEF OnceInv, Counted
    <3>. QED
      BY <1>6, <1>8, <3>5 DEF OnceInv
  <2>. QED
    BY <2>3, <2>4
<1>. QED
  BY <1>11, <1>12

\* While the prover works, no call's claim changes.
LEMMA ProgressOnce ==
  ASSUME ClientInv, OnceInv, UNCHANGED <<doing, wire, answers, results, effects>>,
         \A id : Gone(id) => Gone(id)', Len(sessions') = Len(sessions)
  PROVE  OnceInv'
<1>1. \A u \in Tasks : (Waiting(u)' <=> Waiting(u)) /\ Now(u)' = Now(u)
  BY DEF Waiting, Now
<1>2. \A u \in Tasks : \A a : Awaits(u, a)' <=> Awaits(u, a)
  BY <1>1 DEF Awaits
<1>3. OneEffect' /\ Sole'
  BY <1>1, <1>2 DEF OnceInv, OneEffect, Sole
<1>4. Submitters' = Submitters /\ Unsettled' = Unsettled /\ Unserved' = Unserved
  BY DEF Submitters, Unsettled, Unserved
<1>5. Refused' = Refused
  BY DEF Refused, Submitters, Awaits, Waiting, Now
<1>. QED
  BY <1>3, <1>4, <1>5 DEF OnceInv, Counted

LEMMA OnceInit == ClientInit => OnceInv
<1>. SUFFICES ASSUME ClientInit PROVE OnceInv
  OBVIOUS
<1>1. /\ Submitters = {} /\ Unserved = {} /\ Unsettled = {} /\ Refused = {}
  BY DEF ClientInit, Submitters, Unserved, Unsettled, Refused
<1>2. Len(sessions) = Inherited /\ Inherited \in Nat
  BY ClientAssumption DEF ClientInit
<1>3. Counted
  BY <1>1, <1>2, FS_EmptySet DEF Counted
<1>. QED
  BY <1>3 DEF OnceInv, OneEffect, Sole, ClientInit

LEMMA OnceStep == ClientInv /\ OnceInv /\ [ClientNext]_clientVars => OnceInv'
<1>. SUFFICES ASSUME ClientInv, OnceInv, [ClientNext]_clientVars PROVE OnceInv'
  OBVIOUS
<1>1. ASSUME NEW t \in Tasks, Task(t) PROVE OnceInv'
  <2>1. CASE Call(t)
    BY <2>1, CallOnce
  <2>2. CASE NoResponse(t) \/ Response(t)
    <3>1. PICK r : Leaves(t, r)
      BY <2>2, EndForm
    <3>2. Waiting(t)
      BY <2>2 DEF NoResponse, Response, Waiting
    <3>. QED
      BY <3>1, <3>2, EndOnce
  <2>. QED
    BY <1>1, <2>1, <2>2 DEF Task
<1>2. ASSUME NEW m \in wire, Server(m) PROVE OnceInv'
  BY <1>2, AnswerForm, AnswerOnce
<1>3. CASE Progress
  <2>1. PICK id, v :
          id \in DOMAIN sessions /\ sessions[id] # "deleted" /\ sessions' = [sessions EXCEPT ![id] = v]
    BY <1>3 DEF Progress
  <2>2. (\A i : Gone(i) => Gone(i)') /\ Len(sessions') = Len(sessions)
    BY <2>1, GoneStays
  <2>. QED
    BY <1>3, <2>2, ProgressOnce DEF Progress
<1>4. CASE UNCHANGED clientVars
  BY <1>4, ProgressOnce DEF clientVars, Gone
<1>. QED
  BY <1>1, <1>2, <1>3, <1>4 DEF ClientNext

\* However requests and responses are lost or late, a call changes the server once at most: no
\* two submissions are given the same session, no session is cancelled twice, and a session
\* nobody was told of comes from a submission that failed in a way that leaves it open.
THEOREM OnceTheorem == ClientSpec => []OncePerCall
<1>1. ClientInv /\ OnceInv => OncePerCall
  <2>. SUFFICES ASSUME ClientInv, OnceInv PROVE OncePerCall
    OBVIOUS
  <2>1. \A r, s \in results :
          /\ r # s /\ Succeeded(r) /\ Succeeded(s)
          /\ Submits(r.request) /\ Submits(s.request)
          => r.body.id # s.body.id
    BY DEF OnceInv, Sole, Apart, Alike, Subject, Succeeded
  <2>2. ASSUME NEW r \in results, NEW s \in results, Succeeded(r), Succeeded(s),
               Cancels(r.request), s.request = r.request
        PROVE  r = s
    <3>1. ~Submits(r.request)
      BY <2>2, Kinds
    <3>. QED
      BY <2>2, <3>1 DEF OnceInv, Sole, Apart, Alike, Subject, Succeeded
  <2>3. PICK asked : asked = {t \in Tasks : doing[t] # <<>> /\ Submits(doing[t][1].request)}
    OBVIOUS
  <2>4. PICK open : open = {r \in results : /\ Submits(r.request)
                                           /\ r.outcome \notin {"BadRequest", "NotFound"}}
    OBVIOUS
  <2>5. Submitters = asked /\ Unsettled = open
    BY <2>3, <2>4 DEF Submitters, Unsettled, Refusals
  <2>6. Len(sessions) - Inherited <= Cardinality(open) + Cardinality(asked)
    BY <2>5, Countable DEF OnceInv, Counted
  <2>7. \A e, f \in effects : e.number = f.number => e = f
    BY DEF OnceInv, OneEffect
  <2>. QED
    BY <2>1, <2>2, <2>3, <2>4, <2>6, <2>7 DEF OncePerCall
<1>2. ClientSpec => []OnceInv
  BY OnceInit, OnceStep, ClientInvariant, PTL DEF ClientSpec
<1>. QED
  BY <1>1, <1>2, ClientInvariant, PTL
====
