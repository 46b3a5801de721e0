---- MODULE ProofClient ----
(***************************************************************************)
(* The REST client of src/interface/echidna-client: asynchronous calls to  *)
(* a proof server, made by tasks that share one client.  The client keeps  *)
(* no state: a call sends one request, without a timeout and without a     *)
(* second attempt, and turns the response, or its absence, into a result.  *)
(*                                                                         *)
(* The server and the network are not part of the repository: the server   *)
(* has the routes the client calls and keeps the sessions its methods      *)
(* speak of, and a request or a response may be slow, or never arrive.     *)
(*                                                                         *)
(* Goals, tactics, scripts and articles are left out: the properties do    *)
(* not tell one from another.                                              *)
(***************************************************************************)
EXTENDS Naturals, Sequences, FiniteSets

CONSTANTS
  Tasks,
  Asked(_),       \* the requests the tasks make
  Verdicts,       \* how a proof may end
  Inherited,      \* the number of sessions that were open before
  MaxCalls        \* bound: calls of all tasks together

----------------------------------------------------------------------------
(* The wire types. *)

ProverKind ==
  {"agda", "coq", "lean", "isabelle", "z3", "cvc5", "metamath", "hol_light", "mizar", "pvs",
   "acl2", "hol4", "idris2", "vampire", "e_prover", "spass", "alt_ergo"}

ProofStatus == {"pending", "in_progress", "success", "failed", "timeout", "error"}

ExchangeFormat == {"open_theory", "dedukti"}

None == "none"

ASSUME ClientAssumption ==
  /\ Verdicts \subseteq ProofStatus \ {"pending", "in_progress"}
  /\ Inherited \in Nat /\ MaxCalls \in Nat

ProofResponse == [id : Nat, status : ProofStatus]

TacticResponse == [success : BOOLEAN, proof_state : ProofResponse]

\* Of the other bodies only the type is kept.
ProverInfo == [type |-> "ProverInfo"]
Tactic == [type |-> "Tactic"]
ExportResponse == [type |-> "ExportResponse"]
ImportResponse == [type |-> "ImportResponse"]
Plain == [type |-> "text"]

Empty == [type |-> None]

\* The session named by a path; 0 stands for a name no session ever has.
SessionId == Nat

----------------------------------------------------------------------------
(* The methods of the client: the request each of them sends.  The prefix /api/v1 *)
(* of most routes is left out.                                                     *)

Request(verb, path, id, slug) == [verb |-> verb, path |-> path, id |-> id, slug |-> slug]

health == Request("GET", "/health", 0, None)

list_provers == Request("GET", "/provers", 0, None)

get_prover(kind) == Request("GET", "/provers/:kind", 0, kind)

submit_proof(prover) == Request("POST", "/proofs", 0, prover)

\* Mutant: a path with a slash at its end.
PollsSlash(id) == Request("GET", "/proofs/:id/", id, None)

get_proof(id) == Request("GET", "/proofs/:id", id, None)

cancel_proof(id) == Request("DELETE", "/proofs/:id", id, None)

apply_tactic(id) == Request("POST", "/proofs/:id/tactics", id, None)

suggest_tactics(id) == Request("GET", "/proofs/:id/tactics/suggest", id, None)

export_proof(id, format) == Request("GET", "/proofs/:id/export", id, format)

import_proof(format) == Request("POST", "/exchange/import", 0, format)

Calls(ids) ==
  {health, list_provers}
    \cup {get_prover(k) : k \in ProverKind} \cup {submit_proof(k) : k \in ProverKind}
    \cup {import_proof(f) : f \in ExchangeFormat}
    \cup {export_proof(i, f) : i \in ids, f \in ExchangeFormat}
    \cup (UNION {{get_proof(i), cancel_proof(i), apply_tactic(i), suggest_tactics(i)} : i \in ids})

Submits(request) == request.verb = "POST" /\ request.path = "/proofs"
Cancels(request) == request.verb = "DELETE"
Drives(request) == request.path = "/proofs/:id/tactics"

\* The calls about a session, which name it in their path.
Names(request) ==
  request.path \in {"/proofs/:id", "/proofs/:id/tactics", "/proofs/:id/tactics/suggest",
                    "/proofs/:id/export"}

----------------------------------------------------------------------------
(* The results of a call. *)

ClientError == {"Http", "NotFound", "BadRequest", "UnexpectedStatus"}

\* Mutant: every client error says that the session was not found.
FoldsRejections(status) ==
  CASE status \in 200 .. 299 -> "Ok"
    [] status \in 400 .. 499 -> "NotFound"
    [] OTHER                 -> "UnexpectedStatus"

\* Mutant: whatever is not a success is a rejection.
RejectsAll(status) ==
  CASE status \in 200 .. 299 -> "Ok"
    [] status = 404          -> "NotFound"
    [] OTHER                 -> "BadRequest"

ok_or_err(status) ==
  CASE status \in 200 .. 299         -> "Ok"
    [] status = 404                  -> "NotFound"
    [] status \in 400 .. 499 \ {404} -> "BadRequest"
    [] OTHER                         -> "UnexpectedStatus"

----------------------------------------------------------------------------
VARIABLES
  doing,          \* the call each task awaits: none or one, with its number
  wire,           \* the requests on their way
  answers,        \* the responses on their way
  results,        \* what the tasks got, each with the number of its call
  made,           \* the number of calls made
  sessions,       \* the server's sessions and how they stand
  effects         \* history: the calls that changed the server, with the session changed

clientVars == <<doing, wire, answers, results, made, sessions, effects>>

Standings == ProofStatus \cup {"deleted"}

Open(id) == id \in DOMAIN sessions /\ sessions[id] \in {"pending", "in_progress"}
Known(id) == id \in DOMAIN sessions /\ sessions[id] # "deleted"

\* The sessions whose names the tasks have: from an earlier program, or a submission.
HandedOut ==
  1 .. Inherited \cup
  {r.body.id : r \in {r \in results : r.outcome = "Ok" /\ Submits(r.request)}}

----------------------------------------------------------------------------
(* The calls of a task. *)

Call(t) ==
  /\ doing[t] = <<>>
  /\ made < MaxCalls
  /\ \E request \in {r \in Calls(HandedOut \cup {0}) : Asked(r)} :
       LET sent == [number |-> made + 1, request |-> request]
       IN  /\ doing' = [doing EXCEPT ![t] = <<sent>>]
           /\ wire' = wire \cup {sent}
  /\ made' = made + 1
  /\ UNCHANGED <<answers, results, sessions, effects>>

Ends(t, outcome, body) ==
  /\ results' = results \cup {[task |-> t, number |-> doing[t][1].number,
                               request |-> doing[t][1].request,
                               outcome |-> outcome, body |-> body]}
  /\ doing' = [doing EXCEPT ![t] = <<>>]

\* Mutant: a call that fails to get a response sends its request again.
SendsAgain(t) ==
  /\ doing[t] # <<>>
  /\ doing[t][1] \notin wire
  /\ wire' = wire \cup {doing[t][1]}
  /\ UNCHANGED <<doing, answers, results, made, sessions, effects>>

\* send().await fails, or the caller drops the call and learns as little of it; the request
\* may be on its way still.
NoResponse(t) ==
  /\ doing[t] # <<>>
  /\ Ends(t, "Http", Empty)
  /\ UNCHANGED <<wire, answers, made, sessions, effects>>

\* Mutant: a call takes the response to any poll of its own or an earlier call.
TakesAny(t) ==
  /\ doing[t] # <<>>
  /\ \E a \in answers :
       /\ a.number <= doing[t][1].number
       /\ a.status = 200 => "status" \in DOMAIN a.body
       /\ answers' = answers \ {a}
       /\ Ends(t, ok_or_err(a.status), a.body)
  /\ UNCHANGED <<wire, made, sessions, effects>>

\* The body of a success that breaks off or does not decode is an Http error, except for
\* cancel_proof, which reads none; the body of an error is taken as it comes.
Response(t) ==
  /\ doing[t] # <<>>
  /\ \E a \in answers :
       /\ a.number = doing[t][1].number
       /\ answers' = answers \ {a}
       /\ LET outcome == ok_or_err(a.status)
          IN  \/ Ends(t, outcome, a.body)
              \/ outcome = "Ok" /\ ~Cancels(doing[t][1].request) /\ Ends(t, "Http", Empty)
  /\ UNCHANGED <<wire, made, sessions, effects>>

----------------------------------------------------------------------------
(* The server and the network. *)

Served(m) == m \in wire /\ wire' = wire \ {m}

Says(m, status, body) ==
  answers' = answers \cup {[number |-> m.number, status |-> status, body |-> body]}

View(id, status) == [id |-> id, status |-> status]

Unchanged == UNCHANGED <<sessions, effects>>

Did(m, id) == effects' = effects \cup {[number |-> m.number, id |-> id]}

ServeSubmit(m) ==
  /\ Served(m) /\ Submits(m.request)
  /\ sessions' = Append(sessions, "pending")
  /\ Did(m, Len(sessions) + 1)
  /\ Says(m, 200, View(Len(sessions) + 1, "pending")) \/ Says(m, 500, Empty)
  /\ UNCHANGED <<doing, results, made>>

ServeCancel(m) ==
  /\ Served(m) /\ Cancels(m.request)
  /\ IF Known(m.request.id)
     THEN /\ sessions' = [sessions EXCEPT ![m.request.id] = "deleted"]
          /\ Did(m, m.request.id)
          /\ Says(m, 200, Empty) \/ Says(m, 500, Empty)
     ELSE Says(m, 404, Empty) /\ Unchanged
  /\ UNCHANGED <<doing, results, made>>

\* A tactic moves an open session on, or does not apply, and the answer's success says which.
ServeTactic(m) ==
  /\ Served(m) /\ Drives(m.request)
  /\ LET id == m.request.id
     IN  \/ /\ Open(id)
            /\ \E status \in {"in_progress", "success"} :
                 /\ sessions' = [sessions EXCEPT ![id] = status]
                 /\ Did(m, id)
                 /\ \/ Says(m, 200, [success |-> TRUE, proof_state |-> View(id, status)])
                    \/ Says(m, 500, Empty)
         \/ /\ Known(id)
            /\ Says(m, 200, [success |-> FALSE, proof_state |-> View(id, sessions[id])])
            /\ Unchanged
         \/ ~Known(id) /\ Says(m, 404, Empty) /\ Unchanged
  /\ UNCHANGED <<doing, results, made>>

BodyAt(path) ==
  CASE path = "/health"                         -> Plain
    [] path \in {"/provers", "/provers/:kind"}  -> ProverInfo
    [] path = "/proofs/:id/tactics/suggest"     -> Tactic
    [] path = "/proofs/:id/export"              -> ExportResponse
    [] path = "/exchange/import"                -> ImportResponse

ServeRead(m) ==
  /\ Served(m)
  /\ ~Submits(m.request) /\ ~Cancels(m.request) /\ ~Drives(m.request)
  /\ LET id == m.request.id
     IN  IF Names(m.request) /\ ~Known(id) THEN Says(m, 404, Empty)
         ELSE Says(m, 200, IF m.request.path = "/proofs/:id" THEN View(id, sessions[id])
                           ELSE BodyAt(m.request.path))
  /\ Unchanged
  /\ UNCHANGED <<doing, results, made>>

\* The server may reject any request as malformed; 400 stands for the statuses 4xx but 404.
Malformed(m) ==
  /\ Served(m)
  /\ Says(m, 400, Empty)
  /\ Unchanged
  /\ UNCHANGED <<doing, results, made>>

\* Whatever the request, the server may be unable.  What is lost stays on its way.
Unable(m) ==
  /\ Served(m)
  /\ Says(m, 500, Empty)
  /\ Unchanged
  /\ UNCHANGED <<doing, results, made>>

\* The prover is at work.
Progress ==
  /\ \E id \in DOMAIN sessions :
       \/ sessions[id] = "pending" /\ sessions' = [sessions EXCEPT ![id] = "in_progress"]
       \/ /\ sessions[id] = "in_progress"
          /\ \E v \in Verdicts : sessions' = [sessions EXCEPT ![id] = v]
  /\ UNCHANGED <<doing, wire, answers, results, made, effects>>

----------------------------------------------------------------------------
ClientInit ==
  /\ doing = [t \in Tasks |-> <<>>]
  /\ wire = {}
  /\ answers = {}
  /\ results = {}
  /\ made = 0
  /\ sessions = [id \in 1 .. Inherited |-> "pending"]
  /\ effects = {}

Task(t) == Call(t) \/ NoResponse(t) \/ Response(t)
Server(m) ==
  \/ ServeSubmit(m) \/ ServeCancel(m) \/ ServeTactic(m) \/ ServeRead(m)
  \/ Malformed(m) \/ Unable(m)

ClientNext ==
  \/ \E t \in Tasks : Task(t)
  \/ \E m \in wire : Server(m)
  \/ Progress

ClientSpec == ClientInit /\ [][ClientNext]_clientVars

----------------------------------------------------------------------------
(* Properties *)

Paths ==
  {"/health", "/provers", "/provers/:kind", "/proofs", "/proofs/:id", "/proofs/:id/tactics",
   "/proofs/:id/tactics/suggest", "/proofs/:id/export", "/exchange/import"}

Requests ==
  [verb : {"GET", "POST", "DELETE"}, path : Paths, id : SessionId,
   slug : {None} \cup ProverKind \cup ExchangeFormat]

Sent == [number : Nat, request : Requests]
Bodies ==
  {Empty, Plain, ProverInfo, Tactic, ExportResponse, ImportResponse}
    \cup ProofResponse \cup TacticResponse

\* Every variable has its type.
ClientTypeOK ==
  /\ doing \in [Tasks -> Seq(Sent)] /\ \A t \in Tasks : Len(doing[t]) <= 1
  /\ wire \subseteq Sent
  /\ answers \subseteq [number : Nat, status : {200, 400, 404, 500}, body : Bodies]
  /\ results \subseteq [task : Tasks, number : Nat, request : Requests,
                        outcome : {"Ok"} \cup ClientError, body : Bodies]
  /\ made \in 0 .. MaxCalls
  /\ sessions \in Seq(Standings)
  /\ effects \subseteq [number : Nat, id : Nat]

Effective(n) == \E e \in effects : e.number = n
InFlight(n) == \E m \in wire : m.number = n

Succeeded(r) == r \in results /\ r.outcome = "Ok"

\* What a result says of the call: it changed the server.  Of a tactic the answer's body says
\* it, for the client returns one that did not apply as a success too.
SaysDone(r) ==
  /\ r.outcome = "Ok"
  /\ Submits(r.request) \/ Cancels(r.request) \/ (Drives(r.request) /\ r.body.success)

\* A result tells what became of the call for good: one that says it is done took effect, and
\* any other success, a rejection, or a session not found, means that the call did not change
\* the server and will not, however late a copy might come.  Only a transport error, a server
\* error or a dropped call leaves it open.
ResultsTellTheTruth ==
  \A r \in results :
    r.outcome \in {"Ok", "NotFound", "BadRequest"} =>
      (Effective(r.number) <=> SaysDone(r)) /\ ~InFlight(r.number)

\* What a task was told of a session: it is gone.
ToldGone(r) == r.outcome = "NotFound" \/ (r.outcome = "Ok" /\ Cancels(r.request))

\* A session that is not found is none any more, whatever the call that asked; and a task that
\* was told that a session is gone, by that or by its own cancellation, has no success with any
\* later call about it, though the answers to other calls of before are still under way.
NotFoundIsGone ==
  /\ \A r \in results : r.outcome = "NotFound" => ~Known(r.request.id)
  /\ \A r, s \in results :
       /\ r.task = s.task /\ r.number < s.number
       /\ ToldGone(r) /\ Names(s.request) /\ s.request.id = r.request.id
       => s.outcome # "Ok"

\* A call changes the server once at most: every new session is the work of one submission, a
\* session is given to one task only, and cancelled once only; a session nobody was told
\* of comes from a submission that failed in a way that leaves it open.
OncePerCall ==
  /\ \A e, f \in effects : e.number = f.number => e = f
  /\ \A r, s \in results :
       /\ r # s /\ Succeeded(r) /\ Succeeded(s)
       /\ Submits(r.request) /\ Submits(s.request)
       => r.body.id # s.body.id
  /\ \A r, s \in results :
       Succeeded(r) /\ Succeeded(s) /\ Cancels(r.request) /\ s.request = r.request => r = s
  /\ Len(sessions) - Inherited <=
       Cardinality({r \in results : /\ Submits(r.request)
                                    /\ r.outcome \notin {"BadRequest", "NotFound"}})
         + Cardinality({t \in Tasks : doing[t] # <<>> /\ Submits(doing[t][1].request)})

Rank(status) ==
  CASE status = "pending" -> 1 [] status = "in_progress" -> 2 [] OTHER -> 3

Polls(request) == request.verb = "GET" /\ request.path = "/proofs/:id"

\* What a task that polls a session has learnt of it only moves on: its status never goes
\* back, a verdict never changes, and a session that is gone stays so.
Polled(r, s) ==
  /\ r.task = s.task /\ r.number < s.number
  /\ Polls(r.request) /\ s.request = r.request

StatusesMoveOn ==
  \A r, s \in results :
    Polled(r, s) =>
      /\ r.outcome = "NotFound" => s.outcome # "Ok"
      /\ Succeeded(r) /\ Succeeded(s) =>
           /\ Rank(r.body.status) <= Rank(s.body.status)
           /\ Rank(r.body.status) = 3 => s.body.status = r.body.status
====
