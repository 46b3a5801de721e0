---- MODULE DebugAdapter ----
(***************************************************************************)
(* The debug adapter of src/interface/dap: a TCP listener that gives every *)
(* connection a thread of its own, and the loop of that thread, which      *)
(* reads a line, dispatches the request in it and writes the response.     *)
(*                                                                         *)
(* The editors write ahead of the answers, close their end when they like, *)
(* or vanish.  A request's arguments are the recognised words its query    *)
(* contains, in either case of letters; a line that is no JSON object with *)
(* the request's fields, or no UTF-8, is not valid.  The JSON written into *)
(* a response's body is named by its outermost key.                        *)
(***************************************************************************)
EXTENDS Naturals, Sequences, FiniteSets

CONSTANTS
  Connections,    \* the connections editors open
  Lines,          \* the lines they write
  MaxLines,       \* bound: lines on one connection
  MaxThreads      \* handler threads the operating system grants

----------------------------------------------------------------------------
(* Requests and responses. *)

Commands ==
  {"initialize", "launch", "setBreakpoints", "threads", "stackTrace", "scopes", "variables",
   "continue", "disconnect"}

Words == {"select", "users", "posts", "insert", "update", "delete"}

DapRequest ==
  [valid : BOOLEAN, seq : Nat, command : Commands \cup {"other"}, query : SUBSET Words]

Results == {"user rows", "post rows", "nothing", "inserted", "updated", "deleted"}

Bodies == {"capabilities", "success", "breakpoints", "threads", "stackFrames", "scopes",
           "variables", "none"}

DapResponse ==
  [seq : Nat, request_seq : Nat, command : Commands \cup {"other"}, success : BOOLEAN,
   message : Results \cup {"none", "Unknown command"}, body : Bodies]

ASSUME LinesAssumption == Lines \subseteq DapRequest
ASSUME AdapterBoundsAssumption == MaxLines \in Nat /\ MaxThreads \in Nat

success(seq, request, body) ==
  [seq |-> seq, request_seq |-> request.seq, command |-> request.command, success |-> TRUE,
   message |-> "none", body |-> body]

unknown_command(request) ==
  [seq |-> 0, request_seq |-> request.seq, command |-> request.command, success |-> FALSE,
   message |-> "Unknown command", body |-> "none"]

\* What a query is taken for: the first of these words found anywhere in it decides.
execute_vql_query(query) ==
  CASE "select" \in query ->
         CASE "users" \in query -> "user rows"
           [] "users" \notin query /\ "posts" \in query -> "post rows"
           [] OTHER -> "nothing"
    [] "select" \notin query /\ "insert" \in query -> "inserted"
    [] query \cap {"select", "insert"} = {} /\ "update" \in query -> "updated"
    [] query \cap {"select", "insert", "update"} = {} /\ "delete" \in query -> "deleted"
    [] OTHER -> "nothing"

BodyOf(command) ==
  CASE command = "initialize"     -> "capabilities"
    [] command = "launch"         -> "success"
    [] command = "setBreakpoints" -> "breakpoints"
    [] command = "stackTrace"     -> "stackFrames"
    [] command \in {"threads", "scopes", "variables"} -> command
    [] OTHER                      -> "none"

\* Mutant: the message of an executed query is a word of the query.
EchoesQuery(seq, request) ==
  IF request.command = "continue"
  THEN [success(seq, request, "none") EXCEPT !.message = CHOOSE w \in request.query : TRUE]
  ELSE unknown_command(request)

\* The response to a request that is the seq-th on its connection.
dispatch_request(seq, request) ==
  IF request.command \notin Commands
  THEN unknown_command(request)
  ELSE LET resp == success(seq, request, BodyOf(request.command))
       IN  IF request.command = "continue"
           THEN [resp EXCEPT !.message = execute_vql_query(request.query)]
           ELSE resp

----------------------------------------------------------------------------
VARIABLES
  up,             \* the process runs
  conn,           \* where each connection stands, or how its handler ended
  editor,         \* what the other end does
  sent,           \* all lines written to a connection
  taken,          \* how many of them the handler has read
  seq_counter,
  replies         \* the responses written to a connection

adapterVars == <<up, conn, editor, sent, taken, seq_counter, replies>>

Endings == {"eof", "malformed", "broken", "no_stream", "aborted"}
Standings == {"none", "waiting", "serving", "killed"} \cup Endings

Serving == {c \in Connections : conn[c] = "serving"}

\* The next line of a connection.
Line(c) == sent[c][taken[c] + 1]
HasLine(c) == taken[c] < Len(sent[c])

----------------------------------------------------------------------------
(* The editors. *)

Connect(c) ==
  /\ up
  /\ conn[c] = "none"
  /\ conn' = [conn EXCEPT ![c] = "waiting"]
  /\ UNCHANGED <<up, editor, sent, taken, seq_counter, replies>>

Write(c) ==
  /\ conn[c] \in {"waiting", "serving"}
  /\ editor[c] = "talking"
  /\ Len(sent[c]) < MaxLines
  /\ \E l \in Lines : sent' = [sent EXCEPT ![c] = Append(@, l)]
  /\ UNCHANGED <<up, conn, editor, taken, seq_counter, replies>>

\* The editor closes its sending side and keeps reading, or is gone altogether.
Leave(c, how) ==
  /\ conn[c] \in {"waiting", "serving"}
  /\ editor[c] # "gone"
  /\ editor' = [editor EXCEPT ![c] = how]
  /\ UNCHANGED <<up, conn, sent, taken, seq_counter, replies>>

----------------------------------------------------------------------------
(* The listener. *)

\* The counter is a local variable of the handler.
Accept(c) ==
  /\ up
  /\ conn[c] = "waiting"
  /\ Cardinality(Serving) < MaxThreads
  /\ conn' = [conn EXCEPT ![c] = "serving"]
  /\ seq_counter' = [seq_counter EXCEPT ![c] = 0]
  /\ UNCHANGED <<up, editor, sent, taken, replies>>

\* accept fails for a connection that was reset while it waited: the listener logs the error
\* and goes on.  An error that leaves the connection waiting changes nothing.
AcceptFails(c) ==
  /\ up
  /\ conn[c] = "waiting"
  /\ editor[c] = "gone"
  /\ conn' = [conn EXCEPT ![c] = "aborted"]
  /\ UNCHANGED <<up, editor, sent, taken, seq_counter, replies>>

\* try_clone needs a descriptor and may not get one: the handler ends before its loop.
NoStream(c) ==
  /\ up
  /\ conn[c] = "waiting"
  /\ Cardinality(Serving) < MaxThreads
  /\ conn' = [conn EXCEPT ![c] = "no_stream"]
  /\ UNCHANGED <<up, editor, sent, taken, seq_counter, replies>>

\* thread::spawn panics when there is no thread to be had.  It does so in the main
\* thread, and the process goes with it.
SpawnPanics(c) ==
  /\ up
  /\ conn[c] = "waiting"
  /\ Cardinality(Serving) = MaxThreads
  /\ up' = FALSE
  /\ conn' = [d \in Connections |-> IF conn[d] \in {"waiting", "serving"} THEN "killed" ELSE conn[d]]
  /\ UNCHANGED <<editor, sent, taken, seq_counter, replies>>

----------------------------------------------------------------------------
(* handle_client *)

\* Mutant: the counter moves on for the commands of the protocol only.
CountsKnown(c) ==
  /\ conn[c] = "serving"
  /\ HasLine(c)
  /\ Line(c).valid
  /\ LET seq == seq_counter[c] + IF Line(c).command \in Commands THEN 1 ELSE 0
     IN  /\ seq_counter' = [seq_counter EXCEPT ![c] = seq]
         /\ replies' = [replies EXCEPT ![c] = Append(@, dispatch_request(seq, Line(c)))]
  /\ taken' = [taken EXCEPT ![c] = @ + 1]
  /\ UNCHANGED <<up, conn, editor, sent>>

\* Mutant: a line of an unknown command is skipped.
SkipsUnknown(c) ==
  /\ conn[c] = "serving"
  /\ HasLine(c)
  /\ Line(c).valid
  /\ LET seq == seq_counter[c] + 1
     IN  /\ seq_counter' = [seq_counter EXCEPT ![c] = seq]
         /\ replies' = IF Line(c).command \in Commands
                       THEN [replies EXCEPT ![c] = Append(@, dispatch_request(seq, Line(c)))]
                       ELSE replies
  /\ taken' = [taken EXCEPT ![c] = @ + 1]
  /\ UNCHANGED <<up, conn, editor, sent>>

Respond(c) ==
  /\ conn[c] = "serving"
  /\ HasLine(c)
  /\ Line(c).valid
  /\ LET seq == seq_counter[c] + 1
     IN  /\ seq_counter' = [seq_counter EXCEPT ![c] = seq]
         /\ replies' = [replies EXCEPT ![c] = Append(@, dispatch_request(seq, Line(c)))]
  /\ taken' = [taken EXCEPT ![c] = @ + 1]
  /\ UNCHANGED <<up, conn, editor, sent>>

\* Mutant: the handler gives up the lines it has buffered when the editor stops sending.
Impatient(c) ==
  /\ conn[c] = "serving"
  /\ editor[c] = "finished"
  /\ conn' = [conn EXCEPT ![c] = "eof"]
  /\ UNCHANGED <<up, editor, sent, taken, seq_counter, replies>>

\* The ? operators of the loop: a line that does not parse ends the handler, whatever
\* stands behind it.
Malformed(c) ==
  /\ conn[c] = "serving"
  /\ HasLine(c)
  /\ ~Line(c).valid
  /\ taken' = [taken EXCEPT ![c] = @ + 1]
  /\ conn' = [conn EXCEPT ![c] = "malformed"]
  /\ UNCHANGED <<up, editor, sent, seq_counter, replies>>

\* With the editor gone, reading or writing may fail, after the request was dispatched
\* or before.
Broken(c) ==
  /\ conn[c] = "serving"
  /\ editor[c] = "gone"
  /\ conn' = [conn EXCEPT ![c] = "broken"]
  /\ \/ UNCHANGED <<taken, seq_counter>>
     \/ /\ HasLine(c) /\ Line(c).valid
        /\ taken' = [taken EXCEPT ![c] = @ + 1]
        /\ seq_counter' = [seq_counter EXCEPT ![c] = @ + 1]
  /\ UNCHANGED <<up, editor, sent, replies>>

EndOfInput(c) ==
  /\ conn[c] = "serving"
  /\ editor[c] # "talking"
  /\ ~HasLine(c)
  /\ conn' = [conn EXCEPT ![c] = "eof"]
  /\ UNCHANGED <<up, editor, sent, taken, seq_counter, replies>>

----------------------------------------------------------------------------
AdapterInit ==
  /\ up = TRUE
  /\ conn = [c \in Connections |-> "none"]
  /\ editor = [c \in Connections |-> "talking"]
  /\ sent = [c \in Connections |-> <<>>]
  /\ taken = [c \in Connections |-> 0]
  /\ seq_counter = [c \in Connections |-> 0]
  /\ replies = [c \in Connections |-> <<>>]

Editor(c) == Connect(c) \/ Write(c) \/ \E how \in {"finished", "gone"} : Leave(c, how)
Listener(c) == Accept(c) \/ AcceptFails(c) \/ NoStream(c) \/ SpawnPanics(c)
Handler(c) == Respond(c) \/ Malformed(c) \/ Broken(c) \/ EndOfInput(c)

AdapterNext == \E c \in Connections : Editor(c) \/ Listener(c) \/ Handler(c)

\* accept succeeds in the end for a connection that waits, and a handler that has input runs:
\* an editor that is there reads what is written to it, so that no write waits for good.
AdapterFairness ==
  \A c \in Connections : WF_adapterVars(Listener(c)) /\ WF_adapterVars(Handler(c))

AdapterSpec == AdapterInit /\ [][AdapterNext]_adapterVars

----------------------------------------------------------------------------
(* Properties *)

\* Every variable of the adapter has its type.
AdapterTypeOK ==
  /\ up \in BOOLEAN
  /\ conn \in [Connections -> Standings]
  /\ editor \in [Connections -> {"talking", "finished", "gone"}]
  /\ sent \in [Connections -> Seq(Lines)]
  /\ taken \in [Connections -> Nat]
  /\ seq_counter \in [Connections -> Nat]
  /\ replies \in [Connections -> Seq(DapResponse)]

\* The k-th response on a connection answers its k-th line, whatever the other
\* connections do: it names that request, succeeds exactly when the command is one of
\* the protocol, and then carries the number k, so that successes are numbered upwards
\* with a gap for every unknown command.
Answers(c, k) ==
  LET r == replies[c][k]
      l == sent[c][k]
  IN  /\ r.request_seq = l.seq
      /\ r.command = l.command
      /\ r.success <=> l.command \in Commands
      /\ r.seq = IF r.success THEN k ELSE 0

RepliesNumbered ==
  \A c \in Connections :
    /\ Len(replies[c]) <= Len(sent[c])
    /\ \A k \in 1 .. Len(replies[c]) : Answers(c, k)

\* A connection ends for a reason of its own while the process lives: at the end of its
\* input with every line answered, at its first malformed line with every line before it
\* answered, or because its editor is gone.  No editor's mistake ends another's session.
EndedRightly(c) ==
  CASE conn[c] = "eof"       -> editor[c] # "talking" /\ Len(replies[c]) = Len(sent[c])
    [] conn[c] = "malformed" -> /\ taken[c] \in 1 .. Len(sent[c])
                                /\ ~sent[c][taken[c]].valid
                                /\ Len(replies[c]) = taken[c] - 1
    [] conn[c] \in {"broken", "aborted"} -> editor[c] = "gone"
    [] conn[c] = "killed"    -> ~up
    [] OTHER                 -> TRUE

EndingsExplained == \A c \in Connections : EndedRightly(c)

\* Lines read and replies written keep in step with the counter.
InStep(c) ==
  /\ taken[c] <= Len(sent[c])
  /\ conn[c] \in {"none", "waiting", "no_stream", "aborted"} => taken[c] = 0 /\ replies[c] = <<>>
  /\ conn[c] = "serving" => /\ Len(replies[c]) = taken[c]
                            /\ seq_counter[c] = taken[c]

\* A line whose forerunners all parse is answered in the end, although editors write
\* ahead, unless its editor is gone, no stream could be had for it or the process died.
Pending(c, k) ==
  /\ conn[c] \in {"waiting", "serving"}
  /\ k <= Len(sent[c])
  /\ \A j \in 1 .. k : sent[c][j].valid

LinesAnswered ==
  \A c \in Connections, k \in 1 .. MaxLines :
    Pending(c, k) ~> \/ Len(replies[c]) >= k
                     \/ editor[c] = "gone" \/ conn[c] = "no_stream" \/ ~up

----------------------------------------------------------------------------
(* The adapter as a server of requests: every valid line is a request, and *)
(* the number a response carries is no part of the promise.                *)

Outcome(r) == [request_seq |-> r.request_seq, command |-> r.command, success |-> r.success]

AdapterReplies(l) ==
  {r \in [request_seq : {l.seq}, command : {l.command}, success : BOOLEAN] :
     r.success <=> l.command \in Commands}

AdapterOptional(l) == ~l.valid

AdapterProtocol == INSTANCE RequestServer
  WITH Channels <- Connections, Messages <- Lines,
       Replies <- AdapterReplies, Optional <- AdapterOptional,
       asked <- sent,
       told <- [c \in Connections |->
                  [k \in 1 .. Len(replies[c]) |-> [to |-> k, reply |-> Outcome(replies[c][k])]]],
       open <- {c \in Connections : conn[c] \in {"none", "waiting", "serving"}}

\* Each connection of the adapter is a channel on which no request is passed over,
\* answered twice or out of turn.
AdapterImplements == AdapterProtocol!Spec
====
