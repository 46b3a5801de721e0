---- MODULE LanguageServer ----
(***************************************************************************)
(* The language server of src/interface/lsp/src/main.rs on the transport   *)
(* of the crate lsp-server 0.7: a thread reads messages from stdin, a      *)
(* thread writes messages to stdout, and the main thread meets each of     *)
(* them in a channel that holds nothing.  The handshake, the end of the    *)
(* session and the two threads are the crate's, as main uses them.         *)
(*                                                                         *)
(* The reader is no state of its own: what main receives next is the next  *)
(* message of the input, until the reader ends behind an exit, at the end  *)
(* of the input, or at bytes it cannot frame.                              *)
(***************************************************************************)
EXTENDS VqlutLsp

CONSTANT Scripts    \* what clients may write, in whole or in part

Methods == {"initialize", "shutdown", "definition", "hover", "completion", "other"}

Requests ==
  [kind : {"request"}, method : Methods, valid : BOOLEAN, character : Character]

Message ==
  Requests \cup [kind : {"notification"}, method : {"initialized", "exit", "other"}]
           \cup [kind : {"response", "unframable"}]

ASSUME ScriptsAssumption == Scripts \subseteq Seq(Message)

Is(m, kind, method) == m.kind = kind /\ m.method = method

----------------------------------------------------------------------------
VARIABLES
  phase,            \* where the main thread is
  ended,            \* how the process ended
  client,           \* what the client's ends of the pipes are: both, or stdout only, or none
  input,            \* the messages the client has written
  consumed,         \* how many of them main has received
  giving,           \* the response main holds out to the writer: none or one
  hand,             \* the response the writer has taken: none or one
  writer,
  written           \* the responses on stdout

lspVars == <<phase, ended, client, input, consumed, giving, hand, writer, written>>

Phases == {"starting", "initializing", "running", "shutdown", "joining"}

Ranged == [reply : {"location", "hover"}, from : Character, end : Character]
Plain == [reply : {"capabilities", "not initialized", "null", "items"}]
Response == [to : Nat, body : Ranged \cup Plain]

----------------------------------------------------------------------------
(* The client. *)

Put ==
  /\ ended = "no"
  /\ client = "talking"
  /\ \E s \in Scripts :
       /\ Len(s) > Len(input)
       /\ SubSeq(s, 1, Len(input)) = input
       /\ input' = Append(input, s[Len(input) + 1])
  /\ UNCHANGED <<phase, ended, client, consumed, giving, hand, writer, written>>

Withdraw(how) ==
  /\ ended = "no"
  /\ client # "gone"
  /\ client' = how
  /\ UNCHANGED <<phase, ended, input, consumed, giving, hand, writer, written>>

----------------------------------------------------------------------------
(* The channel from the reader to main. *)

Following == input[consumed + 1]
More == consumed < Len(input)

AfterExit == consumed > 0 /\ Is(input[consumed], "notification", "exit")
Unframable == More /\ Following.kind = "unframable"

\* main runs and a message is held out to it.
Held == ended = "no" /\ giving = <<>> /\ ~AfterExit /\ More /\ Following.kind # "unframable"

\* main runs and finds the channel closed.
Closed ==
  /\ ended = "no" /\ giving = <<>>
  /\ AfterExit \/ Unframable \/ (~More /\ client # "talking")

Take == consumed' = consumed + 1

Reply(body) == giving' = <<[to |-> consumed + 1, body |-> body]>>

----------------------------------------------------------------------------
(* Connection::initialize, called by main before its loop. *)

NotInitialized ==
  /\ phase = "starting" /\ Held
  /\ Following.kind = "request" /\ Following.method # "initialize"
  /\ Take
  /\ Reply([reply |-> "not initialized"])
  /\ UNCHANGED <<phase, ended, client, input, hand, writer, written>>

TooEarly ==
  /\ phase = "starting" /\ Held
  /\ Following.kind = "notification" /\ Following.method # "exit"
  /\ Take
  /\ UNCHANGED <<phase, ended, client, input, giving, hand, writer, written>>

Initialize ==
  /\ phase = "starting" /\ Held
  /\ Is(Following, "request", "initialize")
  /\ Take
  /\ Reply([reply |-> "capabilities"])
  /\ phase' = "initializing"
  /\ UNCHANGED <<ended, client, input, hand, writer, written>>

Initialized ==
  /\ phase = "initializing" /\ Held
  /\ Is(Following, "notification", "initialized")
  /\ Take
  /\ phase' = "running"
  /\ UNCHANGED <<ended, client, input, giving, hand, writer, written>>

HandshakeFails ==
  /\ \/ /\ phase = "starting" /\ Held /\ Take
        /\ Following.kind = "response" \/ Is(Following, "notification", "exit")
     \/ /\ phase = "initializing" /\ Held /\ Take
        /\ ~Is(Following, "notification", "initialized")
     \/ phase \in {"starting", "initializing"} /\ Closed /\ UNCHANGED consumed
  /\ ended' = "failed"
  /\ UNCHANGED <<phase, client, input, giving, hand, writer, written>>

----------------------------------------------------------------------------
(* The loop of main. *)

Running == phase = "running" /\ Held

\* What the handlers answer; the schema of the server is the empty one of VqlutLsp::new.
Ends(m) ==
  CASE m.method = "definition" -> handle_goto_definition({}, m.character)
    [] m.method = "hover"      -> handle_hover(m.character)

BodiesTo(m) ==
  IF m.method = "completion"
  THEN [reply : {"items"}]
  ELSE [reply : {IF m.method = "hover" THEN "hover" ELSE "location"},
        from : {m.character}, end : Ends(m)]

\* handle_shutdown is asked first; whatever it could not send, it waits for the exit.
Shutdown ==
  /\ Running
  /\ Is(Following, "request", "shutdown")
  /\ Take
  /\ Reply([reply |-> "null"])
  /\ phase' = "shutdown"
  /\ UNCHANGED <<ended, client, input, hand, writer, written>>

\* The three casts, tried one after the other: a method is handled by its own.
Handled == Running /\ Following.kind = "request" /\ Following.method \in {"definition", "hover", "completion"}

\* A handler panics when it adds beyond a u32 in a build that checks.
Panicking == Following.method # "completion" /\ Overflowed \in Ends(Following)

\* Mutant: completions are computed and not sent.
AnswersPositions ==
  /\ Handled /\ Following.valid /\ ~Panicking
  /\ Take
  /\ IF Following.method = "completion"
     THEN UNCHANGED giving
     ELSE \E body \in BodiesTo(Following) : Reply(body)
  /\ UNCHANGED <<phase, ended, client, input, hand, writer, written>>

\* Mutant: the answer goes to the request before.
AnswersPrevious ==
  /\ Handled /\ Following.valid /\ ~Panicking
  /\ Take
  /\ \E body \in BodiesTo(Following) : giving' = <<[to |-> consumed, body |-> body]>>
  /\ UNCHANGED <<phase, ended, client, input, hand, writer, written>>

Answer ==
  /\ Handled /\ Following.valid /\ ~Panicking
  /\ Take
  /\ \E body \in BodiesTo(Following) : Reply(body)
  /\ UNCHANGED <<phase, ended, client, input, hand, writer, written>>

\* The parameters of a known method that do not decode bring the process down.
Panic ==
  /\ Handled /\ (~Following.valid \/ Panicking)
  /\ Take
  /\ ended' = "failed"
  /\ UNCHANGED <<phase, client, input, giving, hand, writer, written>>

\* A request of another method is logged, as a response is; notifications are let pass.
Unhandled ==
  /\ Running
  /\ Following.kind = "request" => Following.method \in {"initialize", "other"}
  /\ Take
  /\ UNCHANGED <<phase, ended, client, input, giving, hand, writer, written>>

Exit ==
  /\ phase = "shutdown" /\ Held
  /\ Is(Following, "notification", "exit")
  /\ Take
  /\ ended' = "clean"
  /\ UNCHANGED <<phase, client, input, giving, hand, writer, written>>

\* Anything but an exit, no message in 30 seconds, or none to come.
ShutdownFails ==
  /\ phase = "shutdown"
  /\ \/ Held /\ ~Is(Following, "notification", "exit") /\ Take
     \/ ended = "no" /\ giving = <<>> /\ ~More /\ UNCHANGED consumed
     \/ Closed /\ UNCHANGED consumed
  /\ ended' = "failed"
  /\ UNCHANGED <<phase, client, input, giving, hand, writer, written>>

\* Mutant: main drops its connection before it joins the threads.
JoinsDisconnected ==
  /\ phase = "running" /\ Closed
  /\ ended' = IF Unframable THEN "failed" ELSE "clean"
  /\ UNCHANGED <<phase, client, input, consumed, giving, hand, writer, written>>

\* Mutant: the loop tries to receive again when the channel is closed.
Spin ==
  /\ phase = "running" /\ Closed
  /\ UNCHANGED lspVars

\* Behind the loop main waits for the reader, which has ended, and for the writer, which
\* waits for main: the connection that main still owns holds the sender of its channel.
Join ==
  /\ phase = "running" /\ Closed
  /\ IF Unframable
     THEN ended' = "failed" /\ UNCHANGED phase
     ELSE phase' = "joining" /\ UNCHANGED ended
  /\ UNCHANGED <<client, input, consumed, giving, hand, writer, written>>

JoinFails ==
  /\ phase = "joining" /\ ended = "no" /\ writer = "failed"
  /\ ended' = "failed"
  /\ UNCHANGED <<phase, client, input, consumed, giving, hand, writer, written>>

----------------------------------------------------------------------------
(* send_result, and the writer thread.                                     *)

Give ==
  /\ ended = "no" /\ giving # <<>> /\ writer = "up" /\ hand = <<>>
  /\ hand' = giving
  /\ giving' = <<>>
  /\ UNCHANGED <<phase, ended, client, input, consumed, writer, written>>

\* handle_shutdown alone takes no notice of an answer that cannot be sent.
GiveFails ==
  /\ ended = "no" /\ giving # <<>> /\ writer = "failed"
  /\ giving' = <<>>
  /\ ended' = IF phase = "shutdown" THEN "no" ELSE "failed"
  /\ UNCHANGED <<phase, client, input, consumed, hand, writer, written>>

WriteOut ==
  /\ ended = "no" /\ hand # <<>> /\ client # "gone"
  /\ written' = written \o hand
  /\ hand' = <<>>
  /\ UNCHANGED <<phase, ended, client, input, consumed, giving, writer>>

WriterFails ==
  /\ ended = "no" /\ hand # <<>> /\ client = "gone"
  /\ hand' = <<>>
  /\ writer' = "failed"
  /\ UNCHANGED <<phase, ended, client, input, consumed, giving, written>>

----------------------------------------------------------------------------
LspInit ==
  /\ phase = "starting"
  /\ ended = "no"
  /\ client = "talking"
  /\ input = <<>>
  /\ consumed = 0
  /\ giving = <<>>
  /\ hand = <<>>
  /\ writer = "up"
  /\ written = <<>>

Client == Put \/ \E how \in {"listening", "gone"} : Withdraw(how)
Handshake == NotInitialized \/ TooEarly \/ Initialize \/ Initialized \/ HandshakeFails
Loop == Shutdown \/ Answer \/ Panic \/ Unhandled \/ Exit \/ ShutdownFails \/ Join \/ JoinFails
Main == Handshake \/ Loop \/ Give \/ GiveFails
Writer == WriteOut \/ WriterFails

LspNext == Client \/ Main \/ Writer

\* The threads run; nothing is asked of the client.
LspFairness == WF_lspVars(Main) /\ WF_lspVars(Writer)

LspSpec == LspInit /\ [][LspNext]_lspVars

----------------------------------------------------------------------------
(* Properties *)

\* Every variable of the server has its type.
LspTypeOK ==
  /\ phase \in Phases
  /\ ended \in {"no", "clean", "failed"}
  /\ client \in {"talking", "listening", "gone"}
  /\ input \in Seq(Message)
  /\ consumed \in Nat
  /\ \A s \in {giving, hand} : s \in Seq(Response) /\ Len(s) <= 1
  /\ writer \in {"up", "failed"}
  /\ written \in Seq(Response)

\* The requests that have an answer: the ones of a method the server has, with
\* parameters that decode.
Answerable(m) ==
  /\ m.kind = "request"
  /\ m.method \in {"shutdown", "definition", "hover", "completion"}
  /\ m.method # "shutdown" => m.valid

Answered(k) == \E i \in DOMAIN written : written[i].to = k

\* The process ends with success only behind a shutdown and the exit that follows it at
\* once, and a client that still listens has then every answer but, at worst, the one
\* to the shutdown.  An end of the input never counts as success.
CleanExit ==
  ended = "clean" =>
    /\ consumed > 1
    /\ Is(input[consumed], "notification", "exit")
    /\ Is(input[consumed - 1], "request", "shutdown")
    /\ client # "gone" => \A k \in 1 .. consumed - 2 : Answerable(input[k]) => Answered(k)

\* A range that was answered starts where the client pointed and ends behind it, unless
\* the ten characters of the range pass the end of a u32 and the build wraps around.
RangesForward ==
  \A i \in DOMAIN written :
    LET body == written[i].body
    IN  body.reply \in {"location", "hover"} =>
          /\ body.from = input[written[i].to].character
          /\ body.end > body.from \/ (~OverflowChecks /\ body.from + 10 >= U32)

\* Every answerable request that main reaches is answered, unless the process fails or
\* the client goes away; an answer to the shutdown may be overtaken by the exit.
Awaited(k) == k <= consumed /\ Answerable(input[k])

RequestsAnswered ==
  \A k \in UNION {DOMAIN s : s \in Scripts} : Awaited(k) ~> Answered(k) \/ ended # "no" \/ client = "gone"

\* Once the client has closed its end, main leaves its loop: the process has ended, or
\* it waits in the join of its threads.
LoopEnds == client # "talking" ~> ended # "no" \/ phase = "joining"

----------------------------------------------------------------------------
(* The server as a server of requests. *)

LspReplies(m) ==
  IF m.kind # "request" THEN {}
  ELSE {"not initialized"} \cup
       CASE m.method = "initialize" -> {"capabilities"}
         [] m.method = "shutdown"   -> {"null"}
         [] m.method = "definition" -> {"location"}
         [] m.method = "hover"      -> {"hover"}
         [] m.method = "completion" -> {"items"}
         [] OTHER                   -> {}

LspOptional(m) == ~Answerable(m)

LspProtocol == INSTANCE RequestServer
  WITH Channels <- {"stdio"}, Messages <- Message,
       Replies <- LspReplies, Optional <- LspOptional,
       asked <- [c \in {"stdio"} |-> input],
       told <- [c \in {"stdio"} |->
                  [i \in DOMAIN written |-> [to |-> written[i].to, reply |-> written[i].body.reply]]],
       open <- IF ended = "no" THEN {"stdio"} ELSE {}

\* Answers come in the order of the requests, one for each of a method the server has,
\* and none is passed over that is followed by another answer.
LspImplements == LspProtocol!Spec
====
