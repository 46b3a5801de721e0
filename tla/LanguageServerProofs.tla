---- MODULE LanguageServerProofs ----
(***************************************************************************)
(* The safety of the language server and its refinement of RequestServer,  *)
(* for any scripts of the client, any width of a character's number and    *)
(* both kinds of build.                                                    *)
(***************************************************************************)
EXTENDS LanguageServer, SequenceTheorems, TLAPS

\* A body is one of the answers to a message, and a range in it runs forward.
Fits(body, m) ==
  /\ body.reply \in LspReplies(m)
  /\ body.reply \in {"location", "hover"} =>
       /\ body.from = m.character
       /\ body.end > body.from \/ (~OverflowChecks /\ body.from + 10 >= U32)

\* A response belongs to a message main has received, and says what fits it.
Right(r) == r.to \in 1 .. consumed /\ Fits(r.body, input[r.to])

----------------------------------------------------------------------------
(* The inductive invariant. *)

\* Every response is right, wherever it is: written, in the writer's hand or still main's.
AllRight ==
  /\ consumed <= Len(input)
  /\ \A i \in DOMAIN written : Right(written[i])
  /\ hand # <<>> => Right(hand[1])
  /\ giving # <<>> => Right(giving[1])

\* The three places keep the order of the requests.
InOrder ==
  /\ \A i, j \in DOMAIN written : i < j => written[i].to < written[j].to
  /\ hand # <<>> => \A i \in DOMAIN written : written[i].to < hand[1].to
  /\ giving # <<>> => \A i \in DOMAIN written : written[i].to < giving[1].to
  /\ hand # <<>> /\ giving # <<>> => hand[1].to < giving[1].to

Underway(k) ==
  \/ Answered(k)
  \/ hand # <<>> /\ hand[1].to = k
  \/ giving # <<>> /\ giving[1].to = k

\* While the client is there and the process has not failed, no answer is lost.
NoneLost ==
  /\ client # "gone" /\ ended # "failed" =>
       \A k \in 1 .. consumed : Answerable(input[k]) => Underway(k)
  /\ writer = "failed" => client = "gone"

\* In the shutdown phase main has just received the shutdown.
JustShutdown ==
  ended = "no" /\ phase = "shutdown" =>
    consumed > 0 /\ Is(input[consumed], "request", "shutdown")

LspInv == LspTypeOK /\ AllRight /\ InOrder /\ NoneLost /\ JustShutdown /\ CleanExit

----------------------------------------------------------------------------
(* Facts about data. *)

LEMMA AddFacts ==
  ASSUME NEW c \in Character, add_u32(c, 10) # Overflowed
  PROVE  /\ add_u32(c, 10) \in Character
         /\ add_u32(c, 10) > c \/ (~OverflowChecks /\ c + 10 >= U32)
<1>1. U32 \in Nat /\ U32 > 10 /\ c \in 0 .. U32 - 1 /\ c + 10 \in Nat
  <2>1. U32 \in Nat /\ U32 > 10
    BY LibraryAssumption, Zenon
  <2>2. c \in 0 .. U32 - 1
    BY DEF Character
  <2>. QED
    BY <2>1, <2>2
<1>2. CASE c + 10 < U32
  <2>1. add_u32(c, 10) = c + 10
    BY <1>1, <1>2 DEF add_u32
  <2>. QED
    BY <1>1, <1>2, <2>1 DEF Character
<1>3. CASE c + 10 >= U32 /\ ~OverflowChecks
  <2>1. add_u32(c, 10) = (c + 10) % U32
    BY <1>1, <1>3 DEF add_u32
  <2>2. (c + 10) % U32 \in 0 .. U32 - 1
    <3>1. \A n \in Nat : n % U32 \in 0 .. U32 - 1
      BY <1>1
    <3>. QED
      BY <1>1, <3>1
  <2>3. add_u32(c, 10) \in Character
    BY <2>1, <2>2 DEF Character
  <2>. QED
    BY <1>3, <2>3
<1>4. CASE c + 10 >= U32 /\ OverflowChecks
  BY <1>1, <1>4 DEF add_u32
<1>. QED
  BY <1>1, <1>2, <1>3, <1>4

LEMMA OneOrNone ==
  ASSUME NEW S, NEW s \in Seq(S), Len(s) <= 1, s # <<>>
  PROVE  Len(s) = 1 /\ s[1] \in S
<1>1. Len(s) \in Nat /\ Len(s) # 0
  OBVIOUS
<1>2. Len(s) = 1
  BY <1>1
<1>3. s[1] \in S
  BY <1>2, 1 \in 1 .. Len(s)
<1>. QED
  BY <1>2, <1>3

\* The message main receives next.
LEMMA FollowingFacts ==
  ASSUME LspTypeOK, consumed <= Len(input), More
  PROVE  /\ Following \in Message /\ consumed + 1 \in 1 .. Len(input)
         /\ Following.kind = "request" => Following \in Requests
<1>1. input \in Seq(Message) /\ consumed \in Nat /\ consumed < Len(input)
  BY DEF LspTypeOK, More
<1>2. Following \in Message /\ consumed + 1 \in 1 .. Len(input)
  BY <1>1 DEF Following
<1>. QED
  BY <1>2 DEF Message

\* What the three handlers answer is right.
LEMMA BodyFacts ==
  ASSUME NEW m \in Requests, m.method \in {"definition", "hover", "completion"},
         ~(m.method # "completion" /\ Overflowed \in Ends(m)), NEW body \in BodiesTo(m)
  PROVE  body \in Ranged \cup Plain /\ Fits(body, m)
<1>0. m.kind = "request" /\ m.character \in Character
  BY DEF Requests
<1>1. CASE m.method = "completion"
  <2>1. body.reply = "items" /\ body \in Plain
    BY <1>1 DEF BodiesTo, Plain
  <2>. QED
    BY <1>0, <1>1, <2>1 DEF LspReplies, Fits
<1>2. CASE m.method # "completion"
  <2>1. Ends(m) = {add_u32(m.character, 10)}
    BY <1>2 DEF Ends, handle_goto_definition, handle_hover
  <2>2. /\ body.reply = IF m.method = "hover" THEN "hover" ELSE "location"
        /\ body.from = m.character /\ body.end = add_u32(m.character, 10)
        /\ body = [reply |-> body.reply, from |-> body.from, end |-> body.end]
    BY <1>2, <2>1 DEF BodiesTo
  <2>3. add_u32(m.character, 10) # Overflowed
    BY <1>2, <2>1
  <2>4. /\ add_u32(m.character, 10) \in Character
        /\ \/ add_u32(m.character, 10) > m.character
           \/ ~OverflowChecks /\ m.character + 10 >= U32
    BY <1>0, <2>3, AddFacts
  <2>5. body \in Ranged
    BY <1>0, <2>2, <2>4 DEF Ranged
  <2>6. body.reply \in LspReplies(m)
    BY <1>0, <1>2, <2>2 DEF LspReplies
  <2>. QED
    BY <2>2, <2>4, <2>5, <2>6 DEF Fits
<1>. QED
  BY <1>1, <1>2

----------------------------------------------------------------------------
THEOREM LspInit_Inv == LspInit => LspInv
<1>. SUFFICES ASSUME LspInit PROVE LspInv
  OBVIOUS
<1>1. LspTypeOK
  BY DEF LspInit, LspTypeOK, Phases
<1>2. AllRight /\ InOrder /\ NoneLost /\ JustShutdown /\ CleanExit
  BY DEF LspInit, AllRight, InOrder, NoneLost, JustShutdown, CleanExit
<1>. QED
  BY <1>1, <1>2 DEF LspInv

----------------------------------------------------------------------------
(* The steps. *)

\* What main has received it may answer at once, and must when there is an answer.
LEMMA TakeKeeps ==
  ASSUME LspInv, Held, Take, UNCHANGED <<client, input, hand, writer, written>>,
         \/ giving' = <<>>
         \/ \E body \in Ranged \cup Plain : Fits(body, Following) /\ Reply(body),
         ended' = "failed" \/ giving' # <<>> \/ ~Answerable(Following)
  PROVE  /\ giving' \in Seq(Response) /\ Len(giving') <= 1
         /\ AllRight' /\ InOrder' /\ NoneLost'
<1>1. /\ LspTypeOK /\ AllRight /\ InOrder /\ NoneLost
      /\ ended = "no" /\ giving = <<>> /\ More
  BY DEF LspInv, Held
<1>2. /\ consumed \in Nat /\ consumed' = consumed + 1
      /\ consumed + 1 \in 1 .. Len(input) /\ Following = input[consumed + 1]
  BY <1>1, FollowingFacts DEF LspTypeOK, AllRight, Take, Following
<1>3. \/ giving' = <<>>
      \/ /\ giving' \in Seq(Response) /\ Len(giving') = 1
         /\ giving'[1].to = consumed + 1 /\ Fits(giving'[1].body, input[consumed + 1])
  <2>1. ASSUME NEW body \in Ranged \cup Plain, Fits(body, Following), Reply(body)
        PROVE  /\ giving' \in Seq(Response) /\ Len(giving') = 1
               /\ giving'[1].to = consumed + 1 /\ Fits(giving'[1].body, input[consumed + 1])
    <3>1. PICK r : r = [to |-> consumed + 1, body |-> body]
      OBVIOUS
    <3>2. r \in Response /\ r.to = consumed + 1 /\ r.body = body
      BY <1>2, <3>1 DEF Response
    <3>3. giving' = <<r>>
      BY <2>1, <3>1 DEF Reply
    <3>. QED
      BY <1>2, <2>1, <3>2, <3>3
  <2>. QED
    BY <2>1
<1>4. giving' \in Seq(Response) /\ Len(giving') <= 1
  <2>1. CASE giving' = <<>>
    BY <2>1
  <2>2. CASE giving' \in Seq(Response) /\ Len(giving') = 1
    BY <2>2
  <2>. QED
    BY <1>3, <2>1, <2>2
<1>5. \A i \in DOMAIN written : written[i].to \in 1 .. consumed
  BY <1>1 DEF AllRight, Right
<1>6. hand # <<>> => hand[1].to \in 1 .. consumed
  BY <1>1 DEF AllRight, Right
<1>7. AllRight'
  BY <1>1, <1>2, <1>3, <1>5, <1>6 DEF AllRight, Right
<1>8. InOrder'
  BY <1>1, <1>2, <1>3, <1>5, <1>6 DEF InOrder
<1>9. NoneLost'
  <2>1. writer' = "failed" => client' = "gone"
    BY <1>1 DEF NoneLost
  <2>2. ASSUME client' # "gone", ended' # "failed",
               NEW k \in 1 .. consumed', Answerable(input[k])
        PROVE  Underway(k)'
    <3>1. CASE k = consumed + 1
      BY <1>2, <1>3, <2>2, <3>1 DEF Underway
    <3>2. CASE k # consumed + 1
      <4>1. k \in 1 .. consumed
        BY <1>2, <3>2
      <4>2. Underway(k)
        BY <1>1, <2>2, <4>1 DEF NoneLost
      <4>. QED
        BY <1>1, <4>2 DEF Underway, Answered
    <3>. QED
      BY <3>1, <3>2
  <2>. QED
    BY <2>1, <2>2 DEF NoneLost
<1>. QED
  BY <1>4, <1>7, <1>8, <1>9

\* When nothing is received, answered or moved, everything stays in its place.
LEMMA StayKeeps ==
  ASSUME LspInv, ended = "no",
         UNCHANGED <<client, input, consumed, giving, hand, writer, written>>
  PROVE  AllRight' /\ InOrder' /\ NoneLost'
<1>1. AllRight /\ InOrder /\ NoneLost
  BY DEF LspInv
<1>2. AllRight' /\ InOrder'
  BY <1>1 DEF AllRight, InOrder, Right
<1>3. NoneLost'
  BY <1>1 DEF NoneLost, Underway, Answered
<1>. QED
  BY <1>2, <1>3

LEMMA PutAppends ==
  ASSUME LspTypeOK, Put
  PROVE  \E m \in Message : input' = Append(input, m)
<1>1. PICK s \in Scripts : Len(s) > Len(input) /\ input' = Append(input, s[Len(input) + 1])
  BY DEF Put
<1>2. s \in Seq(Message) /\ Len(input) \in Nat
  BY ScriptsAssumption DEF LspTypeOK
<1>3. Len(input) + 1 \in 1 .. Len(s)
  BY <1>1, <1>2
<1>. QED
  BY <1>1, <1>2, <1>3

\* The client writes or withdraws.
LEMMA ClientKeeps ==
  ASSUME LspInv, Client
  PROVE  LspInv'
<1>1. LspTypeOK /\ AllRight /\ InOrder /\ NoneLost /\ JustShutdown
  BY DEF LspInv
<1>2. CASE Put
  <2>1. PICK m \in Message : input' = Append(input, m)
    BY <1>1, <1>2, PutAppends
  <2>2. UNCHANGED <<phase, ended, client, consumed, giving, hand, writer, written>> /\ ended = "no"
    BY <1>2 DEF Put
  <2>3. /\ input' \in Seq(Message) /\ Len(input') = Len(input) + 1
        /\ consumed \in Nat /\ consumed <= Len(input) /\ Len(input) \in Nat
        /\ \A k \in 1 .. consumed : input'[k] = input[k]
    BY <1>1, <2>1 DEF LspTypeOK, AllRight
  <2>4. LspTypeOK'
    BY <1>1, <2>2, <2>3 DEF LspTypeOK
  <2>5. AllRight'
    <3>1. ASSUME NEW r, r.to \in 1 .. consumed, Fits(r.body, input[r.to])
          PROVE  Fits(r.body, input'[r.to])
      BY <2>3, <3>1
    <3>. QED
      BY <1>1, <2>2, <2>3, <3>1 DEF AllRight, Right
  <2>6. InOrder' /\ JustShutdown'
    BY <1>1, <2>2, <2>3 DEF InOrder, JustShutdown, Is
  <2>7. NoneLost'
    BY <1>1, <2>2, <2>3 DEF NoneLost, Underway, Answered
  <2>8. CleanExit'
    BY <2>2 DEF CleanExit
  <2>. QED
    BY <2>4, <2>5, <2>6, <2>7, <2>8 DEF LspInv
<1>3. CASE \E how \in {"listening", "gone"} : Withdraw(how)
  <2>1. /\ UNCHANGED <<phase, ended, input, consumed, giving, hand, writer, written>>
        /\ ended = "no" /\ client # "gone" /\ client' \in {"listening", "gone"}
    BY <1>3 DEF Withdraw
  <2>2. LspTypeOK'
    BY <1>1, <2>1 DEF LspTypeOK
  <2>3. AllRight' /\ InOrder' /\ JustShutdown'
    BY <1>1, <2>1 DEF AllRight, Right, InOrder, JustShutdown
  <2>4. NoneLost'
    BY <1>1, <2>1 DEF NoneLost, Underway, Answered
  <2>5. CleanExit'
    BY <2>1 DEF CleanExit
  <2>. QED
    BY <2>2, <2>3, <2>4, <2>5 DEF LspInv
<1>. QED
  BY <1>2, <1>3 DEF Client

\* The handshake receives a message, or fails.
LEMMA HandshakeKeeps ==
  ASSUME LspInv, Handshake
  PROVE  LspInv'
<1>1. LspTypeOK /\ JustShutdown /\ AllRight
  BY DEF LspInv
<1>2. CASE NotInitialized
  <2>1. Fits([reply |-> "not initialized"], Following) /\ [reply |-> "not initialized"] \in Plain
    BY <1>2 DEF NotInitialized, Fits, LspReplies, Plain
  <2>2. giving' # <<>>
    BY <1>2 DEF NotInitialized, Reply
  <2>3. /\ giving' \in Seq(Response) /\ Len(giving') <= 1
        /\ AllRight' /\ InOrder' /\ NoneLost'
    BY <1>2, <2>1, <2>2, TakeKeeps DEF NotInitialized
  <2>4. /\ phase = "starting" /\ ended = "no" /\ consumed' = consumed + 1
        /\ UNCHANGED <<phase, ended, client, input, hand, writer, written>>
    BY <1>2 DEF NotInitialized, Held, Take
  <2>5. LspTypeOK'
    BY <1>1, <2>3, <2>4 DEF LspTypeOK
  <2>. QED
    BY <2>3, <2>4, <2>5 DEF LspInv, JustShutdown, CleanExit
<1>3. CASE TooEarly
  <2>1. giving' = <<>> /\ ~Answerable(Following)
    BY <1>3 DEF TooEarly, Held, Answerable
  <2>2. /\ giving' \in Seq(Response) /\ Len(giving') <= 1
        /\ AllRight' /\ InOrder' /\ NoneLost'
    BY <1>3, <2>1, TakeKeeps DEF TooEarly
  <2>. QED
    BY <1>1, <1>3, <2>2
       DEF LspInv, TooEarly, Held, Take, LspTypeOK, JustShutdown, CleanExit
<1>4. CASE Initialize
  <2>1. Fits([reply |-> "capabilities"], Following) /\ [reply |-> "capabilities"] \in Plain
    BY <1>4 DEF Initialize, Is, Fits, LspReplies, Plain
  <2>2. giving' # <<>>
    BY <1>4 DEF Initialize, Reply
  <2>3. /\ giving' \in Seq(Response) /\ Len(giving') <= 1
        /\ AllRight' /\ InOrder' /\ NoneLost'
    BY <1>4, <2>1, <2>2, TakeKeeps DEF Initialize
  <2>. QED
    BY <1>1, <1>4, <2>3
       DEF LspInv, Initialize, Held, Take, LspTypeOK, Phases, JustShutdown, CleanExit
<1>5. CASE Initialized
  <2>1. giving' = <<>> /\ ~Answerable(Following)
    BY <1>5 DEF Initialized, Held, Is, Answerable
  <2>2. /\ giving' \in Seq(Response) /\ Len(giving') <= 1
        /\ AllRight' /\ InOrder' /\ NoneLost'
    BY <1>5, <2>1, TakeKeeps DEF Initialized
  <2>. QED
    BY <1>1, <1>5, <2>2
       DEF LspInv, Initialized, Held, Take, LspTypeOK, Phases, JustShutdown, CleanExit
<1>6. CASE HandshakeFails
  <2>1. ended = "no" /\ giving' = <<>> /\ ended' = "failed"
    BY <1>6 DEF HandshakeFails, Held, Closed
  <2>2. CASE Held /\ Take
    <3>1. /\ giving' \in Seq(Response) /\ Len(giving') <= 1
          /\ AllRight' /\ InOrder' /\ NoneLost'
      BY <1>6, <2>1, <2>2, TakeKeeps DEF HandshakeFails
    <3>. QED
      BY <1>1, <1>6, <2>1, <2>2, <3>1
         DEF LspInv, HandshakeFails, Take, LspTypeOK, JustShutdown, CleanExit
  <2>3. CASE UNCHANGED consumed
    <3>1. AllRight' /\ InOrder' /\ NoneLost'
      BY <1>6, <2>1, <2>3, StayKeeps DEF HandshakeFails
    <3>. QED
      BY <1>1, <1>6, <2>1, <2>3, <3>1
         DEF LspInv, HandshakeFails, LspTypeOK, JustShutdown, CleanExit
  <2>. QED
    BY <1>6, <2>2, <2>3 DEF HandshakeFails
<1>. QED
  BY <1>2, <1>3, <1>4, <1>5, <1>6 DEF Handshake

\* The loop receives a message, or ends.
LEMMA LoopKeeps ==
  ASSUME LspInv, Loop
  PROVE  LspInv'
<1>1. LspTypeOK /\ JustShutdown /\ AllRight
  BY DEF LspInv
<1>2. CASE Shutdown
  <2>1. Fits([reply |-> "null"], Following) /\ [reply |-> "null"] \in Plain
    BY <1>2 DEF Shutdown, Is, Fits, LspReplies, Plain
  <2>2. giving' # <<>>
    BY <1>2 DEF Shutdown, Reply
  <2>3. /\ giving' \in Seq(Response) /\ Len(giving') <= 1
        /\ AllRight' /\ InOrder' /\ NoneLost'
    BY <1>2, <2>1, <2>2, TakeKeeps DEF Shutdown, Running
  <2>4. JustShutdown'
    BY <1>1, <1>2 DEF Shutdown, Take, Following, LspTypeOK, JustShutdown
  <2>. QED
    BY <1>1, <1>2, <2>3, <2>4
       DEF LspInv, Shutdown, Running, Held, Take, LspTypeOK, Phases, CleanExit
<1>3. CASE Answer
  <2>1. /\ Held /\ Following \in Requests /\ phase = "running"
        /\ Following.method \in {"definition", "hover", "completion"}
    BY <1>1, <1>3, FollowingFacts DEF Answer, Handled, Running, Held, AllRight
  <2>2. ASSUME NEW body \in BodiesTo(Following)
        PROVE  body \in Ranged \cup Plain /\ Fits(body, Following)
    BY <1>3, <2>1, BodyFacts DEF Answer, Panicking
  <2>3. \E body \in Ranged \cup Plain : Fits(body, Following) /\ Reply(body)
    BY <1>3, <2>2 DEF Answer
  <2>4. giving' # <<>>
    BY <2>3 DEF Reply
  <2>5. /\ giving' \in Seq(Response) /\ Len(giving') <= 1
        /\ AllRight' /\ InOrder' /\ NoneLost'
    BY <1>3, <2>1, <2>3, <2>4, TakeKeeps DEF Answer
  <2>. QED
    BY <1>1, <1>3, <2>1, <2>5
       DEF LspInv, Answer, Held, Take, LspTypeOK, JustShutdown, CleanExit
<1>4. CASE Panic
  <2>1. Held /\ giving' = <<>> /\ phase = "running"
    BY <1>4 DEF Panic, Handled, Running, Held
  <2>2. /\ giving' \in Seq(Response) /\ Len(giving') <= 1
        /\ AllRight' /\ InOrder' /\ NoneLost'
    BY <1>4, <2>1, TakeKeeps DEF Panic
  <2>. QED
    BY <1>1, <1>4, <2>1, <2>2 DEF LspInv, Panic, Take, LspTypeOK, JustShutdown, CleanExit
<1>5. CASE Unhandled
  <2>1. Held /\ giving' = <<>> /\ phase = "running" /\ ~Answerable(Following)
    BY <1>5 DEF Unhandled, Running, Held, Answerable
  <2>2. /\ giving' \in Seq(Response) /\ Len(giving') <= 1
        /\ AllRight' /\ InOrder' /\ NoneLost'
    BY <1>5, <2>1, TakeKeeps DEF Unhandled
  <2>. QED
    BY <1>1, <1>5, <2>1, <2>2
       DEF LspInv, Unhandled, Held, Take, LspTypeOK, JustShutdown, CleanExit
<1>6. CASE Exit
  <2>1. /\ Held /\ giving = <<>> /\ giving' = <<>> /\ ended = "no" /\ phase = "shutdown"
        /\ Is(Following, "notification", "exit") /\ ~Answerable(Following)
    BY <1>6 DEF Exit, Held, Is, Answerable
  <2>2. /\ giving' \in Seq(Response) /\ Len(giving') <= 1
        /\ AllRight' /\ InOrder' /\ NoneLost'
    BY <1>6, <2>1, TakeKeeps DEF Exit
  <2>3. consumed \in Nat /\ consumed > 0 /\ Is(input[consumed], "request", "shutdown")
    BY <1>1, <2>1 DEF JustShutdown, LspTypeOK
  <2>4. ASSUME client # "gone", NEW k \in 1 .. consumed - 1, Answerable(input[k])
        PROVE  Answered(k)
    <3>1. Answerable(input[consumed])
      BY <2>3 DEF Is, Answerable
    <3>2. Underway(k) /\ Underway(consumed)
      BY <2>1, <2>3, <2>4, <3>1 DEF LspInv, NoneLost
    <3>3. hand # <<>> /\ hand[1].to = k => ~Answered(consumed)
      BY <1>1, <2>3 DEF LspInv, InOrder, AllRight, Right, Answered
    <3>. QED
      BY <2>1, <2>3, <3>2, <3>3 DEF Underway
  <2>5. CleanExit'
    <3>1. consumed' = consumed + 1 /\ input' = input /\ client' = client /\ written' = written
      BY <1>6 DEF Exit, Take
    <3>2. consumed' - 1 = consumed /\ consumed' - 2 = consumed - 1 /\ consumed' > 1
      BY <2>3, <3>1
    <3>3. Is(input'[consumed'], "notification", "exit")
      BY <2>1, <3>1 DEF Following
    <3>. QED
      BY <2>3, <2>4, <3>1, <3>2, <3>3 DEF CleanExit, Answered
  <2>. QED
    BY <1>1, <1>6, <2>1, <2>2, <2>5 DEF LspInv, Exit, Take, LspTypeOK, JustShutdown
<1>7. CASE ShutdownFails
  <2>1. ended = "no" /\ giving' = <<>> /\ ended' = "failed"
    BY <1>7 DEF ShutdownFails, Held, Closed
  <2>2. CASE Held /\ Take
    <3>1. /\ giving' \in Seq(Response) /\ Len(giving') <= 1
          /\ AllRight' /\ InOrder' /\ NoneLost'
      BY <1>7, <2>1, <2>2, TakeKeeps DEF ShutdownFails
    <3>. QED
      BY <1>1, <1>7, <2>1, <2>2, <3>1
         DEF LspInv, ShutdownFails, Take, LspTypeOK, JustShutdown, CleanExit
  <2>3. CASE UNCHANGED consumed
    <3>1. AllRight' /\ InOrder' /\ NoneLost'
      BY <1>7, <2>1, <2>3, StayKeeps DEF ShutdownFails
    <3>. QED
      BY <1>1, <1>7, <2>1, <2>3, <3>1
         DEF LspInv, ShutdownFails, LspTypeOK, JustShutdown, CleanExit
  <2>. QED
    BY <1>7, <2>2, <2>3 DEF ShutdownFails
<1>8. CASE Join \/ JoinFails
  <2>1. /\ ended = "no" /\ ended' \in {"no", "failed"}
        /\ phase' \in Phases /\ phase' # "shutdown"
        /\ UNCHANGED <<client, input, consumed, giving, hand, writer, written>>
    BY <1>8 DEF Join, JoinFails, Closed, Phases
  <2>2. AllRight' /\ InOrder' /\ NoneLost'
    BY <2>1, StayKeeps
  <2>. QED
    BY <1>1, <2>1, <2>2 DEF LspInv, LspTypeOK, JustShutdown, CleanExit
<1>. QED
  BY <1>2, <1>3, <1>4, <1>5, <1>6, <1>7, <1>8 DEF Loop

\* A response goes from main to the writer and on to stdout, or is given up with a
\* client that is gone.
LEMMA WayKeeps ==
  ASSUME LspInv, Give \/ GiveFails \/ Writer
  PROVE  LspInv'
<1>1. LspTypeOK /\ AllRight /\ InOrder /\ NoneLost /\ JustShutdown
  BY DEF LspInv
<1>2. /\ ended = "no" /\ UNCHANGED <<phase, client, input, consumed>>
      /\ giving \in Seq(Response) /\ Len(giving) <= 1
      /\ hand \in Seq(Response) /\ Len(hand) <= 1
      /\ written \in Seq(Response)
  BY <1>1 DEF Give, GiveFails, Writer, WriteOut, WriterFails, LspTypeOK
<1>3. CASE Give
  <2>1. /\ hand = <<>> /\ hand' = giving /\ giving' = <<>> /\ giving # <<>>
        /\ UNCHANGED <<phase, ended, client, input, consumed, writer, written>>
    BY <1>3 DEF Give
  <2>2. LspTypeOK'
    BY <1>1, <1>2, <2>1 DEF LspTypeOK
  <2>3. AllRight' /\ InOrder'
    BY <1>1, <2>1 DEF AllRight, Right, InOrder
  <2>4. NoneLost'
    BY <1>1, <2>1 DEF NoneLost, Underway, Answered
  <2>. QED
    BY <1>1, <1>2, <2>1, <2>2, <2>3, <2>4 DEF LspInv, JustShutdown, CleanExit
<1>4. CASE GiveFails
  <2>1. /\ giving' = <<>> /\ writer = "failed" /\ ended' \in {"no", "failed"}
        /\ UNCHANGED <<phase, client, input, consumed, hand, writer, written>>
    BY <1>4 DEF GiveFails
  <2>2. LspTypeOK'
    BY <1>1, <1>2, <2>1 DEF LspTypeOK
  <2>3. AllRight' /\ InOrder'
    BY <1>1, <2>1 DEF AllRight, Right, InOrder
  <2>4. NoneLost'
    BY <1>1, <2>1 DEF NoneLost
  <2>. QED
    BY <1>1, <1>2, <2>1, <2>2, <2>3, <2>4 DEF LspInv, JustShutdown, CleanExit
<1>5. CASE WriteOut
  <2>1. /\ hand # <<>> /\ hand' = <<>> /\ written' = written \o hand
        /\ UNCHANGED <<phase, ended, client, input, consumed, giving, writer>>
    BY <1>5 DEF WriteOut
  <2>2. /\ Len(hand) = 1 /\ written' \in Seq(Response)
        /\ Len(written') = Len(written) + 1 /\ Len(written) \in Nat
        /\ \A i \in 1 .. Len(written) : written'[i] = written[i]
        /\ written'[Len(written) + 1] = hand[1]
    BY <1>2, <2>1, OneOrNone
  <2>3. LspTypeOK'
    BY <1>1, <1>2, <2>1, <2>2 DEF LspTypeOK
  <2>4. AllRight'
    BY <1>1, <1>2, <2>1, <2>2 DEF AllRight, Right
  <2>5. InOrder'
    BY <1>1, <1>2, <2>1, <2>2 DEF InOrder
  <2>6. NoneLost'
    <3>1. ASSUME NEW k, Answered(k) PROVE Answered(k)'
      <4>1. PICK i \in 1 .. Len(written) : written[i].to = k
        BY <1>2, <3>1 DEF Answered
      <4>2. i \in DOMAIN written' /\ written'[i].to = k
        BY <2>2, <4>1
      <4>. QED
        BY <4>2 DEF Answered
    <3>2. ASSUME NEW k, hand[1].to = k PROVE Answered(k)'
      <4>1. Len(written) + 1 \in DOMAIN written' /\ written'[Len(written) + 1].to = k
        BY <2>2, <3>2
      <4>. QED
        BY <4>1 DEF Answered
    <3>3. ASSUME NEW k, Underway(k) PROVE Underway(k)'
      <4>1. CASE giving # <<>> /\ giving[1].to = k
        BY <2>1, <4>1 DEF Underway
      <4>. QED
        BY <3>1, <3>2, <3>3, <4>1 DEF Underway
    <3>. QED
      BY <1>1, <2>1, <3>3 DEF NoneLost
  <2>. QED
    BY <1>1, <1>2, <2>1, <2>3, <2>4, <2>5, <2>6 DEF LspInv, JustShutdown, CleanExit
<1>6. CASE WriterFails
  <2>1. /\ hand' = <<>> /\ writer' = "failed" /\ client = "gone"
        /\ UNCHANGED <<phase, ended, client, input, consumed, giving, written>>
    BY <1>6 DEF WriterFails
  <2>2. LspTypeOK'
    BY <1>1, <1>2, <2>1 DEF LspTypeOK
  <2>3. AllRight' /\ InOrder'
    BY <1>1, <2>1 DEF AllRight, Right, InOrder
  <2>4. NoneLost'
    BY <2>1 DEF NoneLost
  <2>. QED
    BY <1>1, <1>2, <2>1, <2>2, <2>3, <2>4 DEF LspInv, JustShutdown, CleanExit
<1>. QED
  BY <1>3, <1>4, <1>5, <1>6 DEF Writer

THEOREM LspNext_Inv == LspInv /\ [LspNext]_lspVars => LspInv'
<1>. SUFFICES ASSUME LspInv, [LspNext]_lspVars PROVE LspInv'
  OBVIOUS
<1>1. CASE LspNext
  BY <1>1, ClientKeeps, HandshakeKeeps, LoopKeeps, WayKeeps DEF LspNext, Main
<1>2. CASE UNCHANGED lspVars
  BY <1>2 DEF lspVars, LspInv, LspTypeOK, AllRight, Right, InOrder, NoneLost, Underway,
              Answered, JustShutdown, CleanExit
<1>. QED
  BY <1>1, <1>2

----------------------------------------------------------------------------
(* The properties. *)

\* Every variable of the server keeps its type.
THEOREM LspTypes == LspSpec => []LspTypeOK
<1>1. LspInv => LspTypeOK
  BY DEF LspInv
<1>. QED
  BY <1>1, LspInit_Inv, LspNext_Inv, PTL DEF LspSpec

\* A process that ends with success has received a shutdown and then an exit, and has
\* answered a client that still listens everything before them.
THEOREM LspCleanExit == LspSpec => []CleanExit
<1>1. LspInv => CleanExit
  BY DEF LspInv
<1>. QED
  BY <1>1, LspInit_Inv, LspNext_Inv, PTL DEF LspSpec

\* Ranges start where the client pointed and run forward, but where a u32 wraps around.
THEOREM LspRanges == LspSpec => []RangesForward
<1>1. LspInv => RangesForward
  BY DEF LspInv, AllRight, Right, Fits, RangesForward
<1>. QED
  BY <1>1, LspInit_Inv, LspNext_Inv, PTL DEF LspSpec

----------------------------------------------------------------------------
(* The refinement.  What is written is told; an answer passes over nothing *)
(* that needs one, since what is answered later is still on its way.       *)

Asked == [c \in {"stdio"} |-> input]
Outline(r) == [to |-> r.to, reply |-> r.body.reply]
ToldOf(w) == [i \in DOMAIN w |-> Outline(w[i])]
Told == [c \in {"stdio"} |-> ToldOf(written)]
OpenOn == IF ended = "no" THEN {"stdio"} ELSE {}

LEMMA AppendFunction ==
  ASSUME NEW S, NEW s \in Seq(S), NEW x \in S, NEW n \in Nat, Len(s) = n
  PROVE  Append(s, x) = [i \in 1 .. n + 1 |-> IF i = n + 1 THEN x ELSE s[i]]
<1>. DEFINE f == [i \in 1 .. n + 1 |-> IF i = n + 1 THEN x ELSE s[i]]
<1>1. f \in Seq(S) /\ Len(f) = n + 1
  <2>1. \A i \in 1 .. n + 1 : (IF i = n + 1 THEN x ELSE s[i]) \in S
    OBVIOUS
  <2>2. f \in [1 .. n + 1 -> S]
    BY <2>1
  <2>. HIDE DEF f
  <2>. QED
    BY <2>2, n + 1 \in Nat
<1>2. \A i \in 1 .. n + 1 : f[i] = IF i = n + 1 THEN x ELSE s[i]
  OBVIOUS
<1>. HIDE DEF f
<1>3. /\ Append(s, x) \in Seq(S) /\ Len(Append(s, x)) = n + 1
      /\ \A i \in 1 .. n + 1 : Append(s, x)[i] = f[i]
  BY <1>2, AppendProperties
<1>4. Append(s, x) = f
  BY <1>1, <1>3, SeqEqual
<1>. QED
  BY <1>4 DEF f

LEMMA ConcatOne ==
  ASSUME NEW S, NEW s \in Seq(S), NEW t \in Seq(S), Len(t) = 1
  PROVE  s \o t = Append(s, t[1])
<1>1. t[1] \in S /\ <<t[1]>> \in Seq(S) /\ Len(<<t[1]>>) = 1 /\ <<t[1]>>[1] = t[1]
  <2>1. PICK e \in S : e = t[1]
    BY 1 \in 1 .. Len(t), ElementOfSeq
  <2>2. <<e>> \in Seq(S) /\ Len(<<e>>) = 1 /\ <<e>>[1] = e
    OBVIOUS
  <2>. QED
    BY <2>1, <2>2
<1>2. t = <<t[1]>>
  BY <1>1, SeqEqual
<1>. QED
  BY <1>1, <1>2, AppendIsConcat

LEMMA ToldAppend ==
  ASSUME NEW w \in Seq(Response), NEW r \in Response
  PROVE  ToldOf(Append(w, r)) = Append(ToldOf(w), Outline(r))
<1>1. PICK n \in Nat : n = Len(w)
  OBVIOUS
<1>2. ToldOf(w) = [i \in 1 .. n |-> Outline(w[i])]
  BY <1>1 DEF ToldOf
<1>. DEFINE R == {Outline(w[i]) : i \in 1 .. n} \cup {Outline(r)}
<1>3. ToldOf(w) \in Seq(R) /\ Len(ToldOf(w)) = n /\ Outline(r) \in R
  <2>1. ToldOf(w) \in [1 .. n -> R] /\ Outline(r) \in R
    BY <1>2
  <2>. HIDE DEF R
  <2>. QED
    BY <1>1, <2>1
<1>4. Append(ToldOf(w), Outline(r))
        = [i \in 1 .. n + 1 |-> IF i = n + 1 THEN Outline(r) ELSE ToldOf(w)[i]]
  <2>. HIDE DEF R
  <2>. QED
    BY <1>3, AppendFunction
<1>5. ToldOf(Append(w, r)) = [i \in 1 .. n + 1 |-> Outline(Append(w, r)[i])]
  BY <1>1 DEF ToldOf
<1>6. \A i \in 1 .. n + 1 : Append(w, r)[i] = IF i = n + 1 THEN r ELSE w[i]
  BY <1>1
<1>7. \A i \in 1 .. n : ToldOf(w)[i] = Outline(w[i])
  BY <1>2
<1>. QED
  BY <1>1, <1>4, <1>5, <1>6, <1>7

LEMMA LspProtocolInit == LspInit => LspProtocol!Init
<1>. SUFFICES ASSUME LspInit PROVE LspProtocol!Init
  OBVIOUS
<1>. QED
  BY DEF LspInit, LspProtocol!Init

LEMMA LspProtocolNext ==
  LspInv /\ [LspNext]_lspVars => [LspProtocol!Next]_<<Asked, Told, OpenOn>>
<1>. SUFFICES ASSUME LspInv, [LspNext]_lspVars
              PROVE  LspProtocol!Next \/ UNCHANGED <<Asked, Told, OpenOn>>
  OBVIOUS
<1>. USE DEF Asked, Told, OpenOn
<1>1. LspTypeOK /\ AllRight /\ InOrder /\ NoneLost
  BY DEF LspInv
<1>2. CASE Put
  <2>1. PICK m \in Message : input' = Append(input, m)
    BY <1>1, <1>2, PutAppends
  <2>2. UNCHANGED <<Told, OpenOn>>
    BY <1>2 DEF Put, ToldOf
  <2>3. Asked' = [Asked EXCEPT !["stdio"] = Append(@, m)]
    BY <2>1
  <2>4. LspProtocol!Ask("stdio")
    BY <2>2, <2>3 DEF LspProtocol!Ask, ToldOf, Outline
  <2>. QED
    BY <2>4 DEF LspProtocol!Next
<1>3. CASE WriteOut
  <2>1. /\ hand # <<>> /\ written' = written \o hand /\ ended = "no" /\ client # "gone"
        /\ UNCHANGED <<ended, input>>
    BY <1>3 DEF WriteOut
  <2>2. /\ written \in Seq(Response) /\ hand \in Seq(Response) /\ Len(hand) = 1
        /\ hand[1] \in Response /\ input \in Seq(Message) /\ consumed \in Nat
        /\ consumed <= Len(input)
    BY <1>1, <2>1, OneOrNone DEF LspTypeOK, AllRight
  <2>3. PICK r \in Response : r = hand[1]
    BY <2>2
  <2>4. PICK n \in Nat : n = r.to
    BY <2>2 DEF Response
  <2>5. /\ n \in 1 .. consumed /\ n \in 1 .. Len(input) /\ Fits(r.body, input[n])
    BY <1>1, <2>1, <2>2, <2>3, <2>4 DEF AllRight, Right
  <2>6. written' = Append(written, r)
    BY <2>1, <2>2, <2>3, ConcatOne
  <2>7. PICK l \in Nat : l = Len(written)
    BY <2>2
  <2>8. PICK last \in Nat :
          /\ last = IF ToldOf(written) = <<>> THEN 0 ELSE ToldOf(written)[Len(ToldOf(written))].to
          /\ last = IF l = 0 THEN 0 ELSE written[l].to
    <3>1. ToldOf(written) = [i \in 1 .. l |-> Outline(written[i])]
      BY <2>2, <2>7 DEF ToldOf
    <3>2. CASE l = 0
      BY <3>1, <3>2
    <3>3. CASE l # 0
      <4>1. l \in 1 .. l /\ Len(ToldOf(written)) = l /\ ToldOf(written) # <<>>
        BY <3>1, <3>3
      <4>2. ToldOf(written)[l].to = written[l].to /\ written[l] \in Response
        BY <2>2, <2>7, <3>1, <4>1 DEF Outline
      <4>. QED
        BY <3>3, <4>1, <4>2 DEF Response
    <3>. QED
      BY <3>2, <3>3
  <2>9. n \in last + 1 .. Len(input)
    <3>1. CASE l = 0
      BY <2>5, <2>8, <3>1
    <3>2. CASE l # 0
      <4>1. l \in DOMAIN written
        BY <2>2, <2>7, <3>2
      <4>2. written[l].to < hand[1].to
        BY <1>1, <2>1, <4>1 DEF InOrder
      <4>. QED
        BY <2>3, <2>4, <2>5, <2>8, <3>2, <4>2
    <3>. QED
      BY <3>1, <3>2
  <2>10. ASSUME NEW k \in last + 1 .. n - 1 PROVE LspOptional(input[k])
    <3>1. SUFFICES ASSUME Answerable(input[k]) PROVE FALSE
      BY DEF LspOptional
    <3>2. k \in 1 .. consumed /\ k < n /\ last < k
      BY <2>2, <2>5
    <3>3. Underway(k)
      BY <1>1, <2>1, <3>1, <3>2 DEF NoneLost
    <3>4. ASSUME NEW i \in DOMAIN written PROVE written[i].to # k
      <4>1. i \in 1 .. l /\ l \in DOMAIN written /\ l # 0
        BY <2>2, <2>7, <3>4
      <4>2. last = written[l].to
        BY <2>8, <4>1
      <4>3. i = l \/ written[i].to < written[l].to
        BY <1>1, <4>1 DEF InOrder
      <4>4. written[i].to \in Nat
        <5>1. written[i] \in Response
          BY <2>2, <4>1
        <5>. QED
          BY <5>1 DEF Response
      <4>. QED
        BY <3>2, <4>2, <4>3, <4>4
    <3>5. hand[1].to # k
      BY <2>3, <2>4, <3>2
    <3>6. ASSUME giving # <<>> PROVE giving[1].to # k
      <4>1. n < giving[1].to
        BY <1>1, <2>1, <2>3, <2>4, <3>6 DEF InOrder
      <4>2. giving[1].to \in Nat
        <5>1. giving[1] \in Response
          BY <1>1, <3>6, OneOrNone DEF LspTypeOK
        <5>. QED
          BY <5>1 DEF Response
      <4>. QED
        BY <3>2, <4>1, <4>2
    <3>. QED
      BY <3>3, <3>4, <3>5, <3>6 DEF Underway, Answered
  <2>11. /\ r.body.reply \in LspReplies(input[n])
         /\ Told' = [Told EXCEPT !["stdio"] = Append(@, [to |-> n, reply |-> r.body.reply])]
    <3>1. ToldOf(written') = Append(ToldOf(written), [to |-> n, reply |-> r.body.reply])
      BY <2>2, <2>4, <2>6, ToldAppend DEF Outline
    <3>2. r.body.reply \in LspReplies(input[n])
      BY <2>5 DEF Fits
    <3>. QED
      BY <3>1, <3>2
  <2>12. LspProtocol!Tell("stdio", n)
    <3>1. Told["stdio"] = ToldOf(written) /\ Asked["stdio"] = input
      OBVIOUS
    <3>2. "stdio" \in OpenOn /\ UNCHANGED <<Asked, OpenOn>>
      BY <2>1
    <3>3. last = IF Told["stdio"] = <<>> THEN 0 ELSE Told["stdio"][Len(Told["stdio"])].to
      BY <2>8, <3>1
    <3>4. n \in last + 1 .. Len(Asked["stdio"])
      BY <2>9, <3>1
    <3>5. \A k \in last + 1 .. n - 1 : LspOptional(Asked["stdio"][k])
      BY <2>10, <3>1
    <3>6. \E reply \in LspReplies(Asked["stdio"][n]) :
            Told' = [Told EXCEPT !["stdio"] = Append(@, [to |-> n, reply |-> reply])]
      BY <2>11, <3>1
    <3>. QED
      BY <3>2, <3>3, <3>4, <3>5, <3>6
         DEF LspProtocol!Tell, LspProtocol!LastTold, ToldOf, Outline
  <2>13. \E k \in DOMAIN Asked["stdio"] : LspProtocol!Tell("stdio", k)
    <3>1. n \in DOMAIN Asked["stdio"]
      BY <2>2, <2>5
    <3>. QED
      BY <2>12, <3>1
  <2>. QED
    BY <2>13 DEF LspProtocol!Next
<1>4. CASE ended = "no" /\ UNCHANGED <<input, written>>
  <2>1. UNCHANGED <<Asked, Told>> /\ OpenOn' \in SUBSET OpenOn
    BY <1>4 DEF ToldOf
  <2>2. LspProtocol!Close
    BY <2>1 DEF LspProtocol!Close, ToldOf, Outline
  <2>. QED
    BY <2>2 DEF LspProtocol!Next
<1>5. CASE UNCHANGED lspVars
  BY <1>5 DEF lspVars, ToldOf
<1>6. CASE Main \/ WriterFails \/ \E how \in {"listening", "gone"} : Withdraw(how)
  <2>1. ended = "no" /\ UNCHANGED <<input, written>>
    BY <1>6 DEF Main, Handshake, Loop, Give, GiveFails, WriterFails, Withdraw,
                NotInitialized, TooEarly, Initialize, Initialized, HandshakeFails,
                Shutdown, Answer, Handled, Running, Panic, Unhandled, Exit, ShutdownFails, Join,
                JoinFails, Held, Closed
  <2>. QED
    BY <1>4, <2>1
<1>. QED
  BY <1>2, <1>3, <1>5, <1>6 DEF LspNext, Client, Writer

\* Answers come in the order of the requests, one for each of a method the server has,
\* and none is passed over that is followed by another answer.
THEOREM LspRefines == LspSpec => LspImplements
  BY LspInit_Inv, LspNext_Inv, LspProtocolInit, LspProtocolNext, PTL
     DEF LspSpec, LspImplements, LspProtocol!Spec, Asked, Told, OpenOn, ToldOf, Outline

----------------------------------------------------------------------------
(* The library, as a function of the calls made so far.                    *)

\* Of the first n calls, the last one that named a URL, or 0.
NamedLast(cs, n, j) ==
  /\ j \in 0 .. n
  /\ j # 0 => cs[j].op = "connect"
  /\ \A i \in j + 1 .. n : cs[i].op # "connect"

\* The URL the library has after it.
Named(cs, j) == IF j = 0 THEN EmptyUrl ELSE cs[j].url

Brought(c) == c.op = "fetch" /\ c.ok

\* The last call that brought a schema, or 0.
FetchedLast(cs, j) ==
  /\ j \in 0 .. Len(cs)
  /\ j # 0 => Brought(cs[j])
  /\ \A i \in j + 1 .. Len(cs) : ~Brought(cs[i])

InsertsAfter(cs, j) == {i \in j + 1 .. Len(cs) : cs[i].op = "insert"}
InsertedAfter(cs, j) == {cs[i].table : i \in InsertsAfter(cs, j)}

Holds(cs, j) == InsertedAfter(cs, j) \cup (IF j = 0 THEN {} ELSE Fetched)

\* Call i, if it fetches, brings a schema exactly when the URL before it is not empty.
FetchExplained(cs, i) ==
  cs[i].op = "fetch" => \E j : NamedLast(cs, i - 1, j) /\ (Brought(cs[i]) <=> Named(cs, j) # EmptyUrl)

LibraryInv ==
  /\ calls \in Seq(Calls)
  /\ \E j : FetchedLast(calls, j) /\ schema = Holds(calls, j)
  /\ \E j : NamedLast(calls, Len(calls), j) /\ verisimdb_url = Named(calls, j)
  /\ \A i \in 1 .. Len(calls) : FetchExplained(calls, i)

\* After the calls cs and the call c the program has made the calls d.
Grown(cs, c, d) == cs \in Seq(Calls) /\ c \in Calls /\ d = Append(cs, c)

\* One call more leaves the calls before it as they were.
LEMMA OneCallMore ==
  ASSUME NEW cs, NEW c, NEW d, Grown(cs, c, d)
  PROVE  /\ d \in Seq(Calls) /\ Len(cs) \in Nat /\ Len(d) = Len(cs) + 1 /\ d[Len(cs) + 1] = c
         /\ \A i \in 1 .. Len(cs) : d[i] = cs[i]
  BY AppendProperties DEF Grown

LEMMA NamedStays ==
  ASSUME NEW cs, NEW c, NEW d, Grown(cs, c, d),
         NEW n \in 0 .. Len(cs), NEW j, NamedLast(cs, n, j)
  PROVE  NamedLast(d, n, j) /\ Named(d, j) = Named(cs, j)
  <1>1. Len(cs) \in Nat /\ \A i \in 1 .. Len(cs) : d[i] = cs[i]
    BY OneCallMore
  <1>2. \A i \in 1 .. n : d[i] = cs[i]
    BY <1>1
  <1>3. j = 0 \/ (j \in 1 .. n /\ d[j] = cs[j])
    BY <1>1, <1>2 DEF NamedLast
  <1>4. \A i \in j + 1 .. n : d[i] = cs[i]
    BY <1>1, <1>2 DEF NamedLast
  <1> QED BY <1>3, <1>4 DEF NamedLast, Named

\* What a call that is made leaves true of the calls before it.
LEMMA ExplainedStays ==
  ASSUME NEW cs, NEW c, NEW d, Grown(cs, c, d),
         \A i \in 1 .. Len(cs) : FetchExplained(cs, i)
  PROVE  \A i \in 1 .. Len(cs) : FetchExplained(d, i)
  <1> SUFFICES ASSUME NEW i \in 1 .. Len(cs), d[i].op = "fetch"
               PROVE  \E j : NamedLast(d, i - 1, j) /\ (Brought(d[i]) <=> Named(d, j) # EmptyUrl)
    BY DEF FetchExplained
  <1>1. Len(cs) \in Nat /\ d[i] = cs[i]
    BY OneCallMore
  <1>2. PICK j : NamedLast(cs, i - 1, j) /\ (Brought(cs[i]) <=> Named(cs, j) # EmptyUrl)
    BY <1>1 DEF FetchExplained
  <1>3. i - 1 \in 0 .. Len(cs)
    BY <1>1
  <1>4. NamedLast(d, i - 1, j) /\ Named(d, j) = Named(cs, j)
    BY <1>2, <1>3, NamedStays
  <1> QED BY <1>1, <1>2, <1>4

\* A call that names no URL leaves the last one named, and one that brings no schema the
\* last one that did.
LEMMA NamedOn ==
  ASSUME NEW cs, NEW c, NEW d, Grown(cs, c, d), c.op # "connect",
         NEW j, NamedLast(cs, Len(cs), j)
  PROVE  NamedLast(d, Len(d), j) /\ Named(d, j) = Named(cs, j)
  <1>1. Len(cs) \in Nat /\ Len(d) = Len(cs) + 1 /\ d[Len(cs) + 1] = c
    BY OneCallMore
  <1>2. Len(cs) \in 0 .. Len(cs)
    BY <1>1
  <1>3. NamedLast(d, Len(cs), j) /\ Named(d, j) = Named(cs, j)
    BY <1>2, NamedStays
  <1> QED BY <1>1, <1>3 DEF NamedLast

LEMMA FetchedOn ==
  ASSUME NEW cs, NEW c, NEW d, Grown(cs, c, d), ~Brought(c),
         NEW j, FetchedLast(cs, j)
  PROVE  /\ FetchedLast(d, j)
         /\ Holds(d, j) = Holds(cs, j) \cup (IF c.op = "insert" THEN {c.table} ELSE {})
  <1>1. Len(cs) \in Nat /\ Len(d) = Len(cs) + 1 /\ d[Len(cs) + 1] = c
        /\ \A i \in 1 .. Len(cs) : d[i] = cs[i]
    BY OneCallMore
  <1>2. j \in 0 .. Len(cs)
    BY DEF FetchedLast
  <1>3. FetchedLast(d, j)
    <2>1. j # 0 => Brought(d[j])
      BY <1>1, <1>2 DEF FetchedLast
    <2>2. ASSUME NEW i \in j + 1 .. Len(d) PROVE ~Brought(d[i])
      <3>1. i \in j + 1 .. Len(cs) \/ i = Len(cs) + 1
        BY <1>1, <1>2
      <3>2. i \in j + 1 .. Len(cs) => d[i] = cs[i]
        BY <1>1, <1>2
      <3> QED BY <1>1, <3>1, <3>2 DEF FetchedLast
    <2>3. j \in 0 .. Len(d)
      BY <1>1, <1>2
    <2> QED BY <2>1, <2>2, <2>3 DEF FetchedLast
  <1>4. InsertedAfter(d, j) =
          InsertedAfter(cs, j) \cup (IF c.op = "insert" THEN {c.table} ELSE {})
    <2>1. j + 1 .. Len(d) = (j + 1 .. Len(cs)) \cup {Len(cs) + 1}
      BY <1>1, <1>2
    <2>2. \A i \in j + 1 .. Len(cs) : d[i] = cs[i]
      BY <1>1, <1>2
    <2>3. PICK n : n = Len(cs) + 1 /\ d[n] = c
      BY <1>1
    <2>4. \A i \in InsertsAfter(cs, j) : d[i] = cs[i]
      BY <2>2 DEF InsertsAfter
    <2>5. CASE c.op = "insert"
      <3>1. InsertsAfter(d, j) = InsertsAfter(cs, j) \cup {n}
        BY <2>1, <2>2, <2>3, <2>5 DEF InsertsAfter
      <3>2. {d[i].table : i \in InsertsAfter(cs, j) \cup {n}} =
              {cs[i].table : i \in InsertsAfter(cs, j)} \cup {c.table}
        BY <2>3, <2>4
      <3> QED BY <2>5, <3>1, <3>2 DEF InsertedAfter
    <2>6. CASE c.op # "insert"
      <3>1. InsertsAfter(d, j) = InsertsAfter(cs, j)
        BY <2>1, <2>2, <2>3, <2>6 DEF InsertsAfter
      <3>2. {d[i].table : i \in InsertsAfter(cs, j)} = {cs[i].table : i \in InsertsAfter(cs, j)}
        BY <2>4
      <3> QED BY <2>6, <3>1, <3>2 DEF InsertedAfter
    <2> QED BY <2>5, <2>6
  <1> QED BY <1>3, <1>4 DEF Holds

\* The call that is made is explained by what the library has at the time.
LEMMA NewCallExplained ==
  ASSUME NEW cs, NEW c, NEW d, Grown(cs, c, d),
         \A i \in 1 .. Len(cs) : FetchExplained(cs, i),
         NEW j, NamedLast(cs, Len(cs), j),
         c.op = "fetch" => (Brought(c) <=> Named(cs, j) # EmptyUrl)
  PROVE  \A i \in 1 .. Len(d) : FetchExplained(d, i)
  <1>1. Len(cs) \in Nat /\ Len(d) = Len(cs) + 1 /\ d[Len(cs) + 1] = c
    BY OneCallMore
  <1>2. \A i \in 1 .. Len(cs) : FetchExplained(d, i)
    BY ExplainedStays
  <1>3. FetchExplained(d, Len(cs) + 1)
    <2>1. Len(cs) \in 0 .. Len(cs) /\ Len(cs) + 1 - 1 = Len(cs)
      BY <1>1
    <2>2. NamedLast(d, Len(cs), j) /\ Named(d, j) = Named(cs, j)
      BY <2>1, NamedStays
    <2> QED BY <1>1, <2>1, <2>2 DEF FetchExplained
  <1>4. 1 .. Len(d) = (1 .. Len(cs)) \cup {Len(cs) + 1}
    BY <1>1
  <1> QED BY <1>2, <1>3, <1>4

LEMMA LibraryInit == New => LibraryInv
  <1> SUFFICES ASSUME New PROVE LibraryInv
    OBVIOUS
  <1>1. calls = <<>> /\ calls \in Seq(Calls) /\ Len(calls) = 0 /\ schema = {} /\ verisimdb_url = EmptyUrl
    BY DEF New
  <1>2. FetchedLast(calls, 0) /\ NamedLast(calls, 0, 0)
    BY <1>1 DEF FetchedLast, NamedLast
  <1>3. Holds(calls, 0) = {}
    BY <1>1 DEF Holds, InsertedAfter, InsertsAfter
  <1> QED BY <1>1, <1>2, <1>3 DEF LibraryInv, Named

LEMMA LibraryStep == LibraryInv /\ [LibraryNext]_libraryVars => LibraryInv'
  <1> SUFFICES ASSUME LibraryInv, [LibraryNext]_libraryVars PROVE LibraryInv'
    OBVIOUS
  <1>1. CASE UNCHANGED libraryVars
    BY <1>1 DEF libraryVars, LibraryInv
  <1> PICK cs : cs = calls
    OBVIOUS
  <1> PICK n : n = Len(cs)
    OBVIOUS
  <1>2. /\ cs \in Seq(Calls) /\ n \in Nat
        /\ \A i \in 1 .. Len(cs) : FetchExplained(cs, i)
    BY DEF LibraryInv
  <1>3. PICK f : FetchedLast(cs, f) /\ schema = Holds(cs, f)
    BY DEF LibraryInv
  <1>4. PICK j : NamedLast(cs, Len(cs), j) /\ verisimdb_url = Named(cs, j)
    BY DEF LibraryInv
  <1>5. ASSUME NEW url \in URLs \cup {EmptyUrl}, connect_verisimdb(url) PROVE LibraryInv'
    <2>1. PICK c \in Calls : c.op = "connect" /\ c.url = url /\ calls' = Append(cs, c)
      BY <1>5 DEF connect_verisimdb, Called, Calls
    <2>2. schema' = schema /\ verisimdb_url' = url
      BY <1>5 DEF connect_verisimdb
    <2>3. PICK d : Grown(cs, c, d)
      BY <1>2 DEF Grown
    <2>. d = Append(cs, c)
      BY <2>3 DEF Grown
    <2>4. d \in Seq(Calls) /\ Len(d) = n + 1 /\ d[n + 1] = c
      BY <1>2, <2>3, OneCallMore
    <2>5. ~Brought(c) /\ c.op # "fetch" /\ c.op # "insert"
      BY <2>1 DEF Brought
    <2>6. FetchedLast(d, f) /\ Holds(d, f) = Holds(cs, f)
      <3>1. Holds(d, f) = Holds(cs, f) \cup (IF c.op = "insert" THEN {c.table} ELSE {})
        BY <1>2, <1>3, <2>3, <2>5, FetchedOn
      <3>2. FetchedLast(d, f)
        BY <1>2, <1>3, <2>3, <2>5, FetchedOn
      <3> QED BY <2>5, <3>1, <3>2
    <2>7. NamedLast(d, Len(d), n + 1) /\ Named(d, n + 1) = url
      BY <1>2, <2>1, <2>4 DEF NamedLast, Named
    <2>8. \A i \in 1 .. Len(d) : FetchExplained(d, i)
      BY <1>2, <1>4, <2>3, <2>5, NewCallExplained
    <2> QED BY <1>3, <2>1, <2>2, <2>3, <2>4, <2>6, <2>7, <2>8 DEF LibraryInv
  <1>6. CASE fetch_schema
    <2>1. PICK ok \in BOOLEAN : ok <=> verisimdb_url # EmptyUrl
      OBVIOUS
    <2>2. PICK c : c = [op |-> "fetch", ok |-> verisimdb_url # EmptyUrl]
      OBVIOUS
    <2>3. c \in Calls /\ c.op = "fetch" /\ (Brought(c) <=> verisimdb_url # EmptyUrl)
      <3>1. c \in [op : {"fetch"}, ok : BOOLEAN] /\ c.op = "fetch" /\ (c.ok <=> verisimdb_url # EmptyUrl)
        BY <2>2
      <3> QED BY <3>1 DEF Calls, Brought
    <2>4. PICK d : Grown(cs, c, d)
      BY <1>2, <2>3 DEF Grown
    <2>. d = Append(cs, c)
      BY <2>4 DEF Grown
    <2>5. d \in Seq(Calls) /\ Len(d) = n + 1 /\ d[n + 1] = c
      BY <1>2, <2>3, <2>4, OneCallMore
    <2>6. calls' = d /\ verisimdb_url' = verisimdb_url
          /\ schema' = IF verisimdb_url = EmptyUrl THEN schema ELSE Fetched
      BY <1>6, <2>2, <2>4 DEF fetch_schema, Called
    <2>7. \A i \in 1 .. Len(d) : FetchExplained(d, i)
      BY <1>2, <1>4, <2>3, <2>4, NewCallExplained
    <2>8. NamedLast(d, Len(d), j) /\ Named(d, j) = Named(cs, j)
      <3>1. Named(d, j) = Named(cs, j)
        BY <1>4, <2>3, <2>4, NamedOn
      <3>2. NamedLast(d, Len(d), j)
        BY <1>4, <2>3, <2>4, NamedOn
      <3> QED BY <3>1, <3>2
    <2>9. \E g : FetchedLast(d, g) /\ schema' = Holds(d, g)
      <3>1. CASE verisimdb_url = EmptyUrl
        <4>1. ~Brought(c)
          BY <2>3, <3>1
        <4>2. FetchedLast(d, f) /\ Holds(d, f) = Holds(cs, f)
          <5>1. Holds(d, f) = Holds(cs, f) \cup (IF c.op = "insert" THEN {c.table} ELSE {})
            BY <1>3, <2>4, <4>1, FetchedOn
          <5>2. FetchedLast(d, f)
            BY <1>2, <1>3, <2>3, <2>4, <4>1, FetchedOn
          <5> QED BY <2>3, <5>1, <5>2
        <4> QED BY <1>3, <2>6, <3>1, <4>2
      <3>2. CASE verisimdb_url # EmptyUrl
        <4>1. n + 1 \in 0 .. Len(d) /\ n + 1 # 0 /\ (n + 1) + 1 .. Len(d) = {}
          BY <1>2, <2>5
        <4>2. FetchedLast(d, n + 1)
          BY <2>3, <2>5, <3>2, <4>1 DEF FetchedLast
        <4>3. Holds(d, n + 1) = Fetched
          BY <4>1 DEF Holds, InsertedAfter, InsertsAfter
        <4> QED BY <2>6, <3>2, <4>2, <4>3
      <3> QED BY <3>1, <3>2
    <2> QED BY <1>4, <2>5, <2>6, <2>7, <2>8, <2>9 DEF LibraryInv
  <1>7. ASSUME NEW table \in Tables, Insert(table) PROVE LibraryInv'
    <2>1. PICK c \in Calls : c.op = "insert" /\ c.table = table /\ calls' = Append(cs, c)
      BY <1>7 DEF Insert, Called, Calls
    <2>2. schema' = schema \cup {table} /\ verisimdb_url' = verisimdb_url
      BY <1>7 DEF Insert
    <2>3. PICK d : Grown(cs, c, d)
      BY <1>2 DEF Grown
    <2>. d = Append(cs, c)
      BY <2>3 DEF Grown
    <2>4. d \in Seq(Calls)
      BY <1>2, <2>3, OneCallMore
    <2>5. ~Brought(c) /\ c.op # "fetch" /\ c.op # "connect"
      BY <2>1 DEF Brought
    <2>6. FetchedLast(d, f) /\ Holds(d, f) = Holds(cs, f) \cup {table}
      <3>1. Holds(d, f) = Holds(cs, f) \cup (IF c.op = "insert" THEN {c.table} ELSE {})
        BY <1>2, <1>3, <2>3, <2>5, FetchedOn
      <3>2. FetchedLast(d, f)
        BY <1>2, <1>3, <2>3, <2>5, FetchedOn
      <3> QED BY <2>1, <3>1, <3>2
    <2>7. NamedLast(d, Len(d), j) /\ Named(d, j) = Named(cs, j)
      <3>1. Named(d, j) = Named(cs, j)
        BY <1>4, <2>3, <2>5, NamedOn
      <3>2. NamedLast(d, Len(d), j)
        BY <1>4, <2>3, <2>5, NamedOn
      <3> QED BY <3>1, <3>2
    <2>8. \A i \in 1 .. Len(d) : FetchExplained(d, i)
      BY <1>2, <1>4, <2>3, <2>5, NewCallExplained
    <2> QED BY <1>3, <1>4, <2>1, <2>2, <2>3, <2>4, <2>6, <2>7, <2>8 DEF LibraryInv
  <1> QED BY <1>1, <1>5, <1>6, <1>7 DEF LibraryNext

\* The newest of a set of calls is its last one.
LEMMA NewestIsLast ==
  ASSUME NEW is, is \subseteq Nat, NEW j \in is, \A i \in is : i <= j
  PROVE  Newest(is) = j
  <1>1. \A i \in is : (\A k \in is : k <= i) => i = j
    OBVIOUS
  <1>2. Newest(is) \in is /\ \A k \in is : k <= Newest(is)
    BY DEF Newest
  <1> QED BY <1>1, <1>2

LEMMA CompletionLabels ==
  ASSUME NEW tables
  PROVE  {item.label : item \in handle_completion(tables)} = tables \cup Keywords
  <1>1. ASSUME NEW item \in handle_completion(tables) PROVE item.label \in tables \cup Keywords
    BY <1>1 DEF handle_completion
  <1>2. ASSUME NEW word \in Keywords
        PROVE  \E item \in handle_completion(tables) : item.label = word
    <2>1. PICK item : item = [kind |-> "keyword", label |-> word]
      OBVIOUS
    <2> QED BY <2>1 DEF handle_completion
  <1>3. ASSUME NEW table \in tables
        PROVE  \E item \in handle_completion(tables) : item.label = table
    <2>1. PICK item : item = [kind |-> "table", label |-> table]
      OBVIOUS
    <2> QED BY <2>1 DEF handle_completion
  <1> QED BY <1>1, <1>2, <1>3

\* What the library offers for completion is accounted for by the calls the program has made,
\* whatever it names, fetches and inserts and in whatever order: the last successful fetch and
\* the insertions since; and a fetch succeeds exactly when the last URL named is not empty.
THEOREM SchemaTheorem == LibrarySpec => []SchemaAccounted
  <1>1. LibraryInv => SchemaAccounted
    <2> SUFFICES ASSUME LibraryInv PROVE SchemaAccounted
      OBVIOUS
    <2>1. calls \in Seq(Calls) /\ Len(calls) \in Nat /\ DOMAIN calls = 1 .. Len(calls)
      BY DEF LibraryInv
    <2>2. PICK f : FetchedLast(calls, f) /\ schema = Holds(calls, f)
      BY DEF LibraryInv
    <2>3. PICK last : last = IF FetchesDone = {} THEN 0 ELSE Newest(FetchesDone)
      OBVIOUS
    <2>4. last = f
      <3>1. FetchesDone \subseteq Nat /\ \A i \in FetchesDone : i \in 1 .. Len(calls) /\ Brought(calls[i])
        BY <2>1 DEF FetchesDone, Brought
      <3>2. \A i \in FetchesDone : i <= f
        BY <2>1, <2>2, <3>1 DEF FetchedLast
      <3>3. f # 0 => f \in FetchesDone
        BY <2>1, <2>2 DEF FetchedLast, FetchesDone, Brought
      <3>4. f = 0 => FetchesDone = {}
        BY <3>1, <3>2
      <3> QED BY <2>3, <3>1, <3>2, <3>3, <3>4, NewestIsLast
    <2>5. schema = {calls[i].table : i \in {i \in last + 1 .. Len(calls) : calls[i].op = "insert"}}
                     \cup (IF last = 0 THEN {} ELSE Fetched)
      BY <2>2, <2>4 DEF Holds, InsertedAfter, InsertsAfter
    <2>6. {item.label : item \in handle_completion(schema)} = schema \cup Keywords
      BY CompletionLabels
    <2>7. ASSUME NEW i \in DOMAIN calls, calls[i].op = "fetch"
          PROVE  calls[i].ok <=> /\ ConnectsBefore(i) # {}
                                 /\ calls[Newest(ConnectsBefore(i))].url # EmptyUrl
      <3>1. PICK j : NamedLast(calls, i - 1, j) /\ (Brought(calls[i]) <=> Named(calls, j) # EmptyUrl)
        BY <2>1, <2>7 DEF LibraryInv, FetchExplained
      <3>2. ConnectsBefore(i) \subseteq Nat /\ \A k \in ConnectsBefore(i) : k <= j
        BY <2>1, <3>1 DEF ConnectsBefore, NamedLast
      <3>3. j # 0 => j \in ConnectsBefore(i)
        BY <2>1, <3>1 DEF ConnectsBefore, NamedLast
      <3>4. CASE j = 0
        <4>1. ConnectsBefore(i) = {}
          BY <3>2, <3>4 DEF ConnectsBefore
        <4> QED BY <2>7, <3>1, <3>4, <4>1 DEF Brought, Named
      <3>5. CASE j # 0
        <4>1. Newest(ConnectsBefore(i)) = j
          BY <3>2, <3>3, <3>5, NewestIsLast
        <4> QED BY <2>7, <3>1, <3>3, <3>5, <4>1 DEF Brought, Named
      <3> QED BY <3>4, <3>5
    <2> QED BY <2>3, <2>5, <2>6, <2>7 DEF SchemaAccounted
  <1> QED BY <1>1, LibraryInit, LibraryStep, PTL DEF LibrarySpec

Served == INSTANCE RequestServerProofs
  WITH Channels <- {"stdio"}, Messages <- Message,
       Replies <- LspReplies, Optional <- LspOptional,
       asked <- [c \in {"stdio"} |-> input],
       told <- [c \in {"stdio"} |->
                  [i \in DOMAIN written |-> [to |-> written[i].to, reply |-> written[i].body.reply]]],
       open <- IF ended = "no" THEN {"stdio"} ELSE {}

\* What the editor gets on its output: each answer fits the request it names, answers
\* come in the order of the requests, and every earlier request of a method the server
\* has was answered before.
THEOREM LspKeeps == LspSpec => []LspProtocol!Kept
<1>1. LspProtocol!Spec => []LspProtocol!Kept
  BY Served!KeptTheorem, PTL
     DEF Served!Spec, Served!Kept, Served!Init, Served!Next, Served!Ask, Served!Tell, Served!Close, Served!LastTold,
         LspProtocol!Spec, LspProtocol!Kept, LspProtocol!Init, LspProtocol!Next, LspProtocol!Ask, LspProtocol!Tell, LspProtocol!Close, LspProtocol!LastTold
<1>. QED
  BY <1>1, LspRefines, PTL DEF LspImplements
====
