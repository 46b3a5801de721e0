---- MODULE DebugAdapterProofs ----
(***************************************************************************)
(* Proofs about the debug adapter, for any number of connections, any      *)
(* lines and any number of threads.                                        *)
(***************************************************************************)
EXTENDS DebugAdapter, TLAPS

----------------------------------------------------------------------------
(* Types. *)

\* Whatever is dispatched gives a response.
LEMMA DispatchType ==
  ASSUME NEW seq \in Nat, NEW l \in Lines
  PROVE  dispatch_request(seq, l) \in DapResponse
<1>1. l \in DapRequest
  BY LinesAssumption
<1>2. l.seq \in Nat /\ l.command \in Commands \cup {"other"}
  BY <1>1 DEF DapRequest
<1>3. execute_vql_query(l.query) \in Results
  BY DEF execute_vql_query, Results
<1>4. BodyOf(l.command) \in Bodies
  BY DEF BodyOf, Bodies
<1>5. unknown_command(l) \in DapResponse
  BY <1>2 DEF unknown_command, DapResponse, Bodies
<1>6. success(seq, l, BodyOf(l.command)) \in DapResponse
  BY <1>2, <1>4 DEF success, DapResponse
<1>7. [success(seq, l, BodyOf(l.command)) EXCEPT !.message = execute_vql_query(l.query)]
        \in DapResponse
  BY <1>3, <1>6 DEF DapResponse
<1>. QED
  BY <1>5, <1>6, <1>7 DEF dispatch_request

LEMMA AdapterTypeInit == AdapterInit => AdapterTypeOK
  BY DEF AdapterInit, AdapterTypeOK, Standings, Endings

LEMMA AdapterTypeNext == AdapterTypeOK /\ [AdapterNext]_adapterVars => AdapterTypeOK'
<1>. SUFFICES ASSUME AdapterTypeOK, [AdapterNext]_adapterVars PROVE AdapterTypeOK'
  OBVIOUS
<1>. USE DEF AdapterTypeOK, Standings, Endings
<1>1. ASSUME NEW c \in Connections, Editor(c) PROVE AdapterTypeOK'
  <2>1. CASE Connect(c)
    BY <2>1 DEF Connect
  <2>2. CASE Write(c)
    BY <2>2 DEF Write
  <2>3. CASE \E how \in {"finished", "gone"} : Leave(c, how)
    BY <2>3 DEF Leave
  <2>. QED
    BY <1>1, <2>1, <2>2, <2>3 DEF Editor
<1>2. ASSUME NEW c \in Connections, Listener(c) PROVE AdapterTypeOK'
  <2>1. CASE Accept(c)
    BY <2>1 DEF Accept
  <2>2. CASE NoStream(c)
    BY <2>2 DEF NoStream
  <2>3. CASE SpawnPanics(c)
    BY <2>3 DEF SpawnPanics
  <2>4. CASE AcceptFails(c)
    BY <2>4 DEF AcceptFails
  <2>. QED
    BY <1>2, <2>1, <2>2, <2>3, <2>4 DEF Listener
<1>3. ASSUME NEW c \in Connections, Handler(c) PROVE AdapterTypeOK'
  <2>1. CASE Respond(c)
    <3>1. taken[c] + 1 \in 1 .. Len(sent[c])
      BY <2>1 DEF Respond, HasLine
    <3>2. Line(c) \in Lines
      BY <3>1 DEF Line
    <3>3. dispatch_request(seq_counter[c] + 1, Line(c)) \in DapResponse
      BY <3>2, DispatchType
    <3>. QED
      BY <2>1, <3>3 DEF Respond
  <2>2. CASE Malformed(c)
    BY <2>2 DEF Malformed
  <2>3. CASE Broken(c)
    <3>1. CASE UNCHANGED <<taken, seq_counter>>
      BY <2>3, <3>1 DEF Broken
    <3>2. CASE /\ taken' = [taken EXCEPT ![c] = @ + 1]
               /\ seq_counter' = [seq_counter EXCEPT ![c] = @ + 1]
      BY <2>3, <3>2 DEF Broken
    <3>. QED
      BY <2>3, <3>1, <3>2 DEF Broken
  <2>4. CASE EndOfInput(c)
    BY <2>4 DEF EndOfInput
  <2>. QED
    BY <1>3, <2>1, <2>2, <2>3, <2>4 DEF Handler
<1>4. CASE UNCHANGED adapterVars
  BY <1>4 DEF adapterVars
<1>. QED
  BY <1>1, <1>2, <1>3, <1>4 DEF AdapterNext

\* Every variable of the adapter keeps its type.
THEOREM AdapterTypes == AdapterSpec => []AdapterTypeOK
  BY AdapterTypeInit, AdapterTypeNext, PTL DEF AdapterSpec

----------------------------------------------------------------------------
(* What holds of a connection.  The responses are counted by the lines     *)
(* read, and those by the counter, as long as the handler runs.            *)

NumberedAt(c) ==
  /\ Len(replies[c]) <= Len(sent[c])
  /\ \A k \in 1 .. Len(replies[c]) : Answers(c, k)

ConnInv(c) == InStep(c) /\ NumberedAt(c) /\ EndedRightly(c)

AdapterInv == AdapterTypeOK /\ \A c \in Connections : ConnInv(c)

\* A response answers the request it was made for, and carries the number it was given.
LEMMA DispatchAnswers ==
  ASSUME NEW seq \in Nat, NEW l \in Lines
  PROVE  LET r == dispatch_request(seq, l)
         IN  /\ r.request_seq = l.seq
             /\ r.command = l.command
             /\ r.success <=> l.command \in Commands
             /\ r.seq = IF r.success THEN seq ELSE 0
  BY DEF dispatch_request, unknown_command, success

\* What another connection does leaves a connection's invariant alone.
LEMMA AdapterFrame ==
  ASSUME NEW c \in Connections, ConnInv(c), conn[c] = "killed" => ~up',
         conn'[c] = conn[c], editor'[c] = editor[c], sent'[c] = sent[c],
         taken'[c] = taken[c], seq_counter'[c] = seq_counter[c], replies'[c] = replies[c]
  PROVE  ConnInv(c)'
  BY DEF ConnInv, InStep, NumberedAt, Answers, EndedRightly

LEMMA AdapterInvInit == AdapterInit => AdapterInv
<1>. SUFFICES ASSUME AdapterInit, NEW c \in Connections PROVE ConnInv(c)
  BY AdapterTypeInit DEF AdapterInv
<1>. QED
  BY DEF AdapterInit, ConnInv, InStep, NumberedAt, EndedRightly

LEMMA AdapterInvNext == AdapterInv /\ [AdapterNext]_adapterVars => AdapterInv'
<1>. SUFFICES ASSUME AdapterInv, [AdapterNext]_adapterVars, NEW d \in Connections
              PROVE  ConnInv(d)'
  BY AdapterTypeNext DEF AdapterInv
<1>0. AdapterTypeOK /\ ConnInv(d) /\ (conn[d] = "killed" => ~up)
  BY DEF AdapterInv, ConnInv, EndedRightly
<1>1. ASSUME NEW c \in Connections, Editor(c) PROVE ConnInv(d)'
  <2>1. CASE Connect(c)
    <3>1. CASE c = d
      BY <1>0, <2>1, <3>1
         DEF Connect, AdapterTypeOK, ConnInv, InStep, NumberedAt, Answers, EndedRightly
    <3>2. CASE c # d
      BY <1>0, <2>1, <3>2, AdapterFrame DEF Connect, AdapterTypeOK
    <3>. QED
      BY <3>1, <3>2
  <2>2. CASE Write(c)
    <3>1. CASE c = d
      <4>1. PICK l \in Lines : sent' = [sent EXCEPT ![d] = Append(@, l)]
        BY <2>2, <3>1 DEF Write
      <4>2. /\ sent'[d] = Append(sent[d], l) /\ sent[d] \in Seq(Lines)
            /\ conn[d] \in {"waiting", "serving"}
            /\ UNCHANGED <<conn, taken, seq_counter, replies>>
        BY <1>0, <2>2, <3>1, <4>1 DEF Write, AdapterTypeOK
      <4>3. /\ Len(sent'[d]) = Len(sent[d]) + 1
            /\ \A k \in 1 .. Len(sent[d]) : sent'[d][k] = sent[d][k]
        BY <4>2
      <4>4. Len(replies[d]) \in Nat /\ Len(sent[d]) \in Nat /\ taken[d] \in Nat
        BY <1>0 DEF AdapterTypeOK
      <4>5. NumberedAt(d)'
        BY <1>0, <4>2, <4>3, <4>4 DEF ConnInv, NumberedAt, Answers
      <4>. QED
        BY <1>0, <4>2, <4>3, <4>4, <4>5 DEF ConnInv, InStep, EndedRightly
    <3>2. CASE c # d
      BY <1>0, <2>2, <3>2, AdapterFrame DEF Write, AdapterTypeOK
    <3>. QED
      BY <3>1, <3>2
  <2>3. ASSUME NEW how \in {"finished", "gone"}, Leave(c, how) PROVE ConnInv(d)'
    <3>1. CASE c = d
      BY <1>0, <2>3, <3>1
         DEF Leave, AdapterTypeOK, ConnInv, InStep, NumberedAt, Answers, EndedRightly
    <3>2. CASE c # d
      BY <1>0, <2>3, <3>2, AdapterFrame DEF Leave, AdapterTypeOK
    <3>. QED
      BY <3>1, <3>2
  <2>. QED
    BY <1>1, <2>1, <2>2, <2>3 DEF Editor
<1>2. ASSUME NEW c \in Connections, Listener(c) PROVE ConnInv(d)'
  <2>1. CASE Accept(c)
    <3>1. CASE c = d
      BY <1>0, <2>1, <3>1
         DEF Accept, AdapterTypeOK, ConnInv, InStep, NumberedAt, Answers, EndedRightly
    <3>2. CASE c # d
      BY <1>0, <2>1, <3>2, AdapterFrame DEF Accept, AdapterTypeOK
    <3>. QED
      BY <3>1, <3>2
  <2>2. CASE NoStream(c)
    <3>1. CASE c = d
      BY <1>0, <2>2, <3>1
         DEF NoStream, AdapterTypeOK, ConnInv, InStep, NumberedAt, Answers, EndedRightly
    <3>2. CASE c # d
      BY <1>0, <2>2, <3>2, AdapterFrame DEF NoStream, AdapterTypeOK
    <3>. QED
      BY <3>1, <3>2
  <2>3. CASE SpawnPanics(c)
    <3>1. CASE conn[d] \in {"waiting", "serving"}
      BY <1>0, <2>3, <3>1
         DEF SpawnPanics, AdapterTypeOK, ConnInv, InStep, NumberedAt, Answers, EndedRightly
    <3>2. CASE conn[d] \notin {"waiting", "serving"}
      BY <1>0, <2>3, <3>2, AdapterFrame DEF SpawnPanics, AdapterTypeOK
    <3>. QED
      BY <3>1, <3>2
  <2>4. CASE AcceptFails(c)
    <3>1. CASE c = d
      BY <1>0, <2>4, <3>1
         DEF AcceptFails, AdapterTypeOK, ConnInv, InStep, NumberedAt, Answers, EndedRightly
    <3>2. CASE c # d
      BY <1>0, <2>4, <3>2, AdapterFrame DEF AcceptFails, AdapterTypeOK
    <3>. QED
      BY <3>1, <3>2
  <2>. QED
    BY <1>2, <2>1, <2>2, <2>3, <2>4 DEF Listener
<1>3. ASSUME NEW c \in Connections, Handler(c) PROVE ConnInv(d)'
  <2>1. CASE Respond(c)
    <3>1. CASE c = d
      <4>. DEFINE r == dispatch_request(seq_counter[d] + 1, Line(d))
      <4>1. /\ conn[d] = "serving" /\ taken[d] + 1 \in 1 .. Len(sent[d])
            /\ taken'[d] = taken[d] + 1 /\ seq_counter'[d] = seq_counter[d] + 1
            /\ replies'[d] = Append(replies[d], r)
            /\ UNCHANGED <<conn, sent>>
        BY <1>0, <2>1, <3>1 DEF Respond, HasLine, AdapterTypeOK
      <4>2. /\ Len(replies[d]) = taken[d] /\ seq_counter[d] = taken[d] /\ taken[d] \in Nat
            /\ replies[d] \in Seq(DapResponse)
        BY <1>0, <4>1 DEF ConnInv, InStep, AdapterTypeOK
      <4>3. Line(d) \in Lines /\ Line(d) = sent[d][taken[d] + 1]
        BY <1>0, <4>1 DEF Line, AdapterTypeOK
      <4>4. /\ Len(replies'[d]) = taken[d] + 1 /\ replies'[d][taken[d] + 1] = r
            /\ \A k \in 1 .. taken[d] : replies'[d][k] = replies[d][k]
        BY <4>1, <4>2
      <4>5. /\ r.request_seq = Line(d).seq
            /\ r.command = Line(d).command
            /\ r.success <=> Line(d).command \in Commands
            /\ r.seq = IF r.success THEN taken[d] + 1 ELSE 0
        BY <4>2, <4>3, DispatchAnswers
      <4>. HIDE DEF r
      <4>6. ASSUME NEW k \in 1 .. taken[d] + 1 PROVE Answers(d, k)'
        <5>1. CASE k = taken[d] + 1
          BY <4>1, <4>3, <4>4, <4>5, <5>1 DEF Answers
        <5>2. CASE k \in 1 .. taken[d]
          BY <1>0, <4>1, <4>2, <4>4, <5>2 DEF Answers, ConnInv, NumberedAt
        <5>. QED
          BY <4>2, <5>1, <5>2
      <4>7. NumberedAt(d)'
        BY <4>1, <4>2, <4>4, <4>6 DEF NumberedAt
      <4>. QED
        BY <1>0, <4>1, <4>2, <4>4, <4>7 DEF ConnInv, InStep, EndedRightly
    <3>2. CASE c # d
      BY <1>0, <2>1, <3>2, AdapterFrame DEF Respond, AdapterTypeOK
    <3>. QED
      BY <3>1, <3>2
  <2>2. CASE Malformed(c)
    <3>1. CASE c = d
      BY <1>0, <2>2, <3>1
         DEF Malformed, HasLine, Line, AdapterTypeOK, ConnInv, InStep, NumberedAt, Answers,
             EndedRightly
    <3>2. CASE c # d
      BY <1>0, <2>2, <3>2, AdapterFrame DEF Malformed, AdapterTypeOK
    <3>. QED
      BY <3>1, <3>2
  <2>3. CASE Broken(c)
    <3>1. CASE c = d
      <4>1. /\ conn'[d] = "broken" /\ editor[d] = "gone"
            /\ UNCHANGED <<editor, sent, replies>>
            /\ taken'[d] = taken[d] \/ (taken'[d] = taken[d] + 1 /\ taken[d] < Len(sent[d]))
        BY <1>0, <2>3, <3>1 DEF Broken, HasLine, AdapterTypeOK
      <4>2. taken[d] \in Nat /\ Len(sent[d]) \in Nat
        BY <1>0 DEF AdapterTypeOK
      <4>. QED
        BY <1>0, <4>1, <4>2 DEF ConnInv, InStep, NumberedAt, Answers, EndedRightly
    <3>2. CASE c # d
      BY <1>0, <2>3, <3>2, AdapterFrame DEF Broken, AdapterTypeOK
    <3>. QED
      BY <3>1, <3>2
  <2>4. CASE EndOfInput(c)
    <3>1. CASE c = d
      BY <1>0, <2>4, <3>1
         DEF EndOfInput, HasLine, AdapterTypeOK, ConnInv, InStep, NumberedAt, Answers,
             EndedRightly
    <3>2. CASE c # d
      BY <1>0, <2>4, <3>2, AdapterFrame DEF EndOfInput, AdapterTypeOK
    <3>. QED
      BY <3>1, <3>2
  <2>. QED
    BY <1>3, <2>1, <2>2, <2>3, <2>4 DEF Handler
<1>4. CASE UNCHANGED adapterVars
  BY <1>0, <1>4, AdapterFrame DEF adapterVars
<1>. QED
  BY <1>1, <1>2, <1>3, <1>4 DEF AdapterNext

LEMMA AdapterInvariant == AdapterSpec => []AdapterInv
  BY AdapterInvInit, AdapterInvNext, PTL DEF AdapterSpec

\* Each response answers the line of its place and carries the number of that place.
THEOREM AdapterNumbers == AdapterSpec => []RepliesNumbered
<1>1. AdapterInv => RepliesNumbered
  BY DEF AdapterInv, ConnInv, NumberedAt, RepliesNumbered
<1>. QED
  BY <1>1, AdapterInvariant, PTL

\* A connection ends for a reason of its own, unless the whole process dies.
THEOREM AdapterEndings == AdapterSpec => []EndingsExplained
<1>1. AdapterInv => EndingsExplained
  BY DEF AdapterInv, ConnInv, EndingsExplained
<1>. QED
  BY <1>1, AdapterInvariant, PTL

----------------------------------------------------------------------------
(* The adapter implements a server of requests.                            *)

Told == [c \in Connections |->
           [k \in 1 .. Len(replies[c]) |-> [to |-> k, reply |-> Outcome(replies[c][k])]]]

OpenOn == {c \in Connections : conn[c] \in {"none", "waiting", "serving"}}

\* Connections that end close their channels.
LEMMA ClosesChannels ==
  ASSUME UNCHANGED <<sent, replies>>, OpenOn' \subseteq OpenOn
  PROVE  AdapterProtocol!Close
<1>1. Told' = Told
  BY DEF Told
<1>. QED
  BY <1>1 DEF AdapterProtocol!Close, OpenOn, Told

LEMMA ClosesChannel ==
  ASSUME AdapterTypeOK, NEW c \in Connections, NEW e \in Endings,
         conn' = [conn EXCEPT ![c] = e], UNCHANGED <<sent, replies>>
  PROVE  AdapterProtocol!Close
<1>1. OpenOn' \subseteq OpenOn
  BY DEF AdapterTypeOK, Endings, OpenOn
<1>. QED
  BY <1>1, ClosesChannels

LEMMA AdapterProtocolInit == AdapterInit => AdapterProtocol!Init
<1>. SUFFICES ASSUME AdapterInit PROVE AdapterProtocol!Init
  OBVIOUS
<1>1. Told = [c \in Connections |-> <<>>]
  BY DEF AdapterInit, Told
<1>2. OpenOn = Connections
  BY DEF AdapterInit, OpenOn
<1>. QED
  BY <1>1, <1>2 DEF AdapterInit, AdapterProtocol!Init, Told, OpenOn

LEMMA AdapterProtocolNext ==
  AdapterInv /\ [AdapterNext]_adapterVars
    => [AdapterProtocol!Next]_<<sent, Told, OpenOn>>
<1>. SUFFICES ASSUME AdapterInv, [AdapterNext]_adapterVars
              PROVE  AdapterProtocol!Next \/ UNCHANGED <<sent, Told, OpenOn>>
  OBVIOUS
<1>0. AdapterTypeOK
  BY DEF AdapterInv
<1>1. ASSUME NEW c \in Connections, Editor(c)
      PROVE  AdapterProtocol!Next \/ UNCHANGED <<sent, Told, OpenOn>>
  <2>1. CASE Connect(c)
    BY <1>0, <2>1 DEF Connect, AdapterTypeOK, Told, OpenOn
  <2>2. CASE Write(c)
    <3>1. UNCHANGED <<Told, OpenOn>>
      BY <2>2 DEF Write, Told, OpenOn
    <3>2. AdapterProtocol!Ask(c)
      BY <2>2, <3>1 DEF Write, AdapterProtocol!Ask, Told, OpenOn
    <3>. QED
      BY <3>2 DEF AdapterProtocol!Next
  <2>3. CASE \E how \in {"finished", "gone"} : Leave(c, how)
    BY <2>3 DEF Leave, Told, OpenOn
  <2>. QED
    BY <1>1, <2>1, <2>2, <2>3 DEF Editor
<1>2. ASSUME NEW c \in Connections, Listener(c)
      PROVE  AdapterProtocol!Next \/ UNCHANGED <<sent, Told, OpenOn>>
  <2>1. CASE Accept(c)
    BY <1>0, <2>1 DEF Accept, AdapterTypeOK, Told, OpenOn
  <2>2. CASE NoStream(c)
    <3>1. AdapterProtocol!Close
      BY <1>0, <2>2, ClosesChannel DEF NoStream, Endings
    <3>. QED
      BY <3>1 DEF AdapterProtocol!Next
  <2>3. CASE SpawnPanics(c)
    <3>1. OpenOn' \subseteq OpenOn /\ UNCHANGED <<sent, replies>>
      BY <1>0, <2>3 DEF SpawnPanics, AdapterTypeOK, OpenOn
    <3>3. AdapterProtocol!Close
      BY <3>1, ClosesChannels
    <3>. QED
      BY <3>3 DEF AdapterProtocol!Next
  <2>4. CASE AcceptFails(c)
    <3>1. AdapterProtocol!Close
      BY <1>0, <2>4, ClosesChannel DEF AcceptFails, Endings
    <3>. QED
      BY <3>1 DEF AdapterProtocol!Next
  <2>. QED
    BY <1>2, <2>1, <2>2, <2>3, <2>4 DEF Listener
<1>3. ASSUME NEW c \in Connections, Handler(c)
      PROVE  AdapterProtocol!Next \/ UNCHANGED <<sent, Told, OpenOn>>
  <2>1. CASE Respond(c)
    <3>0. PICK n \in Nat : n = Len(replies[c]) + 1
      BY <1>0 DEF AdapterTypeOK
    <3>. DEFINE r == dispatch_request(seq_counter[c] + 1, Line(c))
                x == [to |-> n, reply |-> Outcome(r)]
    <3>1. /\ replies[c] \in Seq(DapResponse) /\ Len(replies[c]) = taken[c]
          /\ n \in 1 .. Len(sent[c]) /\ conn[c] = "serving"
          /\ Line(c) = sent[c][n] /\ Line(c) \in Lines /\ seq_counter[c] \in Nat
          /\ n = taken[c] + 1 /\ n = Len(replies[c]) + 1
      BY <1>0, <3>0, <2>1 DEF Respond, HasLine, Line, AdapterTypeOK, AdapterInv, ConnInv, InStep
    <3>2. /\ replies' = [replies EXCEPT ![c] = Append(@, r)]
          /\ UNCHANGED <<conn, sent>>
      BY <2>1 DEF Respond
    <3>3. Outcome(r) \in AdapterReplies(sent[c][n])
      <4>1. /\ r.request_seq = Line(c).seq
            /\ r.command = Line(c).command
            /\ r.success <=> Line(c).command \in Commands
        BY <3>1, DispatchAnswers
      <4>2. r \in DapResponse
        <5>1. seq_counter[c] + 1 \in Nat
          BY <3>1
        <5>. QED
          BY <3>1, <5>1, DispatchType
      <4>3. r.success \in BOOLEAN
        BY <4>2 DEF DapResponse
      <4>. HIDE DEF r
      <4>. QED
        BY <3>1, <4>1, <4>3 DEF Outcome, AdapterReplies
    <3>. HIDE DEF r
    <3>4. Told' = [Told EXCEPT ![c] = Append(@, x)]
      <4>1. /\ Len(replies'[c]) = n /\ replies'[c][n] = r
            /\ \A k \in 1 .. n - 1 : replies'[c][k] = replies[c][k]
            /\ \A d \in Connections \ {c} : replies'[d] = replies[d]
        BY <1>0, <3>1, <3>2 DEF AdapterTypeOK
      <4>2. ASSUME NEW d \in Connections \ {c} PROVE Told'[d] = Told[d]
        BY <4>1 DEF Told
      <4>3. Told'[c] = Append(Told[c], x)
        <5>1. Told'[c] = [k \in 1 .. n |-> [to |-> k, reply |-> Outcome(replies'[c][k])]]
          BY <4>1 DEF Told
        <5>2. Told[c] = [k \in 1 .. n - 1 |-> [to |-> k, reply |-> Outcome(replies[c][k])]]
          BY <3>1 DEF Told
        <5>. DEFINE R == [to : Nat, reply : {Outcome(replies[c][k]) : k \in 1 .. n - 1}]
        <5>3. Told[c] \in Seq(R) /\ Len(Told[c]) = n - 1
          <6>1. n - 1 \in Nat
            BY <3>1
          <6>2. Told[c] \in [1 .. n - 1 -> R]
            BY <5>2, <6>1
          <6>. HIDE DEF R
          <6>. QED
            BY <6>1, <6>2
        <5>4. Append(Told[c], x) = [k \in 1 .. n |-> IF k = n THEN x ELSE Told[c][k]]
          BY <3>1, <5>3
        <5>. QED
          BY <3>1, <4>1, <5>1, <5>2, <5>4
      <4>. QED
        BY <4>2, <4>3 DEF Told
    <3>5. OpenOn' = OpenOn /\ c \in OpenOn
      BY <3>1, <3>2 DEF OpenOn
    <3>6. (IF Told[c] = <<>> THEN 0 ELSE Told[c][Len(Told[c])].to) = n - 1
      <4>1. Told[c] = [k \in 1 .. n - 1 |-> [to |-> k, reply |-> Outcome(replies[c][k])]]
            /\ n - 1 \in Nat
        BY <3>1 DEF Told
      <4>2. CASE n = 1
        BY <4>1, <4>2
      <4>3. CASE n # 1
        <5>1. n - 1 \in 1 .. n - 1 /\ Len(Told[c]) = n - 1
          BY <4>1, <4>3
        <5>2. Told[c][n - 1].to = n - 1 /\ Told[c] # <<>>
          BY <4>1, <5>1
        <5>. QED
          BY <5>1, <5>2
      <4>. QED
        BY <4>2, <4>3
    <3>7. AdapterProtocol!Tell(c, n)
      <4>1. n \in (n - 1) + 1 .. Len(sent[c])
        BY <3>1
      <4>2. \A k \in (n - 1) + 1 .. n - 1 : AdapterOptional(sent[c][k])
        BY <3>1
      <4>. QED
        BY <3>2, <3>3, <3>4, <3>5, <3>6, <4>1, <4>2
           DEF AdapterProtocol!Tell, AdapterProtocol!LastTold, Told, OpenOn
    <3>8. n \in DOMAIN sent[c]
      BY <1>0, <3>1 DEF AdapterTypeOK
    <3>9. \E k \in DOMAIN sent[c] : AdapterProtocol!Tell(c, k)
      BY <3>7, <3>8
    <3>. QED
      BY <3>9 DEF AdapterProtocol!Next
  <2>2. CASE Malformed(c)
    <3>1. AdapterProtocol!Close
      BY <1>0, <2>2, ClosesChannel DEF Malformed, Endings
    <3>. QED
      BY <3>1 DEF AdapterProtocol!Next
  <2>3. CASE Broken(c)
    <3>1. AdapterProtocol!Close
      BY <1>0, <2>3, ClosesChannel DEF Broken, Endings
    <3>. QED
      BY <3>1 DEF AdapterProtocol!Next
  <2>4. CASE EndOfInput(c)
    <3>1. AdapterProtocol!Close
      BY <1>0, <2>4, ClosesChannel DEF EndOfInput, Endings
    <3>. QED
      BY <3>1 DEF AdapterProtocol!Next
  <2>. QED
    BY <1>3, <2>1, <2>2, <2>3, <2>4 DEF Handler
<1>4. CASE UNCHANGED adapterVars
  BY <1>4 DEF adapterVars, Told, OpenOn
<1>. QED
  BY <1>1, <1>2, <1>3, <1>4 DEF AdapterNext

\* No request of a connection is passed over, answered twice or out of turn, and none
\* is answered after the connection has ended.
THEOREM AdapterRefines == AdapterSpec => AdapterImplements
<1>1. [AdapterProtocol!Next]_<<sent, Told, OpenOn>>
        => [AdapterProtocol!Next]_<<sent, [c \in Connections |->
              [k \in 1 .. Len(replies[c]) |-> [to |-> k, reply |-> Outcome(replies[c][k])]]],
              {c \in Connections : conn[c] \in {"none", "waiting", "serving"}}>>
  BY DEF Told, OpenOn
<1>. QED
  BY <1>1, AdapterProtocolInit, AdapterProtocolNext, AdapterInvariant, PTL
     DEF AdapterSpec, AdapterImplements, AdapterProtocol!Spec

Served == INSTANCE RequestServerProofs
  WITH Channels <- Connections, Messages <- Lines,
       Replies <- AdapterReplies, Optional <- AdapterOptional,
       asked <- sent,
       told <- [c \in Connections |->
                  [k \in 1 .. Len(replies[c]) |-> [to |-> k, reply |-> Outcome(replies[c][k])]]],
       open <- {c \in Connections : conn[c] \in {"none", "waiting", "serving"}}

\* What a reader of a connection gets from it: each response carries the number of the
\* request it answers, later ones belong to later requests, and every earlier line that
\* was a request has had its response by then.
THEOREM AdapterKeeps == AdapterSpec => []AdapterProtocol!Kept
<1>1. AdapterProtocol!Spec => []AdapterProtocol!Kept
  BY Served!KeptTheorem, PTL
     DEF Served!Spec, Served!Kept, Served!Init, Served!Next, Served!Ask, Served!Tell, Served!Close, Served!LastTold,
         AdapterProtocol!Spec, AdapterProtocol!Kept, AdapterProtocol!Init, AdapterProtocol!Next, AdapterProtocol!Ask, AdapterProtocol!Tell, AdapterProtocol!Close, AdapterProtocol!LastTold
<1>. QED
  BY <1>1, AdapterRefines, PTL DEF AdapterImplements
====
