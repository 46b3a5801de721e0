---- MODULE RequestServerProofs ----
(***************************************************************************)
(* What every server of requests keeps, whatever its channels, messages    *)
(* and replies are.                                                        *)
(***************************************************************************)
EXTENDS RequestServer, SequenceTheorems, TLAPS

ReplyTo == [to : Nat, reply : UNION {Replies(m) : m \in Messages}]

Typed ==
  /\ asked \in [Channels -> Seq(Messages)]
  /\ told \in [Channels -> Seq(ReplyTo)]

\* The i-th reply ts[i] on a channel with the messages ms.
KeptAt(ms, ts, i) ==
  /\ ts[i].to \in 1 .. Len(ms)
  /\ ts[i].reply \in Replies(ms[ts[i].to])
  /\ \A j \in 1 .. i - 1 : ts[j].to < ts[i].to
  /\ \A k \in 1 .. ts[i].to - 1 : Optional(ms[k]) \/ \E j \in 1 .. i - 1 : ts[j].to = k

KeptOn(ms, ts) == \A i \in 1 .. Len(ts) : KeptAt(ms, ts, i)

\* The last message replied to.
LastOf(ts) == IF ts = <<>> THEN 0 ELSE ts[Len(ts)].to

\* One message more takes nothing back.
LEMMA AskKeeps ==
  ASSUME NEW ms \in Seq(Messages), NEW m \in Messages, NEW ts \in Seq(ReplyTo), KeptOn(ms, ts),
         NEW ns, ns = Append(ms, m)
  PROVE  ns \in Seq(Messages) /\ KeptOn(ns, ts)
<1>1. /\ ns \in Seq(Messages) /\ Len(ms) \in Nat /\ Len(ns) = Len(ms) + 1
      /\ \A k \in 1 .. Len(ms) : ns[k] = ms[k]
  BY AppendProperties
<1>2. ASSUME NEW i \in 1 .. Len(ts) PROVE KeptAt(ns, ts, i)
  <2>1. KeptAt(ms, ts, i)
    BY DEF KeptOn
  <2>2. ts[i].to \in 1 .. Len(ns) /\ ns[ts[i].to] = ms[ts[i].to]
    BY <1>1, <2>1 DEF KeptAt
  <2>3. \A k \in 1 .. ts[i].to - 1 : ns[k] = ms[k]
    BY <1>1, <2>1 DEF KeptAt
  <2> QED BY <2>1, <2>2, <2>3 DEF KeptAt
<1> QED BY <1>1, <1>2 DEF KeptOn

\* A reply to a message behind the last one replied to, with nothing but optional messages
\* in between, is one more.
LEMMA TellKeeps ==
  ASSUME NEW ms \in Seq(Messages), NEW ts \in Seq(ReplyTo), KeptOn(ms, ts),
         NEW n \in LastOf(ts) + 1 .. Len(ms), NEW r \in Replies(ms[n]),
         \A k \in LastOf(ts) + 1 .. n - 1 : Optional(ms[k]),
         NEW us, us = Append(ts, [to |-> n, reply |-> r])
  PROVE  us \in Seq(ReplyTo) /\ KeptOn(ms, us)
<1>1. Len(ms) \in Nat /\ Len(ts) \in Nat /\ LastOf(ts) \in Nat /\ n \in 1 .. Len(ms)
  <2>1. \A i \in 1 .. Len(ts) : ts[i] \in ReplyTo
    OBVIOUS
  <2>2. ts # <<>> => Len(ts) \in 1 .. Len(ts)
    BY EmptySeq
  <2>3. LastOf(ts) \in Nat
    BY <2>1, <2>2 DEF LastOf, ReplyTo
  <2> QED BY <2>3
<1>2. PICK t : t = [to |-> n, reply |-> r]
  OBVIOUS
<1>3. t \in ReplyTo /\ t.to = n /\ t.reply = r
  BY <1>1, <1>2 DEF ReplyTo
<1>4. /\ us \in Seq(ReplyTo) /\ Len(us) = Len(ts) + 1 /\ us[Len(ts) + 1] = t
      /\ \A i \in 1 .. Len(ts) : us[i] = ts[i]
  BY <1>2, <1>3, AppendProperties
<1>5. ASSUME NEW i \in 1 .. Len(ts) PROVE KeptAt(ms, us, i)
  <2>1. KeptAt(ms, ts, i)
    BY DEF KeptOn
  <2>2. us[i] = ts[i] /\ \A j \in 1 .. i - 1 : us[j] = ts[j]
    BY <1>1, <1>4
  <2> QED BY <2>1, <2>2 DEF KeptAt
<1>6. PICK e : e = Len(ts) + 1
  OBVIOUS
<1>7. ASSUME NEW j \in 1 .. Len(ts) PROVE ts[j].to \in Nat /\ ts[j].to <= LastOf(ts)
  <2>1. ts # <<>> /\ Len(ts) \in 1 .. Len(ts) /\ LastOf(ts) = ts[Len(ts)].to
    BY <1>1, EmptySeq DEF LastOf
  <2>2. ts[j] \in ReplyTo
    OBVIOUS
  <2>3. KeptAt(ms, ts, Len(ts))
    BY <2>1 DEF KeptOn
  <2>4. j = Len(ts) \/ ts[j].to < ts[Len(ts)].to
    BY <1>1, <2>3 DEF KeptAt
  <2> QED BY <1>1, <2>1, <2>2, <2>4 DEF ReplyTo
<1>8. ASSUME NEW k \in 1 .. n - 1
      PROVE  Optional(ms[k]) \/ \E j \in 1 .. Len(ts) : ts[j].to = k
  <2>1. CASE k > LastOf(ts)
    BY <1>1, <2>1
  <2>2. CASE k <= LastOf(ts)
    <3>1. ts # <<>> /\ Len(ts) \in 1 .. Len(ts) /\ LastOf(ts) = ts[Len(ts)].to
      BY <1>1, <2>2, EmptySeq DEF LastOf
    <3>2. KeptAt(ms, ts, Len(ts))
      BY <3>1 DEF KeptOn
    <3>3. k = ts[Len(ts)].to \/ k \in 1 .. ts[Len(ts)].to - 1
      BY <1>1, <2>2, <3>1
    <3> QED BY <1>1, <3>1, <3>2, <3>3 DEF KeptAt
  <2> QED BY <1>1, <2>1, <2>2
<1>9. KeptAt(ms, us, e)
  <2>1. us[e] = t /\ e - 1 = Len(ts)
    BY <1>1, <1>4, <1>6
  <2>2. \A j \in 1 .. e - 1 : us[j].to < n
    BY <1>1, <1>4, <1>7, <2>1
  <2>3. \A k \in 1 .. n - 1 : Optional(ms[k]) \/ \E j \in 1 .. e - 1 : us[j].to = k
    BY <1>4, <1>8, <2>1
  <2> QED BY <1>1, <1>3, <2>1, <2>2, <2>3 DEF KeptAt
<1>10. 1 .. Len(us) = (1 .. Len(ts)) \cup {e}
  BY <1>1, <1>4, <1>6
<1> QED BY <1>4, <1>5, <1>9, <1>10 DEF KeptOn

\* On every channel.
KeptEverywhere == Typed /\ \A c \in Channels : KeptOn(asked[c], told[c])

LEMMA KeptInit == Init => KeptEverywhere
<1> SUFFICES ASSUME Init PROVE KeptEverywhere
  OBVIOUS
<1>1. \A S : <<>> \in Seq(S) /\ Len(<<>>) = 0
  OBVIOUS
<1>2. Typed
  BY <1>1 DEF Init, Typed
<1>3. \A c \in Channels : told[c] = <<>>
  BY DEF Init
<1> QED BY <1>1, <1>2, <1>3 DEF KeptEverywhere, KeptOn

LEMMA KeptStep == KeptEverywhere /\ [Next]_<<asked, told, open>> => KeptEverywhere'
<1> SUFFICES ASSUME KeptEverywhere, [Next]_<<asked, told, open>> PROVE KeptEverywhere'
  OBVIOUS
<1>1. ASSUME UNCHANGED <<asked, told>> PROVE KeptEverywhere'
  BY <1>1 DEF KeptEverywhere, Typed
<1>2. ASSUME NEW c \in Channels, Ask(c) PROVE KeptEverywhere'
  <2>1. PICK m \in Messages : asked' = [asked EXCEPT ![c] = Append(asked[c], m)] /\ told' = told
    BY <1>2 DEF Ask
  <2>2. asked[c] \in Seq(Messages) /\ told[c] \in Seq(ReplyTo) /\ KeptOn(asked[c], told[c])
    BY DEF KeptEverywhere, Typed
  <2>3. PICK ns : ns = Append(asked[c], m)
    OBVIOUS
  <2>4. ns \in Seq(Messages) /\ KeptOn(ns, told[c])
    BY <2>2, <2>3, AskKeeps
  <2>5. asked'[c] = ns /\ \A d \in Channels \ {c} : asked'[d] = asked[d]
    BY <2>1, <2>3 DEF KeptEverywhere, Typed
  <2>6. Typed'
    BY <2>1, <2>3, <2>4 DEF KeptEverywhere, Typed
  <2> QED BY <2>1, <2>4, <2>5, <2>6 DEF KeptEverywhere
<1>3. ASSUME NEW c \in Channels, NEW n, Tell(c, n) PROVE KeptEverywhere'
  <2>1. PICK ms, ts : ms = asked[c] /\ ts = told[c]
    OBVIOUS
  <2>2. ms \in Seq(Messages) /\ ts \in Seq(ReplyTo) /\ KeptOn(ms, ts)
    BY <2>1 DEF KeptEverywhere, Typed
  <2>3. PICK r \in Replies(ms[n]) : told' = [told EXCEPT ![c] = Append(ts, [to |-> n, reply |-> r])]
    BY <1>3, <2>1 DEF Tell
  <2>4. LastTold(c) = LastOf(ts)
    BY <2>1 DEF LastTold, LastOf
  <2>5. n \in LastOf(ts) + 1 .. Len(ms) /\ \A k \in LastOf(ts) + 1 .. n - 1 : Optional(ms[k])
    BY <1>3, <2>1, <2>4 DEF Tell
  <2>6. PICK us : us = Append(ts, [to |-> n, reply |-> r])
    OBVIOUS
  <2>7. us \in Seq(ReplyTo) /\ KeptOn(ms, us)
    BY <2>2, <2>3, <2>5, <2>6, TellKeeps
  <2>8. told'[c] = us /\ \A d \in Channels \ {c} : told'[d] = told[d]
    BY <2>3, <2>6 DEF KeptEverywhere, Typed
  <2>9. asked' = asked
    BY <1>3 DEF Tell
  <2>10. Typed'
    BY <2>3, <2>6, <2>7, <2>9 DEF KeptEverywhere, Typed
  <2> QED BY <2>1, <2>7, <2>8, <2>9, <2>10 DEF KeptEverywhere
<1> QED BY <1>1, <1>2, <1>3 DEF Next, Close

\* Whatever a server does that behaves as RequestServer says: on each channel a reply fits
\* the message it names, messages are replied to in their order and once, and none that needs
\* a reply is passed over by a later one's.
THEOREM KeptTheorem == Spec => []Kept
<1>1. KeptEverywhere => Kept
  BY DEF KeptEverywhere, Typed, KeptOn, KeptAt, Kept
<1> QED BY <1>1, KeptInit, KeptStep, PTL DEF Spec
====
