---- MODULE RequestServer ----
(***************************************************************************)
(* What a server of requests promises on each of its channels: every reply *)
(* belongs to a message that was sent before, replies come in the order of *)
(* the messages, no message is replied to twice, and only messages that    *)
(* need no reply are passed over.  Once a channel is closed nothing more is *)
(* said on it.                                                             *)
(***************************************************************************)
EXTENDS Naturals, Sequences

CONSTANTS
  Channels,
  Messages,
  Replies(_),     \* the replies that fit a message
  Optional(_)     \* the message may be passed over

VARIABLES
  asked,          \* the messages sent on a channel, in order
  told,           \* the replies given on it: the number of the message and the reply
  open            \* the channels that are open

Init ==
  /\ asked = [c \in Channels |-> <<>>]
  /\ told = [c \in Channels |-> <<>>]
  /\ open = Channels

Ask(c) ==
  /\ \E m \in Messages : asked' = [asked EXCEPT ![c] = Append(@, m)]
  /\ UNCHANGED <<told, open>>

\* The last message on the channel that was replied to.
LastTold(c) == IF told[c] = <<>> THEN 0 ELSE told[c][Len(told[c])].to

Tell(c, n) ==
  /\ c \in open
  /\ n \in LastTold(c) + 1 .. Len(asked[c])
  /\ \A k \in LastTold(c) + 1 .. n - 1 : Optional(asked[c][k])
  /\ \E r \in Replies(asked[c][n]) :
       told' = [told EXCEPT ![c] = Append(@, [to |-> n, reply |-> r])]
  /\ UNCHANGED <<asked, open>>

Close ==
  /\ open' \in SUBSET open
  /\ UNCHANGED <<asked, told>>

Next == Close \/ \E c \in Channels : Ask(c) \/ \E n \in DOMAIN asked[c] : Tell(c, n)

Spec == Init /\ [][Next]_<<asked, told, open>>

----------------------------------------------------------------------------
(* What follows for whoever reads a channel. *)

\* Each reply fits the message it names, no message is replied to twice or before an
\* earlier one, and every earlier message that needs a reply has had its own by then.
Kept ==
  \A c \in Channels : \A i \in DOMAIN told[c] :
    LET n == told[c][i].to IN
    /\ n \in 1 .. Len(asked[c])
    /\ told[c][i].reply \in Replies(asked[c][n])
    /\ \A j \in 1 .. i - 1 : told[c][j].to < n
    /\ \A k \in 1 .. n - 1 : Optional(asked[c][k]) \/ \E j \in 1 .. i - 1 : told[c][j].to = k
====
