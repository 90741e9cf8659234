---------------------------- MODULE MCChatStream ----------------------------
(* Instances of ChatStream for TLC: who posts where, with which key, and     *)
(* which sessions the deleting calls name.                                   *)
EXTENDS ChatStream, TLC

CONSTANTS h1, h2, s1, s2, d1, d2, k1

\* Two posts of one message: a retry with the same idempotency key.
RetrySessionOf == [h \in Handlers |-> s1]
RetryKeyOf     == [h \in Handlers |-> k1]

\* Posts of different messages, without keys.
PlainKeyOf == [h \in Handlers |-> NoKey]

\* One session deleted by itself.
SingleTargets == [d \in Deletes |-> {s1}]

\* One call deletes both sessions, one only the second.
PairTargets   == (d1 :> {s1, s2}) @@ (d2 :> {s2})

\* Posts to one session with one key, or with none, are interchangeable.
PostSymmetry == Permutations(Handlers)
=============================================================================
