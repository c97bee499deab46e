----------------------------- MODULE OrderedLog -----------------------------
(***************************************************************************)
(* What the outbox and its relay promise to the consumers of a topic.      *)
(* Every stream is a log of accepted events, numbered from 1.  The events  *)
(* of a stream reach the topic in the order of their numbers, none is      *)
(* skipped, and one that reached the topic may reach it again.             *)
(***************************************************************************)
EXTENDS Naturals

CONSTANT Streams

VARIABLES
  accepted,   \* number of events each stream accepted
  published   \* the events of each stream that reached the topic

logVars == <<accepted, published>>

Init ==
  /\ accepted = [s \in Streams |-> 0]
  /\ published = [s \in Streams |-> {}]

\* One transaction may add events to several streams, and to all or to none.
Accept ==
  /\ accepted' \in [Streams -> Nat]
  /\ \A s \in Streams : accepted[s] <= accepted'[s]
  /\ UNCHANGED published

\* The next event of a stream reaches the topic; a repetition is a stutter.
Publish(s) ==
  /\ \E n \in 1..accepted[s] :
       /\ published[s] = 1..(n - 1)
       /\ published' = [published EXCEPT ![s] = 1..n]
  /\ UNCHANGED accepted

Next == Accept \/ \E s \in Streams : Publish(s)

Spec == Init /\ [][Next]_logVars
=============================================================================
