-------------------------- MODULE GroundedAnswers --------------------------
(***************************************************************************)
(* What the answer service promises a client, whatever its providers do:   *)
(* one reply for a question, which is an answer that cites passages it     *)
(* shows, a refusal, a list of passages, or an error.                      *)
(***************************************************************************)
EXTENDS Naturals

CONSTANTS Questions, Inspections, SourceLimit

VARIABLE reply   \* by question: what the client has been told

NoReply == [outcome |-> "pending", shown |-> 0, cited |-> {}]

Tell(q, outcome, shown, cited) ==
  /\ reply[q] = NoReply
  /\ reply' = [reply EXCEPT ![q] = [outcome |-> outcome, shown |-> shown, cited |-> cited]]

\* An answer cites at least one passage, and only passages that it shows.
Answer(q) ==
  /\ q \notin Inspections
  /\ \E n \in 1..SourceLimit :
       \E cited \in (SUBSET (1..n)) \ {{}} : Tell(q, "answered", n, cited)

\* A refusal may show and cite what was consulted.
Abstain(q) ==
  /\ q \notin Inspections
  /\ \E n \in 0..SourceLimit :
       \E cited \in SUBSET (1..n) : Tell(q, "abstained", n, cited)

List(q) == q \in Inspections /\ \E n \in 0..SourceLimit : Tell(q, "listed", n, {})

Fail(q) == Tell(q, "failed", 0, {})

Init == reply = [q \in Questions |-> NoReply]

Next == \E q \in Questions : Answer(q) \/ Abstain(q) \/ List(q) \/ Fail(q)

Spec == Init /\ [][Next]_reply
=============================================================================
