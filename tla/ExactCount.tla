----------------------------- MODULE ExactCount -----------------------------
(***************************************************************************)
(* How an exact count is made and which sources are shown for it           *)
(* (retrieval/exact_count.py: count_exact_occurrences and                  *)
(* ExactCountResult.evidence; the answer and its labels in                 *)
(* format_exact_count_answer and in _answer_exact_count of api/app.py).    *)
(* Which versions are counted is the matter of Readers.                    *)
(*                                                                         *)
(* A document is the number of matches in each of its blocks, in order.    *)
(***************************************************************************)
EXTENDS Naturals, FiniteSets, SequencesExt, Lists

CONSTANTS
  Selections,    \* sequences of documents that a question may select
  PerDocument,   \* the blocks shown of one document: 8 in the code
  MaxEvidence    \* the blocks shown in all: 20 in the code

CountAssumption ==
  /\ Selections \subseteq Seq(Seq(Nat))
  /\ {PerDocument, MaxEvidence} \subseteq Nat \ {0}

VARIABLES
  documents,  \* the documents selected
  counted,    \* the results of those that were scanned: count and evidence
  round,      \* the round over the documents, from 1
  turn,       \* the document whose turn it is in the round
  shown,      \* the evidence selected so far: its position is its label
  finished    \* the property has returned

vars == <<documents, counted, round, turn, shown, finished>>

\* Mutant of Evidence: every block is a source, with a match or without one.
EvidenceOfAll(d) == [i \in DOMAIN d |-> i]

\* The blocks that have a match.
Evidence(d) == Kept([i \in DOMAIN d |-> i], {i \in DOMAIN d : d[i] > 0})

Scan ==
  /\ Len(counted) < Len(documents)
  /\ LET d == documents[Len(counted) + 1]
     IN counted' = Append(counted, [count |-> Total(d), evidence |-> Evidence(d)])
  /\ UNCHANGED <<documents, round, turn, shown, finished>>

Scanned == Len(counted) = Len(documents)

(***************************************************************************)
(* The loops of ExactCountResult.evidence.                                 *)
(***************************************************************************)
Choosing == Scanned /\ ~finished /\ round <= PerDocument /\ turn <= Len(documents)

\* The next turn: the rounds go over all documents.
Advance ==
  IF turn < Len(documents) THEN turn' = turn + 1 /\ UNCHANGED round
                           ELSE turn' = 1 /\ round' = round + 1

Card ==
  LET block == counted[turn].evidence[round]
  IN [document |-> turn, block |-> block, matches |-> documents[turn][block]]

\* Mutant of Enough: the limit is tested once in a round.
EnoughInRound(cards) == Len(cards) >= MaxEvidence /\ turn = Len(documents)

Enough(cards) == Len(cards) >= MaxEvidence

TakeTurn ==
  /\ Choosing
  /\ LET cards == IF round \in DOMAIN counted[turn].evidence THEN Append(shown, Card) ELSE shown
     IN shown' = cards /\ finished' = Enough(cards)
  /\ Advance
  /\ UNCHANGED <<documents, counted>>

RoundsOver ==
  /\ Scanned /\ ~finished /\ ~Choosing
  /\ finished' = TRUE
  /\ UNCHANGED <<documents, counted, round, turn, shown>>

Init ==
  /\ documents \in Selections
  /\ counted = <<>>
  /\ round = 1 /\ turn = 1
  /\ shown = <<>>
  /\ finished = FALSE

Next == Scan \/ TakeTurn \/ RoundsOver

Spec == Init /\ [][Next]_vars

(***************************************************************************)
(* The answer: the labels that it puts behind the count of a document.     *)
(***************************************************************************)
LabelsOf(d) == {n \in DOMAIN shown : shown[n].document = d}

CardsOf(d) == Kept(shown, [document : {d}, block : Nat, matches : Nat])

(***************************************************************************)
(* Properties.                                                             *)
(***************************************************************************)

\* The limits hold, and they are shared: if a document has fewer labels than
\* it has evidence for, the answer is full or the document is, and no other
\* document has been given two more.
EvidenceIsShared ==
  finished =>
    /\ Len(shown) <= MaxEvidence
    /\ \A d \in DOMAIN documents :
         LET mine == Cardinality(LabelsOf(d))
         IN /\ mine <= PerDocument
            /\ mine < Len(counted[d].evidence) =>
                 /\ mine = PerDocument \/ Len(shown) = MaxEvidence
                 /\ \A e \in DOMAIN documents : Cardinality(LabelsOf(e)) <= mine + 1

\* A label leads to a match: the blocks behind a document's labels are its first
\* ones that match, each once and in order, and if they are all shown, the matches
\* that they state add up to the count in the answer.
LabelsLeadToMatches ==
  \A d \in DOMAIN documents :
    LET mine == CardsOf(d)
    IN /\ \A i \in DOMAIN mine :
            /\ documents[d][mine[i].block] > 0
            /\ Cardinality({b \in 1..mine[i].block : documents[d][b] > 0}) = i
       /\ (finished /\ Len(mine) = Len(counted[d].evidence)) =>
            Total([i \in DOMAIN mine |-> mine[i].matches]) = counted[d].count
=============================================================================
