--------------------------- MODULE ContextBuilder ---------------------------
(***************************************************************************)
(* How ContextBuilder.build puts ranked passages into the prompt           *)
(* (retrieval/context.py): under labels, within a budget of estimated      *)
(* tokens.                                                                 *)
(*                                                                         *)
(* A text is its characters and its words, which is what estimate_tokens   *)
(* looks at.  Where a text is cut depends on its sentences and blanks: any *)
(* beginning of it that fits may be what remains, or nothing.  The text of *)
(* a passage is not blank (SearchCandidate refuses it).                    *)
(***************************************************************************)
EXTENDS Integers, SequencesExt

CONSTANTS
  Rankings,        \* sequences of passages, the best first
  MaxTokens,       \* max_context_tokens
  MinTokens        \* min_context_passage_tokens

VARIABLES
  candidates,  \* the ranking: each passage is its text, and its header with its footer
  position,    \* the candidate that the loop looks at
  blocks,      \* what is in the prompt so far
  truncated,   \* any_truncated
  built        \* build has left its loop

vars == <<candidates, position, blocks, truncated, built>>

Text == [chars : Nat, words : Nat]

\* What ContextBuilder refuses, and what it is called with.
BudgetAssumption ==
  /\ MaxTokens \in Nat \ {0} /\ MinTokens \in Nat \ {0}
  /\ Rankings \subseteq Seq([frame : Text, text : Text])

NoText == [chars |-> 0, words |-> 0]

Together(a, b) == [chars |-> a.chars + b.chars, words |-> a.words + b.words]

\* A token for four characters, and five for four words, rounded up.
Estimate(text) ==
  LET quarters == IF text.chars > 5 * text.words THEN text.chars ELSE 5 * text.words
  IN (quarters + 3) \div 4

(***************************************************************************)
(* The prompt: blocks separated by blank lines.                            *)
(***************************************************************************)
BlankLine == [chars |-> 2, words |-> 0]

BlockText(list, b) == Together(list[b.passage].frame, b.text)

Joined(list, bs) ==
  IF bs = <<>>
    THEN NoText
    ELSE FoldLeft(LAMBDA text, b : Together(Together(text, BlankLine), BlockText(list, b)),
                  BlockText(list, Head(bs)), Tail(bs))

\* used_tokens, and at the end estimated_tokens.
Used == Estimate(Joined(candidates, blocks))

Block(text, cut) ==
  [label |-> Len(blocks) + 1, passage |-> position, text |-> text, cut |-> cut]

\* What the budget leaves for the text of the next passage.
Available == MaxTokens - Used - Estimate(candidates[position].frame)

\* Mutant of Fits: the passage is weighed by itself, not the whole prompt.
FitsApart(text, cut) == Estimate(text) <= Available

Fits(text, cut) ==
  Estimate(Joined(candidates, Append(blocks, Block(text, cut)))) <= MaxTokens

Passage == candidates[position].text

\* A proper beginning of a text: a word has a character at least, and a blank after it.
Beginnings(text) ==
  {t \in [chars : 0..(text.chars - 1), words : 0..text.words] :
     2 * t.words <= t.chars + 1 /\ (t.words = 0 <=> t.chars = 0)}

\* _truncate_to_budget, if the passage exceeds what is available, and then the
\* loop that takes characters off while the whole prompt exceeds the budget.
Cuts ==
  {t \in Beginnings(Passage) :
     /\ Estimate(Passage) > Available => Estimate(t) <= Available
     /\ t = NoText \/ Fits(t, TRUE)}

(***************************************************************************)
(* An iteration.                                                           *)
(***************************************************************************)
HasNext == ~built /\ position <= Len(candidates)

HasRoom == Available >= MinTokens

FitsWhole == Estimate(Passage) <= Available /\ Fits(Passage, FALSE)

Place(text, cut) ==
  /\ blocks' = Append(blocks, Block(text, cut))
  /\ position' = position + 1
  /\ truncated' = (truncated \/ cut)
  /\ UNCHANGED <<candidates, built>>

\* Mutants of Leave: a passage that does not fit is passed over, and the loss
\* of the rest is not reported.
LeavePassesOver ==
  /\ position' = position + 1
  /\ truncated' = TRUE
  /\ UNCHANGED <<candidates, blocks, built>>

LeaveUntold ==
  /\ built' = TRUE
  /\ UNCHANGED <<candidates, position, blocks, truncated>>

\* The loop is left: this passage and those after it are not in the prompt.
Leave ==
  /\ built' = TRUE
  /\ truncated' = TRUE
  /\ UNCHANGED <<candidates, position, blocks>>

NoRoom == HasNext /\ ~HasRoom /\ Leave

PlaceWhole == HasNext /\ HasRoom /\ FitsWhole /\ Place(Passage, FALSE)

PlaceCut ==
  /\ HasNext /\ HasRoom /\ ~FitsWhole
  /\ \E t \in Cuts : Estimate(t) >= MinTokens /\ Place(t, TRUE)

\* Too little of the passage remains.
DropScrap ==
  /\ HasNext /\ HasRoom /\ ~FitsWhole
  /\ \E t \in Cuts : Estimate(t) < MinTokens
  /\ Leave

AllPlaced ==
  /\ ~built /\ position > Len(candidates)
  /\ built' = TRUE
  /\ UNCHANGED <<candidates, position, blocks, truncated>>

Init ==
  /\ candidates \in Rankings
  /\ position = 1
  /\ blocks = <<>>
  /\ truncated = FALSE
  /\ built = FALSE

Next == NoRoom \/ PlaceWhole \/ PlaceCut \/ DropScrap \/ AllPlaced

Spec == Init /\ [][Next]_vars

(***************************************************************************)
(* Properties.                                                             *)
(***************************************************************************)

\* The prompt keeps to its budget, with the headers, footers and separators,
\* although each of them and each passage was rounded by itself.
BudgetHolds == Used <= MaxTokens

\* The labels are S1, S2, ... without a gap, and they name the best passages: one
\* that does not fit is not replaced by a worse one that does.
LabelsNameBestPassages ==
  \A i \in DOMAIN blocks : blocks[i].label = i /\ blocks[i].passage = i

\* The client is told that the context was truncated exactly if a passage is
\* missing from the prompt or is not whole in it.
TruncationTold ==
  built => (truncated <=> \E i \in DOMAIN candidates :
                            i > Len(blocks) \/ blocks[i].text # candidates[i].text)
=============================================================================
