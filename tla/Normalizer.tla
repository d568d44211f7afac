----------------------------- MODULE Normalizer -----------------------------
(***************************************************************************)
(* How Normalizer.normalize removes what repeats at the margins of the     *)
(* pages of a document (ingestion/normalization.py), before the ingestion  *)
(* chunks it and before exact counting reads it.  The cleanup of a text    *)
(* itself is left out, except that it may leave nothing.                   *)
(***************************************************************************)
EXTENDS Integers, FiniteSets, SequencesExt, Lists

CONSTANTS
  Parsed,     \* documents: sequences of pages, a page is a sequence of texts
  AllTexts,   \* the texts of their blocks
  Blank,      \* the text of which nothing remains
  Long        \* texts of several lines, or above 120 characters

PagesAssumption == Parsed \subseteq Seq(Seq(AllTexts))

VARIABLES
  pages,      \* the document
  page,       \* the page that is looked at next
  margins,    \* edge_counts: by text, on how many pages it is at an edge
  kept,       \* what is left of the document
  removed     \* normalize has returned

vars == <<pages, page, margins, kept, removed>>

\* Blocks whose text is empty once it is cleaned are dropped first.
Cleaned(document) ==
  [p \in DOMAIN document |-> Kept(document[p], AllTexts \ {Blank})]

\* by_page: a page without a block does not count.
Used(document) == {p \in DOMAIN document : document[p] # <<>>}

\* The first and the last text of a page, if it may be a header or a footer.
Edges(p) ==
  IF pages[p] = <<>> THEN {} ELSE {pages[p][1], pages[p][Len(pages[p])]} \ Long

\* Mutant of Seen: an only text is counted for both edges.
SeenTwice(p, text) ==
  margins[text] + (IF text \in Edges(p) THEN IF Len(pages[p]) = 1 THEN 2 ELSE 1 ELSE 0)

\* A text counts once for a page.
Seen(p, text) == margins[text] + (IF text \in Edges(p) THEN 1 ELSE 0)

Look ==
  /\ page <= Len(pages)
  /\ margins' = [text \in AllTexts |-> Seen(page, text)]
  /\ page' = page + 1
  /\ UNCHANGED <<pages, kept, removed>>

\* ceil(60%), and at least three.
Threshold ==
  LET n == Cardinality(Used(pages))
      most == (n * 3 + 4) \div 5
  IN IF most < 3 THEN 3 ELSE most

Repeated == {text \in AllTexts : margins[text] >= Threshold}

\* Mutant of RemoveMargins: a text that repeats goes from every page.
RemoveRepeated ==
  /\ ~removed /\ page > Len(pages)
  /\ kept' = [p \in DOMAIN pages |-> Kept(pages[p], AllTexts \ Repeated)]
  /\ removed' = TRUE
  /\ UNCHANGED <<pages, page, margins>>

\* A text that repeats goes from the pages that have it at an edge.
RemoveMargins ==
  /\ ~removed /\ page > Len(pages)
  /\ kept' = [p \in DOMAIN pages |-> Kept(pages[p], AllTexts \ (Repeated \cap Edges(p)))]
  /\ removed' = TRUE
  /\ UNCHANGED <<pages, page, margins>>

Init ==
  /\ \E document \in Parsed : pages = Cleaned(document)
  /\ page = 1
  /\ margins = [text \in AllTexts |-> 0]
  /\ kept = pages
  /\ removed = FALSE

Next == Look \/ RemoveMargins

Spec == Init /\ [][Next]_vars

(***************************************************************************)
(* Properties.                                                             *)
(***************************************************************************)
AtEdge(text) == {p \in DOMAIN pages : text \in Edges(p)}

\* A header or a footer of page p: a text at an edge of that page, of at least three
\* pages, and of at least three fifths of the pages that have a text.
IsMargin(p, text) ==
  LET n == Cardinality(AtEdge(text))
  IN text \in Edges(p) /\ n >= 3 /\ 5 * n >= 3 * Cardinality(Used(pages))

\* Only margins go, and every margin goes: a page loses its own headers and footers,
\* with what repeats them between its edges, and keeps every other text in its order.  A
\* text that is a margin elsewhere stays in the middle of a page that begins and
\* ends with others.
OnlyMarginsGo ==
  removed => \A p \in DOMAIN pages :
    kept[p] = Kept(pages[p], {text \in AllTexts : ~IsMargin(p, text)})
=============================================================================
