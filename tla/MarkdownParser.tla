--------------------------- MODULE MarkdownParser ---------------------------
(***************************************************************************)
(* How MarkdownParser.parse cuts a text into blocks (ingestion/parsers/    *)
(* markdown.py).  A line is how the scanner's tests classify it; headings  *)
(* are its only nested structure, and each block is put under those that   *)
(* are open.  The HTML and the DOCX parser keep their headings alike.      *)
(*                                                                         *)
(* A heading is the number of its line.  Left out are lines that pass two  *)
(* tests (a heading or an item with a pipe in it, an indented fence) and   *)
(* fences of different lengths.                                            *)
(***************************************************************************)
EXTENDS Integers, Sequences, Lists

CONSTANT Texts    \* sequences of lines

VARIABLES
  lines,     \* the text
  index,     \* the line that the scanner looks at
  headings,  \* the open headings, by level
  blocks,    \* kind, first and last line, and section path of each block
  outcome    \* "parsing", or how parse ended

vars == <<lines, index, headings, blocks, outcome>>

Fences == {"backticks", "tildes"}

Levels == 1..2

HeadingOf(level) == <<"h1", "h2">>[level]

IsHeading(line) == \E level \in Levels : line = HeadingOf(level)

\* Kinds of line: besides headings and fences.
Line ==
  Fences \cup {HeadingOf(level) : level \in Levels} \cup
    {"blank", "item", "indented", "pipe", "divider", "prose"}

TextAssumption == Texts \subseteq Seq(Line)

HasPipe(line) == line \in {"pipe", "divider"}

AtTable(i) == HasPipe(lines[i]) /\ i < Len(lines) /\ lines[i + 1] = "divider"

\* The line after the longest run of lines from `first` on that are all in `these`.
After(first, these) ==
  CHOOSE j \in first..(Len(lines) + 1) : first..(j - 1) \subseteq these /\ j \notin these

Scanning == outcome = "parsing" /\ index <= Len(lines)

SectionPath(open) ==
  LET levels == Arranged(DOMAIN open, Ascending(Levels))
  IN [i \in DOMAIN levels |-> open[levels[i]]]

\* `add`: a block of the lines up to `next`.  One without any text is dropped.
Add(kind, open, text, next) ==
  /\ blocks' = IF \A i \in text : lines[i] = "blank"
                 THEN blocks
                 ELSE Append(blocks, [kind |-> kind, first |-> index, last |-> next - 1,
                                      path |-> SectionPath(open)])
  /\ index' = next
  /\ UNCHANGED <<lines, outcome>>

SkipBlank ==
  /\ Scanning /\ lines[index] = "blank"
  /\ index' = index + 1
  /\ UNCHANGED <<lines, headings, blocks, outcome>>

\* Mutant of Opened: the headings below the new one stay open.
OpenedBeside(level) ==
  [l \in DOMAIN headings \cup {level} |-> IF l = level THEN index ELSE headings[l]]

\* A heading replaces the one of its level and closes those below it.
Opened(level) ==
  [l \in {k \in DOMAIN headings : k < level} \cup {level} |->
     IF l = level THEN index ELSE headings[l]]

Heading ==
  /\ Scanning
  /\ \E level \in Levels :
       /\ lines[index] = HeadingOf(level)
       /\ headings' = Opened(level)
       /\ Add("heading", Opened(level), {index}, index + 1)

\* Mutant of Closes: any fence closes the code.
ClosesAny(fence, line) == line \in Fences

\* Code ends at a fence of the kind that began it, or with the text.
Closes(fence, line) == line = fence

Code ==
  /\ Scanning /\ lines[index] \in Fences
  /\ LET end == After(index + 1, {i \in DOMAIN lines : ~Closes(lines[index], lines[i])})
         next == IF end <= Len(lines) THEN end + 1 ELSE end
     IN Add("code", headings, (index + 1)..(end - 1), next)
  /\ UNCHANGED headings

List ==
  /\ Scanning /\ lines[index] = "item"
  /\ LET next == After(index, {i \in DOMAIN lines : lines[i] \in {"item", "indented"}})
     IN Add("list", headings, index..(next - 1), next)
  /\ UNCHANGED headings

Table ==
  /\ Scanning /\ AtTable(index)
  /\ LET next == After(index, {i \in DOMAIN lines : HasPipe(lines[i])})
     IN Add("table", headings, index..(next - 1), next)
  /\ UNCHANGED headings

\* What begins another block interrupts a paragraph, not only a blank line.
Interrupts(i) ==
  \/ lines[i] \in Fences \cup {"item"}
  \/ IsHeading(lines[i])
  \/ AtTable(i)

Paragraph ==
  /\ Scanning /\ lines[index] # "blank" /\ ~Interrupts(index)
  /\ LET next == After(index, {i \in DOMAIN lines : lines[i] # "blank" /\ ~Interrupts(i)})
     IN Add("paragraph", headings, index..(next - 1), next)
  /\ UNCHANGED headings

\* A document without blocks is refused.
EndOfText ==
  /\ outcome = "parsing" /\ index > Len(lines)
  /\ outcome' = IF blocks = <<>> THEN "empty" ELSE "parsed"
  /\ UNCHANGED <<lines, index, headings, blocks>>

Init ==
  /\ lines \in Texts
  /\ index = 1
  /\ headings = <<>>
  /\ blocks = <<>>
  /\ outcome = "parsing"

Next == SkipBlank \/ Heading \/ Code \/ List \/ Table \/ Paragraph \/ EndOfText

Spec == Init /\ [][Next]_vars

(***************************************************************************)
(* Reference: line by line.                                                *)
(***************************************************************************)
\* The fence whose code is open behind line i.
FenceBehind ==
  LET f[i \in 0..Len(lines)] ==
        IF i = 0 THEN "none"
        ELSE IF f[i - 1] # "none" THEN IF lines[i] = f[i - 1] THEN "none" ELSE f[i - 1]
        ELSE IF lines[i] \in Fences THEN lines[i] ELSE "none"
  IN f

InCode(i) == FenceBehind[i - 1] # "none" /\ FenceBehind[i] # "none"

IsFence(i) == FenceBehind[i - 1] # FenceBehind[i]

LevelAt(i) == CHOOSE level \in Levels : lines[i] = HeadingOf(level)

HeadingAt(i) == IsHeading(lines[i]) /\ ~InCode(i)

\* The headings that enclose line i: no heading of their level or above follows them.
Enclosing(i) ==
  {h \in 1..i : /\ HeadingAt(h)
                /\ \A g \in (h + 1)..i : HeadingAt(g) => LevelAt(g) > LevelAt(h)}

(***************************************************************************)
(* Properties.                                                             *)
(***************************************************************************)

\* Every line with text is in exactly one block, in the order of the text; code is
\* what stands between fences; and a block stands under the headings that
\* enclose it, whatever levels the headings before them had.
BlocksFollowText ==
  outcome = "parsed" =>
    /\ \A b \in 1..(Len(blocks) - 1) : blocks[b].last < blocks[b + 1].first
    /\ \A i \in DOMAIN lines : lines[i] # "blank" /\ ~IsFence(i) =>
         \E b \in DOMAIN blocks :
           /\ i \in blocks[b].first..blocks[b].last
           /\ blocks[b].kind = "code" <=> InCode(i)
           /\ blocks[b].path = Arranged(Enclosing(i), Ascending(1..i))
=============================================================================
