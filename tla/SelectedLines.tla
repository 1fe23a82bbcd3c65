----------------------------- MODULE SelectedLines -----------------------------
(***************************************************************************)
(* SelectedLinesDiffMaker: the file that has some of the changed lines of  *)
(* a diff and not the others.  commit(amend:), discardLine and discardPart *)
(* write what it returns to the work directory.  It walks through HEAD's   *)
(* version and the file on disk, line by line, and goes by the line        *)
(* numbers of the diff; here one branch of its loop is one action, and the *)
(* file it ought to make is a definition of its own.                       *)
(*                                                                         *)
(* git and Swift do not count lines alike.  To git the newline belongs to  *)
(* its line; String.lines splits at newlines, so that a text that ends in  *)
(* one has an empty line more.                                             *)
(***************************************************************************)
EXTENDS Naturals, Sequences, FiniteSetsExt, SequencesExt

CONSTANTS
    Line,       \* what a line may be
    Blank,      \* the empty line
    NoFile,     \* there is no such file
    MaxLines    \* bound on the lines of a file

ASSUME LineAssumption == Blank \in Line /\ NoFile \notin Line /\ MaxLines \in Nat

\* A text: its lines, and whether the last one ends in a newline.
Text == {t \in [lines : SeqOf(Line, MaxLines), newline : BOOLEAN] :
             ~t.newline => t.lines # <<>> /\ Last(t.lines) # Blank}

VARIABLES
    head, work,              \* the file in HEAD and on disk
    deleted, added,          \* the diff: line numbers of HEAD's lines that are gone, of new lines
    selDeleted, selAdded,    \* selectedLines
    headLineIndex, currentLineIndex, result,
    at                       \* "loop", or how the loop was left: "end", "break"

vars == <<head, work, deleted, added, selDeleted, selAdded, headLineIndex, currentLineIndex,
          result, at>>

----------------------------------------------------------------------------
\* String.lines.
LinesIn(t) == IF t.newline THEN Append(t.lines, Blank) ELSE t.lines

Numbers(t) == IF t = NoFile THEN {} ELSE DOMAIN t.lines

\* The place of x in a set ordered by the relation R, and that set as a sequence.
Place(x, S, R) == Cardinality({y \in S : <<y, x>> \in R}) + 1
InOrder(S, R) == [n \in 1 .. Cardinality(S) |-> CHOOSE x \in S : Place(x, S, R) = n]

\* The numbers in S as a sequence.
Sorted(S) == InOrder(S, {p \in S \X S : p[1] < p[2]})

\* The lines of t as git compares them: with their newlines.
GitLines(t) ==
    [i \in Numbers(t) |-> <<t.lines[i], t.newline \/ i < Len(t.lines)>>]

\* Those lines without the ones numbered in gone.
Without(t, gone) ==
    LET rest == Sorted(Numbers(t) \ gone)
    IN [i \in DOMAIN rest |-> GitLines(t)[rest[i]]]

\* The groups of neighbouring lines in S, from the first to the last.
Groups(S) ==
    {g \in S \X S : g[1] - 1 \notin S /\ g[2] + 1 \notin S /\ g[1] .. g[2] \subseteq S}

\* How many lines that stay come before line i.
Gap(t, gone, i) == Cardinality({k \in Numbers(t) \ gone : k < i})

\* git slides a group of changes down as far as it goes, unless it is in a gap where the other
\* text changes too, and joins it to the group before if it slides that far up.
Slid(t, S, gaps) ==
    LET line == GitLines(t)
        Down(g) == g[2] + 1 \in Numbers(t) /\ line[g[1]] = line[g[2] + 1]
        Joins(g) == \E k \in 1 .. g[1] : /\ g[1] - k - 1 \in S
                                         /\ \A i \in 1 .. k : /\ g[1] - i \in Numbers(t) \ S
                                                              /\ line[g[1] - i] = line[g[2] - i + 1]
    IN \A g \in Groups(S) : ~Joins(g) /\ (Down(g) => Gap(t, S, g[1]) \in gaps)

\* The shortest diffs of two texts that git may come to.
Diffs(a, b) ==
    LET all == {d \in (SUBSET Numbers(a)) \X (SUBSET Numbers(b)) : Without(a, d[1]) = Without(b, d[2])}
        Size(d) == Cardinality(d[1]) + Cardinality(d[2])
        least == Min({Size(d) : d \in all})
        Gaps(t, S) == {Gap(t, S, i) : i \in S}
    IN {d \in all :
            /\ Size(d) = least
            /\ Slid(a, d[1], Gaps(b, d[2])) /\ Slid(b, d[2], Gaps(a, d[1]))}

Init ==
    /\ head \in {NoFile} \cup Text /\ work \in {NoFile} \cup Text
    /\ head # work
    /\ \E d \in Diffs(head, work) : deleted = d[1] /\ added = d[2]
    /\ selDeleted \in SUBSET deleted /\ selAdded \in SUBSET added
    /\ headLineIndex = 1 /\ currentLineIndex = 1
    /\ result = <<>> /\ at = "loop"

----------------------------------------------------------------------------
(* makeFileWithSelectedLinesForModifiedFile; indices start at 1 here.      *)

inputs == <<head, work, deleted, added, selDeleted, selAdded>>

Modified == head # NoFile /\ work # NoFile
InLoop ==
    /\ Modified /\ at = "loop"
    /\ headLineIndex <= Len(LinesIn(head)) /\ currentLineIndex <= Len(LinesIn(work))

headFileLine == LinesIn(head)[headLineIndex]
currentFileLine == LinesIn(work)[currentLineIndex]

\* Mutated form of Match: a line that was added is taken for one both files have.
MatchAdded == headFileLine = currentFileLine

\* Two lines which have the same content, and it is not an addition.
Match == headFileLine = currentFileLine /\ currentLineIndex \notin added

TakeBoth ==
    /\ InLoop /\ Match
    /\ result' = Append(result, currentFileLine)
    /\ headLineIndex' = headLineIndex + 1 /\ currentLineIndex' = currentLineIndex + 1
    /\ UNCHANGED <<inputs, at>>

\* A deletion: left out if it is selected, else HEAD's line is kept.
SkipDeleted ==
    /\ InLoop /\ ~Match /\ headLineIndex \in selDeleted
    /\ headLineIndex' = headLineIndex + 1
    /\ UNCHANGED <<inputs, currentLineIndex, result, at>>

KeepDeleted ==
    /\ InLoop /\ ~Match /\ headLineIndex \in deleted \ selDeleted
    /\ result' = Append(result, headFileLine)
    /\ headLineIndex' = headLineIndex + 1
    /\ UNCHANGED <<inputs, currentLineIndex, at>>

\* Mutated form of TakeAdded: the added line comes before the deletions of the same place.
TakeAddedFirst ==
    /\ InLoop /\ ~Match /\ currentLineIndex \in selAdded
    /\ result' = Append(result, currentFileLine)
    /\ currentLineIndex' = currentLineIndex + 1
    /\ UNCHANGED <<inputs, headLineIndex, at>>

\* An addition: taken if it is selected, else left out.
TakeAdded ==
    /\ InLoop /\ ~Match /\ headLineIndex \notin deleted /\ currentLineIndex \in selAdded
    /\ result' = Append(result, currentFileLine)
    /\ currentLineIndex' = currentLineIndex + 1
    /\ UNCHANGED <<inputs, headLineIndex, at>>

SkipAdded ==
    /\ InLoop /\ ~Match /\ headLineIndex \notin deleted /\ currentLineIndex \in added \ selAdded
    /\ currentLineIndex' = currentLineIndex + 1
    /\ UNCHANGED <<inputs, headLineIndex, result, at>>

\* None of these: "the file is done".
Break ==
    /\ InLoop /\ ~Match /\ headLineIndex \notin deleted /\ currentLineIndex \notin added
    /\ at' = "break"
    /\ UNCHANGED <<inputs, headLineIndex, currentLineIndex, result>>

\* The while loop ends with the first of the two files.
EndOfFile ==
    /\ Modified /\ at = "loop"
    /\ headLineIndex > Len(LinesIn(head)) \/ currentLineIndex > Len(LinesIn(work))
    /\ at' = "end"
    /\ UNCHANGED <<inputs, headLineIndex, currentLineIndex, result>>

\* makeFileWithSelectedLinesForDeletedFile: HEAD's lines without the selected ones.
MakeDeleted ==
    /\ at = "loop" /\ work = NoFile
    /\ LET rest == Sorted(DOMAIN LinesIn(head) \ selDeleted)
       IN result' = [i \in DOMAIN rest |-> LinesIn(head)[rest[i]]]
    /\ at' = "end"
    /\ UNCHANGED <<inputs, headLineIndex, currentLineIndex>>

\* makeFileWithSelectedLinesForAddedFile: the selected lines.
MakeAdded ==
    /\ at = "loop" /\ head = NoFile
    /\ LET lines == Sorted(selAdded)
       IN result' = [i \in DOMAIN lines |-> work.lines[lines[i]]]
    /\ at' = "end"
    /\ UNCHANGED <<inputs, headLineIndex, currentLineIndex>>

Next ==
    \/ TakeBoth \/ SkipDeleted \/ KeepDeleted \/ TakeAdded \/ SkipAdded \/ Break \/ EndOfFile
    \/ MakeDeleted \/ MakeAdded

Spec == Init /\ [][Next]_vars

----------------------------------------------------------------------------
(* The file that ought to come out.                                        *)

KeptHead == Numbers(head) \ deleted

\* The gap a change is in, between two lines that stay.
GapOfDeleted(i) == Gap(head, deleted, i)
GapOfAdded(j) == Gap(work, added, j)

\* What the right file consists of, gap by gap: the deleted lines that stay, the added lines that
\* are taken and the line that ends the gap.
Items ==
    {<<GapOfDeleted(i), 1, i>> : i \in deleted \ selDeleted}
        \cup {<<GapOfAdded(j), 2, j>> : j \in selAdded}
        \cup {<<GapOfDeleted(i), 3, i>> : i \in KeptHead}

Before(x, y) ==
    \/ x[1] < y[1]
    \/ x[1] = y[1] /\ x[2] < y[2]
    \/ x[1] = y[1] /\ x[2] = y[2] /\ x[3] < y[3]

LineOf(x) == IF x[2] = 2 THEN work.lines[x[3]] ELSE head.lines[x[3]]

\* HEAD's version with the selected changes made.
Expected ==
    LET order == InOrder(Items, {p \in Items \X Items : Before(p[1], p[2])})
        lines == [n \in DOMAIN order |-> LineOf(order[n])]
        newline == IF head = NoFile THEN work.newline ELSE head.newline
    IN IF newline THEN Append(lines, Blank) ELSE lines

\* The two files end in a line they share, be it the empty one behind the last newline.
EndAlike ==
    /\ Modified
    /\ head.newline = work.newline
    /\ head.newline \/ Len(head.lines) \notin deleted

\* Where lines are deleted and none is added, none of them looks like the line that follows.
DeletedLinesDiffer ==
    \A i \in deleted :
        LET gap == GapOfDeleted(i)
            next == {k \in KeptHead : k > i}
        IN \/ \E j \in added : GapOfAdded(j) = gap
           \/ head.lines[i] # IF next = {} THEN Blank ELSE head.lines[Min(next)]

\* Of a file that is modified, the file made is HEAD's version with the selected changes, as
\* long as the files end alike and deleted lines differ from the next line; of a deleted one it
\* always is; of a new one it is but for the newline at the end.
SelectedChangesMade ==
    at # "loop" =>
        /\ EndAlike /\ DeletedLinesDiffer => result = Expected
        /\ work = NoFile => result = Expected
        /\ head = NoFile => result = SubSeq(Expected, 1, Len(Expected) - IF work.newline THEN 1 ELSE 0)

\* Even when the files end differently nothing is lost but the end: at every moment the result is
\* a beginning of the right file, with no line out of order, doubled or left out.
ABeginning == DeletedLinesDiffer => IsPrefix(result, Expected)
=============================================================================
