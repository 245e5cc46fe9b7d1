-------------------------------- MODULE Sections --------------------------------
(* The sections of a Markdown document (nova_core.parsing.markdown).            *)
(*                                                                              *)
(* A line is one of the kinds the parser tells apart: [is |-> "text"], "blank", *)
(* "delim" (---), "heading" with its level, and "fence": a run of `size` marks  *)
(* of one kind, with an info string or not.  A title is the line it is on; what *)
(* the text mentions and the type of the document are left out.                 *)
EXTENDS Integers, SequencesExt

\* The titles of what has none.
FrontMatterPath == <<0>>
PreamblePath == <<-1>>

\* The line that closes the front matter, 0 without one.
FrontMatter(lines) ==
    LET ends == {i \in 2..Len(lines) : lines[i].is = "delim"} IN
    IF lines = <<>> \/ lines[1].is # "delim" \/ ends = {} THEN 0
    ELSE CHOOSE i \in ends : \A j \in ends : i <= j

\* A fence of backticks is none when its info string has a backtick.
Opens(line) == line.is = "fence" /\ ~(line.mark = "backtick" /\ line.info = "backtick")

Closes(line, fence) ==
    line.is = "fence" /\ line.mark = fence.mark /\ line.size >= fence.size /\ line.info = "none"

NoFence == [line |-> 0]

\* Headings and code fences from a line on: inside a fence nothing is a heading,
\* and a fence that is not closed goes to the end.
Scan(lines, from) ==
    LET Step(acc, i) ==
            IF i < from THEN acc
            ELSE IF acc.open.line # 0
            THEN IF Closes(lines[i], acc.open)
                 THEN [acc EXCEPT !.open = NoFence,
                                  !.fences = Append(@, [line |-> acc.open.line, close |-> i])]
                 ELSE acc
            ELSE IF Opens(lines[i])
            THEN [acc EXCEPT !.open = [line |-> i, mark |-> lines[i].mark, size |-> lines[i].size]]
            ELSE IF lines[i].is = "heading"
            THEN [acc EXCEPT !.headings = Append(@, [line |-> i, level |-> lines[i].level])]
            ELSE acc
        end == FoldLeft(Step, [open |-> NoFence, fences |-> <<>>, headings |-> <<>>],
                        [i \in DOMAIN lines |-> i])
    IN  [headings |-> end.headings,
         fences |-> IF end.open.line = 0 THEN end.fences
                    ELSE Append(end.fences, [line |-> end.open.line, close |-> Len(lines) + 1])]

\* Each heading's chain of titles: the stack keeps what is of a higher rank.
HeadingPaths(headings) ==
    LET Step(acc, h) ==
            LET stack == SelectSeq(acc.stack, LAMBDA g : g.level < h.level) IN
            [stack |-> Append(stack, h),
             paths |-> Append(acc.paths, [i \in 1..(Len(stack) + 1) |-> Append(stack, h)[i].line])]
    IN  FoldLeft(Step, [stack |-> <<>>, paths |-> <<>>], headings).paths

\* A section ends before the next heading of the same or a higher rank.
SectionEnd(headings, k, total) ==
    LET later == {j \in (k + 1)..Len(headings) : headings[j].level <= headings[k].level} IN
    IF later = {} THEN total
    ELSE headings[CHOOSE j \in later : \A i \in later : j <= i].line - 1

Drafts(lines, headings, front) ==
    LET last == IF headings = <<>> THEN Len(lines) ELSE headings[1].line - 1
        paths == HeadingPaths(headings)
    IN  (IF front = 0 THEN {} ELSE {[path |-> FrontMatterPath, start |-> 1, end |-> front]})
        \cup (IF \A i \in (front + 1)..last : lines[i].is = "blank" THEN {}
              ELSE {[path |-> PreamblePath, start |-> front + 1, end |-> last]})
        \cup {[path |-> paths[k], start |-> headings[k].line,
               end |-> SectionEnd(headings, k, Len(lines))] : k \in DOMAIN headings}

\* A fence belongs to the innermost section.
Owned(drafts, draft, fences) ==
    {f \in ToSet(fences) :
        /\ draft.start <= f.line /\ f.line <= draft.end
        /\ ~\E d \in drafts : d.start > draft.start /\ d.start <= f.line /\ f.line <= d.end}

SpecBlocks(lines) ==
    LET front == FrontMatter(lines)
        found == Scan(lines, front + 1)
        drafts == Drafts(lines, found.headings, front)
    IN  {[path |-> d.path, start |-> d.start, end |-> d.end,
          fences |-> Owned(drafts, d, found.fences)] : d \in drafts}

================================================================================
