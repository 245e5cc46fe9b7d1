------------------------------- MODULE TextSplit -------------------------------
(* Text without structure is cut into blocks (nova_core.parsing.fallback): at  *)
(* blank lines, where that is not enough at line ends, then at spaces, and a   *)
(* single long word anywhere.                                                  *)
(*                                                                             *)
(* A text is a sequence of the characters the splitter tells apart: NL ends a  *)
(* line, FF stands for the other characters str.splitlines() breaks a line at, *)
(* a space, and any other character.  Offsets count from 0.                    *)
EXTENDS Integers, SequencesExt

CONSTANTS
    MaxLines,   \* FALLBACK_MAX_LINES
    MaxChars    \* FALLBACK_MAX_CHARS

ASSUME TextSplitConstants == MaxLines \in Nat \ {0} /\ MaxChars \in Nat \ {0}

NL == "nl"
FF == "ff"
Space == " "

\* The separators in the order they are tried.
Separators == <<<<NL, NL>>, <<NL>>, <<Space>>>>

\* str.strip() leaves nothing.
Blank(text) == ToSet(text) \subseteq {NL, FF, Space}

LineEnds(text) == {i \in DOMAIN text : text[i] = NL}

CountLines(text) ==
    Cardinality(LineEnds(text)) + IF text = <<>> \/ Last(text) = NL THEN 0 ELSE 1

Fits(text) == CountLines(text) <= MaxLines /\ Len(text) <= MaxChars

LineNumber(text, offset) == 1 + Cardinality({i \in LineEnds(text) : i <= offset})

InOrder(positions, n) == SelectSeq([i \in 1..n |-> i], LAMBDA i : i \in positions)

\* The text from each of the positions to the next one.
CutAt(text, positions) ==
    LET starts == InOrder(positions, Len(text))
        End(k) == IF k = Len(starts) THEN Len(text) ELSE starts[k + 1] - 1
    IN  [k \in DOMAIN starts |-> [at |-> starts[k] - 1, text |-> SubSeq(text, starts[k], End(k))]]

\* The pieces keep the separator they end with; separators do not overlap.
SplitKeep(text, separator) ==
    LET Run(i) == {j \in 1..i : \A k \in j..i : text[k] = separator[1]}
        ends == {i \in DOMAIN text :
                    Run(i) # {} /\ Cardinality(Run(i)) % Len(separator) = 0}
    IN  CutAt(text, {1} \cup {i + 1 : i \in ends \ {Len(text)}})

HardCut(text) == CutAt(text, {i \in DOMAIN text : (i - 1) % MaxChars = 0})

Shifted(pieces, offset) == [k \in DOMAIN pieces |-> [pieces[k] EXCEPT !.at = @ + offset]]

RECURSIVE Split(_, _, _)

Nothing == [at |-> 0, text |-> <<>>]

\* Pieces are put together as long as they fit; one that is too large itself is
\* cut by the separators that are left.
Group(pieces, deeper) ==
    LET Emit(acc) ==
            IF acc.current.text = <<>> THEN acc.out ELSE Append(acc.out, acc.current)
        Add(acc, piece) ==
            IF ~Fits(piece.text)
            THEN [out |-> Emit(acc) \o Split(piece.text, piece.at, deeper), current |-> Nothing]
            ELSE IF acc.current.text # <<>> /\ Fits(acc.current.text \o piece.text)
            THEN [acc EXCEPT !.current.text = @ \o piece.text]
            ELSE [out |-> Emit(acc), current |-> piece]
    IN  Emit(FoldLeft(Add, [out |-> <<>>, current |-> Nothing], pieces))

Usable(text, separators) ==
    {i \in DOMAIN separators : Len(SplitKeep(text, separators[i])) > 1}

First(indices) == CHOOSE i \in indices : \A j \in indices : i <= j

\* Mutant: the offsets of a nested split start again from the piece.
SplitRelative(text, offset, separators) ==
    IF Fits(text) THEN <<[at |-> offset, text |-> text]>>
    ELSE IF Usable(text, separators) = {} THEN Shifted(HardCut(text), offset)
    ELSE LET i == First(Usable(text, separators)) IN
         Group(SplitKeep(text, separators[i]), SubSeq(separators, i + 1, Len(separators)))

Split(text, offset, separators) ==
    IF Fits(text) THEN <<[at |-> offset, text |-> text]>>
    ELSE IF Usable(text, separators) = {} THEN Shifted(HardCut(text), offset)
    ELSE LET i == First(Usable(text, separators)) IN
         Group(Shifted(SplitKeep(text, separators[i]), offset),
               SubSeq(separators, i + 1, Len(separators)))

SplitFallback(text) ==
    IF text = <<>> THEN <<>>
    ELSE LET pieces == Split(text, 0, Separators) IN
         [k \in DOMAIN pieces |->
            [start |-> LineNumber(text, pieces[k].at),
             end |-> LineNumber(text, pieces[k].at + Len(pieces[k].text) - 1),
             text |-> pieces[k].text]]

================================================================================
