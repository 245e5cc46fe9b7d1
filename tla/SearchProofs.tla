------------------------------ MODULE SearchProofs -----------------------------
(***************************************************************************)
(* What Search promises holds for any corpus, budget, questions, models,   *)
(* ingests and changes of the model.                                       *)
(*                                                                         *)
(* First what an item of a pack shows and costs: its segments, a candidate *)
(* that is cut short, an item into which a neighbour is merged.  Then the  *)
(* account: PackInv says that the items are well formed, that what was     *)
(* placed is what they stand for, and that every running sum is the sum    *)
(* over them (AccountsMatch); BudgetInv adds, of each stage, what the sums *)
(* may have come to (Budgets).  Last the query cache: a vector is filed    *)
(* under the model that made it, unless it came after its search had given *)
(* it up (CacheOfModel).                                                   *)
(***************************************************************************)
EXTENDS Search, ListLemmas

--------------------------------------------------------------------------------
(* Segments.                                                                  *)

Segments == {s \in [start : Nat, end : Nat] : s.start <= s.end}

\* The lines that segments show.
Within(s, line) == s.start <= line /\ line <= s.end
Lines(list) == {line \in Nat : \E k \in DOMAIN list : Within(list[k], line)}

\* One interval without another: the lines of the first that are not in the second.
LEMMA BesideLines ==
    ASSUME NEW piece \in Segments, NEW other \in Segments
    PROVE  /\ Beside(piece, other) \in Seq(Segments)
           /\ \A line \in Nat : line \in Lines(Beside(piece, other)) <=>
                  Within(piece, line) /\ ~Within(other, line)
<1> DEFINE left == Segment(piece.start, other.start - 1)
           right == Segment(other.end + 1, piece.end)
           a == IF other.start > piece.start THEN <<left>> ELSE <<>>
           b == IF other.end < piece.end THEN <<right>> ELSE <<>>
<1>1. /\ piece.start \in Nat /\ piece.end \in Nat /\ piece.start <= piece.end
      /\ other.start \in Nat /\ other.end \in Nat /\ other.start <= other.end
    BY DEF Segments
<1>2. CASE other.end < piece.start \/ other.start > piece.end
  <2>1. Beside(piece, other) = <<piece>>
      BY <1>2 DEF Beside
  <2>2. \A line \in Nat : Within(piece, line) => ~Within(other, line)
      BY <1>1, <1>2 DEF Within
  <2>3. \A line \in Nat : line \in Lines(<<piece>>) <=> Within(piece, line)
      BY DEF Lines
  <2> QED BY <2>1, <2>2, <2>3
<1>3. CASE ~(other.end < piece.start \/ other.start > piece.end)
  <2>1. Beside(piece, other) = a \o b
      BY <1>3 DEF Beside
  <2>2. other.start > piece.start => /\ left \in Segments
                                     /\ \A line \in Nat : Within(left, line) <=> Within(piece, line) /\ line < other.start
      BY <1>1, <1>3 DEF Segments, Segment, Within
  <2>3. other.end < piece.end => /\ right \in Segments
                                 /\ \A line \in Nat : Within(right, line) <=> Within(piece, line) /\ line > other.end
      BY <1>1, <1>3 DEF Segments, Segment, Within
  <2>4. a \in Seq(Segments) /\ \A line \in Nat : line \in Lines(a) <=> Within(piece, line) /\ line < other.start
    <3> HIDE DEF left
    <3>1. CASE other.start > piece.start
        BY <2>2, <3>1 DEF Lines
    <3>2. CASE ~(other.start > piece.start)
      <4>1. \A line \in Nat : ~(Within(piece, line) /\ line < other.start)
          BY <1>1, <3>2 DEF Within
      <4>2. a = <<>>
          BY <3>2
      <4> HIDE DEF a
      <4> QED BY <4>1, <4>2 DEF Lines
    <3> QED BY <3>1, <3>2
  <2>5. b \in Seq(Segments) /\ \A line \in Nat : line \in Lines(b) <=> Within(piece, line) /\ line > other.end
    <3> HIDE DEF right
    <3>1. CASE other.end < piece.end
        BY <2>3, <3>1 DEF Lines
    <3>2. CASE ~(other.end < piece.end)
      <4>1. \A line \in Nat : ~(Within(piece, line) /\ line > other.end)
          BY <1>1, <3>2 DEF Within
      <4>2. b = <<>>
          BY <3>2
      <4> HIDE DEF b
      <4> QED BY <4>1, <4>2 DEF Lines
    <3> QED BY <3>1, <3>2
  <2> HIDE DEF a, b
  <2>6. a \o b \in Seq(Segments)
      BY <2>4, <2>5
  <2>7. Lines(a \o b) = Lines(a) \cup Lines(b)
    <3>1. ToSet(a \o b) = ToSet(a) \cup ToSet(b)
        BY <2>4, <2>5, ConcatHolds
    <3>2. \A s : Lines(s) = {line \in Nat : \E e \in ToSet(s) : Within(e, line)}
        BY DEF Lines, ToSet
    <3> QED BY <3>1, <3>2
  <2>8. \A line \in Nat : ~Within(other, line) <=> line < other.start \/ line > other.end
      BY <1>1 DEF Within
  <2>9. Lines(a) \subseteq Nat /\ Lines(b) \subseteq Nat
      BY DEF Lines
  <2> QED BY <2>1, <2>4, <2>5, <2>6, <2>7, <2>8, <2>9
<1> QED BY <1>2, <1>3

\* The pieces of a list that are beside one interval.
LEMMA CutLines ==
    ASSUME NEW list \in Seq(Segments), NEW other \in Segments,
           NEW cut, cut = FlattenSeq([i \in DOMAIN list |-> Beside(list[i], other)])
    PROVE  /\ cut \in Seq(Segments)
           /\ \A line \in Nat : line \in Lines(cut) <=> line \in Lines(list) /\ ~Within(other, line)
<1> DEFINE seqs == [i \in DOMAIN list |-> Beside(list[i], other)]
<1>1. \A i \in DOMAIN list : list[i] \in Segments
    OBVIOUS
<1>2. \A i \in DOMAIN list : Beside(list[i], other) \in Seq(Segments)
    BY <1>1, BesideLines
<1>3. seqs \in Seq(Seq(Segments)) /\ DOMAIN seqs = DOMAIN list
    BY <1>2
<1>4. \A i \in DOMAIN list : seqs[i] = Beside(list[i], other)
    OBVIOUS
<1> HIDE DEF seqs
<1>5. FlattenSeq(seqs) \in Seq(Segments)
      /\ ToSet(FlattenSeq(seqs)) = UNION {ToSet(seqs[i]) : i \in DOMAIN seqs}
    BY <1>3, FlattenHolds
<1>6. cut = FlattenSeq(seqs)
    BY DEF seqs
<1>7. \A i \in DOMAIN list, line \in Nat :
          line \in Lines(Beside(list[i], other)) <=> Within(list[i], line) /\ ~Within(other, line)
    BY <1>1, BesideLines
<1>8. \A s, line : line \in Lines(s) <=> line \in Nat /\ \E e \in ToSet(s) : Within(e, line)
    BY DEF Lines, ToSet
<1>9. \A s, line : line \in Lines(s) <=> line \in Nat /\ \E k \in DOMAIN s : Within(s[k], line)
    BY DEF Lines
<1>10. ASSUME NEW line \in Nat
       PROVE  line \in Lines(cut) <=> line \in Lines(list) /\ ~Within(other, line)
  <2>1. line \in Lines(cut) <=> \E i \in DOMAIN list : line \in Lines(Beside(list[i], other))
      BY <1>3, <1>4, <1>5, <1>6, <1>8
  <2> QED BY <1>7, <1>9, <2>1
<1> QED BY <1>5, <1>6, <1>10

\* What of an interval a list does not show.
LEMMA UncoveredLines ==
    ASSUME NEW segment \in Segments, NEW existing \in Seq(Segments)
    PROVE  /\ UncoveredPieces(segment, existing) \in Seq(Segments)
           /\ \A line \in Nat : line \in Lines(UncoveredPieces(segment, existing)) <=>
                  Within(segment, line) /\ line \notin Lines(existing)
<1> DEFINE N == Len(existing)
           S == Seq(Segments)
           Cut(i, list) == FlattenSeq([j \in DOMAIN list |-> Beside(list[j], existing[i])])
           Body(f) == [n \in 0 .. N |-> IF n = 0 THEN <<segment>> ELSE Cut(n, f[n - 1])]
           all == CHOOSE f : f = Body(f)
           step == [p \in (1 .. N) \X S |-> Cut(p[1], p[2])]
<1>1. N \in Nat /\ DOMAIN existing = 1 .. N /\ \A i \in 1 .. N : existing[i] \in Segments
    OBVIOUS
<1>2. <<segment>> \in S /\ \A line \in Nat : line \in Lines(<<segment>>) <=> Within(segment, line)
    BY DEF Lines
<1>3. \A i \in 1 .. N, list \in S :
         /\ Cut(i, list) \in S
         /\ \A line \in Nat : line \in Lines(Cut(i, list)) <=> line \in Lines(list) /\ ~Within(existing[i], line)
    BY <1>1, CutLines
<1>4. UncoveredPieces(segment, existing) = all[N]
    BY DEF UncoveredPieces
<1> HIDE DEF S, N, Cut
<1>5. step \in Steps(N, S) /\ \A i \in 1 .. N, x \in S : step[<<i, x>>] = Cut(i, x)
  <2>1. \A i \in 1 .. N, x \in S : step[<<i, x>>] = Cut(i, x)
      OBVIOUS
  <2>2. \A p \in (1 .. N) \X S : Cut(p[1], p[2]) \in S
      BY <1>3
  <2>3. step \in [(1 .. N) \X S -> S]
      BY <2>2
  <2> QED BY <2>1, <2>3 DEF Steps
<1> HIDE DEF step
<1>6. PICK f : Iterates(f, N, S, <<segment>>, step)
  <2> HIDE DEF all
  <2> QED BY ONLY <1>1, <1>2, <1>5, Recursion
<1>7. f = Body(f)
  <2>1. \A i \in 1 .. N : f[i] = Cut(i, f[i - 1])
    <3>1. \A i \in 1 .. N : i - 1 \in 0 .. N
        BY <1>1
    <3> QED BY <1>5, <1>6, <3>1 DEF Iterates
  <2>2. f = [n \in 0 .. N |-> f[n]] /\ f[0] = <<segment>>
      BY <1>6 DEF Iterates
  <2>3. \A n \in 0 .. N : f[n] = IF n = 0 THEN <<segment>> ELSE Cut(n, f[n - 1])
      BY <1>1, <2>1, <2>2
  <2> QED BY <2>2, <2>3
<1>8. all = Body(all)
    BY <1>7
<1> HIDE DEF all
<1>9. all[0] = <<segment>> /\ \A i \in 1 .. N : all[i] = Cut(i, all[i - 1])
    BY <1>1, <1>8
<1> DEFINE Holds(n) == /\ all[n] \in S
                       /\ \A line \in Nat : line \in Lines(all[n]) <=>
                              Within(segment, line) /\ \A i \in 1 .. n : ~Within(existing[i], line)
           Good == {n \in Nat : n <= N => Holds(n)}
<1>10. Holds(0)
    BY <1>2, <1>9
<1>11. ASSUME NEW n \in Nat, Holds(n), n + 1 <= N PROVE Holds(n + 1)
  <2>1. n + 1 \in 1 .. N /\ n + 1 - 1 = n /\ 1 .. n + 1 = (1 .. n) \cup {n + 1}
      BY <1>1, <1>11
  <2>2. all[n + 1] = Cut(n + 1, all[n])
      BY <1>9, <2>1
  <2> QED BY <1>3, <1>11, <2>1, <2>2
<1> HIDE DEF Holds
<1>12. 0 \in Good /\ \A n \in Nat : n \in Good => n + 1 \in Good
  <2>1. \A n \in Nat : n + 1 <= N => n <= N
      BY <1>1
  <2> QED BY <1>10, <1>11, <2>1
<1> HIDE DEF Good
<1>13. N \in Good
    BY <1>1, <1>12, Induction
<1>14. Holds(N)
    BY <1>1, <1>13 DEF Good
<1>15. \A line \in Nat : line \notin Lines(existing) <=> \A i \in 1 .. N : ~Within(existing[i], line)
    BY <1>1 DEF Lines
<1> QED BY <1>4, <1>14, <1>15 DEF Holds, S

\* Segments by where they start.
LEMMA SortedSegmentLines ==
    ASSUME NEW list \in Seq(Segments)
    PROVE  /\ SortedSegments(list) \in Seq(Segments) /\ Len(SortedSegments(list)) = Len(list)
           /\ \A i, j \in 1 .. Len(list) :
                  i < j => SortedSegments(list)[i].start <= SortedSegments(list)[j].start
           /\ Lines(SortedSegments(list)) = Lines(list)
<1> DEFINE keys == [i \in DOMAIN list |-> list[i].start]
           t == SortedBy(keys, list)
<1>1. DOMAIN list = 1 .. Len(list) /\ \A i \in DOMAIN list : list[i].start \in Nat
    BY DEF Segments
<1>2. keys \in [DOMAIN list -> Int] /\ \A i \in DOMAIN list : keys[i] = list[i].start
    BY <1>1
<1>3. SortedSegments(list) = t
    BY DEF SortedSegments
<1> HIDE DEF keys
<1>4. /\ t \in Seq(Segments) /\ Len(t) = Len(list)
      /\ \E p : Sorting(keys, list, t, p)
    BY <1>2, SortedByKeys
<1> HIDE DEF t
<1>5. PICK p : Sorting(keys, list, t, p)
    BY <1>4
<1>6. /\ \A r \in DOMAIN list : p[r] \in DOMAIN list /\ t[r] = list[p[r]]
      /\ \A k \in DOMAIN list : \E r \in DOMAIN list : p[r] = k
    BY <1>5 DEF Sorting
<1>7. ASSUME NEW i \in 1 .. Len(list), NEW j \in 1 .. Len(list), i < j
      PROVE  t[i].start <= t[j].start
  <2>1. Precedes(keys, p[i], p[j])
      BY <1>1, <1>5, <1>7 DEF Sorting
  <2>2. keys[p[i]] <= keys[p[j]]
    <3>1. keys[p[i]] \in Int /\ keys[p[j]] \in Int
        BY <1>1, <1>2, <1>6
    <3>2. keys[p[i]] < keys[p[j]] \/ keys[p[i]] = keys[p[j]]
        BY <2>1 DEF Precedes
    <3> QED BY ONLY <3>1, <3>2
  <2> QED BY <1>1, <1>2, <1>6, <2>2
<1>8. DOMAIN t = DOMAIN list
    BY <1>4
<1>9. Lines(t) = Lines(list)
  <2>1. \A line : line \in Lines(t) => line \in Lines(list)
      BY <1>6, <1>8 DEF Lines
  <2>2. ASSUME NEW line \in Lines(list) PROVE line \in Lines(t)
    <3>1. PICK k \in DOMAIN list : Within(list[k], line)
        BY <2>2 DEF Lines
    <3>2. PICK r \in DOMAIN list : p[r] = k
        BY ONLY <1>6, <3>1
    <3>3. r \in DOMAIN t /\ t[r] = list[k]
        BY ONLY <1>6, <1>8, <3>2
    <3> QED BY <2>2, <3>1, <3>3 DEF Lines
  <2> QED BY <2>1, <2>2
<1> QED BY <1>3, <1>4, <1>7, <1>9

\* Segments in order, with a line between one and the next.
Apart(list) ==
    /\ list \in Seq(Segments)
    /\ \A k \in 2 .. Len(list) : list[k].start > list[k - 1].end + 1

\* One more segment, which does not start before the last one.
LEMMA JoinedLines ==
    ASSUME NEW list, Apart(list), NEW s \in Segments,
           list # <<>> => Last(list).start <= s.start
    PROVE  /\ Apart(Joined(list, s)) /\ Joined(list, s) # <<>>
           /\ Last(Joined(list, s)).start <= s.start
           /\ \A line \in Nat : line \in Lines(Joined(list, s)) <=> line \in Lines(list) \/ Within(s, line)
<1> DEFINE N == Len(list)
           t == Joined(list, s)
<1>1. list \in Seq(Segments) /\ N \in Nat /\ DOMAIN list = 1 .. N /\ \A i \in 1 .. N : list[i] \in Segments
    BY DEF Apart
<1>2. \A e \in Segments : e.start \in Nat /\ e.end \in Nat /\ e.start <= e.end
    BY DEF Segments
<1>3. Last(list) = list[N]
    BY DEF Last
<1>4. list # <<>> <=> N # 0
    BY <1>1
<1>5. \A l \in Seq(Segments), line \in Nat : line \in Lines(l) <=> \E k \in 1 .. Len(l) : Within(l[k], line)
    BY DEF Lines
<1>6. CASE list # <<>> /\ s.start <= Last(list).end + 1
  <2> DEFINE e == Segment(Last(list).start, Larger(Last(list).end, s.end))
             front == Front(list)
  <2>1. N \in 1 .. N /\ list[N] \in Segments
      BY <1>1, <1>4, <1>6
  <2>2. e \in Segments /\ e.start = list[N].start /\ e.end >= list[N].end /\ e.end >= s.end
        /\ e.end \in {list[N].end, s.end}
      BY <1>2, <1>3, <2>1 DEF Segments, Segment, Larger
  <2>3. t = Append(front, e)
      BY <1>6 DEF Joined
  <2>4. front \in Seq(Segments) /\ Len(front) = N - 1 /\ \A i \in 1 .. N - 1 : front[i] = list[i]
      BY <1>1, <2>1 DEF Front
  <2> HIDE DEF e, front, t, N
  <2>5. t \in Seq(Segments) /\ Len(t) = N /\ t[N] = e /\ \A i \in 1 .. N - 1 : t[i] = list[i]
    <3>1. N - 1 + 1 = N /\ N - 1 \in Nat
        BY <1>1, <2>1
    <3>2. Append(front, e) \in Seq(Segments) /\ Len(Append(front, e)) = Len(front) + 1
          /\ Append(front, e)[Len(front) + 1] = e
          /\ \A i \in 1 .. Len(front) : Append(front, e)[i] = front[i]
        BY <2>2, <2>4
    <3> QED BY <2>3, <2>4, <3>1, <3>2
  <2>6. Apart(t)
    <3>1. ASSUME NEW k \in 2 .. N PROVE t[k].start > t[k - 1].end + 1
      <4>1. list[k].start > list[k - 1].end + 1
          BY <3>1 DEF Apart, N
      <4>2. k - 1 \in 1 .. N - 1 /\ t[k - 1] = list[k - 1]
          BY <1>1, <2>5, <3>1
      <4>3. t[k].start = list[k].start
        <5>1. CASE k = N
            BY <2>2, <2>5, <5>1
        <5>2. CASE k # N
          <6>1. k \in 1 .. N - 1
              BY <1>1, <3>1, <5>2
          <6> QED BY <2>5, <6>1
        <5> QED BY <5>1, <5>2
      <4> QED BY <4>1, <4>2, <4>3
    <3> QED BY <2>5, <3>1 DEF Apart
  <2>7. t # <<>> /\ Last(t).start <= s.start
    <3>1. Len(t) # 0 /\ Last(t) = e
        BY <2>1, <2>5 DEF Last
    <3>2. e.start <= s.start
        BY <1>3, <1>6, <2>2
    <3> QED BY <3>1, <3>2
  <2>8. ASSUME NEW line \in Nat
        PROVE  line \in Lines(t) <=> line \in Lines(list) \/ Within(s, line)
    <3>1. Within(e, line) <=> Within(list[N], line) \/ Within(s, line)
      <4>1. list[N].start <= s.start /\ s.start <= list[N].end + 1
          BY <1>3, <1>6
      <4>2. /\ list[N].start \in Nat /\ list[N].end \in Nat /\ list[N].start <= list[N].end
            /\ s.start \in Nat /\ s.end \in Nat /\ s.start <= s.end
          BY <1>2, <2>1
      <4> QED BY <2>2, <4>1, <4>2 DEF Within
    <3>2. \A k : k \in 1 .. N <=> k \in 1 .. N - 1 \/ k = N
        BY <1>1, <2>1
    <3>3. line \in Lines(t) <=> (\E k \in 1 .. N - 1 : Within(list[k], line)) \/ Within(e, line)
        BY <1>5, <2>5, <3>2
    <3>4. line \in Lines(list) <=> (\E k \in 1 .. N - 1 : Within(list[k], line)) \/ Within(list[N], line)
        BY <1>1, <1>5, <3>2 DEF N
    <3> QED BY <3>1, <3>3, <3>4
  <2> QED BY <2>6, <2>7, <2>8 DEF t
<1>7. CASE ~(list # <<>> /\ s.start <= Last(list).end + 1)
  <2>1. t = Append(list, s)
      BY <1>7 DEF Joined
  <2>2. t \in Seq(Segments) /\ Len(t) = N + 1 /\ t[N + 1] = s /\ \A i \in 1 .. N : t[i] = list[i]
      BY <1>1, <2>1
  <2> HIDE DEF t, N
  <2>3. Apart(t)
    <3>1. ASSUME NEW k \in 2 .. N + 1 PROVE t[k].start > t[k - 1].end + 1
      <4>1. CASE k = N + 1
        <5>1. N \in 1 .. N /\ k - 1 = N /\ N # 0
            BY <1>1, <3>1, <4>1
        <5>2. s.start > list[N].end + 1
          <6>1. ~(s.start <= list[N].end + 1)
              BY <1>3, <1>4, <1>7, <5>1
          <6>2. list[N].end \in Nat /\ s.start \in Nat
              BY <1>1, <1>2, <5>1
          <6> QED BY <6>1, <6>2
        <5> QED BY <2>2, <4>1, <5>1, <5>2
      <4>2. CASE k # N + 1
        <5>1. k \in 2 .. N /\ k \in 1 .. N /\ k - 1 \in 1 .. N
            BY <1>1, <3>1, <4>2
        <5>2. list[k].start > list[k - 1].end + 1
            BY <5>1 DEF Apart, N
        <5> QED BY <2>2, <5>1, <5>2
      <4> QED BY <4>1, <4>2
    <3> QED BY <2>2, <3>1 DEF Apart
  <2>4. t # <<>> /\ Last(t) = s
      BY <1>1, <2>2 DEF Last
  <2>5. ASSUME NEW line \in Nat
        PROVE  line \in Lines(t) <=> line \in Lines(list) \/ Within(s, line)
    <3>1. \A k : k \in 1 .. N + 1 <=> k \in 1 .. N \/ k = N + 1
        BY <1>1
    <3>2. line \in Lines(t) <=> (\E k \in 1 .. N : Within(list[k], line)) \/ Within(s, line)
        BY <1>5, <2>2, <3>1
    <3>3. line \in Lines(list) <=> \E k \in 1 .. N : Within(list[k], line)
        BY <1>1, <1>5 DEF N
    <3> QED BY <3>2, <3>3
  <2>6. s.start <= s.start
      BY <1>2
  <2> QED BY <2>3, <2>4, <2>5, <2>6 DEF t
<1> QED BY <1>6, <1>7

\* What coalescing a list that is sorted shows: the same lines, in intervals that
\* are in order and apart.
LEMMA CoalesceLines ==
    ASSUME NEW list \in Seq(Segments),
           \A i, j \in 1 .. Len(list) : i < j => list[i].start <= list[j].start
    PROVE  /\ Apart(Coalesce(list)) /\ Lines(Coalesce(list)) = Lines(list)
           /\ list # <<>> => Coalesce(list) # <<>>
<1> DEFINE N == Len(list)
           S == Seq(Segments)
           Body(f) == [n \in 0 .. N |-> IF n = 0 THEN <<>> ELSE Joined(f[n - 1], list[n])]
           all == CHOOSE f : f = Body(f)
           step == [p \in (1 .. N) \X S |-> Joined(p[2], list[p[1]])]
<1>1. N \in Nat /\ DOMAIN list = 1 .. N /\ \A i \in 1 .. N : list[i] \in Segments
    OBVIOUS
<1>2. \A e \in Segments : e.start \in Nat /\ e.end \in Nat /\ e.start <= e.end
    BY DEF Segments
<1>3. <<>> \in S
    OBVIOUS
<1>4. \A x \in S, e \in Segments : Joined(x, e) \in S
  <2>1. ASSUME NEW x \in S, NEW e \in Segments PROVE Joined(x, e) \in S
    <3>1. CASE x # <<>> /\ e.start <= Last(x).end + 1
      <4> DEFINE l == Segment(Last(x).start, Larger(Last(x).end, e.end))
                 front == Front(x)
      <4>1. Len(x) \in 1 .. Len(x) /\ x[Len(x)] \in Segments
          BY <3>1
      <4>2. l \in Segments
          BY <1>2, <4>1 DEF Last, Segment, Segments, Larger
      <4>3. front \in S
          BY <4>1 DEF Front
      <4>4. Joined(x, e) = Append(front, l)
          BY <3>1 DEF Joined
      <4> HIDE DEF l, front
      <4> QED BY <4>2, <4>3, <4>4
    <3>2. CASE ~(x # <<>> /\ e.start <= Last(x).end + 1)
        BY <3>2 DEF Joined
    <3> QED BY <3>1, <3>2
  <2> QED BY <2>1
<1>5. Coalesce(list) = all[N]
    BY DEF Coalesce
<1> HIDE DEF S, N
<1>6. step \in Steps(N, S) /\ \A i \in 1 .. N, x \in S : step[<<i, x>>] = Joined(x, list[i])
  <2>1. \A i \in 1 .. N, x \in S : step[<<i, x>>] = Joined(x, list[i])
      OBVIOUS
  <2>2. \A p \in (1 .. N) \X S : Joined(p[2], list[p[1]]) \in S
      BY <1>1, <1>4
  <2>3. step \in [(1 .. N) \X S -> S]
      BY <2>2
  <2> QED BY <2>1, <2>3 DEF Steps
<1> HIDE DEF step
<1>7. PICK f : Iterates(f, N, S, <<>>, step)
  <2> HIDE DEF all
  <2> QED BY ONLY <1>1, <1>3, <1>6, Recursion
<1>8. f = Body(f)
  <2>1. \A i \in 1 .. N : f[i] = Joined(f[i - 1], list[i])
    <3>1. \A i \in 1 .. N : i - 1 \in 0 .. N
        BY <1>1
    <3> QED BY <1>6, <1>7, <3>1 DEF Iterates
  <2>2. f = [n \in 0 .. N |-> f[n]] /\ f[0] = <<>>
      BY <1>7 DEF Iterates
  <2>3. \A n \in 0 .. N : f[n] = IF n = 0 THEN <<>> ELSE Joined(f[n - 1], list[n])
    <3>1. \A n \in 0 .. N : n # 0 => n \in 1 .. N
        BY <1>1
    <3> QED BY <2>1, <2>2, <3>1
  <2> QED BY <2>2, <2>3
<1>9. all = Body(all)
    BY <1>8
<1> HIDE DEF all
<1>10. all[0] = <<>> /\ \A i \in 1 .. N : all[i] = Joined(all[i - 1], list[i])
    BY <1>1, <1>9
<1> DEFINE Holds(n) == /\ Apart(all[n]) /\ (n > 0 <=> all[n] # <<>>)
                       /\ n > 0 => Last(all[n]).start <= list[n].start
                       /\ \A line \in Nat : line \in Lines(all[n]) <=> \E i \in 1 .. n : Within(list[i], line)
           Good == {n \in Nat : n <= N => Holds(n)}
<1>11. Holds(0)
    BY <1>3, <1>10 DEF Apart, Lines, S
<1>12. ASSUME NEW n \in Nat, Holds(n), n + 1 <= N PROVE Holds(n + 1)
  <2>1. n + 1 \in 1 .. N /\ n + 1 - 1 = n /\ 1 .. n + 1 = (1 .. n) \cup {n + 1} /\ n + 1 > 0
      BY <1>1, <1>12
  <2>2. all[n + 1] = Joined(all[n], list[n + 1]) /\ list[n + 1] \in Segments
      BY <1>1, <1>10, <2>1
  <2>3. all[n] # <<>> => Last(all[n]).start <= list[n + 1].start
    <3>1. ASSUME n > 0 PROVE Last(all[n]).start <= list[n + 1].start
      <4>1. n \in 1 .. N /\ n < n + 1
          BY <1>1, <1>12, <3>1
      <4>2. list[n].start <= list[n + 1].start
          BY <2>1, <4>1 DEF N
      <4>3. Last(all[n]).start <= list[n].start
          BY <1>12, <3>1
      <4>4. /\ list[n].start \in Nat /\ list[n + 1].start \in Nat /\ Last(all[n]).start \in Nat
        <5>1. all[n] \in Seq(Segments) /\ all[n] # <<>>
            BY <1>12, <3>1 DEF Apart
        <5>2. Last(all[n]) \in Segments
            BY <5>1 DEF Last
        <5> QED BY <1>1, <1>2, <2>1, <4>1, <5>2
      <4> QED BY <4>2, <4>3, <4>4
    <3> QED BY <1>12, <3>1
  <2>4. /\ Apart(all[n + 1]) /\ all[n + 1] # <<>> /\ Last(all[n + 1]).start <= list[n + 1].start
        /\ \A line \in Nat : line \in Lines(all[n + 1]) <=> line \in Lines(all[n]) \/ Within(list[n + 1], line)
      BY <1>12, <2>2, <2>3, JoinedLines
  <2> QED BY <1>12, <2>1, <2>4
<1> HIDE DEF Holds
<1>13. 0 \in Good /\ \A n \in Nat : n \in Good => n + 1 \in Good
  <2>1. \A n \in Nat : n + 1 <= N => n <= N
      BY <1>1
  <2> QED BY <1>11, <1>12, <2>1
<1> HIDE DEF Good
<1>14. N \in Good
    BY <1>1, <1>13, Induction
<1>15. Holds(N)
    BY <1>1, <1>14 DEF Good
<1>16. Lines(all[N]) = Lines(list)
    BY <1>1, <1>15 DEF Holds, Lines
<1>17. list # <<>> => N > 0
    BY <1>1 DEF N
<1> QED BY <1>5, <1>15, <1>16, <1>17 DEF Holds

\* Of segments that are in order and apart, the earlier one ends before the later
\* one begins.
LEMMA ApartOrdered ==
    ASSUME NEW list, Apart(list)
    PROVE  \A i, j \in 1 .. Len(list) : i < j => list[i].end + 1 < list[j].start
<1> DEFINE N == Len(list)
           Good == {n \in Nat : n <= N => \A i \in 1 .. N : i < n => list[i].end + 1 < list[n].start}
<1>1. /\ N \in Nat /\ \A i \in 1 .. N : list[i].start \in Nat /\ list[i].end \in Nat /\ list[i].start <= list[i].end
    BY DEF Apart, Segments
<1>2. 0 \in Good
    OBVIOUS
<1>3. ASSUME NEW n \in Nat, n \in Good, n + 1 <= N, NEW i \in 1 .. N, i < n + 1
      PROVE  list[i].end + 1 < list[n + 1].start
  <2>1. n + 1 \in 2 .. N /\ n + 1 - 1 = n /\ n \in 1 .. N /\ n + 1 \in 1 .. N
      BY <1>1, <1>3
  <2>2. list[n + 1].start > list[n].end + 1
      BY <2>1 DEF Apart
  <2>3. CASE i = n
      BY <1>1, <2>1, <2>2, <2>3
  <2>4. CASE i # n
    <3>1. i < n
        BY <1>3, <2>1, <2>4
    <3>2. list[i].end + 1 < list[n].start
        BY <1>3, <2>1, <3>1
    <3>3. /\ list[i].end \in Nat /\ list[n].start \in Nat /\ list[n].end \in Nat /\ list[n].start <= list[n].end
          /\ list[n + 1].start \in Nat
        BY <1>1, <2>1
    <3>4. PICK a \in Nat, b \in Nat, c \in Nat, d \in Nat :
             a = list[i].end /\ b = list[n].start /\ c = list[n].end /\ d = list[n + 1].start
        BY ONLY <3>3
    <3>5. b <= c /\ d > c + 1 /\ a + 1 < b
        BY ONLY <2>2, <3>2, <3>3, <3>4
    <3>6. a + 1 < d
        BY ONLY <3>5, a \in Nat, b \in Nat, c \in Nat, d \in Nat
    <3> QED BY ONLY <3>4, <3>6
  <2> QED BY <2>3, <2>4
<1>4. \A n \in Nat : n \in Good => n + 1 \in Good
    BY <1>3
<1> HIDE DEF Good
<1>5. Nat \subseteq Good
    BY <1>2, <1>4, Induction
<1> QED BY <1>1, <1>5 DEF Good

\* The first and the last line.
LEMMA ApartBounds ==
    ASSUME NEW list, Apart(list), list # <<>>
    PROVE  /\ Head(list) \in Segments /\ Last(list) \in Segments
           /\ Head(list).start \in Lines(list) /\ Last(list).end \in Lines(list)
           /\ \A line \in Lines(list) : Head(list).start <= line /\ line <= Last(list).end
<1> DEFINE N == Len(list)
<1>1. N \in Nat /\ N # 0 /\ DOMAIN list = 1 .. N /\ \A i \in 1 .. N : list[i] \in Segments
    BY DEF Apart
<1>2. Head(list) = list[1] /\ Last(list) = list[N] /\ 1 \in 1 .. N /\ N \in 1 .. N
    BY <1>1 DEF Apart, Last
<1>3. \A e \in Segments : e.start \in Nat /\ e.end \in Nat /\ e.start <= e.end
    BY DEF Segments
<1>4. list[1].start \in Lines(list) /\ list[N].end \in Lines(list)
  <2>1. Within(list[1], list[1].start) /\ Within(list[N], list[N].end)
      BY <1>1, <1>2, <1>3 DEF Within
  <2> QED BY <1>1, <1>2, <1>3, <2>1 DEF Lines
<1>5. ASSUME NEW line \in Lines(list) PROVE list[1].start <= line /\ line <= list[N].end
  <2>1. line \in Nat
      BY DEF Lines
  <2>2. PICK k \in 1 .. N : Within(list[k], line)
      BY <1>1 DEF Lines
  <2>3. /\ list[1].start \in Nat /\ list[1].end \in Nat /\ list[1].start <= list[1].end
        /\ list[k].start \in Nat /\ list[k].end \in Nat /\ list[k].start <= list[k].end
        /\ list[N].start \in Nat /\ list[N].end \in Nat /\ list[N].start <= list[N].end
      BY <1>1, <1>2, <1>3
  <2>4. list[1].start <= list[k].start
    <3>1. k = 1 \/ 1 < k
        BY <1>1
    <3>2. 1 < k => list[1].end + 1 < list[k].start
        BY <1>2, ApartOrdered
    <3> QED BY <2>3, <3>1, <3>2
  <2>5. list[k].end <= list[N].end
    <3>1. k = N \/ k < N
      <4> HIDE DEF N
      <4> QED BY <1>1
    <3>2. k < N => list[k].end + 1 < list[N].start
        BY <1>2, ApartOrdered
    <3> QED BY <2>3, <3>1, <3>2
  <2> QED BY <2>1, <2>2, <2>3, <2>4, <2>5 DEF Within
<1> QED BY <1>1, <1>2, <1>4, <1>5

\* The lengths of segments that are in order and apart add up to the lines they show.
LEMMA ApartCount ==
    ASSUME NEW list, Apart(list)
    PROVE  /\ IsFiniteSet(Lines(list)) /\ Cardinality(Lines(list)) \in Nat
           /\ Sum(LineCount, list) = Cardinality(Lines(list))
<1> DEFINE N == Len(list)
           lengths == [i \in DOMAIN list |-> LineCount(list[i])]
           Upto(n) == {line \in Nat : \E i \in 1 .. n : Within(list[i], line)}
<1>1. N \in Nat /\ DOMAIN list = 1 .. N
      /\ \A i \in 1 .. N : list[i].start \in Nat /\ list[i].end \in Nat /\ list[i].start <= list[i].end
    BY DEF Apart, Segments
<1>2. lengths \in Seq(Int) /\ Len(lengths) = N /\ \A i \in 1 .. N : lengths[i] = list[i].end - list[i].start + 1
  <2>1. \A i \in 1 .. N : LineCount(list[i]) = list[i].end - list[i].start + 1 /\ LineCount(list[i]) \in Int
      BY <1>1 DEF LineCount
  <2>2. lengths \in [1 .. N -> Int]
      BY <1>1, <2>1
  <2>3. \A i \in 1 .. N : lengths[i] = LineCount(list[i])
      BY <1>1
  <2> HIDE DEF lengths, N
  <2> QED BY <1>1, <2>1, <2>2, <2>3
<1>3. Sum(LineCount, list) = Total(lengths)
    BY DEF Sum
<1>4. Lines(list) = Upto(N)
    BY <1>1 DEF Lines
<1> HIDE DEF lengths
<1>5. PICK f \in [0 .. Len(lengths) -> Int] :
          /\ f[0] = 0 /\ \A i \in 1 .. Len(lengths) : f[i] = f[i - 1] + lengths[i]
          /\ Total(lengths) = f[Len(lengths)]
    BY <1>2, PartialSums
<1> HIDE DEF N
<1> DEFINE Holds(n) == IsFiniteSet(Upto(n)) /\ Cardinality(Upto(n)) = f[n]
           Good == {n \in Nat : n <= N => Holds(n)}
<1>6. Holds(0)
  <2>1. Upto(0) = {}
      OBVIOUS
  <2> HIDE DEF Upto
  <2> QED BY <1>5, <2>1, FS_EmptySet
<1>7. ASSUME NEW n \in Nat, Holds(n), n + 1 <= N PROVE Holds(n + 1)
  <2> DEFINE new == list[n + 1].start .. list[n + 1].end
  <2>1. n + 1 \in 1 .. N /\ n + 1 - 1 = n /\ \A i : i \in 1 .. n + 1 <=> i \in 1 .. n \/ i = n + 1
      BY <1>1, <1>7
  <2>2. Upto(n + 1) = Upto(n) \cup new
    <3>1. list[n + 1].start \in Nat /\ list[n + 1].end \in Nat
        BY <1>1, <2>1
    <3>2. \A line : line \in new <=> line \in Nat /\ Within(list[n + 1], line)
        BY <3>1 DEF Within
    <3> HIDE DEF new
    <3> QED BY <2>1, <3>2
  <2>3. Upto(n) \cap new = {}
    <3>1. ASSUME NEW line \in Upto(n), line \in new PROVE FALSE
      <4>1. PICK i \in 1 .. n : Within(list[i], line)
          OBVIOUS
      <4>2. i \in 1 .. N /\ i < n + 1
          BY <1>1, <2>1
      <4>3. list[i].end + 1 < list[n + 1].start
          BY <2>1, <4>2, ApartOrdered DEF N
      <4>4. list[i].end \in Nat /\ list[n + 1].start \in Nat /\ line \in Nat /\ line <= list[i].end
            /\ line >= list[n + 1].start
          BY <1>1, <2>1, <3>1, <4>1, <4>2 DEF Within
      <4> QED BY <4>3, <4>4
    <3> QED BY <3>1
  <2>4. IsFiniteSet(new) /\ Cardinality(new) = lengths[n + 1]
    <3>1. list[n + 1].start \in Int /\ list[n + 1].end \in Int /\ ~(list[n + 1].start > list[n + 1].end)
        BY <1>1, <2>1
    <3>2. IsFiniteSet(new) /\ Cardinality(new) = IF list[n + 1].start > list[n + 1].end THEN 0
                                                   ELSE list[n + 1].end - list[n + 1].start + 1
        BY <3>1, FS_Interval
    <3> QED BY <1>2, <2>1, <3>1, <3>2
  <2> HIDE DEF new, Upto
  <2>5. IsFiniteSet(Upto(n) \cup new)
        /\ Cardinality(Upto(n) \cup new) = Cardinality(Upto(n)) + Cardinality(new) - Cardinality(Upto(n) \cap new)
      BY <1>7, <2>4, FS_Union
  <2>6. Cardinality(Upto(n) \cap new) = 0
      BY <2>3, FS_EmptySet
  <2>7. f[n + 1] = f[n] + lengths[n + 1] /\ f[n] \in Int /\ lengths[n + 1] \in Int
    <3>1. n \in 0 .. N
        BY <1>1, <1>7, <2>1
    <3> QED BY <1>1, <1>2, <1>5, <2>1, <3>1
  <2> QED BY <1>7, <2>2, <2>4, <2>5, <2>6, <2>7
<1> HIDE DEF Holds
<1>8. 0 \in Good /\ \A n \in Nat : n \in Good => n + 1 \in Good
  <2>1. \A n \in Nat : n + 1 <= N => n <= N
      BY <1>1
  <2> QED BY <1>6, <1>7, <2>1
<1> HIDE DEF Good
<1>9. N \in Good
    BY <1>1, <1>8, Induction
<1>10. Holds(N)
    BY <1>1, <1>9 DEF Good
<1>11. IsFiniteSet(Upto(N)) /\ Cardinality(Upto(N)) = f[N]
    BY <1>10 DEF Holds
<1> HIDE DEF Upto
<1>12. Cardinality(Upto(N)) \in Nat
    BY <1>11, FS_CardinalityType
<1> QED BY <1>2, <1>3, <1>4, <1>5, <1>11, <1>12

\* One interval more makes at most one run of lines more.
LEMMA RunsBounded ==
    ASSUME NEW old, Apart(old), NEW new, Apart(new), NEW s \in Segments,
           \A line \in Nat : line \in Lines(new) <=> line \in Lines(old) \/ Within(s, line)
    PROVE  Len(new) <= Len(old) + 1
<1> DEFINE N == Len(new)
           M == Len(old)
           From(k, j) == IF j = M + 1 THEN s.start = new[k].start ELSE old[j].start = new[k].start
           m == [k \in 1 .. N |-> CHOOSE j \in 1 .. M + 1 : From(k, j)]
<1>1. /\ N \in Nat /\ DOMAIN new = 1 .. N
      /\ \A i \in 1 .. N : new[i].start \in Nat /\ new[i].end \in Nat /\ new[i].start <= new[i].end
    BY DEF Apart, Segments
<1>2. /\ M \in Nat /\ DOMAIN old = 1 .. M
      /\ \A i \in 1 .. M : old[i].start \in Nat /\ old[i].end \in Nat /\ old[i].start <= old[i].end
    BY DEF Apart, Segments
<1>3. s.start \in Nat /\ s.end \in Nat /\ s.start <= s.end
    BY DEF Segments
<1>4. \A i, j \in 1 .. N : i < j => new[i].end + 1 < new[j].start
    BY ApartOrdered
<1> HIDE DEF N, M
<1>5. ASSUME NEW i \in 1 .. N, NEW j \in 1 .. N, new[i].start = new[j].start PROVE i = j
  <2>1. /\ new[i].start \in Nat /\ new[i].end \in Nat /\ new[i].start <= new[i].end
        /\ new[j].start \in Nat /\ new[j].end \in Nat /\ new[j].start <= new[j].end
      BY <1>1
  <2>2. ~(i < j)
    <3>1. ASSUME i < j PROVE FALSE
      <4>1. new[i].end + 1 < new[j].start
          BY <1>4, <3>1
      <4> QED BY ONLY <1>5, <2>1, <4>1
    <3> QED BY <3>1
  <2>3. ~(j < i)
    <3>1. ASSUME j < i PROVE FALSE
      <4>1. new[j].end + 1 < new[i].start
          BY <1>4, <3>1
      <4> QED BY ONLY <1>5, <2>1, <4>1
    <3> QED BY <3>1
  <2> QED BY <1>1, <2>2, <2>3
<1>6. ASSUME NEW k \in 1 .. N PROVE \E j \in 1 .. M + 1 : From(k, j)
  <2> DEFINE x == new[k].start
  <2>1. x \in Nat /\ x \in Lines(new)
      BY <1>1 DEF Lines, Within
  <2>2. x # 0 => x - 1 \in Nat /\ x - 1 \notin Lines(new)
    <3>1. ASSUME x # 0, NEW i \in 1 .. N, Within(new[i], x - 1) PROVE FALSE
      <4>1. /\ new[i].start \in Nat /\ new[i].end \in Nat /\ new[i].start <= new[i].end
            /\ new[k].start \in Nat /\ new[k].end \in Nat /\ new[k].start <= new[k].end
            /\ new[i].start <= new[k].start - 1 /\ new[k].start - 1 <= new[i].end
          BY <1>1, <3>1 DEF Within
      <4>2. ~(i < k)
        <5>1. i < k => new[i].end + 1 < new[k].start
            BY <1>4
        <5> QED BY <4>1, <5>1
      <4>3. ~(k < i)
        <5>1. k < i => new[k].end + 1 < new[i].start
            BY <1>4
        <5> QED BY <4>1, <5>1
      <4>4. i = k
          BY <1>1, <4>2, <4>3
      <4> QED BY <4>1, <4>4
    <3> QED BY <1>1, <2>1, <3>1 DEF Lines
  <2> HIDE DEF x
  <2>3. CASE Within(s, x)
    <3>1. s.start = x
      <4>1. x # 0 => ~Within(s, x - 1)
          BY <2>2
      <4> QED BY <1>3, <2>1, <2>3, <4>1 DEF Within
    <3>2. M + 1 \in 1 .. M + 1
        BY <1>2
    <3> QED BY <3>1, <3>2 DEF x
  <2>4. CASE ~Within(s, x)
    <3>1. x \in Lines(old) /\ (x # 0 => x - 1 \notin Lines(old))
        BY <2>1, <2>2, <2>4
    <3>2. PICK j \in 1 .. M : Within(old[j], x)
        BY <1>2, <3>1 DEF Lines
    <3>3. x # 0 => ~Within(old[j], x - 1)
        BY <1>2, <2>2, <3>1 DEF Lines
    <3>4. old[j].start \in Nat /\ old[j].end \in Nat
        BY <1>2
    <3>5. old[j].start = x
        BY <2>1, <3>2, <3>3, <3>4 DEF Within
    <3>6. j \in 1 .. M + 1 /\ j # M + 1
        BY <1>2
    <3> QED BY <3>5, <3>6 DEF x
  <2> QED BY <2>3, <2>4
<1>7. \A k \in 1 .. N : m[k] \in 1 .. M + 1 /\ From(k, m[k])
    BY <1>6
<1>8. \A k, l \in 1 .. N : m[k] = m[l] => k = l
    BY <1>5, <1>7
<1>9. m \in Injection(1 .. N, 1 .. M + 1)
    BY <1>7, <1>8 DEF Injection, IsInjective
<1> HIDE DEF m, From
<1>10. /\ IsFiniteSet(1 .. N) /\ Cardinality(1 .. N) = N
       /\ IsFiniteSet(1 .. M + 1) /\ Cardinality(1 .. M + 1) = M + 1
  <2>1. M + 1 \in Nat
      BY <1>2
  <2> QED BY <1>1, <2>1, IndexSet
<1>11. Cardinality(1 .. N) <= Cardinality(1 .. M + 1)
    BY <1>9, <1>10, FS_Injection
<1> QED BY <1>10, <1>11 DEF N, M

\* Lines that are added join no more runs than there are lines; and when the end
\* moves, the last run is a further one.
LEMMA RunsKept ==
    ASSUME NEW old, Apart(old), old # <<>>, NEW new, Apart(new), new # <<>>,
           Lines(old) \subseteq Lines(new), NEW moved \in {0, 1},
           moved = 1 => Last(old).end < Last(new).end
    PROVE  Len(old) + Cardinality(Lines(old)) + moved <= Len(new) + Cardinality(Lines(new))
<1> DEFINE N == Len(new)
           M == Len(old)
           Kept == {k \in 1 .. M : old[k].end + 1 \notin Lines(new)}
           Filled == (1 .. M) \ Kept
           Added == Lines(new) \ Lines(old)
<1>1. /\ N \in Nat /\ DOMAIN new = 1 .. N /\ N # 0 /\ Last(new) = new[N]
      /\ \A i \in 1 .. N : new[i].start \in Nat /\ new[i].end \in Nat /\ new[i].start <= new[i].end
    BY DEF Apart, Segments, Last
<1>2. /\ M \in Nat /\ DOMAIN old = 1 .. M /\ M # 0 /\ Last(old) = old[M]
      /\ \A i \in 1 .. M : old[i].start \in Nat /\ old[i].end \in Nat /\ old[i].start <= old[i].end
    BY DEF Apart, Segments, Last
<1>3. /\ \A i, j \in 1 .. N : i < j => new[i].end + 1 < new[j].start
      /\ \A i, j \in 1 .. M : i < j => old[i].end + 1 < old[j].start
    BY ApartOrdered
<1>4. /\ \A line \in Nat : line \in Lines(new) <=> \E i \in 1 .. N : new[i].start <= line /\ line <= new[i].end
      /\ \A line \in Nat : line \in Lines(old) <=> \E i \in 1 .. M : old[i].start <= line /\ line <= old[i].end
    BY <1>1, <1>2 DEF Lines, Within
<1>5. /\ IsFiniteSet(Lines(new)) /\ Cardinality(Lines(new)) \in Nat
      /\ IsFiniteSet(Lines(old)) /\ Cardinality(Lines(old)) \in Nat
    BY ApartCount
<1> HIDE DEF N, M
<1>6. ASSUME NEW k \in 1 .. M, NEW l \in 1 .. M, old[k].end = old[l].end PROVE k = l
  <2>1. /\ old[k].start \in Nat /\ old[k].end \in Nat /\ old[k].start <= old[k].end
        /\ old[l].start \in Nat /\ old[l].end \in Nat /\ old[l].start <= old[l].end
      BY <1>2
  <2>2. (k < l => old[k].end + 1 < old[l].start) /\ (l < k => old[l].end + 1 < old[k].start)
      BY <1>3
  <2>3. k \in Nat /\ l \in Nat
      BY <1>2
  <2> QED BY ONLY <1>6, <2>1, <2>2, <2>3
<1>7. /\ IsFiniteSet(Kept) /\ IsFiniteSet(Filled) /\ Cardinality(Kept) \in Nat /\ Cardinality(Filled) \in Nat
      /\ M = Cardinality(Kept) + Cardinality(Filled)
  <2>1. IsFiniteSet(1 .. M) /\ Cardinality(1 .. M) = M
      BY <1>2, IndexSet
  <2>2. Kept \subseteq 1 .. M /\ Filled \subseteq 1 .. M /\ Kept \cup Filled = 1 .. M /\ Kept \cap Filled = {}
      OBVIOUS
  <2> HIDE DEF Kept, Filled
  <2>3. IsFiniteSet(Kept) /\ IsFiniteSet(Filled)
      BY <2>1, <2>2, FS_Subset
  <2>4. Cardinality(Kept) \in Nat /\ Cardinality(Filled) \in Nat /\ Cardinality({}) = 0
      BY <2>3, FS_CardinalityType, FS_EmptySet
  <2>5. Cardinality(Kept \cup Filled) = Cardinality(Kept) + Cardinality(Filled) - Cardinality(Kept \cap Filled)
      BY <2>3, FS_Union
  <2>6. M = Cardinality(Kept) + Cardinality(Filled) - 0
      BY <2>1, <2>2, <2>4, <2>5
  <2> QED BY ONLY <2>3, <2>4, <2>6
<1>8. /\ IsFiniteSet(Added) /\ Cardinality(Added) \in Nat
      /\ Cardinality(Lines(new)) = Cardinality(Lines(old)) + Cardinality(Added)
  <2>1. Added \subseteq Lines(new) /\ Added \cup Lines(old) = Lines(new) /\ Added \cap Lines(old) = {}
      OBVIOUS
  <2> HIDE DEF Added
  <2>3. IsFiniteSet(Added)
      BY <1>5, <2>1, FS_Subset
  <2>4. Cardinality(Added) \in Nat /\ Cardinality({}) = 0
      BY <2>3, FS_CardinalityType, FS_EmptySet
  <2>5. Cardinality(Added \cup Lines(old)) = Cardinality(Added) + Cardinality(Lines(old)) - Cardinality(Added \cap Lines(old))
      BY <1>5, <2>3, FS_Union
  <2>6. Cardinality(Lines(new)) = Cardinality(Added) + Cardinality(Lines(old)) - 0
      BY <2>1, <2>4, <2>5
  <2> QED BY ONLY <1>5, <2>3, <2>4, <2>6
<1>9. Cardinality(Filled) <= Cardinality(Added)
  <2> DEFINE f == [k \in Filled |-> old[k].end + 1]
  <2>1. ASSUME NEW k \in Filled PROVE old[k].end + 1 \in Added
    <3>1. k \in 1 .. M /\ old[k].end + 1 \in Lines(new) /\ old[k].end \in Nat /\ old[k].end + 1 \in Nat
        BY <1>2
    <3>2. ASSUME NEW i \in 1 .. M, old[i].start <= old[k].end + 1, old[k].end + 1 <= old[i].end PROVE FALSE
      <4>1. /\ old[k].start \in Nat /\ old[k].end \in Nat /\ old[k].start <= old[k].end
            /\ old[i].start \in Nat /\ old[i].end \in Nat /\ old[i].start <= old[i].end
          BY <1>2, <3>1
      <4>2. (k < i => old[k].end + 1 < old[i].start) /\ (i < k => old[i].end + 1 < old[k].start)
          BY <1>3, <3>1
      <4>3. k = i => FALSE
          BY <3>2, <4>1
      <4>4. k \in Nat /\ i \in Nat
          BY <1>2, <3>1
      <4> QED BY ONLY <3>2, <4>1, <4>2, <4>3, <4>4
    <3> QED BY <1>4, <3>1, <3>2
  <2>2. \A k, l \in Filled : f[k] = f[l] => k = l
    <3>1. \A k \in Filled : k \in 1 .. M /\ old[k].end \in Nat
        BY <1>2
    <3>2. ASSUME NEW k \in Filled, NEW l \in Filled, f[k] = f[l] PROVE k = l
      <4>1. old[k].end + 1 = old[l].end + 1
          BY <3>2
      <4>2. old[k].end = old[l].end
          BY <3>1, <4>1
      <4> QED BY <1>6, <3>1, <4>2
    <3> QED BY <3>2
  <2>3. \A k \in Filled : f[k] \in Added
      BY <2>1
  <2>4. f \in Injection(Filled, Added)
      BY <2>2, <2>3 DEF Injection, IsInjective
  <2> HIDE DEF f, Filled, Added
  <2> QED BY <1>7, <1>8, <2>4, FS_Injection
<1>10. Cardinality(Kept) <= N - moved
  <2> DEFINE g == [k \in Kept |-> CHOOSE j \in 1 .. N : new[j].end = old[k].end]
  <2>1. ASSUME NEW k \in Kept PROVE \E j \in 1 .. N : new[j].end = old[k].end
    <3>1. k \in 1 .. M /\ old[k].end + 1 \notin Lines(new) /\ old[k].end \in Nat /\ old[k].end + 1 \in Nat
        BY <1>2
    <3>2. old[k].end \in Lines(old)
        BY <1>2, <1>4, <3>1
    <3>3. PICK j \in 1 .. N : new[j].start <= old[k].end /\ old[k].end <= new[j].end
        BY <1>4, <3>1, <3>2
    <3>4. ~(new[j].start <= old[k].end + 1 /\ old[k].end + 1 <= new[j].end)
        BY <1>4, <3>1
    <3>5. new[j].start \in Nat /\ new[j].end \in Nat
        BY <1>1
    <3>6. new[j].end = old[k].end
        BY ONLY <3>1, <3>3, <3>4, <3>5
    <3> QED BY <3>6
  <2>2. \A k \in Kept : g[k] \in 1 .. N /\ new[g[k]].end = old[k].end
      BY <2>1
  <2>3. Kept \subseteq 1 .. M
      OBVIOUS
  <2> HIDE DEF g, Kept
  <2>4. \A k, l \in Kept : g[k] = g[l] => k = l
    <3>1. \A k, l \in Kept : g[k] = g[l] => old[k].end = old[l].end
        BY <2>2
    <3> QED BY <1>6, <2>3, <3>1
  <2>5. \A k \in Kept : g[k] \in 1 .. N - moved
    <3>1. ASSUME NEW k \in Kept, moved = 1 PROVE g[k] # N
      <4>1. old[M].end < new[N].end /\ M \in 1 .. M
          BY <1>1, <1>2, <3>1
      <4>2. k \in 1 .. M /\ new[g[k]].end = old[k].end
          BY <2>2, <2>3, <3>1
      <4>3. k = M \/ old[k].end + 1 < old[M].start
        <5>1. k = M \/ k < M
            BY <1>2, <4>2
        <5> QED BY <1>3, <4>1, <4>2, <5>1
      <4>4. /\ old[k].end \in Nat /\ old[M].end \in Nat /\ old[M].start \in Nat /\ old[M].start <= old[M].end
            /\ new[N].end \in Nat
        <5>1. N \in 1 .. N
            BY <1>1
        <5> QED BY <1>1, <1>2, <4>1, <4>2, <5>1
      <4>5. old[k].end <= old[M].end
          BY <4>3, <4>4
      <4>6. old[k].end # new[N].end
          BY <4>1, <4>4, <4>5
      <4> QED BY <4>2, <4>6
    <3>2. moved = 0 \/ moved = 1
        OBVIOUS
    <3> QED BY <1>1, <2>2, <3>1, <3>2
  <2>6. g \in [Kept -> 1 .. N - moved]
      BY <2>5 DEF g
  <2>7. g \in Injection(Kept, 1 .. N - moved)
      BY <2>4, <2>6 DEF Injection, IsInjective
  <2>8. IsFiniteSet(1 .. N - moved) /\ Cardinality(1 .. N - moved) = N - moved
    <3>1. N - moved \in Nat
        BY <1>1
    <3> QED BY <3>1, IndexSet
  <2> QED BY <1>7, <2>7, <2>8, FS_Injection
<1> HIDE DEF Kept, Filled, Added
<1>11. PICK a \in Nat, b \in Nat, c \in Nat, d \in Nat, e \in Nat :
          /\ a = Cardinality(Kept) /\ b = Cardinality(Filled) /\ c = Cardinality(Added)
          /\ d = Cardinality(Lines(new)) /\ e = Cardinality(Lines(old))
    BY <1>5, <1>7, <1>8
<1>12. M = a + b /\ d = e + c /\ b <= c /\ a <= N - moved
    BY <1>7, <1>8, <1>9, <1>10, <1>11
<1>13. a \in Nat /\ b \in Nat /\ c \in Nat /\ d \in Nat /\ e \in Nat /\ moved \in Int /\ N \in Nat
    BY <1>1
<1>14. M + e + moved <= N + d
    BY ONLY <1>12, <1>13
<1> QED BY <1>11, <1>14 DEF M, N

--------------------------------------------------------------------------------
(* Items of the pack.                                                         *)

SlotFields == {"cand", "segments", "upper", "prelude", "note", "why", "stale", "ids", "tailLost"}

\* An item shows its chunks in intervals that are in order and apart, from where
\* the first one begins; it knows where the last one ends, or has lost it.
GoodSlot(s) ==
    /\ DOMAIN s = SlotFields
    /\ Apart(s.segments) /\ s.segments # <<>>
    /\ s.upper \in Nat /\ Last(s.segments).end <= s.upper
    /\ s.ids \subseteq Chunk /\ s.tailLost \in BOOLEAN
    /\ \A c \in s.ids : /\ Corpus[c].start \in Lines(s.segments)
                        /\ s.tailLost \/ Corpus[c].end <= s.upper

\* An item of one chunk, whole or cut short, before it is placed.
Incoming(s) ==
    /\ DOMAIN s = SlotFields
    /\ s.cand.id \in Chunk /\ s.ids = {s.cand.id} /\ s.note = "none" /\ s.tailLost = FALSE
    /\ s.segments = <<Head(s.segments)>> /\ Head(s.segments) \in Segments
    /\ Head(s.segments).start = Corpus[s.cand.id].start
    /\ Head(s.segments).end <= s.upper /\ s.upper = Corpus[s.cand.id].end

\* Noted is the line of the note, and Flags are the lines that no step changes.
Noted(s) == IF s.note \in {"aggregated", "merged"} THEN 1 ELSE 0
Flags(s) == (IF s.why THEN 1 ELSE 0) + (IF s.stale THEN 1 ELSE 0)
Signed(s) == IF s.prelude THEN 1 ELSE 0
Tail1(s) == IF TailHidden(s) THEN 1 ELSE 0

\* The lines of an item.
LEMMA SlotTokens ==
    ASSUME NEW s, GoodSlot(s)
    PROVE  /\ Tokens(s) = 2 + Noted(s) + Flags(s) + Signed(s) + Cardinality(Lines(s.segments))
                            + (Len(s.segments) - 1) + Tail1(s)
           /\ Cardinality(Lines(s.segments)) \in Nat /\ Len(s.segments) \in Nat \ {0}
           /\ Tokens(s) \in Nat
<1> DEFINE notes == {n \in {"aggregated", "merged"} : s.note = n}
<1>1. Cardinality(notes) = Noted(s)
  <2>1. CASE s.note \in {"aggregated", "merged"}
    <3>1. notes = {s.note}
        BY <2>1
    <3> HIDE DEF notes
    <3> QED BY <2>1, <3>1, FS_Singleton DEF Noted
  <2>2. CASE s.note \notin {"aggregated", "merged"}
    <3>1. notes = {}
        BY <2>2
    <3> HIDE DEF notes
    <3> QED BY <2>2, <3>1, FS_EmptySet DEF Noted
  <2> QED BY <2>1, <2>2
<1>2. Sum(LineCount, s.segments) = Cardinality(Lines(s.segments)) /\ Cardinality(Lines(s.segments)) \in Nat
    BY ApartCount DEF GoodSlot
<1>3. Len(s.segments) \in Nat \ {0}
    BY DEF GoodSlot, Apart
<1>4. Noted(s) \in Nat /\ Flags(s) \in Nat /\ Signed(s) \in Nat /\ Tail1(s) \in Nat
    BY DEF Noted, Flags, Signed, Tail1
<1>5. Tokens(s) = 2 + Cardinality(notes) + Flags(s) + Signed(s) + Sum(LineCount, s.segments)
                    + (Len(s.segments) - 1) + Tail1(s)
  <2>1. Tokens(s) = 2 + Cardinality(notes) + (IF s.why THEN 1 ELSE 0) + (IF s.stale THEN 1 ELSE 0)
                      + (IF s.prelude THEN 1 ELSE 0) + Sum(LineCount, s.segments)
                      + (Len(s.segments) - 1) + (IF TailHidden(s) THEN 1 ELSE 0)
      BY DEF Tokens
  <2>2. Cardinality(notes) \in Nat /\ Sum(LineCount, s.segments) \in Nat
      BY <1>1, <1>2, <1>4
  <2> HIDE DEF notes
  <2> QED BY <1>3, <2>1, <2>2 DEF Flags, Signed, Tail1
<1> HIDE DEF notes
<1> QED BY <1>1, <1>2, <1>3, <1>4, <1>5

\* What is not placed yet is an item.
LEMMA IncomingGood ==
    ASSUME NEW s, Incoming(s)
    PROVE  GoodSlot(s) /\ Len(s.segments) = 1
           /\ \A line \in Nat : line \in Lines(s.segments) <=> Within(Head(s.segments), line)
<1> DEFINE e == Head(s.segments)
<1>1. /\ DOMAIN s = SlotFields /\ s.cand.id \in Chunk /\ s.ids = {s.cand.id} /\ s.tailLost = FALSE
      /\ s.segments = <<e>> /\ e \in Segments /\ e.start = Corpus[s.cand.id].start
      /\ e.end <= s.upper /\ s.upper = Corpus[s.cand.id].end
    BY DEF Incoming
<1> HIDE DEF e
<1>2. /\ e.start \in Nat /\ e.end \in Nat /\ e.start <= e.end
      /\ s.upper \in Nat /\ s.upper = Corpus[s.cand.id].end
    BY <1>1, ContextPackAssumption DEF Segments
<1>3. /\ s.segments \in Seq(Segments) /\ Len(s.segments) = 1 /\ s.segments[1] = e
      /\ DOMAIN s.segments = {1} /\ s.segments # <<>>
    BY <1>1
<1>4. Apart(s.segments) /\ Last(s.segments) = e
    BY <1>3 DEF Apart, Last
<1>5. \A line \in Nat : line \in Lines(s.segments) <=> Within(e, line)
    BY <1>3 DEF Lines
<1>6. e.start \in Lines(s.segments)
    BY <1>2, <1>5 DEF Within
<1>7. GoodSlot(s)
  <2>1. Last(s.segments).end <= s.upper
      BY <1>1, <1>4
  <2>2. \A c \in s.ids : Corpus[c].start \in Lines(s.segments) /\ Corpus[c].end <= s.upper
    <3>1. Corpus[s.cand.id].end <= s.upper
        BY <1>2
    <3> QED BY <1>1, <1>6, <3>1
  <2>3. s.ids \subseteq Chunk /\ s.tailLost \in BOOLEAN
      BY <1>1
  <2> QED BY <1>1, <1>2, <1>3, <1>4, <2>1, <2>2, <2>3 DEF GoodSlot
<1> QED BY <1>3, <1>5, <1>7 DEF e

\* A chunk on its own.
LEMMA SlotIncoming ==
    ASSUME NEW c, c.id \in Chunk, NEW blocks
    PROVE  /\ Incoming(BuildSlot(c, blocks)) /\ BuildSlot(c, blocks).cand = c
           /\ BuildSlot(c, blocks).stale = (c.id \in blocks) /\ BuildSlot(c, blocks).why = FALSE
           /\ BuildSlot(c, blocks).prelude = FALSE
           /\ Head(BuildSlot(c, blocks).segments).end = Corpus[c.id].end
<1> DEFINE e == Segment(Corpus[c.id].start, Corpus[c.id].end)
           s == BuildSlot(c, blocks)
<1>2. Corpus[c.id].start \in Nat /\ Corpus[c.id].end \in Nat /\ Corpus[c.id].start <= Corpus[c.id].end
    BY ContextPackAssumption
<1>3. e \in Segments /\ e.start = Corpus[c.id].start /\ e.end = Corpus[c.id].end
    BY <1>2 DEF Segments, Segment
<1>4. s = [cand |-> c, segments |-> <<e>>, upper |-> Corpus[c.id].end, prelude |-> FALSE, note |-> "none",
           why |-> FALSE, stale |-> c.id \in blocks, ids |-> {c.id}, tailLost |-> FALSE]
    BY DEF BuildSlot
<1> HIDE DEF e
<1>5. /\ DOMAIN s = SlotFields /\ s.cand = c /\ s.ids = {c.id} /\ s.note = "none" /\ s.tailLost = FALSE
      /\ s.segments = <<e>> /\ s.upper = Corpus[c.id].end /\ s.why = FALSE /\ s.prelude = FALSE
    BY <1>4 DEF SlotFields
<1>6. s.stale = (c.id \in blocks)
    BY <1>4
<1> HIDE DEF s
<1>7. Head(s.segments) = e
    BY <1>5
<1>8. e.end <= Corpus[c.id].end
    BY <1>2, <1>3
<1> QED BY <1>3, <1>5, <1>6, <1>7, <1>8 DEF Incoming, s

\* It is cut short.
LEMMA DegradeIncoming ==
    ASSUME NEW s, Incoming(s), NEW threshold, NEW force
    PROVE  /\ Incoming(Degrade(s, threshold, force)) /\ Degrade(s, threshold, force).cand = s.cand
           /\ Flags(Degrade(s, threshold, force)) = Flags(s)
<1> DEFINE d == Degrade(s, threshold, force)
           all == Head(s.segments)
           cut == Segment(all.start, Smaller(all.start + Budget.contextLines, all.end))
<1>1. CASE d = s
    BY <1>1
<1>2. CASE d # s
  <2>1. d = [s EXCEPT !.segments = <<cut>>, !.prelude = ~IsSpec(s.cand)]
      BY <1>2 DEF Degrade
  <2>2. all \in Segments /\ all.end <= s.upper /\ s.upper \in Nat /\ all.start \in Nat /\ all.end \in Nat
        /\ all.start <= all.end
      BY ContextPackAssumption DEF Incoming, Segments
  <2>3. cut \in Segments /\ cut.start = all.start /\ cut.end <= all.end
    <3>1. Budget.contextLines \in Nat
        BY ContextPackAssumption DEF BudgetField
    <3> QED BY <2>2, <3>1 DEF Segment, Segments, Smaller
  <2> HIDE DEF cut, all, d
  <2>4. DOMAIN s = SlotFields
      BY DEF Incoming
  <2>5. /\ DOMAIN d = SlotFields /\ d.cand = s.cand /\ d.ids = s.ids /\ d.note = s.note
        /\ d.tailLost = s.tailLost /\ d.segments = <<cut>> /\ d.upper = s.upper
        /\ d.why = s.why /\ d.stale = s.stale
      BY <2>1, <2>4 DEF SlotFields
  <2>6. Head(d.segments) = cut
      BY <2>5
  <2>7. cut.end \in Nat /\ cut.end <= s.upper
      BY <2>2, <2>3 DEF Segments
  <2> QED BY <2>3, <2>5, <2>6, <2>7 DEF Incoming, Flags, all, d
<1> QED BY <1>1, <1>2

\* A chunk is merged into an item: the item shows the lines of both and stands for
\* both, grows, and grows by no more than the chunk would have cost on its own.
LEMMA MergeGood ==
    ASSUME NEW s, GoodSlot(s), NEW i, Incoming(i), NEW m, m = MergeSegments(s, i)
    PROVE  /\ GoodSlot(m) /\ m.cand = s.cand /\ m.ids = s.ids \cup i.ids /\ m.note = "merged"
           /\ Tokens(s) <= Tokens(m) /\ Tokens(m) - Tokens(s) <= Tokens(i)
           /\ s.note = "aggregated" => Tokens(m) - Tokens(s) < Tokens(i)
<1> DEFINE e == Head(i.segments)
           more == UncoveredPieces(e, s.segments)
           both == s.segments \o more
           list == SortedSegments(both)
           merged == Coalesce(list)
<1>1. /\ GoodSlot(i) /\ Len(i.segments) = 1 /\ e \in Segments
      /\ \A line \in Nat : line \in Lines(i.segments) <=> Within(e, line)
    BY IncomingGood DEF Incoming
<1>2. DOMAIN s = SlotFields /\ Apart(s.segments) /\ s.segments # <<>> /\ s.segments \in Seq(Segments)
    BY DEF GoodSlot, Apart
<1> HIDE DEF e
<1>3. more \in Seq(Segments)
      /\ \A line \in Nat : line \in Lines(more) <=> Within(e, line) /\ line \notin Lines(s.segments)
    BY <1>1, <1>2, UncoveredLines
<1> HIDE DEF more
<1>4. both \in Seq(Segments) /\ both # <<>>
      /\ \A line \in Nat : line \in Lines(both) <=> line \in Lines(s.segments) \/ Within(e, line)
  <2>1. both \in Seq(Segments) /\ Len(both) = Len(s.segments) + Len(more) /\ Len(s.segments) \in Nat \ {0}
        /\ Len(more) \in Nat
      BY <1>2, <1>3
  <2>2. ToSet(both) = ToSet(s.segments) \cup ToSet(more)
      BY <1>2, <1>3, ConcatHolds
  <2>3. \A l, line : line \in Lines(l) <=> line \in Nat /\ \E x \in ToSet(l) : Within(x, line)
      BY DEF Lines, ToSet
  <2>4. Len(both) # 0
      BY <2>1
  <2>5. both # <<>>
      BY <2>4
  <2> HIDE DEF both
  <2> QED BY <1>3, <2>1, <2>2, <2>3, <2>5
<1> HIDE DEF both
<1>5. /\ list \in Seq(Segments) /\ Len(list) = Len(both) /\ Lines(list) = Lines(both)
      /\ \A k, j \in 1 .. Len(list) : k < j => list[k].start <= list[j].start
    BY <1>4, SortedSegmentLines
<1> HIDE DEF list
<1>6. list # <<>>
    BY <1>4, <1>5
<1>7. Apart(merged) /\ Lines(merged) = Lines(list) /\ merged # <<>>
    BY <1>5, <1>6, CoalesceLines
<1>8. /\ m = [s EXCEPT !.segments = merged, !.upper = Larger(@, Last(merged).end), !.note = "merged",
                       !.ids = @ \cup i.ids, !.tailLost = @ \/ TailHidden(i)]
    BY DEF MergeSegments, e, more, both, list
<1> HIDE DEF merged
<1>9. /\ DOMAIN m = SlotFields /\ m.segments = merged /\ m.upper = Larger(s.upper, Last(merged).end)
      /\ m.note = "merged" /\ m.ids = s.ids \cup i.ids /\ m.tailLost = (s.tailLost \/ TailHidden(i))
      /\ m.cand = s.cand /\ m.why = s.why /\ m.stale = s.stale /\ m.prelude = s.prelude
    BY <1>2, <1>8 DEF SlotFields
<1>10. \A line \in Nat : line \in Lines(merged) <=> line \in Lines(s.segments) \/ Within(e, line)
    BY <1>4, <1>5, <1>7
<1>11. /\ Last(merged) \in Segments /\ Last(merged).end \in Nat
       /\ \A line \in Lines(merged) : Head(merged).start <= line /\ line <= Last(merged).end
    BY <1>7, ApartBounds DEF Segments
<1>12. /\ Last(s.segments) \in Segments /\ Last(s.segments).end \in Nat
       /\ Last(s.segments).end \in Lines(s.segments) /\ s.upper \in Nat
    BY <1>2, ApartBounds DEF Segments, GoodSlot
<1>13. m.upper \in Nat /\ m.upper >= s.upper /\ m.upper >= Last(merged).end
    BY <1>9, <1>11, <1>12 DEF Larger
<1>14. Last(s.segments).end <= Last(merged).end
    BY <1>10, <1>11, <1>12
<1>15. GoodSlot(m)
  <2>1. m.ids \subseteq Chunk /\ m.tailLost \in BOOLEAN
      BY <1>1, <1>9 DEF GoodSlot
  <2>2. ASSUME NEW c \in s.ids
        PROVE  Corpus[c].start \in Lines(merged) /\ (m.tailLost \/ Corpus[c].end <= m.upper)
    <3>1. Corpus[c].start \in Lines(s.segments) /\ (s.tailLost \/ Corpus[c].end <= s.upper) /\ c \in Chunk
        BY DEF GoodSlot
    <3>2. Corpus[c].start \in Nat /\ Corpus[c].end \in Nat
        BY <3>1, ContextPackAssumption
    <3>3. Corpus[c].start \in Lines(merged)
        BY <1>10, <3>1, <3>2
    <3>4. s.tailLost => m.tailLost
        BY <1>9
    <3>5. Corpus[c].end <= s.upper => Corpus[c].end <= m.upper
        BY <1>12, <1>13, <3>2
    <3> QED BY <3>1, <3>3, <3>4, <3>5
  <2>3. ASSUME NEW c \in i.ids
        PROVE  Corpus[c].start \in Lines(merged) /\ (m.tailLost \/ Corpus[c].end <= m.upper)
    <3>1. Corpus[c].start \in Lines(i.segments) /\ i.upper = Corpus[c].end /\ c \in Chunk
        BY <1>1 DEF GoodSlot, Incoming
    <3>2. Corpus[c].start \in Nat /\ Corpus[c].end \in Nat
        BY <3>1, ContextPackAssumption
    <3>3. Corpus[c].start \in Lines(merged)
        BY <1>1, <1>10, <3>1, <3>2
    <3>4. CASE TailHidden(i)
        BY <1>9, <3>3, <3>4
    <3>5. CASE ~TailHidden(i)
      <4>1. Last(i.segments) = e
        <5>1. i.segments = <<e>>
            BY DEF Incoming, e
        <5> QED BY <5>1 DEF Last
      <4>2. e.end \in Nat /\ e.start \in Nat /\ e.start <= e.end
          BY <1>1 DEF Segments
      <4>3. Corpus[c].end <= e.end
          BY <3>1, <3>2, <3>5, <4>1, <4>2 DEF TailHidden
      <4>4. e.end \in Lines(merged)
          BY <1>10, <4>2 DEF Within
      <4>5. e.end <= Last(merged).end
          BY <1>11, <4>4
      <4>6. Corpus[c].end <= m.upper
          BY <1>11, <1>13, <3>2, <4>2, <4>3, <4>5
      <4> QED BY <3>3, <4>6
    <3> QED BY <3>4, <3>5
  <2>4. \A c \in m.ids : Corpus[c].start \in Lines(m.segments) /\ (m.tailLost \/ Corpus[c].end <= m.upper)
      BY <1>9, <2>2, <2>3
  <2>5. Last(m.segments).end <= m.upper
      BY <1>9, <1>11, <1>13
  <2> QED BY <1>7, <1>9, <1>13, <2>1, <2>4, <2>5 DEF GoodSlot
<1>16. Len(merged) <= Len(s.segments) + 1
    BY <1>1, <1>2, <1>7, <1>10, RunsBounded
<1>17. Cardinality(Lines(merged)) <= Cardinality(Lines(s.segments)) + Cardinality(Lines(i.segments))
  <2>1. Lines(merged) = Lines(s.segments) \cup Lines(i.segments)
    <3>1. \A l : Lines(l) \subseteq Nat
        BY DEF Lines
    <3> QED BY <1>1, <1>10, <3>1
  <2>2. /\ IsFiniteSet(Lines(s.segments)) /\ IsFiniteSet(Lines(i.segments))
        /\ Cardinality(Lines(s.segments)) \in Nat /\ Cardinality(Lines(i.segments)) \in Nat
      BY <1>1, <1>2, ApartCount DEF GoodSlot
  <2>3. /\ Cardinality(Lines(s.segments) \cup Lines(i.segments)) = Cardinality(Lines(s.segments))
           + Cardinality(Lines(i.segments)) - Cardinality(Lines(s.segments) \cap Lines(i.segments))
      BY <2>2, FS_Union
  <2>4. Cardinality(Lines(s.segments) \cap Lines(i.segments)) \in Nat
      BY <2>2, FS_Intersection, FS_CardinalityType
  <2> QED BY <2>1, <2>2, <2>3, <2>4
<1>18. Tail1(m) <= Tail1(s)
  <2>1. ASSUME TailHidden(m) PROVE TailHidden(s)
    <3>1. m.upper > Last(merged).end
        BY <1>9, <2>1 DEF TailHidden
    <3>2. s.upper > Last(merged).end
        BY <1>9, <1>11, <1>12, <3>1 DEF Larger
    <3> QED BY <1>11, <1>12, <1>14, <3>2 DEF TailHidden
  <2> QED BY <2>1 DEF Tail1
<1>19. /\ Noted(m) = 1 /\ Flags(m) = Flags(s) /\ Signed(m) = Signed(s)
       /\ Noted(s) \in Nat /\ (s.note = "aggregated" => Noted(s) = 1)
       /\ Flags(s) \in Nat /\ Signed(s) \in Nat /\ Tail1(s) \in Nat /\ Tail1(m) \in Nat
       /\ Noted(i) \in Nat /\ Flags(i) \in Nat /\ Signed(i) \in Nat /\ Tail1(i) \in Nat
    BY <1>9 DEF Noted, Flags, Signed, Tail1
<1>20. /\ Tokens(m) = 2 + Noted(m) + Flags(m) + Signed(m) + Cardinality(Lines(merged)) + (Len(merged) - 1) + Tail1(m)
       /\ Cardinality(Lines(merged)) \in Nat /\ Len(merged) \in Nat \ {0} /\ Tokens(m) \in Nat
    BY <1>9, <1>15, SlotTokens
<1>21. /\ Tokens(s) = 2 + Noted(s) + Flags(s) + Signed(s) + Cardinality(Lines(s.segments)) + (Len(s.segments) - 1) + Tail1(s)
       /\ Cardinality(Lines(s.segments)) \in Nat /\ Len(s.segments) \in Nat \ {0} /\ Tokens(s) \in Nat
    BY SlotTokens
<1>22. /\ Tokens(i) = 2 + Noted(i) + Flags(i) + Signed(i) + Cardinality(Lines(i.segments)) + (Len(i.segments) - 1) + Tail1(i)
       /\ Cardinality(Lines(i.segments)) \in Nat /\ Tokens(i) \in Nat
    BY <1>1, SlotTokens
<1>23. PICK ns \in Nat, f \in Nat, g \in Nat, cs \in Nat, cm \in Nat, ci \in Nat, ls \in Nat, lm \in Nat,
            hs \in Nat, hm \in Nat, ts \in Nat, tm \in Nat, ti \in Nat :
          /\ ns = Noted(s) /\ f = Flags(s) /\ g = Signed(s) /\ cs = Cardinality(Lines(s.segments))
          /\ cm = Cardinality(Lines(merged)) /\ ci = Cardinality(Lines(i.segments))
          /\ ls = Len(s.segments) /\ lm = Len(merged) /\ hs = Tail1(s) /\ hm = Tail1(m)
          /\ ts = Tokens(s) /\ tm = Tokens(m) /\ ti = Tokens(i)
    BY <1>19, <1>20, <1>21, <1>22
<1>24. tm = 2 + 1 + f + g + cm + (lm - 1) + hm
    BY <1>19, <1>20, <1>23
<1>25. ts = 2 + ns + f + g + cs + (ls - 1) + hs
    BY <1>21, <1>23
<1>26. ti >= 2 + ci
  <2>1. ti = 2 + Noted(i) + Flags(i) + Signed(i) + ci + (1 - 1) + Tail1(i)
      BY <1>1, <1>22, <1>23
  <2>2. Noted(i) \in Nat /\ Flags(i) \in Nat /\ Signed(i) \in Nat /\ Tail1(i) \in Nat
      BY <1>19
  <2> QED BY ONLY <2>1, <2>2, ci \in Nat
<1>27. lm <= ls + 1 /\ cm <= cs + ci /\ hm <= hs /\ (s.note = "aggregated" => ns = 1)
    BY <1>16, <1>17, <1>18, <1>19, <1>23
<1>28. /\ ns \in Nat /\ f \in Nat /\ g \in Nat /\ cs \in Nat /\ cm \in Nat /\ ci \in Nat /\ ls \in Nat
       /\ lm \in Nat /\ hs \in Nat /\ hm \in Nat /\ ts \in Nat /\ tm \in Nat /\ ti \in Nat
    OBVIOUS
<1>29. tm - ts <= 2 - ns + ci
    BY ONLY <1>24, <1>25, <1>27, <1>28
<1>30. tm - ts <= ti
    BY ONLY <1>26, <1>28, <1>29
<1>31. ns = 1 => tm - ts < ti
    BY ONLY <1>26, <1>28, <1>29
<1>32. PICK moved \in {0, 1} : hs <= hm + moved /\ (moved = 1 => Last(s.segments).end < Last(merged).end)
  <2>0. /\ TailHidden(s) => hs = 1
        /\ ~TailHidden(s) => hs = 0
        /\ TailHidden(m) => hm = 1
        /\ ~TailHidden(m) => hm = 0
      BY <1>23 DEF Tail1
  <2>1. CASE TailHidden(s) /\ ~TailHidden(m)
    <3>1. Last(s.segments).end < Last(merged).end
        BY <1>9, <1>11, <1>12, <1>13, <2>1 DEF TailHidden
    <3>2. hs <= hm + 1
        BY <2>0, <2>1
    <3> QED BY <3>1, <3>2
  <2>2. CASE ~(TailHidden(s) /\ ~TailHidden(m))
    <3>1. hs <= hm + 0
        BY ONLY <2>0, <2>2, hs \in Nat, hm \in Nat
    <3> QED BY <3>1
  <2> QED BY <2>1, <2>2
<1>33. Lines(s.segments) \subseteq Lines(merged)
  <2>1. Lines(s.segments) \subseteq Nat
      BY DEF Lines
  <2> QED BY <1>10, <2>1
<1>34. ls + cs + moved <= lm + cm
  <2>1. Len(s.segments) + Cardinality(Lines(s.segments)) + moved <= Len(merged) + Cardinality(Lines(merged))
      BY <1>2, <1>7, <1>32, <1>33, RunsKept
  <2> QED BY <1>23, <2>1
<1>35. ns <= 1
    BY <1>23 DEF Noted
<1>36. ts <= tm
  <2>1. moved \in Int
      BY <1>32
  <2> QED BY ONLY <1>24, <1>25, <1>28, <1>32, <1>34, <1>35, <2>1
<1> QED BY <1>9, <1>15, <1>23, <1>27, <1>30, <1>31, <1>36

--------------------------------------------------------------------------------
(* The account.                                                               *)

\* The shares that are summed up: of all the items, of the documents, of a file;
\* and how many of the items, or of the documents, count further chunks.
Counts(part, p, c) ==
    \/ part \in {"used", "notes"}
    \/ part \in {"spec", "docNotes"} /\ IsSpec(c)
    \/ part = "file" /\ c.path = p
Mark(s) == IF s.note = "aggregated" THEN 1 ELSE 0
Weight(part, s) == IF part \in {"notes", "docNotes"} THEN Mark(s) ELSE Tokens(s)
Share(part, p, s) == IF Counts(part, p, s.cand) THEN Weight(part, s) ELSE 0
Shares(part, p, list) == [i \in DOMAIN list |-> Share(part, p, list[i])]

\* Lists of good items, accounts with all their sums, and accounts that are those of a list.
GoodSlots(list) == list \in Seq(ToSet(list)) /\ \A i \in 1 .. Len(list) : GoodSlot(list[i])

AccFields == {"used", "spec", "tier3", "code", "backfill", "backfilled", "file"}
AccTyped(a) ==
    /\ DOMAIN a = AccFields /\ a.used \in Int /\ a.spec \in Int /\ a.tier3 \in Int /\ a.code \in Int
    /\ a.backfill \in Int /\ a.backfilled \in Int /\ a.file \in [Path -> Int]

Sums(list, a) ==
    /\ a.used = Budget.overhead + Total(Shares("used", 0, list))
    /\ a.spec = Total(Shares("spec", 0, list))
    /\ \A p \in Path : a.file[p] = Total(Shares("file", p, list))

\* A list is a list of what is in it.
LEMMA OwnElements ==
    ASSUME NEW S, NEW s \in Seq(S)
    PROVE  s \in Seq(ToSet(s))
<1>1. s \in [1 .. Len(s) -> ToSet(s)] /\ Len(s) \in Nat
    BY DEF ToSet
<1> QED BY <1>1

\* The shares are numbers.
LEMMA SharesTyped ==
    ASSUME NEW list, GoodSlots(list), NEW part, NEW p
    PROVE  /\ Shares(part, p, list) \in Seq(Int) /\ Len(Shares(part, p, list)) = Len(list)
           /\ \A i \in 1 .. Len(list) : Shares(part, p, list)[i] = Share(part, p, list[i])
           /\ Total(Shares(part, p, list)) \in Nat
<1> DEFINE w == Shares(part, p, list)
<1>1. Len(list) \in Nat /\ DOMAIN list = 1 .. Len(list)
    BY DEF GoodSlots
<1>2. \A i \in 1 .. Len(list) : Share(part, p, list[i]) \in Nat
    BY SlotTokens DEF GoodSlots, Share, Weight, Mark
<1>3. w = [i \in 1 .. Len(list) |-> Share(part, p, list[i])]
    BY <1>1 DEF Shares
<1>4. w \in [1 .. Len(list) -> Nat]
    BY <1>2, <1>3
<1> HIDE DEF w
<1>5. w \in Seq(Nat) /\ w \in Seq(Int) /\ Len(w) = Len(list)
    BY <1>1, <1>4
<1>6. Total(w) \in Nat
    BY <1>5, TotalNat
<1>7. \A i \in 1 .. Len(list) : w[i] = Share(part, p, list[i])
    BY <1>3
<1> QED BY <1>5, <1>6, <1>7 DEF w

\* One item more.
OneMore(list, s, t) ==
    /\ GoodSlots(t) /\ Len(t) = Len(list) + 1 /\ t[Len(t)] = s
    /\ \A i \in 1 .. Len(list) : t[i] = list[i]
    /\ \A part, p : Total(Shares(part, p, t)) = Total(Shares(part, p, list)) + Share(part, p, s)

\* An item that is appended is one item more.
LEMMA SharesAppend ==
    ASSUME NEW list, GoodSlots(list), NEW s, GoodSlot(s), NEW t, t = Append(list, s)
    PROVE  OneMore(list, s, t)
<1> DEFINE N == Len(list)
<1>1. /\ list \in Seq(ToSet(list) \cup {s}) /\ N \in Nat
    BY DEF GoodSlots
<1>2. /\ t \in Seq(ToSet(list) \cup {s}) /\ Len(t) = N + 1 /\ t[N + 1] = s /\ \A i \in 1 .. N : t[i] = list[i]
    BY <1>1
<1>3. GoodSlots(t)
  <2>1. t \in Seq(ToSet(t))
      BY <1>2, OwnElements
  <2>2. ASSUME NEW i \in 1 .. N + 1 PROVE GoodSlot(t[i])
    <3>1. i \in 1 .. N \/ i = N + 1
        BY <1>1
    <3> QED BY <1>2, <3>1 DEF GoodSlots
  <2> QED BY <1>2, <2>1, <2>2 DEF GoodSlots
<1>4. ASSUME NEW part, NEW p
      PROVE  Total(Shares(part, p, t)) = Total(Shares(part, p, list)) + Share(part, p, s)
  <2> DEFINE w == Shares(part, p, list)
             v == Shares(part, p, t)
  <2>1. w \in Seq(Int) /\ Len(w) = N /\ \A i \in 1 .. N : w[i] = Share(part, p, list[i])
      BY SharesTyped
  <2>2. v \in Seq(Int) /\ Len(v) = N + 1 /\ \A i \in 1 .. N + 1 : v[i] = Share(part, p, t[i])
    <3>1. v \in Seq(Int) /\ Len(v) = Len(t) /\ \A i \in 1 .. Len(t) : v[i] = Share(part, p, t[i])
        BY ONLY <1>3, SharesTyped
    <3> HIDE DEF v
    <3> QED BY <1>2, <3>1
  <2> HIDE DEF w, v
  <2> DEFINE e == Share(part, p, s)
  <2>3. e \in Int
      BY SlotTokens DEF Share, Weight, Mark
  <2> HIDE DEF e
  <2>4. v = Append(w, e)
    <3>1. Append(w, e) \in Seq(Int) /\ Len(Append(w, e)) = N + 1 /\ Append(w, e)[N + 1] = e
          /\ \A i \in 1 .. N : Append(w, e)[i] = w[i]
        BY <2>1, <2>3
    <3>2. \A i \in 1 .. N : v[i] = w[i]
      <4>1. \A i \in 1 .. N : i \in 1 .. N + 1
          BY <1>1
      <4> QED BY <1>2, <2>1, <2>2, <4>1
    <3>3. v[N + 1] = e
      <4>1. N + 1 \in 1 .. N + 1
          BY <1>1
      <4> QED BY <1>2, <2>2, <4>1 DEF e
    <3>4. \A i \in 1 .. N + 1 : v[i] = Append(w, e)[i]
      <4>1. \A i \in 1 .. N + 1 : i \in 1 .. N \/ i = N + 1
          BY <1>1
      <4> QED BY <3>1, <3>2, <3>3, <4>1
    <3> HIDE DEF N
    <3>5. PICK u : u = Append(w, e)
        OBVIOUS
    <3>6. u \in Seq(Int) /\ Len(u) = N + 1
        BY <3>1, <3>5
    <3>7. v = [i \in 1 .. N + 1 |-> v[i]]
        BY ONLY <2>2
    <3>8. u = [i \in 1 .. N + 1 |-> u[i]]
        BY ONLY <3>6
    <3>9. \A i \in 1 .. N + 1 : v[i] = u[i]
        BY <3>4, <3>5
    <3> QED BY ONLY <3>5, <3>7, <3>8, <3>9
  <2>5. Total(v) = Total(w) + e
      BY <2>1, <2>3, <2>4, TotalAppend
  <2> QED BY <2>5 DEF v, w, e
<1> QED BY <1>2, <1>3, <1>4 DEF OneMore

\* One item is replaced.
OneOther(list, k, s, t) ==
    /\ GoodSlots(t) /\ Len(t) = Len(list) /\ t[k] = s
    /\ \A i \in 1 .. Len(list) : i # k => t[i] = list[i]
    /\ \A part, p : Total(Shares(part, p, t))
                       = Total(Shares(part, p, list)) - Share(part, p, list[k]) + Share(part, p, s)

\* An item that is put in the place of another is one other item.
LEMMA SharesReplace ==
    ASSUME NEW list, GoodSlots(list), NEW k \in 1 .. Len(list), NEW s, GoodSlot(s),
           NEW t, t = [list EXCEPT ![k] = s]
    PROVE  OneOther(list, k, s, t)
<1> DEFINE N == Len(list)
<1>1. /\ list \in Seq(ToSet(list) \cup {s}) /\ N \in Nat /\ DOMAIN list = 1 .. N
    BY DEF GoodSlots
<1>2. /\ t \in Seq(ToSet(list) \cup {s}) /\ Len(t) = N /\ t[k] = s /\ \A i \in 1 .. N : i # k => t[i] = list[i]
    BY <1>1
<1>3. GoodSlots(t)
  <2>1. t \in Seq(ToSet(t))
      BY <1>2, OwnElements
  <2> QED BY <1>2, <2>1 DEF GoodSlots
<1>4. ASSUME NEW part, NEW p
      PROVE  Total(Shares(part, p, t)) = Total(Shares(part, p, list)) - Share(part, p, list[k]) + Share(part, p, s)
  <2> DEFINE w == Shares(part, p, list)
             v == Shares(part, p, t)
  <2>1. w \in Seq(Int) /\ Len(w) = N /\ \A i \in 1 .. N : w[i] = Share(part, p, list[i])
      BY SharesTyped
  <2>2. v \in Seq(Int) /\ Len(v) = N /\ \A i \in 1 .. N : v[i] = Share(part, p, t[i])
    <3>1. v \in Seq(Int) /\ Len(v) = Len(t) /\ \A i \in 1 .. Len(t) : v[i] = Share(part, p, t[i])
        BY ONLY <1>3, SharesTyped
    <3> HIDE DEF v
    <3> QED BY <1>2, <3>1
  <2> HIDE DEF w, v, N
  <2>3. k \in 1 .. Len(w) /\ Len(v) = Len(w) /\ \A i \in 1 .. Len(w) : i # k => v[i] = w[i]
      BY <1>2, <2>1, <2>2 DEF N
  <2>4. Total(v) = Total(w) - w[k] + v[k]
      BY <2>1, <2>2, <2>3, TotalReplace
  <2>5. w[k] = Share(part, p, list[k]) /\ v[k] = Share(part, p, s)
      BY <1>2, <2>1, <2>2, <2>3
  <2> QED BY <2>4, <2>5 DEF v, w
<1> QED BY <1>2, <1>3, <1>4 DEF OneOther

\* What a charge does to the sums.
LEMMA ChargedEffect ==
    ASSUME NEW a, AccTyped(a), NEW c, NEW tokens \in Int, NEW b, b = Charged(a, c, tokens)
    PROVE  /\ AccTyped(b) /\ b.used = a.used + tokens
           /\ IsSpec(c) => b.spec = a.spec + tokens
           /\ ~IsSpec(c) => b.spec = a.spec
           /\ \A p \in Path : (c.path = p => b.file[p] = a.file[p] + tokens)
                              /\ (c.path # p => b.file[p] = a.file[p])
           /\ b.tier3 = a.tier3 /\ b.code = a.code /\ b.backfill = a.backfill /\ b.backfilled = a.backfilled
<1> DEFINE file == [a.file EXCEPT ![c.path] = @ + tokens]
           more == IF IsSpec(c) THEN tokens ELSE 0
<1>1. b = [a EXCEPT !.used = @ + tokens, !.spec = @ + more, !.file = file]
    BY DEF Charged
<1>2. file \in [Path -> Int] /\ \A p \in Path : (c.path = p => file[p] = a.file[p] + tokens)
                                               /\ (c.path # p => file[p] = a.file[p])
  <2>1. a.file \in [Path -> Int]
      BY DEF AccTyped
  <2>2. \A p \in Path : (c.path = p => file[p] = a.file[p] + tokens) /\ (c.path # p => file[p] = a.file[p])
      BY <2>1
  <2>3. DOMAIN file = Path /\ file = [p \in Path |-> file[p]]
      BY <2>1
  <2> HIDE DEF file
  <2>4. \A p \in Path : file[p] \in Int
      BY <2>1, <2>2
  <2> QED BY <2>2, <2>3, <2>4
<1>3. more \in Int /\ (IsSpec(c) => more = tokens) /\ (~IsSpec(c) => more = 0)
    OBVIOUS
<1> HIDE DEF file, more
<1>4. DOMAIN a = AccFields /\ a.used \in Int /\ a.spec \in Int
    BY DEF AccTyped
<1>5. /\ DOMAIN b = AccFields /\ b.used = a.used + tokens /\ b.spec = a.spec + more /\ b.file = file
      /\ b.tier3 = a.tier3 /\ b.code = a.code /\ b.backfill = a.backfill /\ b.backfilled = a.backfilled
    BY <1>1, <1>4 DEF AccFields
<1> QED BY <1>2, <1>3, <1>4, <1>5 DEF AccTyped

--------------------------------------------------------------------------------
(* The invariant of the assembly.                                             *)

\* The items are what has been placed, and the account is theirs; what is held
\* back is a document, built with the same signals as every other item.
PackInv ==
    /\ live \subseteq Chunk
    /\ GoodSlots(slots) /\ AccTyped(acc) /\ Sums(slots, acc)
    /\ placed = UNION {slots[i].ids : i \in DOMAIN slots}
    /\ reserved # NoSlot => /\ Incoming(reserved) /\ IsSpec(reserved.cand)
                            /\ reserved = BuildSlot(reserved.cand, stale)

\* The lines of the notes of all the items, and of the documents.
Notes(list) == Total(Shares("notes", 0, list))
DocNotes(list) == Total(Shares("docNotes", 0, list))

\* What the documents may take beyond their share: the reserved block, once it is there.
FloorUsed ==
    IF reserved # NoSlot /\ reserved.ids \cap placed # {} THEN Tokens(reserved) ELSE 0

\* The budgets, with the notes that are lines of items and nothing else.
BudgetInv ==
    /\ hardCap \in Nat /\ flow \in Nat /\ reserve \in Nat
    /\ phase \in {"first", "second"} =>
          /\ acc.backfill \in Nat /\ acc.backfill <= BackfillCap
          /\ acc.used <= Larger(hardCap, Budget.overhead) + Notes(slots)
          /\ HasCode => acc.spec <= DocsCap + FloorUsed + DocNotes(slots)
          /\ stage = "greedy" =>
                acc.used <= Larger(hardCap - reserve, Budget.overhead) + Notes(slots)

--------------------------------------------------------------------------------
(* A candidate is taken: placed, or merged.                                   *)

\* What a candidate that is taken does to the pack: it adds no more than it would
\* cost on its own, and what a document adds counts for the documents.
Took(slot, d) ==
    /\ GoodSlots(slots') /\ AccTyped(acc') /\ Sums(slots', acc')
    /\ placed' = placed \cup {slot.cand.id}
    /\ placed' = UNION {slots'[i].ids : i \in DOMAIN slots'}
    /\ d \in Nat /\ d <= Tokens(slot)
    /\ acc'.used = acc.used + d
    /\ IsSpec(slot.cand) => /\ acc'.spec = acc.spec + d
                            /\ acc'.spec - DocNotes(slots') <= acc.spec - DocNotes(slots) + Tokens(slot)
    /\ ~IsSpec(slot.cand) => acc'.spec = acc.spec /\ DocNotes(slots') = DocNotes(slots)
    /\ stage = "backfill" => acc'.backfill = acc.backfill + d
    /\ stage # "backfill" => acc'.backfill = acc.backfill

\* The counters change beside what is charged.
Counted(a, t, n, d, m) ==
    [a EXCEPT !.tier3 = @ + t, !.code = @ + n, !.backfill = @ + d, !.backfilled = @ + m]

\* They leave the account well typed and what is charged alone.
LEMMA CountersEffect ==
    ASSUME NEW a, AccTyped(a), NEW t \in Int, NEW n \in Int, NEW d \in Int, NEW m \in Int,
           NEW b, b = Counted(a, t, n, d, m)
    PROVE  /\ AccTyped(b) /\ b.used = a.used /\ b.spec = a.spec /\ b.file = a.file
           /\ b.backfill = a.backfill + d
<1>1. /\ DOMAIN a = AccFields /\ a.tier3 \in Int /\ a.code \in Int /\ a.backfill \in Int /\ a.backfilled \in Int
      /\ a.used \in Int /\ a.spec \in Int /\ a.file \in [Path -> Int]
    BY DEF AccTyped
<1>2. /\ DOMAIN b = AccFields /\ b.used = a.used /\ b.spec = a.spec /\ b.file = a.file
      /\ b.tier3 = a.tier3 + t /\ b.code = a.code + n /\ b.backfill = a.backfill + d
      /\ b.backfilled = a.backfilled + m
    BY <1>1 DEF AccFields, Counted
<1> QED BY <1>1, <1>2 DEF AccTyped

\* The sums follow the items when the charge is what the items change by.
Follows(list, new, c, d) ==
    \A p : /\ Total(Shares("used", p, new)) = Total(Shares("used", p, list)) + d
           /\ Total(Shares("spec", p, new)) = Total(Shares("spec", p, list)) + (IF IsSpec(c) THEN d ELSE 0)
           /\ Total(Shares("file", p, new)) = Total(Shares("file", p, list)) + (IF c.path = p THEN d ELSE 0)

\* Then the account is that of the new items.
LEMMA SumsFollow ==
    ASSUME NEW list, NEW a, Sums(list, a), GoodSlots(list), AccTyped(a),
           NEW new, NEW c, NEW d \in Int, NEW charged, charged = Charged(a, c, d),
           NEW b, b.used = charged.used, b.spec = charged.spec, b.file = charged.file,
           Follows(list, new, c, d)
    PROVE  Sums(new, b)
<1>1. /\ charged.used = a.used + d
      /\ (IsSpec(c) => charged.spec = a.spec + d) /\ (~IsSpec(c) => charged.spec = a.spec)
      /\ \A p \in Path : (c.path = p => charged.file[p] = a.file[p] + d)
                         /\ (c.path # p => charged.file[p] = a.file[p])
    BY ChargedEffect
<1>2. \A part, p : Total(Shares(part, p, list)) \in Nat
    BY SharesTyped
<1>3. Budget.overhead \in Nat
    BY ContextPackAssumption DEF BudgetField
<1>4. /\ a.used = Budget.overhead + Total(Shares("used", 0, list))
      /\ a.spec = Total(Shares("spec", 0, list))
      /\ \A p \in Path : a.file[p] = Total(Shares("file", p, list))
    BY DEF Sums
<1>5. b.used = Budget.overhead + Total(Shares("used", 0, new))
  <2>1. Total(Shares("used", 0, new)) = Total(Shares("used", 0, list)) + d
      BY DEF Follows
  <2>2. b.used = (Budget.overhead + Total(Shares("used", 0, list))) + d
      BY <1>1, <1>4
  <2>3. Total(Shares("used", 0, list)) \in Nat
      BY <1>2
  <2> QED BY ONLY <1>3, <2>1, <2>2, <2>3, d \in Int
<1>6. b.spec = Total(Shares("spec", 0, new))
  <2>1. Total(Shares("spec", 0, new)) = Total(Shares("spec", 0, list)) + (IF IsSpec(c) THEN d ELSE 0)
      BY DEF Follows
  <2>2. Total(Shares("spec", 0, list)) \in Nat
      BY <1>2
  <2> QED BY <1>1, <1>4, <2>1, <2>2
<1>7. ASSUME NEW p \in Path PROVE b.file[p] = Total(Shares("file", p, new))
  <2>1. Total(Shares("file", p, new)) = Total(Shares("file", p, list)) + (IF c.path = p THEN d ELSE 0)
      BY DEF Follows
  <2>2. Total(Shares("file", p, list)) \in Nat
      BY <1>2
  <2> QED BY <1>1, <1>4, <2>1, <2>2
<1> QED BY <1>5, <1>6, <1>7 DEF Sums

\* The items of one more chunk, or of one in the place of another.
LEMMA IdsAppend ==
    ASSUME NEW list, GoodSlots(list), NEW s, NEW new, Len(new) = Len(list) + 1, new[Len(new)] = s,
           DOMAIN new = 1 .. Len(new), \A i \in 1 .. Len(list) : new[i] = list[i]
    PROVE  UNION {new[i].ids : i \in DOMAIN new} = (UNION {list[i].ids : i \in DOMAIN list}) \cup s.ids
<1>1. Len(list) \in Nat /\ DOMAIN list = 1 .. Len(list)
    BY DEF GoodSlots
<1>2. DOMAIN new = DOMAIN list \cup {Len(new)}
    BY <1>1
<1>3. \A i \in DOMAIN list : new[i] = list[i]
    BY <1>1
<1> QED BY <1>2, <1>3

\* One in the place of another that stands for more chunks.
LEMMA IdsReplace ==
    ASSUME NEW list, NEW k \in DOMAIN list, NEW s, NEW ids, s.ids = list[k].ids \cup ids,
           NEW new, DOMAIN new = DOMAIN list, new[k] = s, \A i \in DOMAIN list : i # k => new[i] = list[i]
    PROVE  UNION {new[i].ids : i \in DOMAIN new} = (UNION {list[i].ids : i \in DOMAIN list}) \cup ids
<1>1. ASSUME NEW x, x \in UNION {new[i].ids : i \in DOMAIN new}
      PROVE  x \in (UNION {list[i].ids : i \in DOMAIN list}) \cup ids
  <2>1. PICK i \in DOMAIN list : x \in new[i].ids
      BY <1>1
  <2>2. i = k \/ new[i] = list[i]
      OBVIOUS
  <2> QED BY <2>1, <2>2
<1>2. ASSUME NEW x, x \in (UNION {list[i].ids : i \in DOMAIN list}) \cup ids
      PROVE  x \in UNION {new[i].ids : i \in DOMAIN new}
  <2>1. CASE x \in ids
      BY <2>1
  <2>2. ASSUME NEW i \in DOMAIN list, x \in list[i].ids PROVE x \in UNION {new[j].ids : j \in DOMAIN new}
    <3>1. x \in new[i].ids
        BY <2>2
    <3> QED BY <3>1
  <2> QED BY <1>2, <2>1, <2>2
<1> QED BY <1>1, <1>2

\* An item of its own.
LEMMA PlaceTook ==
    ASSUME PackInv, NEW slot, Incoming(slot), Place(slot)
    PROVE  Took(slot, Tokens(slot))
<1> DEFINE c == slot.cand
           cost == Tokens(slot)
           sums == Charged(acc, c, cost)
           more == IF c.tier = 3 THEN cost ELSE 0
           code == IF ~IsSpec(c) /\ stage \in {"greedy", "code"} THEN 1 ELSE 0
           back == IF stage = "backfill" THEN cost ELSE 0
           one == IF stage = "backfill" THEN 1 ELSE 0
<1>1. GoodSlots(slots) /\ AccTyped(acc) /\ Sums(slots, acc) /\ placed = UNION {slots[i].ids : i \in DOMAIN slots}
    BY DEF PackInv
<1>2. GoodSlot(slot) /\ slot.ids = {c.id} /\ cost \in Nat /\ Mark(slot) = 0
    BY IncomingGood, SlotTokens DEF Incoming, Mark
<1>3. /\ slots' = Append(slots, slot) /\ placed' = placed \cup {c.id}
      /\ acc' = [sums EXCEPT !.tier3 = @ + more, !.code = @ + code, !.backfill = @ + back, !.backfilled = @ + one]
    BY DEF Place
<1>4. /\ GoodSlots(slots') /\ Len(slots') = Len(slots) + 1 /\ slots'[Len(slots')] = slot
      /\ \A i \in 1 .. Len(slots) : slots'[i] = slots[i]
      /\ \A part, p : Total(Shares(part, p, slots')) = Total(Shares(part, p, slots)) + Share(part, p, slot)
  <2>1. PICK new : new = Append(slots, slot)
      OBVIOUS
  <2>2. GoodSlots(slots) /\ GoodSlot(slot)
      BY <1>1, <1>2
  <2>3. OneMore(slots, slot, new)
      BY ONLY <2>1, <2>2, SharesAppend
  <2>4. slots' = new
      BY <1>3, <2>1
  <2> QED BY <2>3, <2>4 DEF OneMore
<1>5. /\ AccTyped(sums) /\ sums.used = acc.used + cost
      /\ (IsSpec(c) => sums.spec = acc.spec + cost) /\ (~IsSpec(c) => sums.spec = acc.spec)
      /\ sums.backfill = acc.backfill
    BY <1>1, <1>2, ChargedEffect
<1>6. more \in Int /\ code \in Int /\ back \in Int /\ one \in Int
    BY <1>2
<1> HIDE DEF more, code, one
<1>7. /\ AccTyped(acc') /\ acc'.used = sums.used /\ acc'.spec = sums.spec /\ acc'.file = sums.file
      /\ acc'.backfill = sums.backfill + back
  <2>1. acc' = Counted(sums, more, code, back, one)
      BY <1>3 DEF Counted
  <2> HIDE DEF sums, back
  <2> QED BY ONLY <1>5, <1>6, <2>1, CountersEffect
<1>8. \A p : /\ Share("used", p, slot) = cost
             /\ Share("spec", p, slot) = (IF IsSpec(c) THEN cost ELSE 0)
             /\ Share("file", p, slot) = (IF c.path = p THEN cost ELSE 0)
             /\ Share("docNotes", p, slot) = 0
    BY <1>2 DEF Share, Weight, Counts
<1>9. Sums(slots', acc')
  <2>1. Follows(slots, slots', c, cost)
      BY <1>4, <1>8 DEF Follows
  <2>2. cost \in Int
      BY <1>2
  <2>3. PICK charged : charged = Charged(acc, c, cost)
      OBVIOUS
  <2>4. acc'.used = charged.used /\ acc'.spec = charged.spec /\ acc'.file = charged.file
      BY <1>7, <2>3
  <2> QED BY ONLY <1>1, <2>1, <2>2, <2>3, <2>4, SumsFollow
<1>10. placed' = UNION {slots'[i].ids : i \in DOMAIN slots'}
  <2>1. UNION {slots'[i].ids : i \in DOMAIN slots'} = (UNION {slots[i].ids : i \in DOMAIN slots}) \cup slot.ids
    <3>1. DOMAIN slots' = 1 .. Len(slots')
        BY <1>4 DEF GoodSlots
    <3> QED BY <1>1, <1>4, <3>1, IdsAppend
  <2> QED BY <1>1, <1>2, <1>3, <2>1
<1>11. DocNotes(slots') = DocNotes(slots) /\ DocNotes(slots) \in Nat
  <2>1. Total(Shares("docNotes", 0, slots)) \in Nat
      BY <1>1, SharesTyped
  <2>2. Total(Shares("docNotes", 0, slots')) = Total(Shares("docNotes", 0, slots)) + 0
      BY <1>4, <1>8
  <2> QED BY <2>1, <2>2 DEF DocNotes
<1>12. acc.used \in Int /\ acc.spec \in Int /\ acc.backfill \in Int
    BY <1>1 DEF AccTyped
<1>13. IsSpec(c) => /\ acc'.spec = acc.spec + cost
                    /\ acc'.spec - DocNotes(slots') <= acc.spec - DocNotes(slots) + cost
    BY <1>2, <1>5, <1>7, <1>11, <1>12
<1>14. /\ (stage = "backfill" => acc'.backfill = acc.backfill + cost)
       /\ (stage # "backfill" => acc'.backfill = acc.backfill)
    BY <1>2, <1>5, <1>7, <1>12
<1> HIDE DEF back, sums
<1> QED BY <1>2, <1>3, <1>4, <1>5, <1>7, <1>9, <1>10, <1>11, <1>13, <1>14 DEF Took

\* The item a candidate is merged into is of its file and its type.
LEMMA MergeTargetFits ==
    ASSUME NEW slot, MergeTarget(slot) # 0
    PROVE  LET k == MergeTarget(slot) IN
           /\ k \in DOMAIN slots
           /\ slots[k].cand.path = slot.cand.path /\ IsSpec(slots[k].cand) = IsSpec(slot.cand)
<1> DEFINE Test(s) == /\ s.cand.path = slot.cand.path /\ IsSpec(s.cand) = IsSpec(slot.cand)
                      /\ Distance(s.segments, slot.segments) <= Budget.adjacentGap
           hits == {k \in DOMAIN slots \cap Nat : Test(slots[k])}
<1>1. MergeTarget(slot) = IF hits = {} THEN 0 ELSE Min(hits)
    BY DEF MergeTarget, FirstWhere
<1>2. hits \in SUBSET Nat
    OBVIOUS
<1> HIDE DEF hits
<1>3. MergeTarget(slot) \in hits
    BY <1>1, <1>2, MinIsLeast
<1> QED BY <1>3 DEF hits

\* A neighbour takes it.
LEMMA MergeTook ==
    ASSUME PackInv, NEW slot, Incoming(slot), NEW k, k = MergeTarget(slot), k # 0,
           slots' = [slots EXCEPT ![k] = MergeSegments(@, slot)],
           placed' = placed \cup {slot.cand.id},
           ChargeMerge(slot, Tokens(slots'[k]) - Tokens(slots[k]))
    PROVE  \E d \in Nat : Took(slot, d)
<1> DEFINE c == slot.cand
           old == slots[k]
           new == MergeSegments(old, slot)
           d == Tokens(new) - Tokens(old)
           sums == Charged(acc, c, d)
           code == IF stage = "code" THEN 1 ELSE 0
           back == IF stage = "backfill" THEN d ELSE 0
           one == IF stage = "backfill" THEN 1 ELSE 0
<1>1. GoodSlots(slots) /\ AccTyped(acc) /\ Sums(slots, acc) /\ placed = UNION {slots[i].ids : i \in DOMAIN slots}
    BY DEF PackInv
<1>2. k \in DOMAIN slots /\ old.cand.path = c.path /\ IsSpec(old.cand) = IsSpec(c)
    BY MergeTargetFits
<1>3. GoodSlot(old) /\ k \in 1 .. Len(slots) /\ DOMAIN slots = 1 .. Len(slots)
    BY <1>1, <1>2 DEF GoodSlots
<1>4. /\ GoodSlot(new) /\ new.cand = old.cand /\ new.ids = old.ids \cup slot.ids /\ new.note = "merged"
      /\ Tokens(old) <= Tokens(new) /\ d <= Tokens(slot)
      /\ old.note = "aggregated" => d < Tokens(slot)
    BY <1>3, MergeGood
<1>5. slot.ids = {c.id} /\ GoodSlot(slot)
    BY IncomingGood DEF Incoming
<1>6. Tokens(old) \in Nat /\ Tokens(new) \in Nat /\ Tokens(slot) \in Nat
    BY <1>3, <1>4, <1>5, SlotTokens
<1> HIDE DEF new
<1>7. slots' = [slots EXCEPT ![k] = new] /\ slots'[k] = new
    BY <1>2 DEF new
<1>8. d \in Nat /\ d \in Int
    BY <1>4, <1>6
<1>9. Mark(new) = 0 /\ Mark(old) \in {0, 1} /\ d + Mark(old) <= Tokens(slot)
  <2>1. Mark(new) = 0
      BY <1>4 DEF Mark
  <2>2. CASE old.note = "aggregated"
    <3>1. Mark(old) = 1 /\ d < Tokens(slot)
        BY <1>4, <2>2 DEF Mark
    <3> HIDE DEF d
    <3> QED BY <1>6, <1>8, <2>1, <3>1
  <2>3. CASE old.note # "aggregated"
    <3>1. Mark(old) = 0 /\ d <= Tokens(slot)
        BY <1>4, <2>3 DEF Mark
    <3> HIDE DEF d
    <3> QED BY <1>6, <1>8, <2>1, <3>1
  <2> QED BY <2>2, <2>3
<1>10. OneOther(slots, k, new, slots')
  <2>1. PICK list : list = [slots EXCEPT ![k] = new]
      OBVIOUS
  <2>2. GoodSlots(slots) /\ GoodSlot(new) /\ k \in 1 .. Len(slots)
      BY <1>1, <1>3, <1>4
  <2>3. OneOther(slots, k, new, list)
      BY ONLY <2>1, <2>2, SharesReplace
  <2> QED BY <1>7, <2>1, <2>3
<1>11. /\ GoodSlots(slots') /\ Len(slots') = Len(slots)
       /\ \A i \in 1 .. Len(slots) : i # k => slots'[i] = slots[i]
       /\ \A part, p : Total(Shares(part, p, slots'))
                          = Total(Shares(part, p, slots)) - Share(part, p, old) + Share(part, p, new)
    BY <1>10 DEF OneOther
<1>12. /\ AccTyped(sums) /\ sums.used = acc.used + d
       /\ (IsSpec(c) => sums.spec = acc.spec + d) /\ (~IsSpec(c) => sums.spec = acc.spec)
       /\ sums.backfill = acc.backfill
    BY <1>1, <1>8, ChargedEffect
<1>13. /\ AccTyped(acc') /\ acc'.used = sums.used /\ acc'.spec = sums.spec /\ acc'.file = sums.file
       /\ acc'.backfill = sums.backfill + back
  <2>1. acc' = [sums EXCEPT !.code = @ + code, !.backfill = @ + back, !.backfilled = @ + one]
      BY <1>7 DEF ChargeMerge
  <2>2. code \in Int /\ back \in Int /\ one \in Int
      BY <1>8
  <2> HIDE DEF sums, code, back, one
  <2>3. /\ DOMAIN sums = AccFields /\ sums.tier3 \in Int /\ sums.code \in Int /\ sums.backfill \in Int
        /\ sums.backfilled \in Int /\ sums.used \in Int /\ sums.spec \in Int /\ sums.file \in [Path -> Int]
      BY <1>12 DEF AccTyped
  <2>4. /\ DOMAIN acc' = AccFields /\ acc'.used = sums.used /\ acc'.spec = sums.spec /\ acc'.file = sums.file
        /\ acc'.tier3 = sums.tier3 /\ acc'.code = sums.code + code /\ acc'.backfill = sums.backfill + back
        /\ acc'.backfilled = sums.backfilled + one
      BY <2>1, <2>3 DEF AccFields
  <2> QED BY <2>2, <2>3, <2>4 DEF AccTyped
<1>14. \A p : /\ Share("used", p, new) = Tokens(new) /\ Share("used", p, old) = Tokens(old)
              /\ Share("spec", p, new) = (IF IsSpec(c) THEN Tokens(new) ELSE 0)
              /\ Share("spec", p, old) = (IF IsSpec(c) THEN Tokens(old) ELSE 0)
              /\ Share("file", p, new) = (IF c.path = p THEN Tokens(new) ELSE 0)
              /\ Share("file", p, old) = (IF c.path = p THEN Tokens(old) ELSE 0)
              /\ Share("docNotes", p, new) = 0
              /\ Share("docNotes", p, old) = (IF IsSpec(c) THEN Mark(old) ELSE 0)
    BY <1>2, <1>4, <1>9 DEF Share, Weight, Counts
<1>15. \A part, p : Total(Shares(part, p, slots)) \in Nat
    BY <1>1, SharesTyped
<1>16. Sums(slots', acc')
  <2>1. ASSUME NEW p
        PROVE  /\ Total(Shares("used", p, slots')) = Total(Shares("used", p, slots)) + d
               /\ Total(Shares("spec", p, slots'))
                     = Total(Shares("spec", p, slots)) + (IF IsSpec(c) THEN d ELSE 0)
               /\ Total(Shares("file", p, slots'))
                     = Total(Shares("file", p, slots)) + (IF c.path = p THEN d ELSE 0)
    <3>1. Total(Shares("used", p, slots')) = Total(Shares("used", p, slots)) + d
      <4>1. Total(Shares("used", p, slots')) = Total(Shares("used", p, slots)) - Tokens(old) + Tokens(new)
          BY <1>11, <1>14
      <4>2. Total(Shares("used", p, slots)) \in Nat
          BY <1>15
      <4> QED BY ONLY <1>6, <4>1, <4>2
    <3>2. Total(Shares("spec", p, slots')) = Total(Shares("spec", p, slots)) + (IF IsSpec(c) THEN d ELSE 0)
      <4>1. Total(Shares("spec", p, slots')) = Total(Shares("spec", p, slots))
               - (IF IsSpec(c) THEN Tokens(old) ELSE 0) + (IF IsSpec(c) THEN Tokens(new) ELSE 0)
        <5>1. Total(Shares("spec", p, slots'))
                 = Total(Shares("spec", p, slots)) - Share("spec", p, old) + Share("spec", p, new)
            BY <1>11
        <5>2. /\ Share("spec", p, new) = (IF IsSpec(c) THEN Tokens(new) ELSE 0)
              /\ Share("spec", p, old) = (IF IsSpec(c) THEN Tokens(old) ELSE 0)
            BY <1>14
        <5> QED BY ONLY <5>1, <5>2
      <4>2. Total(Shares("spec", p, slots)) \in Nat
          BY <1>15
      <4>3. CASE IsSpec(c)
          BY ONLY <1>6, <4>1, <4>2, <4>3
      <4>4. CASE ~IsSpec(c)
          BY ONLY <4>1, <4>2, <4>4
      <4> QED BY <4>3, <4>4
    <3>3. Total(Shares("file", p, slots')) = Total(Shares("file", p, slots)) + (IF c.path = p THEN d ELSE 0)
      <4>1. Total(Shares("file", p, slots')) = Total(Shares("file", p, slots))
               - (IF c.path = p THEN Tokens(old) ELSE 0) + (IF c.path = p THEN Tokens(new) ELSE 0)
        <5>1. Total(Shares("file", p, slots'))
                 = Total(Shares("file", p, slots)) - Share("file", p, old) + Share("file", p, new)
            BY <1>11
        <5>2. /\ Share("file", p, new) = (IF c.path = p THEN Tokens(new) ELSE 0)
              /\ Share("file", p, old) = (IF c.path = p THEN Tokens(old) ELSE 0)
            BY <1>14
        <5> QED BY ONLY <5>1, <5>2
      <4>2. Total(Shares("file", p, slots)) \in Nat
          BY <1>15
      <4>3. CASE c.path = p
          BY ONLY <1>6, <4>1, <4>2, <4>3
      <4>4. CASE c.path # p
          BY ONLY <4>1, <4>2, <4>4
      <4> QED BY <4>3, <4>4
    <3> QED BY <3>1, <3>2, <3>3
  <2>2. PICK charged : charged = sums
      OBVIOUS
  <2>3. charged = Charged(acc, c, d)
      BY <2>2
  <2>4. d \in Int
      BY <1>8
  <2>5. acc'.used = charged.used /\ acc'.spec = charged.spec /\ acc'.file = charged.file
      BY <1>13, <2>2
  <2> HIDE DEF d, sums
  <2>6. Follows(slots, slots', c, d)
      BY <2>1 DEF Follows
  <2> QED BY ONLY <1>1, <2>3, <2>4, <2>5, <2>6, SumsFollow
<1>17. placed' = UNION {slots'[i].ids : i \in DOMAIN slots'}
  <2>1. DOMAIN slots' = DOMAIN slots /\ \A i \in DOMAIN slots : i # k => slots'[i] = slots[i]
      BY <1>3, <1>11 DEF GoodSlots
  <2>2. UNION {slots'[i].ids : i \in DOMAIN slots'} = (UNION {slots[i].ids : i \in DOMAIN slots}) \cup slot.ids
      BY <1>2, <1>4, <1>7, <2>1, IdsReplace
  <2> QED BY <1>1, <1>5, <2>2
<1>18. /\ DocNotes(slots) \in Nat
       /\ IsSpec(c) => DocNotes(slots') = DocNotes(slots) - Mark(old)
       /\ ~IsSpec(c) => DocNotes(slots') = DocNotes(slots)
  <2>1. Total(Shares("docNotes", 0, slots)) \in Nat
      BY <1>15
  <2>2. Total(Shares("docNotes", 0, slots')) = Total(Shares("docNotes", 0, slots))
           - (IF IsSpec(c) THEN Mark(old) ELSE 0) + 0
    <3>1. Total(Shares("docNotes", 0, slots'))
             = Total(Shares("docNotes", 0, slots)) - Share("docNotes", 0, old) + Share("docNotes", 0, new)
        BY <1>11
    <3>2. /\ Share("docNotes", 0, new) = 0
          /\ Share("docNotes", 0, old) = (IF IsSpec(c) THEN Mark(old) ELSE 0)
        BY <1>14
    <3> QED BY ONLY <3>1, <3>2
  <2> QED BY <1>9, <2>1, <2>2 DEF DocNotes
<1>19. acc.used \in Int /\ acc.spec \in Int /\ acc.backfill \in Int
    BY <1>1 DEF AccTyped
<1>20. (stage = "backfill" => acc'.backfill = acc.backfill + d)
       /\ (stage # "backfill" => acc'.backfill = acc.backfill)
    BY <1>8, <1>12, <1>13, <1>19
<1>21. d <= Tokens(slot)
    BY <1>4
<1> HIDE DEF d, back, sums
<1>22. IsSpec(c) => /\ acc'.spec = acc.spec + d
                    /\ acc'.spec - DocNotes(slots') <= acc.spec - DocNotes(slots) + Tokens(slot)
  <2> SUFFICES ASSUME IsSpec(c)
               PROVE  /\ acc'.spec = acc.spec + d
                      /\ acc'.spec - DocNotes(slots') <= acc.spec - DocNotes(slots) + Tokens(slot)
      OBVIOUS
  <2>1. acc'.spec = acc.spec + d /\ DocNotes(slots') = DocNotes(slots) - Mark(old)
      BY <1>12, <1>13, <1>18
  <2>2. Mark(old) \in Nat /\ DocNotes(slots) \in Nat /\ d \in Nat /\ Tokens(slot) \in Nat /\ acc.spec \in Int
        /\ d + Mark(old) <= Tokens(slot)
      BY <1>6, <1>8, <1>9, <1>18, <1>19
  <2> QED BY ONLY <2>1, <2>2
<1>23. Took(slot, d)
    BY <1>8, <1>11, <1>12, <1>13, <1>16, <1>17, <1>18, <1>20, <1>21, <1>22 DEF Took
<1> QED BY <1>8, <1>23

\* Either way.
LEMMA MergeOrPlaceTook ==
    ASSUME PackInv, NEW slot, Incoming(slot), MergeOrPlace(slot)
    PROVE  \E d \in Nat : Took(slot, d)
<1>1. CASE MergeTarget(slot) = 0
  <2>1. Place(slot)
      BY <1>1 DEF MergeOrPlace
  <2>2. Tokens(slot) \in Nat
      BY IncomingGood, SlotTokens
  <2> QED BY <2>1, <2>2, PlaceTook
<1>2. CASE MergeTarget(slot) # 0
  <2>1. PICK k : k = MergeTarget(slot)
      OBVIOUS
  <2>2. /\ slots' = [slots EXCEPT ![k] = MergeSegments(@, slot)] /\ placed' = placed \cup {slot.cand.id}
        /\ ChargeMerge(slot, Tokens(slots'[k]) - Tokens(slots[k]))
      BY <1>2, <2>1 DEF MergeOrPlace
  <2> QED BY <1>2, <2>1, <2>2, MergeTook
<1> QED BY <1>1, <1>2

--------------------------------------------------------------------------------
(* The budgets.                                                               *)

\* A chain of callees is a list of symbols that have rows.
LEMMA WalkTyped ==
    ASSUME NEW asked, NEW fqn
    PROVE  Len(WalkCallees(asked, fqn)) \in Nat
<1> DEFINE S == {Corpus[c].fqn : c \in live}
           N == Limits.flowNodes
           M == N - 1
           hit(chain) == FirstWhere(Callees(asked, Last(chain)), LAMBDA f : HasRow(f) /\ f \notin ToSet(chain))
           Longer(chain) == IF hit(chain) = 0 THEN chain
                            ELSE Append(chain, Callees(asked, Last(chain))[hit(chain)])
           Body(f) == [n \in 1 .. N |-> IF n = 1 THEN <<fqn>> ELSE Longer(f[n - 1])]
           all == CHOOSE f : f = Body(f)
           step == [p \in (1 .. M) \X Seq(S) |-> Longer(p[2])]
<1>1. M \in Nat /\ N \in Nat \ {0} /\ N = M + 1
    BY RankingAssumption
<1>2. CASE ~HasRow(fqn)
  <2>1. WalkCallees(asked, fqn) = <<>>
      BY <1>2 DEF WalkCallees
  <2> QED BY <2>1
<1>3. CASE HasRow(fqn)
  <2>1. <<fqn>> \in Seq(S)
      BY <1>3 DEF HasRow
  <2>2. ASSUME NEW chain \in Seq(S) PROVE Longer(chain) \in Seq(S)
    <3> DEFINE callees == Callees(asked, Last(chain))
               hits == {k \in DOMAIN callees \cap Nat : HasRow(callees[k]) /\ callees[k] \notin ToSet(chain)}
    <3>1. hit(chain) = IF hits = {} THEN 0 ELSE Min(hits)
        BY DEF FirstWhere
    <3>2. CASE hit(chain) = 0
        BY <3>2
    <3>3. CASE hit(chain) # 0
      <4>1. hit(chain) \in hits
        <5>1. hits \in SUBSET Nat
            OBVIOUS
        <5> HIDE DEF hits, hit
        <5> QED BY <3>1, <3>3, <5>1, MinIsLeast
      <4>2. HasRow(callees[hit(chain)])
          BY <4>1
      <4> HIDE DEF hit
      <4>3. callees[hit(chain)] \in S
          BY <4>2 DEF HasRow
      <4>4. Longer(chain) = Append(chain, callees[hit(chain)])
          BY <3>3
      <4> HIDE DEF callees, S, Longer
      <4> QED BY <4>3, <4>4
    <3> QED BY <3>2, <3>3
  <2>3. WalkCallees(asked, fqn) = all[N]
      BY <1>3 DEF WalkCallees
  <2> HIDE DEF Longer, S
  <2>4. step \in Steps(M, Seq(S))
      BY <2>2 DEF Steps
  <2>5. PICK g : Iterates(g, M, Seq(S), <<fqn>>, step)
      BY <1>1, <2>1, <2>4, Recursion
  <2> DEFINE h == [n \in 1 .. N |-> g[n - 1]]
  <2>6. g \in [0 .. M -> Seq(S)] /\ g[0] = <<fqn>> /\ \A i \in 1 .. M : g[i] = step[<<i, g[i - 1]>>]
      BY <2>5 DEF Iterates
  <2>7. \A i \in 1 .. M : g[i] = Longer(g[i - 1])
    <3>1. ASSUME NEW i \in 1 .. M PROVE g[i] = Longer(g[i - 1])
      <4>1. i - 1 \in 0 .. M /\ g[i - 1] \in Seq(S)
          BY <1>1, <2>6
      <4>2. <<i, g[i - 1]>> \in (1 .. M) \X Seq(S)
          BY <4>1
      <4> QED BY <2>6, <4>2
    <3> QED BY <3>1
  <2> HIDE DEF M, N
  <2>8. h = Body(h)
    <3>1. ASSUME NEW n \in 1 .. N PROVE h[n] = IF n = 1 THEN <<fqn>> ELSE Longer(h[n - 1])
      <4>1. CASE n = 1
          BY <1>1, <2>6, <4>1
      <4>2. CASE n # 1
        <5>1. n - 1 \in 1 .. M /\ n - 1 \in 1 .. N
            BY <1>1, <4>2
        <5>2. h[n - 1] = g[(n - 1) - 1] /\ h[n] = g[n - 1]
            BY <5>1
        <5> HIDE DEF h
        <5> QED BY <2>7, <4>2, <5>1, <5>2
      <4> QED BY <4>1, <4>2
    <3>2. h = [n \in 1 .. N |-> h[n]]
        OBVIOUS
    <3> HIDE DEF h
    <3> QED BY <3>1, <3>2
  <2>9. all = Body(all)
    <3> HIDE DEF h, Body
    <3> QED BY <2>8
  <2> HIDE DEF all
  <2> DEFINE Good == {n \in Nat : n + 1 <= N => all[n + 1] \in Seq(S)}
  <2>10. \A n \in 1 .. N : all[n] = IF n = 1 THEN <<fqn>> ELSE Longer(all[n - 1])
    <3> DEFINE v == Body(all)
    <3>1. \A n \in 1 .. N : v[n] = IF n = 1 THEN <<fqn>> ELSE Longer(all[n - 1])
        OBVIOUS
    <3> HIDE DEF v
    <3>2. all = v
        BY <2>9 DEF v
    <3> QED BY <3>1, <3>2
  <2> HIDE DEF Body
  <2>11. 0 \in Good
    <3>1. 0 + 1 = 1 /\ 1 \in 1 .. N
        BY <1>1
    <3> QED BY <2>1, <2>10, <3>1
  <2>12. ASSUME NEW n \in Nat, n \in Good PROVE n + 1 \in Good
    <3> SUFFICES ASSUME (n + 1) + 1 <= N PROVE all[(n + 1) + 1] \in Seq(S)
        OBVIOUS
    <3>1. all[n + 1] \in Seq(S) /\ (n + 1) + 1 \in 1 .. N /\ (n + 1) + 1 # 1 /\ ((n + 1) + 1) - 1 = n + 1
        BY <1>1, <2>12
    <3>2. all[(n + 1) + 1] = Longer(all[n + 1])
        BY <2>10, <3>1
    <3> QED BY <2>2, <3>1, <3>2
  <2> HIDE DEF Good
  <2>13. M \in Good
      BY <1>1, <2>11, <2>12, Induction
  <2>14. all[N] \in Seq(S)
      BY <1>1, <2>13 DEF Good
  <2> QED BY <2>3, <2>14
<1> QED BY <1>2, <1>3

\* The call chains beside the evidence cost a number of tokens.
LEMMA FlowTyped ==
    ASSUME NEW asked, NEW cands
    PROVE  FlowTokens(asked, cands) \in Nat
<1> DEFINE seeds == Seeds(cands)
           Cost(chain) == IF Len(chain) < 2 THEN 0 ELSE 2 * Len(chain)
           Take1(i) == i \in DOMAIN seeds /\ ~IsSpec(seeds[i]) /\ seeds[i].fqn # <<>>
           Price(i) == IF Take1(i) THEN Cost(WalkCallees(asked, seeds[i].fqn)) ELSE 0
           N == Limits.flowSeeds
           w == [i \in 1 .. N |-> Price(i)]
<1>1. FlowTokens(asked, cands) = Total(w)
    BY DEF FlowTokens
<1>2. N \in Nat
    BY RankingAssumption
<1>3. ASSUME NEW i \in 1 .. N PROVE Price(i) \in Nat
  <2>1. Len(WalkCallees(asked, seeds[i].fqn)) \in Nat
      BY WalkTyped
  <2> HIDE DEF Take1, seeds
  <2> QED BY <2>1
<1> HIDE DEF Price, N
<1>4. w \in Seq(Nat)
    BY <1>2, <1>3
<1> QED BY <1>1, <1>4, TotalNat

\* The notes are items: there are as many as the account has lines for them.
LEMMA NotesCounted ==
    ASSUME NEW list, GoodSlots(list)
    PROVE  /\ Notes(list) = Cardinality({i \in DOMAIN list : list[i].note = "aggregated"})
           /\ Notes(list) \in Nat /\ DocNotes(list) \in Nat /\ DocNotes(list) <= Notes(list)
<1> DEFINE w == Shares("notes", 0, list)
           v == Shares("docNotes", 0, list)
           Noting == {i \in 1 .. Len(w) : w[i] = 1}
           Docs == {i \in 1 .. Len(v) : v[i] = 1}
<1>1. Len(list) \in Nat /\ DOMAIN list = 1 .. Len(list)
    BY DEF GoodSlots
<1>2. /\ w \in Seq(Int) /\ Len(w) = Len(list) /\ \A i \in 1 .. Len(list) : w[i] = Share("notes", 0, list[i])
      /\ Total(w) \in Nat
    BY SharesTyped
<1>3. /\ v \in Seq(Int) /\ Len(v) = Len(list) /\ \A i \in 1 .. Len(list) : v[i] = Share("docNotes", 0, list[i])
      /\ Total(v) \in Nat
    BY SharesTyped
<1>4. \A i \in 1 .. Len(list) : /\ w[i] = Mark(list[i])
                                /\ v[i] \in {0, Mark(list[i])} /\ Mark(list[i]) \in {0, 1}
    BY <1>2, <1>3 DEF Share, Weight, Counts, Mark
<1>5. w \in Seq({0, 1}) /\ v \in Seq({0, 1})
  <2>1. ASSUME NEW i \in 1 .. Len(list) PROVE w[i] \in {0, 1} /\ v[i] \in {0, 1}
    <3>1. w[i] = Mark(list[i]) /\ v[i] \in {0, Mark(list[i])} /\ Mark(list[i]) \in {0, 1}
        BY <1>4
    <3> HIDE DEF w, v
    <3> QED BY <3>1
  <2> HIDE DEF w, v
  <2>2. Len(list) \in Nat /\ w = [i \in 1 .. Len(list) |-> w[i]] /\ v = [i \in 1 .. Len(list) |-> v[i]]
      BY <1>1, <1>2, <1>3
  <2>3. w \in [1 .. Len(list) -> {0, 1}] /\ v \in [1 .. Len(list) -> {0, 1}]
      BY <2>1, <2>2
  <2> QED BY <2>2, <2>3
<1>6. IsFiniteSet(Noting) /\ Total(w) = Cardinality(Noting) /\ Total(v) = Cardinality(Docs)
    BY <1>5, TotalCounts
<1>7. Docs \subseteq Noting
    BY <1>2, <1>3, <1>4
<1>8. Noting = {i \in DOMAIN list : list[i].note = "aggregated"}
    BY <1>1, <1>2, <1>4 DEF Mark
<1>9. Cardinality(Docs) <= Cardinality(Noting)
  <2> HIDE DEF Docs, Noting
  <2> QED BY <1>6, <1>7, FS_Subset
<1> HIDE DEF Docs, Noting
<1> QED BY <1>2, <1>3, <1>6, <1>8, <1>9 DEF Notes, DocNotes

\* What nothing but the configuration and the caller decide.
LEMMA LimitsTyped ==
    ASSUME hardCap \in Nat
    PROVE  BackfillCap \in Nat /\ DocsCap \in Int /\ Budget.overhead \in Nat /\ BackfillReserve(hardCap) \in Nat
<1>1. Budget.overhead \in Nat /\ Budget.docsTokens \in Nat /\ Budget.backfillRatio \in Nat /\ Budget.reserveMin \in Nat
    BY ContextPackAssumption DEF BudgetField
<1>2. Percent(Budget.backfillRatio, hardCap) \in Nat
  <2>1. Budget.backfillRatio * hardCap \in Nat
      BY <1>1
  <2> QED BY <2>1 DEF Percent
<1>3. DocsCap \in Int
    BY <1>1 DEF DocsCap, Larger
<1>4. BackfillReserve(hardCap) \in Nat
  <2>1. hardCap \div 2 \in Nat
      OBVIOUS
  <2> QED BY <1>2, <2>1 DEF BackfillReserve, Smaller
<1> QED BY <1>1, <1>2, <1>3, <1>4 DEF BackfillCap

\* A candidate that is taken within the limits of its stage.
Affordable(slot) ==
    /\ acc.used + Tokens(slot) <= Larger(hardCap, Budget.overhead)
    /\ stage = "greedy" => acc.used + Tokens(slot) <= Larger(hardCap - reserve, Budget.overhead)
    /\ stage = "backfill" => acc.backfill + Tokens(slot) <= BackfillCap
    /\ (HasCode /\ IsSpec(slot.cand)) =>
          \/ acc.spec + Tokens(slot) <= DocsCap
          \/ /\ reserved # NoSlot /\ reserved.ids \cap placed = {} /\ slot.cand.id \in reserved.ids
             /\ Tokens(slot) <= Tokens(reserved)

\* What a step of the assembly leaves alone.
Framed == UNCHANGED <<live, hardCap, pool, backfill, reserve, flow, stale, reserved, phase>>

\* A candidate that could be afforded keeps both parts of the invariant when it is taken.
LEMMA TookKeeps ==
    ASSUME PackInv, BudgetInv, NEW slot, Incoming(slot), NEW d, Took(slot, d), Affordable(slot), Framed,
           stage' = "greedy" => stage = "greedy", phase \in {"first", "second"}
    PROVE  PackInv' /\ BudgetInv'
<1>1. UNCHANGED <<live, hardCap, pool, reserve, flow, stale, reserved, phase>>
    BY DEF Framed
<1>2. PackInv'
  <2>1. GoodSlots(slots') /\ AccTyped(acc') /\ Sums(slots', acc') /\ placed' = UNION {slots'[i].ids : i \in DOMAIN slots'}
      BY DEF Took
  <2>2. live' \subseteq Chunk
      BY <1>1 DEF PackInv
  <2>3. (reserved # NoSlot => /\ Incoming(reserved) /\ IsSpec(reserved.cand)
                              /\ reserved = BuildSlot(reserved.cand, stale))'
      BY <1>1 DEF PackInv
  <2> QED BY <2>1, <2>2, <2>3 DEF PackInv
<1>3. hardCap \in Nat /\ flow \in Nat /\ reserve \in Nat
    BY DEF BudgetInv
<1>4. BackfillCap \in Nat /\ DocsCap \in Int /\ Budget.overhead \in Nat
    BY <1>3, LimitsTyped
<1>5. BackfillCap' = BackfillCap /\ DocsCap' = DocsCap /\ HasCode' = HasCode
    BY <1>1 DEF BackfillCap, DocsCap, HasCode
<1>6. /\ acc.backfill \in Nat /\ acc.backfill <= BackfillCap
      /\ HasCode => acc.spec <= DocsCap + FloorUsed + DocNotes(slots)
    BY DEF BudgetInv
<1>7. /\ d \in Nat /\ d <= Tokens(slot) /\ acc'.used = acc.used + d
      /\ (stage = "backfill" => acc'.backfill = acc.backfill + d)
      /\ (stage # "backfill" => acc'.backfill = acc.backfill)
      /\ GoodSlots(slots') /\ AccTyped(acc')
    BY DEF Took
<1>8. Tokens(slot) \in Nat
    BY IncomingGood, SlotTokens
<1>9. acc.used \in Int /\ acc.spec \in Int /\ GoodSlots(slots)
    BY DEF PackInv, AccTyped
<1>10. /\ Notes(slots) \in Nat /\ DocNotes(slots) \in Nat
       /\ Notes(slots') \in Nat /\ DocNotes(slots') \in Nat
    BY <1>7, <1>9, NotesCounted
<1>11. acc'.backfill \in Nat /\ acc'.backfill <= BackfillCap
    BY <1>4, <1>6, <1>7, <1>8 DEF Affordable
<1>12. acc'.used <= Larger(hardCap, Budget.overhead) + Notes(slots')
  <2>1. acc.used + Tokens(slot) <= Larger(hardCap, Budget.overhead)
      BY DEF Affordable
  <2> QED BY <1>3, <1>4, <1>7, <1>8, <1>9, <1>10, <2>1 DEF Larger
<1>13. stage' = "greedy" => acc'.used <= Larger(hardCap - reserve, Budget.overhead) + Notes(slots')
  <2>1. stage' = "greedy" => acc.used + Tokens(slot) <= Larger(hardCap - reserve, Budget.overhead)
      BY DEF Affordable
  <2> QED BY <1>3, <1>4, <1>7, <1>8, <1>9, <1>10, <2>1 DEF Larger
<1>14. HasCode => acc'.spec <= DocsCap + FloorUsed' + DocNotes(slots')
  <2> SUFFICES ASSUME HasCode PROVE acc'.spec <= DocsCap + FloorUsed' + DocNotes(slots')
      OBVIOUS
  <2>1. acc.spec <= DocsCap + FloorUsed + DocNotes(slots)
      BY <1>6
  <2>2. reserved # NoSlot => Tokens(reserved) \in Nat
    <3>1. reserved # NoSlot => GoodSlot(reserved)
        BY IncomingGood DEF PackInv
    <3> QED BY <3>1, SlotTokens
  <2>3. placed \subseteq placed' /\ slot.cand.id \in placed'
      BY DEF Took
  <2>4. FloorUsed \in Nat /\ FloorUsed' \in Nat /\ FloorUsed <= FloorUsed'
    <3>1. FloorUsed' = IF reserved # NoSlot /\ reserved.ids \cap placed' # {} THEN Tokens(reserved) ELSE 0
        BY <1>1 DEF FloorUsed
    <3>2. reserved.ids \cap placed # {} => reserved.ids \cap placed' # {}
        BY <2>3
    <3> QED BY <2>2, <3>1, <3>2 DEF FloorUsed
  <2>5. CASE ~IsSpec(slot.cand)
    <3>1. acc'.spec = acc.spec /\ DocNotes(slots') = DocNotes(slots)
        BY <2>5 DEF Took
    <3>2. PICK a \in Nat, b \in Nat, n \in Nat, p \in Int, q \in Int :
             a = FloorUsed /\ b = FloorUsed' /\ n = DocNotes(slots) /\ p = acc.spec /\ q = DocsCap
        BY <1>4, <1>9, <1>10, <2>4
    <3>3. a \in Nat /\ b \in Nat /\ n \in Nat /\ p \in Int /\ q \in Int /\ p <= q + a + n /\ a <= b
        BY <2>1, <2>4, <3>2
    <3>4. p <= q + b + n
        BY ONLY <3>3
    <3> QED BY <3>1, <3>2, <3>4
  <2>6. CASE IsSpec(slot.cand)
    <3>1. /\ acc'.spec = acc.spec + d
          /\ acc'.spec - DocNotes(slots') <= acc.spec - DocNotes(slots) + Tokens(slot)
        BY <2>6 DEF Took
    <3>2. PICK a \in Nat, b \in Nat, n \in Nat, m \in Nat, p \in Int, r \in Int, q \in Int, u \in Nat :
             /\ a = FloorUsed /\ b = FloorUsed' /\ n = DocNotes(slots) /\ m = DocNotes(slots')
             /\ p = acc.spec /\ r = acc'.spec /\ q = DocsCap /\ u = Tokens(slot)
      <4>1. acc.spec + d \in Int
          BY <1>7, <1>9
      <4>2. /\ FloorUsed \in Nat /\ FloorUsed' \in Nat /\ DocNotes(slots) \in Nat /\ DocNotes(slots') \in Nat
            /\ acc.spec \in Int /\ acc'.spec \in Int /\ DocsCap \in Int /\ Tokens(slot) \in Nat
          BY <1>4, <1>8, <1>9, <1>10, <2>4, <3>1, <4>1
      <4> QED BY ONLY <4>2
    <3>3. /\ a \in Nat /\ b \in Nat /\ n \in Nat /\ m \in Nat /\ p \in Int /\ r \in Int /\ q \in Int /\ u \in Nat
          /\ d \in Nat /\ p <= q + a + n /\ a <= b /\ r = p + d /\ r - m <= p - n + u /\ d <= u
        BY <1>7, <2>1, <2>4, <3>1, <3>2
    <3>4. CASE acc.spec + Tokens(slot) <= DocsCap
      <4>1. p + u <= q
          BY <3>2, <3>4
      <4>2. r <= q + b + m
          BY ONLY <3>3, <4>1
      <4> QED BY <3>2, <4>2
    <3>5. CASE /\ reserved # NoSlot /\ reserved.ids \cap placed = {} /\ slot.cand.id \in reserved.ids
               /\ Tokens(slot) <= Tokens(reserved)
      <4>1. FloorUsed = 0
          BY <3>5 DEF FloorUsed
      <4>2. FloorUsed' = Tokens(reserved)
          BY <1>1, <2>3, <3>5 DEF FloorUsed
      <4>3. a = 0 /\ u <= b
          BY <3>2, <3>5, <4>1, <4>2
      <4>4. r <= q + b + m
          BY ONLY <3>3, <4>3
      <4> QED BY <3>2, <4>4
    <3> QED BY <2>6, <3>4, <3>5 DEF Affordable
  <2> QED BY <2>5, <2>6
<1> QED BY <1>1, <1>2, <1>3, <1>5, <1>11, <1>12, <1>13, <1>14 DEF BudgetInv

--------------------------------------------------------------------------------
(* What a candidate costs.                                                    *)

\* However it is cut, it is still the item of its candidate.
LEMMA FittedCand ==
    ASSUME NEW c, NEW limit
    PROVE  Fitted(c, limit).cand = c /\ BackfillSlot(c).cand = c
<1> DEFINE s == Slot(c)
           w == [s EXCEPT !.why = TRUE]
<1>1. DOMAIN s = SlotFields /\ s.cand = c
    BY DEF Slot, BuildSlot, SlotFields
<1> HIDE DEF s
<1>2. DOMAIN w = SlotFields /\ w.cand = c
    BY <1>1 DEF SlotFields
<1> HIDE DEF w
<1>3. ASSUME NEW x, DOMAIN x = SlotFields, x.cand = c, NEW threshold, NEW force
      PROVE  Degrade(x, threshold, force).cand = c
    BY <1>3 DEF Degrade, SlotFields
<1>4. Fitted(c, limit).cand = c
  <2>1. Fitted(c, limit) \in {s, Degrade(s, Budget.skeletonLines, FALSE)}
      BY DEF Fitted, s
  <2> QED BY <1>1, <1>3, <2>1
<1>5. BackfillSlot(c).cand = c
  <2>1. \E force : BackfillSlot(c) \in {w, Degrade(w, Budget.backfillLines, force)}
      BY DEF BackfillSlot, w, s
  <2> QED BY <1>2, <1>3, <2>1
<1> QED BY <1>4, <1>5

\* A candidate whose row is there.
LEMMA FittedIncoming ==
    ASSUME NEW c, c.id \in Chunk, NEW limit
    PROVE  Incoming(Fitted(c, limit)) /\ Incoming(BackfillSlot(c))
<1> DEFINE s == Slot(c)
           w == [s EXCEPT !.why = TRUE]
<1>1. Incoming(s)
    BY SlotIncoming DEF Slot
<1> HIDE DEF s
<1>2. Incoming(w)
  <2>1. DOMAIN s = SlotFields
      BY <1>1 DEF Incoming
  <2>2. /\ DOMAIN w = SlotFields /\ w.cand = s.cand /\ w.ids = s.ids /\ w.note = s.note
        /\ w.tailLost = s.tailLost /\ w.segments = s.segments /\ w.upper = s.upper
      BY <2>1 DEF SlotFields
  <2> HIDE DEF w
  <2> QED BY <1>1, <2>2 DEF Incoming
<1> HIDE DEF w
<1>3. Incoming(Fitted(c, limit))
  <2>1. Fitted(c, limit) \in {s, Degrade(s, Budget.skeletonLines, FALSE)}
      BY DEF Fitted, s
  <2> QED BY <1>1, <2>1, DegradeIncoming
<1>4. Incoming(BackfillSlot(c))
  <2>1. PICK force : BackfillSlot(c) \in {w, Degrade(w, Budget.backfillLines, force)}
      BY DEF BackfillSlot, w, s
  <2> QED BY <1>2, <2>1, DegradeIncoming
<1> QED BY <1>3, <1>4

\* A single interval.
LEMMA OneSegment ==
    ASSUME NEW e \in Segments
    PROVE  Cardinality(Lines(<<e>>)) = e.end - e.start + 1
<1>1. e.start \in Nat /\ e.end \in Nat /\ e.start <= e.end
    BY DEF Segments
<1>2. Lines(<<e>>) = e.start .. e.end
  <2>1. \A line \in Nat : line \in Lines(<<e>>) <=> e.start <= line /\ line <= e.end
      BY DEF Lines, Within
  <2>2. Lines(<<e>>) \subseteq Nat
      BY DEF Lines
  <2>3. \A line : line \in e.start .. e.end <=> line \in Nat /\ e.start <= line /\ line <= e.end
      BY <1>1
  <2>4. \A line : line \in Lines(<<e>>) <=> line \in e.start .. e.end
      BY <2>1, <2>2, <2>3
  <2> QED BY ONLY <2>4
<1>3. e.start \in Int /\ e.end \in Int /\ ~(e.start > e.end)
    BY <1>1
<1> QED BY <1>2, <1>3, FS_Interval

\* A document that is cut short is never dearer.
LEMMA CutCheaper ==
    ASSUME NEW c, c.id \in Chunk, IsSpec(c), NEW threshold, NEW force
    PROVE  Tokens(Degrade(Slot(c), threshold, force)) <= Tokens(Slot(c))
<1> DEFINE s == Slot(c)
           d == Degrade(s, threshold, force)
           all == Head(s.segments)
           cut == Head(d.segments)
<1>1. Incoming(s) /\ s.cand = c /\ s.prelude = FALSE /\ all.end = Corpus[c.id].end
  <2>1. Incoming(s)
      BY SlotIncoming DEF Slot
  <2>2. /\ s.cand = c /\ s.prelude = FALSE
        /\ s.segments = <<Segment(Corpus[c.id].start, Corpus[c.id].end)>>
      BY DEF Slot, BuildSlot
  <2>3. all.end = Corpus[c.id].end
      BY <2>2 DEF Segment
  <2> QED BY <2>1, <2>2, <2>3
<1> HIDE DEF s
<1>2. Incoming(d) /\ Flags(d) = Flags(s)
    BY <1>1, DegradeIncoming
<1>3. GoodSlot(s) /\ GoodSlot(d) /\ Len(s.segments) = 1 /\ Len(d.segments) = 1
    BY <1>1, <1>2, IncomingGood
<1>4. Tokens(s) \in Nat
    BY <1>3, SlotTokens
<1>5. CASE d = s
    BY <1>4, <1>5 DEF s
<1>6. CASE d # s
  <2>1. d = [s EXCEPT !.segments = <<Segment(all.start, Smaller(all.start + Budget.contextLines, all.end))>>,
                      !.prelude = ~IsSpec(s.cand)]
      BY <1>6 DEF Degrade
  <2>2. DOMAIN s = SlotFields /\ all \in Segments /\ s.segments = <<all>> /\ s.upper = all.end /\ s.note = "none"
      BY <1>1 DEF Incoming
  <2>3. /\ d.segments = <<Segment(all.start, Smaller(all.start + Budget.contextLines, all.end))>>
        /\ d.prelude = FALSE /\ d.upper = s.upper /\ d.note = s.note
      BY <1>1, <2>1, <2>2 DEF SlotFields
  <2>4. cut = Segment(all.start, Smaller(all.start + Budget.contextLines, all.end)) /\ d.segments = <<cut>>
      BY <2>3
  <2>5. all.start \in Nat /\ all.end \in Nat /\ all.start <= all.end /\ Budget.contextLines \in Nat
      BY <2>2, ContextPackAssumption DEF Segments, BudgetField
  <2>6. cut.start = all.start /\ cut.end \in Nat /\ cut.end <= all.end /\ cut \in Segments
      BY <2>4, <2>5 DEF Segment, Smaller, Segments
  <2> HIDE DEF d, all, cut
  <2>7. /\ Cardinality(Lines(s.segments)) = all.end - all.start + 1
        /\ Cardinality(Lines(d.segments)) = cut.end - all.start + 1
      BY <2>2, <2>4, <2>6, OneSegment
  <2>8. Noted(s) = 0 /\ Noted(d) = 0 /\ Signed(s) = 0 /\ Signed(d) = 0
      BY <1>1, <2>2, <2>3 DEF Noted, Signed
  <2>9. Tail1(s) = 0 /\ (cut.end = all.end => Tail1(d) = 0) /\ Tail1(d) \in {0, 1}
    <3>1. Last(s.segments) = all /\ Last(d.segments) = cut
        BY <2>2, <2>4 DEF Last
    <3> QED BY <2>2, <2>3, <2>5, <3>1 DEF Tail1, TailHidden
  <2>10. Flags(s) \in Nat
      BY DEF Flags
  <2>11. Tokens(s) = 2 + 0 + Flags(s) + 0 + (all.end - all.start + 1) + (1 - 1) + 0
      BY <1>3, <2>7, <2>8, <2>9, SlotTokens
  <2>12. Tokens(d) = 2 + 0 + Flags(s) + 0 + (cut.end - all.start + 1) + (1 - 1) + Tail1(d)
      BY <1>2, <1>3, <2>7, <2>8, SlotTokens
  <2>13. Tokens(d) <= Tokens(s)
    <3>1. PICK f \in Nat, u \in Nat, v \in Nat, w \in Nat, h \in {0, 1} :
             f = Flags(s) /\ u = all.end /\ v = all.start /\ w = cut.end /\ h = Tail1(d)
        BY <2>5, <2>6, <2>9, <2>10
    <3>2. f \in Nat /\ u \in Nat /\ v \in Nat /\ w \in Nat /\ h \in {0, 1} /\ w <= u /\ (w = u => h = 0)
        BY <2>6, <2>9, <3>1
    <3>3. Tokens(s) = 2 + 0 + f + 0 + (u - v + 1) + (1 - 1) + 0 /\ Tokens(d) = 2 + 0 + f + 0 + (w - v + 1) + (1 - 1) + h
        BY <2>11, <2>12, <3>1
    <3> QED BY ONLY <3>2, <3>3
  <2> QED BY <2>13 DEF d, s
<1> QED BY <1>5, <1>6

\* The chunk that is held back for, found by the greedy pass itself.
LEMMA ReservedFits ==
    ASSUME PackInv, NEW c, IsSpec(c), c.id \in reserved.ids, c.id \in Chunk, NEW limit
    PROVE  reserved # NoSlot /\ Tokens(Fitted(c, limit)) <= Tokens(reserved)
<1>1. reserved # NoSlot
    BY DEF NoSlot
<1>2. reserved.ids = {reserved.cand.id} /\ reserved = BuildSlot(reserved.cand, stale)
    BY <1>1 DEF PackInv, Incoming
<1>3. Tokens(Slot(c)) = Tokens(reserved)
  <2>1. c.id = reserved.cand.id
      BY <1>2
  <2> DEFINE a == BuildSlot(c, stale)
             b == BuildSlot(reserved.cand, stale)
  <2>2. /\ a.note = b.note /\ a.why = b.why /\ a.stale = b.stale /\ a.prelude = b.prelude
        /\ a.segments = b.segments /\ a.upper = b.upper
      BY <2>1 DEF BuildSlot
  <2> HIDE DEF a, b
  <2>3. Tokens(a) = Tokens(b)
      BY <2>2 DEF Tokens, TailHidden
  <2>4. a = Slot(c) /\ b = reserved
      BY <1>2 DEF a, b, Slot
  <2> QED BY <2>3, <2>4
<1>4. Fitted(c, limit) \in {Slot(c), Degrade(Slot(c), Budget.skeletonLines, FALSE)}
    BY DEF Fitted
<1>5. Tokens(Slot(c)) \in Nat
    BY SlotIncoming, IncomingGood, SlotTokens DEF Slot
<1>6. Tokens(Degrade(Slot(c), Budget.skeletonLines, FALSE)) <= Tokens(Slot(c))
    BY CutCheaper
<1>7. CASE Fitted(c, limit) = Slot(c)
    BY <1>1, <1>3, <1>5, <1>7
<1>8. CASE Fitted(c, limit) = Degrade(Slot(c), Budget.skeletonLines, FALSE)
    BY <1>1, <1>3, <1>6, <1>8
<1> QED BY <1>4, <1>7, <1>8

--------------------------------------------------------------------------------
(* The steps of the assembly.                                                 *)

\* The greedy pass is not entered again.
Forward == stage' = "greedy" => stage = "greedy"

\* A step that takes nothing.
LEMMA NothingTaken ==
    ASSUME PackInv, BudgetInv, Framed, Forward, UNCHANGED <<slots, placed, acc>>
    PROVE  PackInv' /\ BudgetInv'
<1>1. UNCHANGED <<live, hardCap, pool, reserve, flow, stale, reserved, phase, slots, placed, acc>>
    BY DEF Framed
<1>2. PackInv'
    BY <1>1 DEF PackInv
<1>3. BackfillCap' = BackfillCap /\ DocsCap' = DocsCap /\ HasCode' = HasCode /\ FloorUsed' = FloorUsed
    BY <1>1 DEF BackfillCap, DocsCap, HasCode, FloorUsed
<1> QED BY <1>1, <1>2, <1>3 DEF BudgetInv, Forward

\* The item of a symbol, and the note that counts another chunk of it.
LEMMA SymbolSlotFits ==
    ASSUME NEW c, SymbolSlot(c) # 0
    PROVE  SymbolSlot(c) \in DOMAIN slots
<1> DEFINE hits == {k \in DOMAIN slots \cap Nat : slots[k].cand.fqn = c.fqn}
<1>1. SymbolSlot(c) = IF hits = {} THEN 0 ELSE Min(hits)
    BY DEF SymbolSlot, FirstWhere
<1>2. hits \in SUBSET Nat
    OBVIOUS
<1> HIDE DEF hits
<1>3. SymbolSlot(c) \in hits
    BY <1>1, <1>2, MinIsLeast
<1> QED BY <1>3 DEF hits

\* An item that is noted costs one line more, unless it had a note.
LEMMA NotedEffect ==
    ASSUME NEW s, GoodSlot(s), NEW n, n = [s EXCEPT !.note = "aggregated"]
    PROVE  /\ GoodSlot(n) /\ n.cand = s.cand /\ n.ids = s.ids
           /\ Tokens(n) - Tokens(s) \in Nat /\ Mark(n) = 1 /\ Mark(s) \in {0, 1}
           /\ Tokens(n) - Tokens(s) <= 1 - Mark(s)
<1>1. DOMAIN s = SlotFields
    BY DEF GoodSlot
<1>2. /\ DOMAIN n = SlotFields /\ n.note = "aggregated" /\ n.cand = s.cand /\ n.ids = s.ids
      /\ n.segments = s.segments /\ n.upper = s.upper /\ n.prelude = s.prelude /\ n.why = s.why
      /\ n.stale = s.stale /\ n.tailLost = s.tailLost
    BY <1>1 DEF SlotFields
<1>3. GoodSlot(n)
    BY <1>2 DEF GoodSlot
<1>4. Flags(n) = Flags(s) /\ Signed(n) = Signed(s) /\ Tail1(n) = Tail1(s) /\ Noted(n) = 1
    BY <1>2 DEF Flags, Signed, Tail1, TailHidden, Noted
<1>5. /\ Noted(s) \in {0, 1} /\ Mark(s) \in {0, 1} /\ Mark(s) <= Noted(s) /\ Mark(n) = 1
      /\ Flags(s) \in Nat /\ Signed(s) \in Nat /\ Tail1(s) \in Nat
    BY <1>2 DEF Noted, Mark, Flags, Signed, Tail1
<1>6. /\ Tokens(s) = 2 + Noted(s) + Flags(s) + Signed(s) + Cardinality(Lines(s.segments))
                       + (Len(s.segments) - 1) + Tail1(s)
      /\ Cardinality(Lines(s.segments)) \in Nat /\ Len(s.segments) \in Nat \ {0}
    BY SlotTokens
<1>7. Tokens(n) = 2 + 1 + Flags(s) + Signed(s) + Cardinality(Lines(s.segments))
                    + (Len(s.segments) - 1) + Tail1(s)
    BY <1>2, <1>3, <1>4, SlotTokens
<1>8. Tokens(n) - Tokens(s) = 1 - Noted(s)
  <2>1. PICK a \in {0, 1}, f \in Nat, g \in Nat, c \in Nat, l \in Nat, h \in Nat :
           /\ a = Noted(s) /\ f = Flags(s) /\ g = Signed(s) /\ c = Cardinality(Lines(s.segments))
           /\ l = Len(s.segments) /\ h = Tail1(s)
      BY <1>5, <1>6
  <2>2. Tokens(s) = 2 + a + f + g + c + (l - 1) + h /\ Tokens(n) = 2 + 1 + f + g + c + (l - 1) + h
      BY <1>6, <1>7, <2>1
  <2>3. a \in {0, 1} /\ f \in Nat /\ g \in Nat /\ c \in Nat /\ l \in Nat /\ h \in Nat
      OBVIOUS
  <2>4. Tokens(n) - Tokens(s) = 1 - a
      BY ONLY <2>2, <2>3
  <2> QED BY <2>1, <2>4
<1> QED BY <1>2, <1>3, <1>5, <1>8

\* Another chunk of a symbol in the pack: the line that counts it is charged.
LEMMA AggregateKeeps ==
    ASSUME PackInv, BudgetInv, Framed, Aggregate
    PROVE  PackInv' /\ BudgetInv'
<1> DEFINE k == SymbolSlot(Candidate)
           old == slots[k]
           noted == [old EXCEPT !.note = "aggregated"]
           d == Tokens(noted) - Tokens(old)
           c == old.cand
           charged == Charged(acc, c, d)
<1>1. /\ k # 0 /\ stage = "greedy" /\ stage' = stage /\ slots' = [slots EXCEPT ![k] = noted]
      /\ acc' = charged /\ placed' = placed
  <2>1. Verdict(Candidate) = "symbol"
      BY DEF Aggregate, Greedy
  <2>2. k # 0
      BY <2>1 DEF Verdict, VerdictAt
  <2>3. stage = "greedy" /\ stage' = stage /\ placed' = placed
      BY DEF Aggregate, Greedy, Advance
  <2>4. slots' = [slots EXCEPT ![k] = noted] /\ acc' = charged
      BY DEF Aggregate
  <2> QED BY <2>2, <2>3, <2>4
<1>2. GoodSlots(slots) /\ AccTyped(acc) /\ Sums(slots, acc) /\ placed = UNION {slots[i].ids : i \in DOMAIN slots}
    BY DEF PackInv
<1>3. k \in DOMAIN slots /\ k \in 1 .. Len(slots) /\ GoodSlot(old) /\ DOMAIN slots = 1 .. Len(slots)
    BY <1>1, <1>2, SymbolSlotFits DEF GoodSlots
<1> HIDE DEF k
<1>4. /\ GoodSlot(noted) /\ noted.cand = c /\ noted.ids = old.ids
      /\ d \in Nat /\ Mark(noted) = 1 /\ Mark(old) \in {0, 1} /\ d <= 1 - Mark(old)
    BY <1>3, NotedEffect
<1>5. Tokens(old) \in Nat /\ Tokens(noted) \in Nat
    BY <1>3, <1>4, SlotTokens
<1> HIDE DEF noted
<1>6. OneOther(slots, k, noted, slots')
  <2>1. PICK list : list = [slots EXCEPT ![k] = noted]
      OBVIOUS
  <2>2. GoodSlots(slots) /\ GoodSlot(noted) /\ k \in 1 .. Len(slots)
      BY <1>2, <1>3, <1>4
  <2>3. OneOther(slots, k, noted, list)
      BY ONLY <2>1, <2>2, SharesReplace
  <2> QED BY <1>1, <2>1, <2>3
<1>7. /\ GoodSlots(slots') /\ Len(slots') = Len(slots) /\ slots'[k] = noted
      /\ \A i \in 1 .. Len(slots) : i # k => slots'[i] = slots[i]
      /\ \A part, p : Total(Shares(part, p, slots'))
                         = Total(Shares(part, p, slots)) - Share(part, p, old) + Share(part, p, noted)
    BY <1>6 DEF OneOther
<1>8. \A part, p : Total(Shares(part, p, slots)) \in Nat
    BY <1>2, SharesTyped
<1>9. AccTyped(acc') /\ acc'.used = acc.used + d /\ (IsSpec(c) => acc'.spec = acc.spec + d)
      /\ (~IsSpec(c) => acc'.spec = acc.spec) /\ acc'.backfill = acc.backfill
  <2>1. d \in Int
      BY <1>4
  <2> HIDE DEF d
  <2> QED BY <1>1, <1>2, <2>1, ChargedEffect
<1>10. Sums(slots', acc')
  <2>1. ASSUME NEW p
        PROVE  /\ Total(Shares("used", p, slots')) = Total(Shares("used", p, slots)) + d
               /\ Total(Shares("spec", p, slots')) = Total(Shares("spec", p, slots)) + (IF IsSpec(c) THEN d ELSE 0)
               /\ Total(Shares("file", p, slots')) = Total(Shares("file", p, slots)) + (IF c.path = p THEN d ELSE 0)
    <3>1. ASSUME NEW part \in {"used", "spec", "file"}
          PROVE  Total(Shares(part, p, slots'))
                    = Total(Shares(part, p, slots)) + (IF Counts(part, p, c) THEN d ELSE 0)
      <4>1. Total(Shares(part, p, slots'))
               = Total(Shares(part, p, slots)) - Share(part, p, old) + Share(part, p, noted)
          BY <1>7
      <4>2. Total(Shares(part, p, slots)) \in Nat
          BY <1>8
      <4>3. CASE Counts(part, p, c)
        <5>1. Share(part, p, old) = Tokens(old) /\ Share(part, p, noted) = Tokens(noted)
            BY <1>4, <4>3 DEF Share, Weight
        <5> QED BY <1>5, <4>1, <4>2, <4>3, <5>1
      <4>4. CASE ~Counts(part, p, c)
        <5>1. Share(part, p, old) = 0 /\ Share(part, p, noted) = 0
            BY <1>4, <4>4 DEF Share
        <5> QED BY <4>1, <4>2, <4>4, <5>1
      <4> QED BY <4>3, <4>4
    <3>2. Counts("used", p, c) /\ (Counts("spec", p, c) <=> IsSpec(c)) /\ (Counts("file", p, c) <=> c.path = p)
        BY DEF Counts
    <3> HIDE DEF d
    <3> QED BY <3>1, <3>2
  <2>2. PICK sums : sums = charged
      OBVIOUS
  <2>3. sums = Charged(acc, c, d) /\ acc'.used = sums.used /\ acc'.spec = sums.spec /\ acc'.file = sums.file
      BY <1>1, <2>2
  <2>4. d \in Int
      BY <1>4
  <2> HIDE DEF d, charged
  <2>5. Follows(slots, slots', c, d)
      BY <2>1 DEF Follows
  <2> QED BY ONLY <1>2, <2>3, <2>4, <2>5, SumsFollow
<1>11. placed' = UNION {slots'[i].ids : i \in DOMAIN slots'}
  <2>1. DOMAIN slots' = DOMAIN slots /\ \A i \in DOMAIN slots : i # k => slots'[i] = slots[i]
      BY <1>3, <1>7 DEF GoodSlots
  <2>2. noted.ids = slots[k].ids \cup {}
      BY <1>4
  <2>3. UNION {slots'[i].ids : i \in DOMAIN slots'} = (UNION {slots[i].ids : i \in DOMAIN slots}) \cup {}
      BY <1>3, <1>7, <2>1, <2>2, IdsReplace
  <2> QED BY <1>1, <1>2, <2>3
<1>12. /\ Notes(slots) \in Nat /\ DocNotes(slots) \in Nat /\ Notes(slots') = Notes(slots) + (1 - Mark(old))
       /\ IsSpec(c) => DocNotes(slots') = DocNotes(slots) + (1 - Mark(old))
       /\ ~IsSpec(c) => DocNotes(slots') = DocNotes(slots)
  <2>1. Total(Shares("notes", 0, slots)) \in Nat /\ Total(Shares("docNotes", 0, slots)) \in Nat
      BY <1>8
  <2>2. Total(Shares("notes", 0, slots')) = Total(Shares("notes", 0, slots)) - Mark(old) + 1
    <3>1. Share("notes", 0, old) = Mark(old) /\ Share("notes", 0, noted) = 1
        BY <1>4 DEF Share, Weight, Counts
    <3>2. Total(Shares("notes", 0, slots'))
             = Total(Shares("notes", 0, slots)) - Share("notes", 0, old) + Share("notes", 0, noted)
        BY <1>7
    <3> QED BY ONLY <3>1, <3>2
  <2>3. Total(Shares("docNotes", 0, slots'))
           = Total(Shares("docNotes", 0, slots)) - (IF IsSpec(c) THEN Mark(old) ELSE 0) + (IF IsSpec(c) THEN 1 ELSE 0)
    <3>1. /\ Share("docNotes", 0, old) = (IF IsSpec(c) THEN Mark(old) ELSE 0)
          /\ Share("docNotes", 0, noted) = (IF IsSpec(c) THEN 1 ELSE 0)
        BY <1>4 DEF Share, Weight, Counts
    <3>2. Total(Shares("docNotes", 0, slots'))
             = Total(Shares("docNotes", 0, slots)) - Share("docNotes", 0, old) + Share("docNotes", 0, noted)
        BY <1>7
    <3> QED BY ONLY <3>1, <3>2
  <2>4. Mark(old) \in Int
      BY <1>4
  <2> QED BY <2>1, <2>2, <2>3, <2>4 DEF Notes, DocNotes
<1>13. UNCHANGED <<live, hardCap, pool, reserve, flow, stale, reserved, phase>>
    BY DEF Framed
<1>14. PackInv'
  <2>1. live' \subseteq Chunk
      BY <1>13 DEF PackInv
  <2>2. (reserved # NoSlot => /\ Incoming(reserved) /\ IsSpec(reserved.cand)
                              /\ reserved = BuildSlot(reserved.cand, stale))'
      BY <1>13 DEF PackInv
  <2> QED BY <1>7, <1>9, <1>10, <1>11, <2>1, <2>2 DEF PackInv
<1>15. BudgetInv'
  <2>1. BackfillCap' = BackfillCap /\ DocsCap' = DocsCap /\ HasCode' = HasCode /\ FloorUsed' = FloorUsed
      BY <1>1, <1>13 DEF BackfillCap, DocsCap, HasCode, FloorUsed
  <2>2. hardCap \in Nat /\ flow \in Nat /\ reserve \in Nat /\ phase' = phase
      BY <1>13 DEF BudgetInv
  <2>3. Budget.overhead \in Nat /\ DocsCap \in Int /\ acc.used \in Int /\ acc.spec \in Int
      BY <1>2, <2>2, LimitsTyped DEF AccTyped
  <2>4. reserved # NoSlot => Tokens(reserved) \in Nat
    <3>1. reserved # NoSlot => GoodSlot(reserved)
        BY IncomingGood DEF PackInv
    <3> QED BY <3>1, SlotTokens
  <2>5. FloorUsed \in Nat
      BY <2>4 DEF FloorUsed
  <2> HIDE DEF d
  <2>6. PICK m \in {0, 1}, n \in Nat, u \in Int :
           m = Mark(old) /\ n = Notes(slots) /\ u = acc.used
      BY <1>4, <1>12, <2>3
  <2>7. m \in {0, 1} /\ n \in Nat /\ u \in Int /\ d \in Nat /\ d <= 1 - m /\ Notes(slots') = n + (1 - m) /\ acc'.used = u + d
      BY <1>4, <1>9, <1>12, <2>6
  <2>8. ASSUME phase \in {"first", "second"} PROVE acc'.used <= Larger(hardCap, Budget.overhead) + Notes(slots')
    <3>1. u <= Larger(hardCap, Budget.overhead) + n /\ Larger(hardCap, Budget.overhead) \in Int
        BY <2>2, <2>3, <2>6, <2>8 DEF BudgetInv, Larger
    <3> QED BY ONLY <2>7, <3>1
  <2>9. ASSUME phase \in {"first", "second"} PROVE acc'.used <= Larger(hardCap - reserve, Budget.overhead) + Notes(slots')
    <3>1. u <= Larger(hardCap - reserve, Budget.overhead) + n /\ Larger(hardCap - reserve, Budget.overhead) \in Int
        BY <1>1, <2>2, <2>3, <2>6, <2>9 DEF BudgetInv, Larger
    <3> QED BY ONLY <2>7, <3>1
  <2>10. ASSUME phase \in {"first", "second"}, HasCode PROVE acc'.spec <= DocsCap + FloorUsed + DocNotes(slots')
    <3>1. acc.spec <= DocsCap + FloorUsed + DocNotes(slots)
        BY <2>10 DEF BudgetInv
    <3>2. PICK q \in Int, f \in Nat, x \in Nat, p \in Int :
             q = DocsCap /\ f = FloorUsed /\ x = DocNotes(slots) /\ p = acc.spec
        BY <1>12, <2>3, <2>5
    <3>3. q \in Int /\ f \in Nat /\ x \in Nat /\ p \in Int /\ p <= q + f + x
        BY <3>1, <3>2
    <3>4. CASE IsSpec(c)
      <4>1. acc'.spec = p + d /\ DocNotes(slots') = x + (1 - m)
          BY <1>9, <1>12, <2>6, <3>2, <3>4
      <4>2. p + d <= q + f + (x + (1 - m))
          BY ONLY <2>7, <3>3
      <4> QED BY <3>2, <4>1, <4>2
    <3>5. CASE ~IsSpec(c)
        BY <1>9, <1>12, <3>1, <3>5
    <3> QED BY <3>4, <3>5
  <2>11. phase \in {"first", "second"} => acc'.backfill \in Nat /\ acc'.backfill <= BackfillCap
      BY <1>9 DEF BudgetInv
  <2> QED BY <1>13, <2>1, <2>2, <2>8, <2>9, <2>10, <2>11 DEF BudgetInv
<1> QED BY <1>14, <1>15

\* The greedy pass takes what fits below its limit.
LEMMA PackKeeps ==
    ASSUME PackInv, BudgetInv, Framed, Pack, phase \in {"first", "second"}
    PROVE  PackInv' /\ BudgetInv'
<1> DEFINE c == Candidate
           slot == Fitted(c, HardLimit)
<1>1. stage = "greedy" /\ Verdict(c) = "fits" /\ MergeOrPlace(slot) /\ stage' = stage
    BY DEF Pack, Greedy, Advance
<1>2. /\ c.id \notin placed /\ c.id \in live
      /\ ~(DocsFull(c, Tokens(slot)) /\ c.id \notin reserved.ids)
      /\ ~(acc.used + Tokens(slot) > HardLimit)
    BY <1>1 DEF Verdict, VerdictAt
<1>3. c.id \in Chunk
    BY <1>2 DEF PackInv
<1>4. slot.cand = c /\ Incoming(slot)
    BY <1>3, FittedCand, FittedIncoming
<1>5. Tokens(slot) \in Nat
    BY <1>4, IncomingGood, SlotTokens
<1>6. hardCap \in Nat /\ reserve \in Nat /\ acc.used \in Int /\ acc.spec \in Int
    BY DEF BudgetInv, PackInv, AccTyped
<1>7. Budget.overhead \in Nat /\ DocsCap \in Int
    BY <1>6, LimitsTyped
<1>8. reserved # NoSlot => Tokens(reserved) \in Nat /\ reserved.ids = {reserved.cand.id}
  <2>1. reserved # NoSlot => GoodSlot(reserved) /\ reserved.ids = {reserved.cand.id}
      BY IncomingGood DEF PackInv, Incoming
  <2> QED BY <2>1, SlotTokens
<1>9. \E held \in Nat : HardLimit = Larger(hardCap - held - reserve, Budget.overhead)
  <2>1. PICK held : /\ held = IF reserved # NoSlot /\ reserved.cand.id \notin placed THEN Tokens(reserved) ELSE 0
                    /\ HardLimit = Larger(hardCap - held - reserve, Budget.overhead)
      BY DEF HardLimit
  <2>2. held \in Nat
      BY <1>8, <2>1
  <2> QED BY <2>1, <2>2
<1> HIDE DEF slot, c
<1>10. Affordable(slot)
  <2>1. PICK held \in Nat : HardLimit = Larger(hardCap - held - reserve, Budget.overhead)
      BY <1>9
  <2>2. PICK u \in Int : u = acc.used + Tokens(slot)
      BY <1>5, <1>6
  <2>3. ~(u > Larger(hardCap - held - reserve, Budget.overhead))
      BY <1>2, <2>1, <2>2
  <2>4. u <= Larger(hardCap - reserve, Budget.overhead) /\ u <= Larger(hardCap, Budget.overhead)
      BY <1>6, <1>7, <2>3 DEF Larger
  <2>5. ASSUME HasCode, IsSpec(slot.cand)
        PROVE  \/ acc.spec + Tokens(slot) <= DocsCap
               \/ /\ reserved # NoSlot /\ reserved.ids \cap placed = {} /\ slot.cand.id \in reserved.ids
                  /\ Tokens(slot) <= Tokens(reserved)
    <3>1. CASE ~DocsFull(c, Tokens(slot))
        BY <1>4, <1>5, <1>6, <1>7, <2>5, <3>1 DEF DocsFull
    <3>2. CASE c.id \in reserved.ids
      <4>1. reserved # NoSlot /\ Tokens(slot) <= Tokens(reserved)
        <5>1. IsSpec(c)
            BY <1>4, <2>5
        <5> QED BY <1>3, <3>2, <5>1, ReservedFits DEF slot
      <4>2. reserved.ids \cap placed = {}
          BY <1>2, <1>8, <3>2, <4>1
      <4> QED BY <1>4, <3>2, <4>1, <4>2
    <3> QED BY <1>2, <3>1, <3>2
  <2> QED BY <1>1, <2>2, <2>4, <2>5 DEF Affordable
<1>11. PICK d \in Nat : Took(slot, d)
    BY <1>1, <1>4, MergeOrPlaceTook DEF slot
<1> QED BY <1>1, <1>4, <1>10, <1>11, TookKeeps

\* The specification floor takes what was held back.
LEMMA PlaceReservedKeeps ==
    ASSUME PackInv, BudgetInv, Framed, PlaceReserved, phase \in {"first", "second"}
    PROVE  PackInv' /\ BudgetInv'
<1>1. stage = "spec" /\ stage' = "code"
    BY DEF PlaceReserved, ToStage
<1>2. CASE UNCHANGED <<slots, placed, acc>>
    BY <1>1, <1>2, NothingTaken DEF Forward
<1>3. CASE ~UNCHANGED <<slots, placed, acc>>
  <2>1. /\ Place(reserved) /\ reserved # NoSlot /\ reserved.ids \cap placed = {}
        /\ acc.used + Tokens(reserved) <= hardCap
      BY <1>3 DEF PlaceReserved
  <2>2. Incoming(reserved) /\ reserved.ids = {reserved.cand.id}
      BY <2>1 DEF PackInv, Incoming
  <2>3. Tokens(reserved) \in Nat
      BY <2>2, IncomingGood, SlotTokens
  <2>4. Took(reserved, Tokens(reserved))
      BY <2>1, <2>2, PlaceTook
  <2>5. Affordable(reserved)
    <3>1. hardCap \in Nat /\ acc.used \in Int /\ Budget.overhead \in Nat
        BY LimitsTyped DEF BudgetInv, PackInv, AccTyped
    <3>2. acc.used + Tokens(reserved) <= Larger(hardCap, Budget.overhead)
        BY <2>1, <2>3, <3>1 DEF Larger
    <3> QED BY <1>1, <2>1, <2>2, <2>3, <3>2 DEF Affordable
  <2> QED BY <1>1, <2>2, <2>4, <2>5, TookKeeps
<1> QED BY <1>2, <1>3

\* The code floor takes code, up to the hard cap.
LEMMA FillCodeFloorKeeps ==
    ASSUME PackInv, BudgetInv, Framed, FillCodeFloor, phase \in {"first", "second"}
    PROVE  PackInv' /\ BudgetInv'
<1> DEFINE c == Candidate
           slot == Fitted(c, hardCap)
<1>1. stage = "code" /\ stage' = stage /\ TryFloor(slot)
    BY DEF FillCodeFloor, Advance
<1>2. CASE ~FillsFloor(slot.cand, Tokens(slot))
  <2>1. UNCHANGED <<slots, placed, acc>>
      BY <1>1, <1>2 DEF TryFloor
  <2> QED BY <1>1, <2>1, NothingTaken DEF Forward
<1>3. CASE FillsFloor(slot.cand, Tokens(slot))
  <2>1. MergeOrPlace(slot)
      BY <1>1, <1>3 DEF TryFloor
  <2>2. slot.cand = c
      BY FittedCand
  <2>3. ~IsSpec(c) /\ c.id \in live /\ acc.used + Tokens(slot) <= hardCap
      BY <1>3, <2>2 DEF FillsFloor
  <2>4. Incoming(slot)
      BY <2>3, FittedIncoming DEF PackInv
  <2>5. Tokens(slot) \in Nat
      BY <2>4, IncomingGood, SlotTokens
  <2> HIDE DEF slot, c
  <2>6. Affordable(slot)
    <3>1. hardCap \in Nat /\ acc.used \in Int /\ Budget.overhead \in Nat
        BY LimitsTyped DEF BudgetInv, PackInv, AccTyped
    <3>2. acc.used + Tokens(slot) <= Larger(hardCap, Budget.overhead)
        BY <2>3, <2>5, <3>1 DEF Larger
    <3> QED BY <1>1, <2>2, <2>3, <3>2 DEF Affordable
  <2>7. PICK d \in Nat : Took(slot, d)
      BY <2>1, <2>4, MergeOrPlaceTook
  <2> QED BY <1>1, <2>4, <2>6, <2>7, TookKeeps
<1> QED BY <1>2, <1>3

\* The backfill takes what fits into its own budget, and into the hard cap twice.
LEMMA FillBackfillKeeps ==
    ASSUME PackInv, BudgetInv, Framed, FillBackfill, phase \in {"first", "second"}
    PROVE  PackInv' /\ BudgetInv'
<1> DEFINE c == backfill[cursor].cand
           slot == BackfillSlot(c)
<1>1. stage = "backfill" /\ stage' = stage /\ TryBackfill(slot)
    BY DEF FillBackfill, Advance
<1>2. CASE ~Backfills(slot.cand, Tokens(slot))
  <2>1. UNCHANGED <<slots, placed, acc>>
      BY <1>1, <1>2 DEF TryBackfill
  <2> QED BY <1>1, <2>1, NothingTaken DEF Forward
<1>3. CASE Backfills(slot.cand, Tokens(slot))
  <2>1. MergeOrPlace(slot)
      BY <1>1, <1>3 DEF TryBackfill
  <2>2. slot.cand = c
      BY FittedCand
  <2>3. /\ c.id \in live /\ ~DocsFull(c, Tokens(slot)) /\ ~OverBackfill(Tokens(slot))
        /\ ~OverBudget(Tokens(slot))
      BY <1>3, <2>2 DEF Backfills
  <2>4. Incoming(slot)
      BY <2>3, FittedIncoming DEF PackInv
  <2>5. Tokens(slot) \in Nat
      BY <2>4, IncomingGood, SlotTokens
  <2> HIDE DEF slot, c
  <2>6. Affordable(slot)
    <3>1. /\ hardCap \in Nat /\ flow \in Nat /\ acc.used \in Int /\ acc.spec \in Int /\ acc.backfill \in Nat
          /\ Budget.overhead \in Nat /\ BackfillCap \in Nat /\ DocsCap \in Int
        BY LimitsTyped DEF BudgetInv, PackInv, AccTyped
    <3>2. acc.used + Tokens(slot) <= Larger(hardCap, Budget.overhead)
        BY <2>3, <2>5, <3>1 DEF OverBudget, Larger
    <3>3. acc.backfill + Tokens(slot) <= BackfillCap
        BY <2>3, <2>5, <3>1 DEF OverBackfill
    <3>4. HasCode /\ IsSpec(slot.cand) => acc.spec + Tokens(slot) <= DocsCap
        BY <2>2, <2>3, <2>5, <3>1 DEF DocsFull
    <3> QED BY <1>1, <3>2, <3>3, <3>4 DEF Affordable
  <2>7. PICK d \in Nat : Took(slot, d)
      BY <2>1, <2>4, MergeOrPlaceTook
  <2> QED BY <1>1, <2>4, <2>6, <2>7, TookKeeps
<1> QED BY <1>2, <1>3

\* Every step of the assembly keeps the account and the budgets.
LEMMA AssembleKeeps ==
    ASSUME PackInv, BudgetInv, AssemblePack
    PROVE  PackInv' /\ BudgetInv'
<1>1. phase \in {"first", "second"} /\ AssembleStep /\ UNCHANGED search
    BY DEF AssemblePack
<1>2. Framed
  <2>1. UNCHANGED <<live, inputs, reserved>>
      BY <1>1 DEF AssembleStep, LeaveOut, Aggregate, CutByQuota, StopGreedy, Pack, GreedyEnds, PlaceReserved,
                  FillCodeFloor, CodeEnds, FillBackfill, BackfillEnds, Judge
  <2> QED BY <1>1, <2>1 DEF Framed, inputs, search
<1>3. CASE LeaveOut \/ CutByQuota \/ StopGreedy \/ GreedyEnds \/ CodeEnds \/ BackfillEnds \/ Judge
  <2>1. UNCHANGED <<slots, placed, acc>> /\ Forward
      BY <1>3 DEF LeaveOut, CutByQuota, StopGreedy, GreedyEnds, CodeEnds, BackfillEnds, Judge, Forward, Advance,
                  ToStage, Greedy
  <2> QED BY <1>2, <2>1, NothingTaken
<1> QED BY <1>1, <1>2, <1>3, AggregateKeeps, PackKeeps, PlaceReservedKeeps, FillCodeFloorKeeps,
           FillBackfillKeeps DEF AssembleStep

--------------------------------------------------------------------------------
(* The steps of a search.                                                     *)

\* The empty pack.
LEMMA EmptyPack ==
    /\ GoodSlots(<<>>) /\ AccTyped(NoSums) /\ Sums(<<>>, NoSums)
    /\ Notes(<<>>) = 0 /\ DocNotes(<<>>) = 0
    /\ UNION {<<>>[i].ids : i \in DOMAIN <<>>} = {}
<1>1. GoodSlots(<<>>)
    BY DEF GoodSlots
<1>2. Budget.overhead \in Nat
    BY ContextPackAssumption DEF BudgetField
<1>3. NoSums = [used |-> Budget.overhead, spec |-> 0, tier3 |-> 0, code |-> 0, backfill |-> 0,
                backfilled |-> 0, file |-> [p \in Path |-> 0]]
    BY DEF NoSums
<1>4. AccTyped(NoSums)
  <2> DEFINE file == [p \in Path |-> 0]
  <2>1. file \in [Path -> Int]
      OBVIOUS
  <2> HIDE DEF file
  <2> QED BY <1>2, <1>3, <2>1 DEF AccTyped, AccFields, file
<1>5. \A part, p : Total(Shares(part, p, <<>>)) = 0
  <2>1. \A part, p : Shares(part, p, <<>>) = <<>>
      BY DEF Shares
  <2> QED BY <2>1, TotalTyped
<1>6. Sums(<<>>, NoSums)
    BY <1>2, <1>3, <1>5 DEF Sums
<1>7. UNION {<<>>[i].ids : i \in DOMAIN <<>>} = {}
    OBVIOUS
<1> QED BY <1>1, <1>4, <1>5, <1>6, <1>7 DEF Notes, DocNotes

\* What is held back is a document of the pool, whose row is there.
LEMMA ReservedTyped ==
    ASSUME live \subseteq Chunk, NEW cands, NEW blocks, Reserved(cands, blocks) # NoSlot
    PROVE  /\ Incoming(Reserved(cands, blocks)) /\ IsSpec(Reserved(cands, blocks).cand)
           /\ Reserved(cands, blocks) = BuildSlot(Reserved(cands, blocks).cand, blocks)
<1> DEFINE hits == {k \in DOMAIN cands \cap Nat : IsSpec(cands[k]) /\ cands[k].id \in live}
           k == FirstWhere(cands, LAMBDA c : IsSpec(c) /\ c.id \in live)
<1>1. k = IF hits = {} THEN 0 ELSE Min(hits)
    BY DEF FirstWhere
<1>2. k # 0 /\ Reserved(cands, blocks) = BuildSlot(cands[k], blocks)
    BY DEF Reserved
<1>3. hits \in SUBSET Nat
    OBVIOUS
<1>4. k \in hits
  <2> HIDE DEF hits, k
  <2> QED BY <1>1, <1>2, <1>3, MinIsLeast
<1>5. IsSpec(cands[k]) /\ cands[k].id \in Chunk
    BY <1>4
<1> HIDE DEF k
<1>6. Incoming(BuildSlot(cands[k], blocks))
    BY <1>5, SlotIncoming
<1>7. BuildSlot(cands[k], blocks).cand = cands[k]
    BY DEF BuildSlot
<1> QED BY <1>2, <1>5, <1>6, <1>7

\* An assembly begins.
LEMMA AssembleStarts ==
    ASSUME live \subseteq Chunk, hardCap \in Nat, live' = live, hardCap' = hardCap,
           flow' \in Nat, NEW list, NEW extra, NEW keep \in Nat, Assemble(list, extra, keep)
    PROVE  PackInv' /\ BudgetInv'
<1>1. /\ slots' = <<>> /\ placed' = {} /\ acc' = NoSums /\ reserve' = keep
      /\ reserved' = Reserved(pool', stale')
    BY DEF Assemble
<1>2. /\ GoodSlots(slots') /\ AccTyped(acc') /\ Sums(slots', acc')
      /\ Notes(slots') = 0 /\ DocNotes(slots') = 0
      /\ placed' = UNION {slots'[i].ids : i \in DOMAIN slots'}
    BY <1>1, EmptyPack
<1>3. PackInv'
  <2>1. reserved' # NoSlot => /\ Incoming(reserved') /\ IsSpec(reserved'.cand)
                              /\ reserved' = BuildSlot(reserved'.cand, stale')
      BY <1>1, ReservedTyped
  <2> QED BY <1>2, <2>1 DEF PackInv
<1>4. BackfillCap \in Nat /\ DocsCap' \in Int /\ Budget.overhead \in Nat /\ BackfillCap' = BackfillCap
      /\ Budget.docsTokens \in Nat
    BY LimitsTyped, ContextPackAssumption DEF BackfillCap, DocsCap, Larger, BudgetField
<1>5. acc'.used = Budget.overhead /\ acc'.spec = 0 /\ acc'.backfill = 0
    BY <1>1 DEF NoSums
<1>6. HasCode' => DocsCap' = Budget.docsTokens
    BY DEF DocsCap
<1>7. FloorUsed' = 0
    BY <1>1 DEF FloorUsed
<1> QED BY <1>1, <1>2, <1>3, <1>4, <1>5, <1>6, <1>7 DEF BudgetInv, Larger

\* Both parts of the invariant of a pack.
PackBudgetInv == PackInv /\ BudgetInv

\* They are kept by the steps of a search.
LEMMA NextPack == PackBudgetInv /\ [SearchNext]_searchVars => PackBudgetInv'
<1> SUFFICES ASSUME PackInv, BudgetInv, [SearchNext]_searchVars PROVE PackInv' /\ BudgetInv'
    BY DEF PackBudgetInv
<1>1. live \subseteq Chunk /\ hardCap \in Nat /\ flow \in Nat /\ reserve \in Nat
    BY DEF PackInv, BudgetInv
<1>2. ASSUME UNCHANGED packVars, phase' \notin {"first", "second"} \/ phase' = phase
      PROVE  PackInv' /\ BudgetInv'
  <2>1. UNCHANGED <<live, hardCap, pool, reserve, flow, stale, reserved, slots, placed, acc, stage>>
      BY <1>2 DEF packVars, inputs, assembly
  <2>2. PackInv'
      BY <2>1 DEF PackInv
  <2>3. BackfillCap' = BackfillCap /\ DocsCap' = DocsCap /\ HasCode' = HasCode /\ FloorUsed' = FloorUsed
      BY <2>1 DEF BackfillCap, DocsCap, HasCode, FloorUsed
  <2> QED BY <1>2, <2>1, <2>2, <2>3 DEF BudgetInv
<1>3. ASSUME NEW q \in Queries, NEW cap \in Caps, Search(q, cap) PROVE PackInv' /\ BudgetInv'
  <2>1. /\ phase' = "embedding" /\ hardCap' = cap
        /\ UNCHANGED <<live, pool, reserve, flow, stale, reserved, slots, placed, acc>>
      BY <1>3 DEF Search, assembly
  <2>2. cap \in Nat
      BY SearchAssumption
  <2>3. PackInv'
      BY <2>1 DEF PackInv
  <2> QED BY <1>1, <2>1, <2>2, <2>3 DEF BudgetInv
<1>4. CASE Expire \/ \E t \in threads : LateAnswer(t)
  <2>1. UNCHANGED packVars /\ phase' = phase
      BY <1>4 DEF Expire, LateAnswer, search
  <2> QED BY <1>2, <2>1
<1>5. CASE FromCache \/ Embed \/ EmbedFails \/ EmbedTimesOut
  <2>1. UNCHANGED packVars /\ phase' = "rank"
      BY <1>5 DEF FromCache, Embed, EmbedFails, EmbedTimesOut, VectorHits, VectorDegraded
  <2> QED BY <1>2, <2>1
<1>6. CASE Rank
  <2>1. live' = live /\ hardCap' = hardCap /\ Assemble(ranked', <<>>, 0)
        /\ flow' = FlowTokens(query, Merge(channels, query))
      BY <1>6 DEF Rank
  <2>2. flow' \in Nat
      BY <2>1, FlowTyped
  <2>3. 0 \in Nat
      OBVIOUS
  <2>4. PICK list : list = ranked'
      OBVIOUS
  <2>5. PICK extra : extra = <<>>
      OBVIOUS
  <2>6. Assemble(list, extra, 0)
      BY <2>1, <2>4, <2>5
  <2> QED BY ONLY <1>1, <2>1, <2>2, <2>3, <2>6, AssembleStarts
<1>7. CASE AssemblePack
    BY <1>7, AssembleKeeps
<1>8. CASE FillGaps
  <2>1. live' = live /\ hardCap' = hardCap /\ flow' = flow /\ Backfill(AllGroups(query, ranked))
      BY <1>8 DEF FillGaps
  <2>2. PICK missing : AssembleAgain(missing)
      BY <2>1 DEF Backfill
  <2>3. PICK list, extra : Assemble(list, extra, BackfillReserve(hardCap))
      BY <2>2 DEF AssembleAgain
  <2>4. BackfillReserve(hardCap) \in Nat
      BY <1>1, LimitsTyped
  <2>5. PICK keep \in Nat : keep = BackfillReserve(hardCap)
      BY <2>4
  <2>6. Assemble(list, extra, keep) /\ flow' \in Nat
      BY <1>1, <2>1, <2>3, <2>5
  <2> QED BY ONLY <1>1, <2>1, <2>5, <2>6, AssembleStarts
<1>9. CASE Answer
  <2>1. /\ phase' = "idle" /\ hardCap' = 0 /\ flow' = 0 /\ reserve' = 0 /\ reserved' = NoSlot
        /\ slots' = <<>> /\ placed' = {} /\ acc' = NoSums /\ live' = live
      BY <1>9 DEF Answer
  <2>2. PackInv'
      BY <1>1, <2>1, EmptyPack DEF PackInv
  <2> QED BY <2>1, <2>2 DEF BudgetInv
<1>10. ASSUME NEW file \in Files, Ingest(file) PROVE PackInv' /\ BudgetInv'
  <2>1. /\ live' \in {live \ file, live \cup file}
        /\ UNCHANGED <<inputs, assembly, phase>>
      BY <1>10 DEF Ingest, search
  <2>2. live' \subseteq Chunk
      BY <1>1, <2>1, SearchAssumption
  <2>3. UNCHANGED <<hardCap, pool, reserve, flow, stale, reserved, slots, placed, acc, stage, phase>>
      BY <2>1 DEF inputs, assembly
  <2>4. PackInv'
      BY <2>2, <2>3 DEF PackInv
  <2>5. BackfillCap' = BackfillCap /\ DocsCap' = DocsCap /\ HasCode' = HasCode /\ FloorUsed' = FloorUsed
      BY <2>3 DEF BackfillCap, DocsCap, HasCode, FloorUsed
  <2> QED BY <2>3, <2>4, <2>5 DEF BudgetInv
<1>11. CASE SwitchModel
  <2>1. UNCHANGED packVars /\ phase' = phase
      BY <1>11 DEF SwitchModel
  <2> QED BY <1>2, <2>1
<1>12. CASE UNCHANGED searchVars
  <2>1. UNCHANGED packVars /\ phase' = phase
      BY <1>12 DEF searchVars, search
  <2> QED BY <1>2, <2>1
<1> QED BY <1>3, <1>4, <1>5, <1>6, <1>7, <1>8, <1>9, <1>10, <1>11, <1>12 DEF SearchNext

\* It begins with no pack.
LEMMA InitPack == SearchInit => PackBudgetInv
<1> SUFFICES ASSUME SearchInit PROVE PackInv /\ BudgetInv
    BY DEF PackBudgetInv
<1>1. /\ phase = "idle" /\ hardCap = 0 /\ flow = 0 /\ reserve = 0 /\ reserved = NoSlot
      /\ slots = <<>> /\ placed = {} /\ acc = NoSums
    BY DEF SearchInit, SearchIdle
<1>2. live \subseteq Chunk
    BY DEF SearchInit
<1>3. PackInv
    BY <1>1, <1>2, EmptyPack DEF PackInv
<1> QED BY <1>1, <1>3 DEF BudgetInv

--------------------------------------------------------------------------------

\* The account of a pack is what its items cost, as a whole, for the documents and
\* for each file, through every merge, cut and note (_Slot.tokens, _place,
\* _try_merge, _aggregate).
THEOREM PackAccounts == SearchSpec => []AccountsMatch
<1>1. PackBudgetInv => AccountsMatch
  <2> SUFFICES ASSUME PackInv PROVE AccountsMatch
      BY DEF PackBudgetInv
  <2>1. GoodSlots(slots) /\ Sums(slots, acc) /\ placed = UNION {slots[i].ids : i \in DOMAIN slots}
      BY DEF PackInv
  <2>2. Shares("used", 0, slots) = [i \in DOMAIN slots |-> Tokens(slots[i])]
      BY DEF Shares, Share, Weight, Counts
  <2>3. Shares("spec", 0, slots) = [i \in DOMAIN slots |-> IF IsSpec(slots[i].cand) THEN Tokens(slots[i]) ELSE 0]
      BY DEF Shares, Share, Weight, Counts
  <2>4. \A p : Shares("file", p, slots)
                  = [i \in DOMAIN slots |-> IF slots[i].cand.path = p THEN Tokens(slots[i]) ELSE 0]
      BY DEF Shares, Share, Weight, Counts
  <2>5. ASSUME NEW i \in DOMAIN slots, NEW k \in DOMAIN slots[i].segments
        PROVE  LET s == slots[i].segments
               IN  s[k].start <= s[k].end /\ (k > 1 => s[k].start > s[k - 1].end + 1)
    <3>1. Apart(slots[i].segments)
        BY <2>1 DEF GoodSlots, GoodSlot
    <3>2. k \in 1 .. Len(slots[i].segments) /\ slots[i].segments[k] \in Segments
        BY <3>1 DEF Apart
    <3> QED BY <3>1, <3>2 DEF Apart, Segments
  <2>6. acc.used = Budget.overhead + Total([i \in DOMAIN slots |-> Tokens(slots[i])])
      BY <2>1, <2>2 DEF Sums
  <2>7. acc.spec = Total([i \in DOMAIN slots |-> IF IsSpec(slots[i].cand) THEN Tokens(slots[i]) ELSE 0])
      BY <2>1, <2>3 DEF Sums
  <2>8. \A p \in Path : acc.file[p]
                 = Total([i \in DOMAIN slots |-> IF slots[i].cand.path = p THEN Tokens(slots[i]) ELSE 0])
      BY <2>1, <2>4 DEF Sums
  <2> QED BY <2>1, <2>5, <2>6, <2>7, <2>8 DEF AccountsMatch, Sum
<1> QED BY <1>1, InitPack, NextPack, PTL DEF SearchSpec

\* The budgets of a pack hold for any candidates, rows that come and go, caps and
\* configurations: the hard cap, the share of the documents, the backfill's own
\* share and what the greedy pass leaves to it, but for the lines that count further
\* chunks of a symbol (assemble, _hard_limit, _docs_cap, backfill_reserve).
THEOREM PackBudgets == SearchSpec => []Budgets
<1>1. PackBudgetInv => Budgets
  <2> DEFINE notes == Cardinality({i \in DOMAIN slots : slots[i].note = "aggregated"})
             floor == IF reserved = NoSlot THEN 0 ELSE Tokens(reserved)
  <2> SUFFICES ASSUME PackInv, BudgetInv, phase \in {"first", "second"}
               PROVE  /\ acc.used <= Larger(hardCap, Budget.overhead) + notes
                      /\ HasCode => acc.spec <= DocsCap + floor + notes
                      /\ acc.backfill <= BackfillCap
                      /\ stage = "greedy" => acc.used <= Larger(hardCap - reserve, Budget.overhead) + notes
      BY DEF PackBudgetInv, Budgets
  <2>1. Notes(slots) = notes /\ Notes(slots) \in Nat /\ DocNotes(slots) \in Nat /\ DocNotes(slots) <= Notes(slots)
      BY NotesCounted DEF PackInv
  <2>2. reserved # NoSlot => Tokens(reserved) \in Nat
    <3>1. reserved # NoSlot => GoodSlot(reserved)
        BY IncomingGood DEF PackInv
    <3> QED BY <3>1, SlotTokens
  <2>3. FloorUsed \in Nat /\ floor \in Nat /\ FloorUsed <= floor
      BY <2>2 DEF FloorUsed
  <2> HIDE DEF notes, floor
  <2>4. HasCode => acc.spec <= DocsCap + floor + notes
    <3> SUFFICES ASSUME HasCode PROVE acc.spec <= DocsCap + floor + notes
        OBVIOUS
    <3>1. acc.spec <= DocsCap + FloorUsed + DocNotes(slots)
        BY DEF BudgetInv
    <3>2. acc.spec \in Int /\ DocsCap \in Int
        BY LimitsTyped DEF PackInv, AccTyped, BudgetInv
    <3>3. PICK q \in Int, f \in Nat, g \in Nat, x \in Nat, y \in Nat, p \in Int :
             /\ q = DocsCap /\ f = FloorUsed /\ g = floor /\ x = DocNotes(slots) /\ y = notes /\ p = acc.spec
        BY <2>1, <2>3, <3>2
    <3>4. /\ q \in Int /\ f \in Nat /\ g \in Nat /\ x \in Nat /\ y \in Nat /\ p \in Int
          /\ p <= q + f + x /\ f <= g /\ x <= y
        BY <2>1, <2>3, <3>1, <3>3
    <3>5. p <= q + g + y
        BY ONLY <3>4
    <3> QED BY <3>3, <3>5
  <2> QED BY <2>1, <2>4 DEF BudgetInv
<1> QED BY <1>1, InitPack, NextPack, PTL DEF SearchSpec

\* Of a chunk that a pack stands for, each line is shown or lies where a note tells
\* of lines that are not, whatever was merged with what and cut before, unless the
\* merge dropped the note of an end (_merge_segments, _degrade, _sync).
THEOREM LinesAreTold == SearchSpec => []LinesTold
<1>1. PackBudgetInv => LinesTold
  <2> SUFFICES ASSUME PackInv, NEW i \in DOMAIN slots, NEW c \in slots[i].ids, ~slots[i].tailLost,
                      NEW line \in Corpus[c].start .. Corpus[c].end
               PROVE  line >= Head(slots[i].segments).start /\ line <= slots[i].upper
      BY DEF PackBudgetInv, LinesTold
  <2> DEFINE s == slots[i]
  <2>1. GoodSlot(s)
      BY DEF PackInv, GoodSlots
  <2>2. /\ Apart(s.segments) /\ s.segments # <<>> /\ s.upper \in Nat /\ c \in Chunk
        /\ Corpus[c].start \in Lines(s.segments) /\ Corpus[c].end <= s.upper
      BY <2>1 DEF GoodSlot
  <2>3. Head(s.segments).start <= Corpus[c].start /\ Head(s.segments) \in Segments
      BY <2>2, ApartBounds
  <2>4. Corpus[c].start \in Nat /\ Corpus[c].end \in Nat /\ Head(s.segments).start \in Nat
      BY <2>2, <2>3, ContextPackAssumption DEF Segments
  <2> QED BY <2>2, <2>3, <2>4
<1> QED BY <1>1, InitPack, NextPack, PTL DEF SearchSpec

--------------------------------------------------------------------------------
(* The query cache.                                                          *)

Filed == [model : Models \cup {"none"}, query : Queries, maker : Models, late : BOOLEAN]

\* An entry is filed under the model m the cache is bound to, and made by it.
EntryOK(e, m) ==
    /\ e \in Filed
    /\ e.model = m
    /\ e.late \/ e.maker = e.model

\* One vector for a question, and no more of them than the cache may hold.
CacheInv ==
    /\ cache \in Seq(Filed) /\ Len(cache) <= CacheSize
    /\ \A i \in DOMAIN cache : EntryOK(cache[i], cacheModel)
    /\ \A i, j \in DOMAIN cache : cache[i].query = cache[j].query => i = j

\* A search that embeds its question does so with the model the cache is bound
\* to, and no search that follows binds it anew before it is done.
SearchInv ==
    /\ model \in Models /\ cacheModel \in Models \cup {"none"}
    /\ phase \in {"idle", "embedding", "rank", "first", "second"}
    /\ phase = "embedding" => query \in Queries /\ searchModel \in Models /\ searchModel = cacheModel
    /\ \A t \in threads : t.query \in Queries /\ t.model \in Models

IndInv == CacheInv /\ SearchInv

--------------------------------------------------------------------------------
(* What the operations of the cache return.                                   *)

\* An entry that is put.
LEMMA PutEffect ==
    ASSUME IndInv, NEW q \in Queries, NEW maker \in Models, NEW late \in BOOLEAN,
           late \/ maker = cacheModel,
           cache' = Put(q, maker, late), cacheModel' = cacheModel
    PROVE  CacheInv'
<1> DEFINE entry == [model |-> cacheModel, query |-> q, maker |-> maker, late |-> late]
<1>1. entry \in Filed /\ EntryOK(entry, cacheModel) /\ entry.query = q
    BY DEF IndInv, SearchInv, Filed, EntryOK
<1>2. \A i \in DOMAIN cache : KeyOf(cache[i]) = Key(q) <=> cache[i].query = q
    BY DEF IndInv, CacheInv, EntryOK, KeyOf, Key
<1>3. CASE Cached(q)
  <2>1. cache' = [i \in DOMAIN cache |-> IF KeyOf(cache[i]) = Key(q) THEN entry ELSE cache[i]]
      BY <1>3 DEF Put
  <2> HIDE DEF entry
  <2>2. /\ cache' \in Seq(Filed) /\ Len(cache') = Len(cache) /\ DOMAIN cache' = DOMAIN cache
        /\ \A i \in DOMAIN cache : cache'[i] = IF cache[i].query = q THEN entry ELSE cache[i]
      BY <1>1, <1>2, <2>1 DEF IndInv, CacheInv
  <2> QED BY <1>1, <2>2 DEF IndInv, CacheInv, EntryOK
<1>4. CASE ~Cached(q)
  <2> DEFINE rest == IF Len(cache) >= CacheSize THEN Tail(cache) ELSE cache
  <2>1. cache' = Append(rest, entry)
      BY <1>4 DEF Put
  <2>2. \A i \in DOMAIN cache : cache[i].query # q
      BY <1>2, <1>4 DEF Cached
  <2>3. \E d \in {0, 1} : /\ rest \in Seq(Filed) /\ Len(rest) = Len(cache) - d /\ Len(rest) < CacheSize
                          /\ \A i \in 1 .. Len(rest) : i + d \in DOMAIN cache /\ rest[i] = cache[i + d]
    <3>1. CASE Len(cache) >= CacheSize
        BY <3>1, SearchAssumption DEF IndInv, CacheInv
    <3>2. CASE ~(Len(cache) >= CacheSize)
        BY <3>2, SearchAssumption DEF IndInv, CacheInv
    <3> QED BY <3>1, <3>2
  <2> HIDE DEF rest, entry
  <2>4. PICK d \in {0, 1} : /\ rest \in Seq(Filed) /\ Len(rest) = Len(cache) - d /\ Len(rest) < CacheSize
                            /\ \A i \in 1 .. Len(rest) : i + d \in DOMAIN cache /\ rest[i] = cache[i + d]
      BY <2>3
  <2>5. /\ cache' \in Seq(Filed) /\ Len(cache') = Len(rest) + 1
        /\ cache'[Len(rest) + 1] = entry /\ \A i \in 1 .. Len(rest) : cache'[i] = rest[i]
      BY <1>1, <2>1, <2>4
  <2>6. Len(cache') <= CacheSize /\ \A i \in DOMAIN cache' : EntryOK(cache'[i], cacheModel)
    <3>0. \A i \in DOMAIN cache : EntryOK(cache[i], cacheModel)
        BY DEF IndInv, CacheInv
    <3>1. \A i \in 1 .. Len(rest) : EntryOK(cache'[i], cacheModel)
        BY ONLY <2>4, <2>5, <3>0
    <3>2. Len(rest) \in Nat /\ DOMAIN cache' = 1 .. Len(rest) + 1
        BY <2>4, <2>5
    <3>3. Len(cache') <= CacheSize
        BY <2>4, <2>5, <3>2, SearchAssumption
    <3> QED BY <1>1, <2>5, <3>1, <3>2, <3>3
  <2>7. \A i, j \in DOMAIN cache' : cache'[i].query = cache'[j].query => i = j
    <3>1. DOMAIN cache' = 1 .. Len(rest) + 1 /\ Len(rest) \in Nat
        BY <2>4, <2>5
    <3>2. \A i \in 1 .. Len(rest) : cache'[i].query # q
        BY <2>2, <2>4, <2>5
    <3>3. ASSUME NEW i \in 1 .. Len(rest), NEW j \in 1 .. Len(rest), cache'[i].query = cache'[j].query
          PROVE  i = j
      <4>1. i + d \in DOMAIN cache /\ j + d \in DOMAIN cache /\ cache[i + d].query = cache[j + d].query
          BY <2>4, <2>5, <3>3
      <4>2. i + d = j + d
          BY <4>1 DEF IndInv, CacheInv
      <4> QED BY <4>2
    <3>4. cache'[Len(rest) + 1].query = q
        BY <1>1, <2>5
    <3> QED BY <3>1, <3>2, <3>3, <3>4
  <2> QED BY <2>5, <2>6, <2>7 DEF CacheInv
<1> QED BY <1>3, <1>4

\* An entry that is too old.
LEMMA ExpireKeeps == ASSUME IndInv, Expire PROVE IndInv'
<1>1. PICK k \in DOMAIN cache : cache' = RemoveAt(cache, k)
    BY DEF Expire
<1>2. cache \in Seq(Filed) /\ k \in 1 .. Len(cache)
    BY DEF IndInv, CacheInv
<1>3. /\ cache' \in Seq(Filed) /\ Len(cache') = Len(cache) - 1
      /\ \A i \in 1 .. Len(cache) - 1 : cache'[i] = cache[IF i < k THEN i ELSE i + 1]
  <2> DEFINE before == SubSeq(cache, 1, k - 1)
             after == SubSeq(cache, k + 1, Len(cache))
  <2>1. /\ before \in Seq(Filed) /\ Len(before) = k - 1 /\ \A i \in 1 .. k - 1 : before[i] = cache[i]
      BY <1>2
  <2>2. /\ after \in Seq(Filed) /\ Len(after) = Len(cache) - k
        /\ \A i \in 1 .. Len(cache) - k : after[i] = cache[k + i]
      BY <1>2
  <2>3. cache' = before \o after
      BY <1>1 DEF RemoveAt
  <2> HIDE DEF before, after
  <2>4. /\ cache' \in Seq(Filed) /\ Len(cache') = Len(cache) - 1
        /\ \A i \in 1 .. Len(cache') : cache'[i] = IF i <= k - 1 THEN before[i] ELSE after[i - (k - 1)]
    <3>1. /\ cache' \in Seq(Filed) /\ Len(cache') = Len(before) + Len(after)
          /\ \A i \in 1 .. Len(before) + Len(after) :
                cache'[i] = IF i <= Len(before) THEN before[i] ELSE after[i - Len(before)]
        BY ONLY <2>1, <2>2, <2>3
    <3>2. Len(before) = k - 1 /\ Len(after) = Len(cache) - k /\ Len(cache) \in Nat /\ k \in 1 .. Len(cache)
        BY <1>2, <2>1, <2>2
    <3>3. Len(before) + Len(after) = Len(cache) - 1
        BY ONLY <3>2
    <3>4. 1 .. Len(cache') = 1 .. Len(before) + Len(after)
        BY ONLY <3>1
    <3>5. Len(cache') = Len(cache) - 1
        BY ONLY <3>1, <3>3
    <3>6. ASSUME NEW i \in 1 .. Len(cache')
          PROVE  cache'[i] = IF i <= k - 1 THEN before[i] ELSE after[i - (k - 1)]
      <4>1. cache'[i] = IF i <= Len(before) THEN before[i] ELSE after[i - Len(before)]
          BY <3>1, <3>4, <3>6
      <4>2. Len(before) = k - 1
          BY <3>2
      <4> QED BY ONLY <4>1, <4>2
    <3> QED BY <3>1, <3>5, <3>6
  <2>5. ASSUME NEW i \in 1 .. Len(cache) - 1 PROVE cache'[i] = cache[IF i < k THEN i ELSE i + 1]
    <3>1. CASE i < k
        BY <1>2, <2>1, <2>4, <3>1
    <3>2. CASE ~(i < k)
      <4>1. cache'[i] = after[i - (k - 1)] /\ i - (k - 1) \in 1 .. Len(cache) - k
          BY <1>2, <2>4, <3>2
      <4>2. k + (i - (k - 1)) = i + 1
          BY <1>2
      <4> QED BY <2>2, <3>2, <4>1, <4>2
    <3> QED BY <3>1, <3>2
  <2> QED BY <2>4, <2>5
<1>4. cacheModel' = cacheModel /\ UNCHANGED <<model, phase, query, searchModel, threads>>
    BY DEF Expire, search
<1>5. CacheInv'
  <2> DEFINE old(i) == IF i < k THEN i ELSE i + 1
  <2>1. DOMAIN cache' = 1 .. Len(cache) - 1 /\ DOMAIN cache = 1 .. Len(cache) /\ Len(cache) \in Nat
      BY <1>2, <1>3
  <2>2. \A i \in DOMAIN cache' : old(i) \in DOMAIN cache
      BY <1>2, <2>1
  <2>3. \A i \in DOMAIN cache' : cache'[i] = cache[old(i)]
      BY <1>3, <2>1
  <2>4. \A i, j \in DOMAIN cache' : old(i) = old(j) => i = j
      BY <1>2, <2>1
  <2> HIDE DEF old
  <2>5. Len(cache') <= CacheSize
      BY <1>3, <2>1, SearchAssumption DEF IndInv, CacheInv
  <2> QED BY <1>3, <1>4, <2>2, <2>3, <2>4, <2>5 DEF IndInv, CacheInv
<1> QED BY <1>4, <1>5 DEF IndInv, SearchInv

--------------------------------------------------------------------------------
(* The steps.                                                                 *)

\* A step that leaves the cache and does not begin to embed.
LEMMA CacheSame ==
    ASSUME IndInv, UNCHANGED <<cache, cacheModel>>
    PROVE  CacheInv'
BY DEF IndInv, CacheInv, EntryOK

\* A search begins: another model than the bound one empties the cache.
LEMMA SearchKeeps ==
    ASSUME IndInv, NEW q \in Queries, NEW cap, Search(q, cap)
    PROVE  IndInv'
<1>1. /\ cacheModel' = model /\ cache' = (IF cacheModel = model THEN cache ELSE <<>>)
      /\ phase' = "embedding" /\ query' = q /\ searchModel' = model /\ UNCHANGED <<model, threads>>
    BY DEF Search, Bound, Identity
<1>2. CacheInv'
  <2>1. CASE cacheModel = model
      BY <1>1, <2>1, CacheSame
  <2>2. CASE cacheModel # model
      BY <1>1, <2>2, SearchAssumption DEF CacheInv
  <2> QED BY <2>1, <2>2
<1> QED BY <1>1, <1>2 DEF IndInv, SearchInv

\* Every step keeps the invariant.
LEMMA NextInv == IndInv /\ [SearchNext]_searchVars => IndInv'
<1> SUFFICES ASSUME IndInv, [SearchNext]_searchVars PROVE IndInv'
    OBVIOUS
<1>1. SearchInv
    BY DEF IndInv
<1>2. ASSUME NEW q \in Queries, NEW cap \in Caps, Search(q, cap) PROVE IndInv'
    BY <1>2, SearchKeeps
<1>3. CASE FromCache
  <2>1. phase' = "rank" /\ UNCHANGED <<cache, cacheModel, threads, model>>
      BY <1>3 DEF FromCache, VectorHits, cacheVars
  <2> QED BY <1>1, <2>1, CacheSame DEF IndInv, SearchInv
<1>4. CASE Embed
  <2>1. /\ phase = "embedding" /\ phase' = "rank" /\ cache' = Put(query, searchModel, FALSE)
        /\ UNCHANGED <<cacheModel, threads, model>>
      BY <1>4 DEF Embed, VectorHits
  <2>2. CacheInv'
      BY <1>1, <2>1, PutEffect DEF SearchInv
  <2> QED BY <1>1, <2>1, <2>2 DEF IndInv, SearchInv
<1>5. CASE EmbedFails \/ EmbedTimesOut
  <2>1. /\ phase = "embedding" /\ phase' = "rank" /\ UNCHANGED <<cache, cacheModel, model>>
        /\ threads' \in {threads, threads \cup {[query |-> query, model |-> searchModel]}}
      BY <1>5 DEF EmbedFails, EmbedTimesOut, VectorDegraded
  <2>2. \A t \in threads' : t.query \in Queries /\ t.model \in Models
      BY <1>1, <2>1 DEF SearchInv
  <2> QED BY <1>1, <2>1, <2>2, CacheSame DEF IndInv, SearchInv
<1>6. ASSUME NEW t \in threads, LateAnswer(t) PROVE IndInv'
  <2>1. /\ threads' = threads \ {t} /\ cache' \in {cache, Put(t.query, t.model, TRUE)}
        /\ UNCHANGED <<cacheModel, model, phase, query, searchModel>>
      BY <1>6 DEF LateAnswer, search
  <2>2. CacheInv'
      BY <1>1, <2>1, PutEffect, CacheSame DEF SearchInv
  <2> QED BY <1>1, <2>1, <2>2 DEF IndInv, SearchInv
<1>7. CASE Rank \/ AssemblePack \/ FillGaps \/ Answer
  <2>1. /\ UNCHANGED <<cache, cacheModel, threads, model>>
        /\ phase' \in {"idle", "first", "second"}
      BY <1>1, <1>7 DEF Rank, AssemblePack, FillGaps, Answer, cacheVars, search, SearchInv
  <2> QED BY <1>1, <2>1, CacheSame DEF IndInv, SearchInv
<1>8. ASSUME NEW file \in Files, Ingest(file) PROVE IndInv'
  <2>1. UNCHANGED <<cache, cacheModel, threads, model, phase, query, searchModel>>
      BY <1>8 DEF Ingest, cacheVars, search
  <2> QED BY <1>1, <2>1, CacheSame DEF IndInv, SearchInv
<1>9. CASE SwitchModel
  <2>1. /\ UNCHANGED <<cache, cacheModel, threads, phase, query>> /\ model' \in Models
        /\ phase # "idle" => searchModel' = searchModel
      BY <1>9 DEF SwitchModel, cacheVars
  <2> QED BY <1>1, <2>1, CacheSame DEF IndInv, SearchInv
<1>10. CASE UNCHANGED searchVars
  <2>1. UNCHANGED <<cache, cacheModel, threads, model, phase, query, searchModel>>
      BY <1>10 DEF searchVars, cacheVars, search
  <2> QED BY <1>1, <2>1, CacheSame DEF IndInv, SearchInv
<1> QED BY <1>2, <1>3, <1>4, <1>5, <1>6, <1>7, <1>8, <1>9, <1>10, ExpireKeeps DEF SearchNext

\* The cache begins empty, bound to no model.
LEMMA InitInv == SearchInit => IndInv
BY SearchAssumption DEF SearchInit, SearchIdle, IndInv, CacheInv, SearchInv

\* A vector in the query cache was made by the model it is filed under, through
\* any changes of the model between and within searches and any answers that
\* come too late (bind_identity, QueryEmbeddingCache.put, set_provider).
THEOREM CacheIsOwn == SearchSpec => []CacheOfModel
<1>1. IndInv => CacheOfModel
    BY DEF IndInv, CacheInv, EntryOK, CacheOfModel, ToSet
<1> QED BY <1>1, InitInv, NextInv, PTL DEF SearchSpec

\* The cache never holds more than it may, nor two vectors for one question
\* (QueryEmbeddingCache.put).
THEOREM CacheIsBounded ==
    SearchSpec => [](/\ Len(cache) <= CacheSize
               /\ \A i, j \in DOMAIN cache : KeyOf(cache[i]) = KeyOf(cache[j]) => i = j)
<1>1. IndInv =>
      /\ Len(cache) <= CacheSize
      /\ \A i, j \in DOMAIN cache : KeyOf(cache[i]) = KeyOf(cache[j]) => i = j
    BY DEF IndInv, CacheInv, KeyOf
<1> QED BY <1>1, InitInv, NextInv, PTL DEF SearchSpec

================================================================================
