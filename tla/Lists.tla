---------------------------------- MODULE Lists ---------------------------------
(* What several parts of the program do with a list, whatever is in it: sum it up  *)
(* (Python's sum), find or keep what passes a test, and sort it by a key (sorted   *)
(* and list.sort, which are stable).                                               *)
EXTENDS Integers, SequencesExt

Total(numbers) ==
    LET sum[n \in 0 .. Len(numbers)] == IF n = 0 THEN 0 ELSE sum[n - 1] + numbers[n]
    IN  sum[Len(numbers)]

\* The position of the first element that passes a test, or 0.
FirstWhere(s, Test(_)) ==
    LET hits == {k \in DOMAIN s \cap Nat : Test(s[k])}
    IN  IF hits = {} THEN 0 ELSE Min(hits)

\* What is in a set, in the order of the list.
Only(s, some) == FlattenSeq([i \in DOMAIN s |-> IF s[i] \in some THEN <<s[i]>> ELSE <<>>])

\* Where a stable sort puts the k-th element: behind those with a smaller key
\* and those with the same key that were before it.
Precedes(keys, j, k) == keys[j] < keys[k] \/ (keys[j] = keys[k] /\ j < k)
Position(keys, k) == 1 + Cardinality({j \in DOMAIN keys : Precedes(keys, j, k)})

SortedBy(keys, s) == [r \in DOMAIN s |-> s[CHOOSE k \in DOMAIN s : Position(keys, k) = r]]

================================================================================
