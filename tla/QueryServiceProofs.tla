--------------------------- MODULE QueryServiceProofs ---------------------------
(***************************************************************************)
(* What QueryService promises holds for any users, threads, models, packs, *)
(* upstream bodies and bounds: a user is answered by the model he chose,   *)
(* an ask that has found its evidence ends with it, an answer rests on its *)
(* own pack, the audit is what the caller was told, and the storage        *)
(* warning draws the line the refusal of an upload draws.                  *)
(***************************************************************************)
EXTENDS QueryService, ListLemmas, TLAPS

Fields == {"op", "at", "user", "project", "pack", "degraded", "usage", "stamp", "provider", "due",
           "read", "posts", "draft", "coverage", "code", "status", "answer", "row"}

\* A request like r, but for the fields F.
But(q, r, F) == DOMAIN q = Fields /\ \A f \in Fields \ F : q[f] = r[f]

\* A request has what its label needs.
RequestOK(r) ==
    /\ r.at = "search" => r.pack = NoPack /\ r.code = 200
    /\ r.at \in {"search", "audit", "done"} => r.op \in Rest \cup Mcp /\ r.user \in User
    /\ r.at \in Choosing \cup {"owner", "post"} => r.op \in Asks /\ r.user \in User /\ r.code = 200
    /\ r.at \in Choosing \cup {"search", "owner", "saved"} => r.posts = 0
    /\ r.at = "write" => r.user \in User /\ r.read # NoConfig /\ r.posts = 0
    /\ r.at = "post" => r.posts <= MaxRetries

\* An ask that has its pack ends with it, or with one of the two exceptions.
EndsWell(r) ==
    r.at \in {"audit", "done"} /\ r.op \in Asks /\ r.pack # NoPack =>
        \/ r.status \in {"answered", "insufficient_evidence", "degraded"} /\ r.code = 200
        \/ r.code = 401 /\ r.user \in gone
        \/ r.code = 500 /\ faults > 0

Sound(r) == DOMAIN r = Fields /\ Typed(r) /\ RequestOK(r) /\ EndsWell(r)

Requests == DOMAIN req = Thread /\ \A t \in Thread : Sound(req[t])

\* What the requests share.
SharedOK ==
    /\ local \in BOOLEAN /\ mixed \in BOOLEAN /\ providerError \in BOOLEAN
    /\ server \in Configs /\ llmProvider \in Configs
    /\ config \in [User -> Configs]
    /\ llmProviderKey \in {NoKey} \cup User \X (Nat \cup {-1})
    /\ gone \subseteq User
    /\ clock \in 0 .. MaxClock /\ begun \in 0 .. MaxRequests /\ faults \in 0 .. MaxFaults
    /\ stamps \in [User -> SUBSET Nat]

\* A configuration that was saved carries a time it was saved at.
StampInv == \A u \in User : config[u] # NoConfig => config[u].at \in stamps[u]

Chooses(t) == req[t].at \in Choosing

\* What a choice of a provider has read is still true.
ChoiceOK(r) ==
    /\ r.due = Effective(r.user)
    /\ r.at # "stamp" => r.stamp = config[r.user].at
    /\ r.at = "key" => r.read = llmProvider
    /\ r.at \in {"keep", "sign"} => r.provider = r.due
    /\ r.at = "sign" => r.provider = llmProvider

\* The cached provider is the one its key is about, also once the configuration
\* the key is about is gone, and it cannot come back with the same time.
CacheOK ==
    llmProviderKey # NoKey =>
        LET u == llmProviderKey[1]
            s == llmProviderKey[2]
        IN  /\ s = -1 => llmProvider = server
            /\ s # -1 => s \in stamps[u]
            /\ config[u].at = s => llmProvider = Effective(u)

\* Between keeping a provider and signing it the cache is not about its key.
ProviderInv ==
    ~mixed =>
        /\ \A s, t \in Thread : Chooses(s) /\ Chooses(t) => s = t
        /\ \A t \in Thread : Chooses(t) => ChoiceOK(req[t])
        /\ (\A t \in Thread : req[t].at # "sign") => CacheOK
        /\ \A t \in Thread : req[t].at = "post" \/ req[t].posts > 0 => req[t].provider = req[t].due

IndInv == SharedOK /\ Requests /\ StampInv /\ ProviderInv

--------------------------------------------------------------------------------
(* Lines: what they cite and what they say.                                   *)

\* The lines of a draft, and of an answer, which may have a note.
Lines == {line \in [kind : (Written \ {"thinking"}) \cup {"note"}, cites : Seq(Ref),
                    gap : BOOLEAN, count : Int] : line.kind = "blank" => line.cites = <<>>}
Drafted == {line \in Lines : line.kind # "note"}

Cites == [line \in Lines |-> line.cites]
Spoken == {"text", "head", "fence"}
Says == [line \in Lines |-> IF line.kind \in Spoken THEN <<line.kind>> ELSE <<>>]

\* Lines without citations and words, and what does not see them.
Silent == {line \in Lines : line.cites = <<>> /\ line.kind \notin Spoken}
Quiet(F, T) == Gives(F, Lines, T) /\ \A line \in Silent : F[line] = <<>>

\* Neither the citations nor the words see a silent line.
LEMMA QuietOnes == Quiet(Cites, Ref) /\ Quiet(Says, Spoken)
<1>1. \A line \in Lines : line.cites \in Seq(Ref)
    BY DEF Lines
<1>2. \A line \in Lines : (IF line.kind \in Spoken THEN <<line.kind>> ELSE <<>>) \in Seq(Spoken)
  <2> SUFFICES ASSUME NEW line \in Lines
               PROVE  (IF line.kind \in Spoken THEN <<line.kind>> ELSE <<>>) \in Seq(Spoken)
      OBVIOUS
  <2>1. CASE line.kind \in Spoken
    <3>1. <<line.kind>> \in Seq(Spoken)
        BY <2>1
    <3> QED BY <2>1, <3>1
  <2>2. CASE line.kind \notin Spoken
    <3>1. <<>> \in Seq(Spoken)
        OBVIOUS
    <3> QED BY <2>2, <3>1
  <2> QED BY <2>1, <2>2
<1>3. Cites \in [Lines -> Seq(Ref)] /\ \A line \in Silent : Cites[line] = <<>>
    BY <1>1 DEF Cites, Silent
<1>4. Says \in [Lines -> Seq(Spoken)] /\ \A line \in Silent : Says[line] = <<>>
    BY <1>2 DEF Says, Silent
<1> QED BY <1>3, <1>4 DEF Quiet, Gives

\* The citations of a text, line by line.
LEMMA CitedByLine ==
    ASSUME NEW lines \in Seq(Lines)
    PROVE  Cited(lines) = Each(Cites, lines)
<1>1. \A i \in DOMAIN lines : lines[i] \in Lines
    OBVIOUS
<1>2. [i \in DOMAIN lines |-> lines[i].cites] = Parts(Cites, lines)
    BY <1>1 DEF Parts, Cites
<1> QED BY <1>2 DEF Cited, Each

\* Its words, line by line.
LEMMA WordsByLine ==
    ASSUME NEW lines \in Seq(Lines)
    PROVE  Words(lines) = Each(Says, lines)
<1> DEFINE kinds == [i \in DOMAIN lines |-> lines[i].kind]
<1>1. \A i \in DOMAIN lines : lines[i] \in Lines
    OBVIOUS
<1>2. DOMAIN kinds = DOMAIN lines /\ \A i \in DOMAIN lines : kinds[i] = lines[i].kind
    OBVIOUS
<1> HIDE DEF kinds
<1>3. \A i \in DOMAIN lines : Says[lines[i]] = IF kinds[i] \in Spoken THEN <<kinds[i]>> ELSE <<>>
    BY <1>1, <1>2 DEF Says
<1>4. [i \in DOMAIN kinds |-> IF kinds[i] \in Spoken THEN <<kinds[i]>> ELSE <<>>] = Parts(Says, lines)
    BY <1>2, <1>3 DEF Parts
<1>5. Only(kinds, Spoken) = Each(Says, lines)
    BY <1>4 DEF Only, Each
<1> QED BY <1>5 DEF Words, Spoken, kinds

\* A blank line of a text is silent.
LEMMA BlankIsSilent == ASSUME NEW line \in Lines, Blank(line) PROVE line \in Silent
BY DEF Lines, Blank, Silent, Spoken

\* What TrimEnd cuts off is blank, and what it leaves does not end so.
LEMMA TrimEnds ==
    ASSUME NEW S, NEW lines \in Seq(S)
    PROVE  \E k \in 0 .. Len(lines) :
              /\ TrimEnd(lines) = SubSeq(lines, 1, k)
              /\ k # 0 => ~Blank(lines[k])
              /\ \A i \in k + 1 .. Len(lines) : Blank(lines[i])
<1> DEFINE filled == {0} \cup {i \in DOMAIN lines : ~Blank(lines[i])}
           k == CHOOSE i \in filled : \A j \in filled : j <= i
<1>1. PICK n \in Nat : n = Len(lines) /\ DOMAIN lines = 1 .. n
    OBVIOUS
<1>2. filled \in SUBSET (0 .. n) /\ filled # {}
    BY <1>1
<1>3. \E i \in filled : \A j \in filled : j <= i
  <2> HIDE DEF filled
  <2> QED BY <1>2, GreatestNumber
<1>4. k \in filled /\ \A j \in filled : j <= k
  <2> HIDE DEF filled
  <2> QED BY <1>3
<1> HIDE DEF k
<1>5. k \in 0 .. n /\ (k # 0 => ~Blank(lines[k]))
    BY <1>2, <1>4
<1>6. ASSUME NEW i \in k + 1 .. n PROVE Blank(lines[i])
  <2>1. i \in 1 .. n /\ ~(i <= k)
      BY <1>5
  <2>2. i \notin filled
    <3> HIDE DEF filled
    <3> QED BY <1>4, <2>1
  <2> QED BY <1>1, <2>1, <2>2
<1>7. TrimEnd(lines) = SubSeq(lines, 1, k)
    BY DEF TrimEnd, k
<1> QED BY <1>1, <1>5, <1>6, <1>7

\* TrimEnd leaves the citations and the words of a text as they are.
LEMMA TrimKeeps ==
    ASSUME NEW T, NEW F, Quiet(F, T), NEW lines \in Seq(Lines)
    PROVE  Each(F, TrimEnd(lines)) = Each(F, lines)
<1>1. PICK k \in 0 .. Len(lines) :
         /\ TrimEnd(lines) = SubSeq(lines, 1, k)
         /\ \A i \in k + 1 .. Len(lines) : Blank(lines[i])
    BY TrimEnds
<1>2. PICK n \in Nat : n = Len(lines) /\ k \in 0 .. n
    OBVIOUS
<1>3. PICK a, b : a = SubSeq(lines, 1, k) /\ b = SubSeq(lines, k + 1, Len(lines))
    OBVIOUS
<1>4. /\ a \in Seq(Lines) /\ b \in Seq(Lines) /\ lines = a \o b
      /\ Len(b) = n - k /\ \A i \in 1 .. n - k : b[i] = lines[k + i]
    BY <1>2, <1>3, SplitAt
<1>5. Gives(F, Lines, T)
    BY DEF Quiet
<1>6. ASSUME NEW i \in DOMAIN b PROVE F[b[i]] = <<>>
  <2>1. i \in 1 .. n - k
      BY <1>4
  <2>2. b[i] = lines[k + i] /\ k + i \in k + 1 .. n
      BY <1>2, <1>4, <2>1
  <2>3. Blank(b[i])
      BY <1>1, <1>2, <2>2
  <2>4. b[i] \in Lines
      BY <1>4
  <2> QED BY <2>3, <2>4, BlankIsSilent DEF Quiet
<1>7. Each(F, b) = <<>>
  <2>1. b \in Seq(Lines) /\ \A i \in DOMAIN b : F[b[i]] = <<>>
      BY <1>4, <1>6
  <2> QED BY ONLY <1>5, <2>1, EachNothing
<1>8. Each(F, a \o b) = Each(F, a) \o Each(F, b)
  <2>1. a \in Seq(Lines) /\ b \in Seq(Lines)
      BY <1>4
  <2> QED BY ONLY <1>5, <2>1, EachConcat
<1>9. Each(F, a) \in Seq(T)
    BY <1>4, <1>5, EachHolds
<1>10. Each(F, a) \o <<>> = Each(F, a)
    BY <1>9
<1> QED BY <1>1, <1>3, <1>4, <1>7, <1>8, <1>10

--------------------------------------------------------------------------------
(* The check of the citations.                                                *)

\* Strip leaves the lines and takes the citations that are not allowed.
LEMMA StripKeeps ==
    ASSUME NEW lines \in Seq(Drafted), NEW allowed
    PROVE  LET s == Strip(lines, allowed) IN
           /\ s \in Seq(Drafted) /\ Len(s) = Len(lines)
           /\ Cited(s) = Only(Cited(lines), allowed)
           /\ Words(s) = Words(lines)
<1> DEFINE s == Strip(lines, allowed)
           refs == [i \in DOMAIN lines |-> lines[i].cites]
           parts == [i \in DOMAIN refs |-> Only(refs[i], allowed)]
<1>1. PICK n \in Nat : n = Len(lines) /\ DOMAIN lines = 1 .. n
    OBVIOUS
<1>2. \A i \in 1 .. n : lines[i] \in Drafted
    BY <1>1
<1>3. ASSUME NEW i \in 1 .. n
      PROVE  /\ s[i] \in Drafted /\ s[i].cites = Only(lines[i].cites, allowed)
             /\ s[i].kind = lines[i].kind
  <2> DEFINE l == lines[i]
             kept == Only(l.cites, allowed)
  <2>1. s[i] = [l EXCEPT !.cites = kept, !.gap = @ \/ kept # l.cites]
      BY <1>1 DEF Strip
  <2>2. l \in Drafted
      BY <1>2
  <2>3. l.cites \in Seq(Ref)
      BY <2>2 DEF Drafted, Lines
  <2>4. kept \in Seq(Ref)
      BY <2>3, OnlyHolds
  <2>5. l.kind = "blank" => kept = <<>>
    <3>1. ASSUME l.cites = <<>> PROVE kept = <<>>
      <4>1. <<>> \in Seq(Ref) /\ ToSet(<<>>) = {}
          BY DEF ToSet
      <4>2. ToSet(kept) = {}
        <5>1. PICK cites \in Seq(Ref) : cites = l.cites
            BY <2>3
        <5>2. ToSet(Only(cites, allowed)) = ToSet(cites) \cap allowed
            BY OnlyHolds
        <5> QED BY <3>1, <4>1, <5>1, <5>2
      <4> HIDE DEF kept
      <4>3. Len(kept) \in Nat /\ (Len(kept) # 0 => 1 \in DOMAIN kept)
          BY <2>4
      <4>4. Len(kept) = 0
          BY <4>2, <4>3 DEF ToSet
      <4> QED BY <2>4, <4>4
    <3> QED BY <2>2, <3>1 DEF Drafted, Lines
  <2> HIDE DEF l, kept
  <2>6. s[i].cites = kept /\ s[i].kind = l.kind
      BY <2>1, <2>2 DEF Drafted, Lines
  <2>7. s[i] \in Drafted
    <3> DEFINE gap == l.gap \/ kept # l.cites
    <3>1. gap \in BOOLEAN
        OBVIOUS
    <3>2. s[i] = [kind |-> l.kind, cites |-> kept, gap |-> gap, count |-> l.count]
        BY <2>1, <2>2 DEF Drafted, Lines
    <3> HIDE DEF gap
    <3> QED BY <2>2, <2>4, <2>5, <3>1, <3>2 DEF Drafted, Lines
  <2> QED BY <2>6, <2>7 DEF l, kept
<1>4. DOMAIN s = 1 .. n
    BY <1>1 DEF Strip
<1>5. s = [i \in 1 .. n |-> s[i]]
    BY <1>1 DEF Strip
<1> HIDE DEF s
<1>6. s \in [1 .. n -> Drafted]
    BY <1>3, <1>5
<1>7. s \in Seq(Drafted) /\ Len(s) = n
    BY <1>6
<1>8. Cited(s) = Only(Cited(lines), allowed)
  <2>1. refs \in [1 .. n -> Seq(Ref)] /\ \A i \in 1 .. n : refs[i] = lines[i].cites
      BY <1>1, <1>2 DEF Drafted, Lines
  <2>2. refs \in Seq(Seq(Ref))
      BY <2>1
  <2>3. FlattenSeq(parts) = Only(FlattenSeq(refs), allowed)
    <3> HIDE DEF refs
    <3> QED BY <2>2, OnlyFlattens
  <2>4. [i \in DOMAIN s |-> s[i].cites] = parts
    <3>1. DOMAIN refs = DOMAIN s /\ \A i \in DOMAIN s : s[i].cites = Only(refs[i], allowed)
        BY <1>3, <1>4, <2>1
    <3> HIDE DEF refs
    <3> QED BY <3>1
  <2> QED BY <2>3, <2>4 DEF Cited
<1>9. [i \in DOMAIN s |-> s[i].kind] = [i \in DOMAIN lines |-> lines[i].kind]
    BY <1>1, <1>3, <1>4
<1> QED BY <1>1, <1>7, <1>8, <1>9 DEF Words, s

\* CollapseGaps leaves gaps in code only.
LEMMA CollapseKeeps ==
    ASSUME NEW lines \in Seq(Lines)
    PROVE  LET c == CollapseGaps(lines) IN
           /\ c \in Seq(Lines) /\ Len(c) = Len(lines)
           /\ Cited(c) = Cited(lines) /\ Words(c) = Words(lines)
           /\ \A i \in DOMAIN c : /\ c[i].kind = lines[i].kind /\ c[i].count = lines[i].count
                                  /\ c[i].gap => Fenced(c, i)
<1> DEFINE c == CollapseGaps(lines)
<1>1. PICK n \in Nat : n = Len(lines) /\ DOMAIN lines = 1 .. n
    OBVIOUS
<1>2. ASSUME NEW i \in 1 .. n
      PROVE  /\ c[i] \in Lines /\ c[i].cites = lines[i].cites
             /\ c[i].kind = lines[i].kind /\ c[i].count = lines[i].count
             /\ c[i].gap => Fenced(lines, i)
  <2> DEFINE l == lines[i]
             gap == l.gap /\ Fenced(lines, i)
  <2>1. c[i] = [l EXCEPT !.gap = @ /\ Fenced(lines, i)]
      BY <1>1 DEF CollapseGaps
  <2>2. l \in Lines
      BY <1>1
  <2>3. c[i] = [kind |-> l.kind, cites |-> l.cites, gap |-> gap, count |-> l.count]
      BY <2>1, <2>2 DEF Lines
  <2>4. gap \in BOOLEAN
      OBVIOUS
  <2>5. gap => Fenced(lines, i)
      OBVIOUS
  <2> HIDE DEF gap, l
  <2>6. c[i] \in Lines
      BY <2>2, <2>3, <2>4 DEF Lines
  <2> QED BY <2>3, <2>5, <2>6 DEF l
<1>3. DOMAIN c = 1 .. n
    BY <1>1 DEF CollapseGaps
<1>4. c = [i \in 1 .. n |-> c[i]]
    BY <1>1 DEF CollapseGaps
<1> HIDE DEF c
<1>5. c \in [1 .. n -> Lines]
    BY <1>2, <1>4
<1>6. c \in Seq(Lines) /\ Len(c) = n
    BY <1>5
<1>7. [i \in DOMAIN c |-> c[i].cites] = [i \in DOMAIN lines |-> lines[i].cites]
    BY <1>1, <1>2, <1>3
<1>8. [i \in DOMAIN c |-> c[i].kind] = [i \in DOMAIN lines |-> lines[i].kind]
    BY <1>1, <1>2, <1>3
<1>9. ASSUME NEW i \in 1 .. n PROVE Fenced(c, i) <=> Fenced(lines, i)
  <2>1. \A j \in 1 .. i - 1 : j \in 1 .. n
      BY <1>9
  <2>2. {j \in 1 .. i - 1 : c[j].kind = "fence"} = {j \in 1 .. i - 1 : lines[j].kind = "fence"}
      BY <1>2, <2>1
  <2> QED BY <1>2, <2>2 DEF Fenced
<1> QED BY <1>1, <1>2, <1>3, <1>6, <1>7, <1>8, <1>9 DEF Cited, Words, c

--------------------------------------------------------------------------------
(* The note on what was removed.                                              *)

\* TrimEnd leaves lines of the text.
LEMMA TrimStays == ASSUME NEW S, NEW lines \in Seq(S) PROVE TrimEnd(lines) \in Seq(S)
<1>1. PICK k \in 0 .. Len(lines) : TrimEnd(lines) = SubSeq(lines, 1, k)
    BY TrimEnds
<1>2. SubSeq(lines, 1, k) \in Seq(S)
    BY SplitAt
<1> QED BY <1>1, <1>2

\* A list is what is up to a place, what is up to another and what is behind.
LEMMA SplitTwice ==
    ASSUME NEW S, NEW s \in Seq(S), NEW j \in 0 .. Len(s), NEW k \in j .. Len(s)
    PROVE  /\ SubSeq(s, 1, j) \in Seq(S) /\ SubSeq(s, j + 1, k) \in Seq(S)
           /\ SubSeq(s, k + 1, Len(s)) \in Seq(S)
           /\ s = (SubSeq(s, 1, j) \o SubSeq(s, j + 1, k)) \o SubSeq(s, k + 1, Len(s))
<1>1. PICK n \in Nat : n = Len(s) /\ k \in 0 .. n /\ j \in 0 .. k
    OBVIOUS
<1>2. PICK p : p = SubSeq(s, 1, k)
    OBVIOUS
<1>3. /\ p \in Seq(S) /\ Len(p) = k /\ \A i \in 1 .. k : p[i] = s[i]
      /\ SubSeq(s, k + 1, Len(s)) \in Seq(S) /\ s = p \o SubSeq(s, k + 1, Len(s))
    BY <1>1, <1>2, SplitAt
<1>4. PICK a, m : a = SubSeq(p, 1, j) /\ m = SubSeq(p, j + 1, k)
    OBVIOUS
<1>5. /\ a \in Seq(S) /\ m \in Seq(S) /\ p = a \o m
      /\ Len(a) = j /\ \A i \in 1 .. j : a[i] = p[i]
      /\ Len(m) = k - j /\ \A i \in 1 .. k - j : m[i] = p[j + i]
  <2>1. j \in 0 .. Len(p) /\ Len(p) = k /\ p \in Seq(S)
      BY <1>1, <1>3
  <2>2. /\ SubSeq(p, 1, j) \in Seq(S) /\ SubSeq(p, j + 1, Len(p)) \in Seq(S)
        /\ p = SubSeq(p, 1, j) \o SubSeq(p, j + 1, Len(p))
        /\ Len(SubSeq(p, 1, j)) = j /\ \A i \in 1 .. j : SubSeq(p, 1, j)[i] = p[i]
        /\ Len(SubSeq(p, j + 1, Len(p))) = Len(p) - j
        /\ \A i \in 1 .. Len(p) - j : SubSeq(p, j + 1, Len(p))[i] = p[j + i]
      BY <2>1, SplitAt
  <2> QED BY <1>4, <2>1, <2>2
<1>6. SubSeq(s, 1, j) = a
  <2>1. /\ SubSeq(s, 1, j) \in Seq(S) /\ Len(SubSeq(s, 1, j)) = j
        /\ \A i \in 1 .. j : SubSeq(s, 1, j)[i] = s[i]
      BY SplitAt
  <2>2. PICK w \in Seq(S) : w = SubSeq(s, 1, j)
      BY <2>1
  <2>3. \A i \in 1 .. j : w[i] = a[i]
      BY <1>1, <1>3, <1>5, <2>1, <2>2
  <2>4. w = [i \in 1 .. j |-> w[i]] /\ a = [i \in 1 .. j |-> a[i]]
      BY <1>5, <2>1, <2>2
  <2> QED BY <2>2, <2>3, <2>4
<1>7. SubSeq(s, j + 1, k) = m
  <2>1. PICK w : w = SubSeq(s, j + 1, k)
      OBVIOUS
  <2>2. w = [i \in 1 .. k - j |-> s[j + i]]
      BY <1>1, <2>1
  <2>3. \A i \in 1 .. k - j : m[i] = s[j + i]
    <3>1. \A i \in 1 .. k - j : j + i \in 1 .. k
        BY <1>1
    <3> QED BY <1>3, <1>5, <3>1
  <2>4. m = [i \in 1 .. k - j |-> m[i]]
      BY <1>5
  <2> QED BY <2>1, <2>2, <2>3, <2>4
<1> QED BY <1>3, <1>5, <1>6, <1>7

\* The lines of a draft are lines.
LEMMA DraftsAreLines == Seq(Drafted) \subseteq Seq(Lines)
<1>1. Drafted \subseteq Lines
    BY DEF Drafted
<1> QED BY <1>1

\* The lines the program writes.
LEMMA WrittenLines ==
    /\ Line("blank", 0) \in Drafted \cap Silent /\ Line("missing", 0) \in Drafted \cap Silent
    /\ Line("missing", 0).kind = "missing"
    /\ \A count \in Int : /\ Line("note", count) \in Silent
                          /\ Line("note", count).kind = "note" /\ Line("note", count).count = count
BY DEF Line, Drafted, Lines, Silent, Spoken, Written

\* A text with a note: what it is put between is the text, and has the heading.
Noted(lines, count, answer) ==
    \E pre, post \in Seq(Drafted) :
        /\ answer = (pre \o <<Line("note", count)>>) \o post
        /\ \E j \in DOMAIN pre : pre[j].kind = "missing"
        /\ Each(Cites, pre) \o Each(Cites, post) = Each(Cites, lines)
        /\ Each(Says, pre) \o Each(Says, post) = Each(Says, lines)

\* A text with no heading for the note gets one.
LEMMA NoteWithHeading ==
    ASSUME NEW lines \in Seq(Drafted), NEW count \in Int
    PROVE  Noted(lines, count,
                 TrimEnd(lines) \o <<Line("blank", 0), Line("missing", 0), Line("note", count)>>)
<1> DEFINE l1 == Line("blank", 0)
           l2 == Line("missing", 0)
           n == Line("note", count)
           two == <<l1, l2>>
           t == TrimEnd(lines)
           pre == t \o two
<1>1. t \in Seq(Drafted) /\ lines \in Seq(Lines) /\ t \in Seq(Lines)
    BY TrimStays, DraftsAreLines
<1>2. /\ l1 \in Drafted \cap Silent /\ l2 \in Drafted \cap Silent /\ n \in Silent
      /\ l2.kind = "missing"
    BY WrittenLines
<1>3. n \in Lines
    BY <1>2 DEF Silent
<1> HIDE DEF l1, l2, n, t
<1>4. two \in Seq(Drafted) /\ two \in Seq(Lines) /\ Len(two) = 2 /\ two[1] = l1 /\ two[2] = l2
    BY <1>2 DEF Drafted
<1>5. pre \in Seq(Drafted)
    BY <1>1, <1>4
<1>6. t \o <<l1, l2, n>> = (pre \o <<n>>) \o <<>>
  <2>2. <<n>> \in Seq(Lines) /\ Len(<<n>>) = 1 /\ <<n>>[1] = n
      BY <1>3
  <2>1. two \o <<n>> = <<l1, l2, n>>
    <3> DEFINE one == <<n>>
               w == two \o one
    <3> HIDE DEF two, one
    <3>1. one \in Seq(Lines) /\ Len(one) = 1 /\ one[1] = n
        BY <2>2 DEF one
    <3>2. /\ DOMAIN w = 1 .. Len(two) + Len(one) /\ w \in Seq(Lines)
          /\ \A i \in 1 .. Len(two) : w[i] = two[i]
          /\ \A i \in 1 .. Len(two) + Len(one) : i > Len(two) => w[i] = one[i - Len(two)]
        BY <1>4, <3>1, ConcatPlaces
    <3>3. DOMAIN w = 1 .. 3 /\ w[1] = l1 /\ w[2] = l2 /\ w[3] = n
      <4> HIDE DEF w
      <4>1. 1 \in 1 .. 2 /\ 2 \in 1 .. 2 /\ 3 \in 1 .. 3 /\ 3 - 2 = 1
          OBVIOUS
      <4> QED BY <1>4, <3>1, <3>2, <4>1
    <3> HIDE DEF w
    <3>4. w = [i \in 1 .. 3 |-> w[i]]
      <4>1. w \in Seq(Lines) /\ DOMAIN w = 1 .. 3
          BY <3>2, <3>3
      <4> QED BY ONLY <4>1
    <3>5. PICK v \in Seq(Lines) : /\ v = <<l1, l2, n>> /\ Len(v) = 3
                                  /\ v[1] = l1 /\ v[2] = l2 /\ v[3] = n
      <4>1. l1 \in Lines /\ l2 \in Lines
          BY <1>2 DEF Silent
      <4>2. <<l1, l2, n>> \in Seq(Lines)
          BY ONLY <1>3, <4>1
      <4>3. /\ Len(<<l1, l2, n>>) = 3 /\ <<l1, l2, n>>[1] = l1
            /\ <<l1, l2, n>>[2] = l2 /\ <<l1, l2, n>>[3] = n
          OBVIOUS
      <4> QED BY <4>2, <4>3
    <3>6. v = [i \in 1 .. 3 |-> v[i]]
        BY ONLY <3>5, v \in Seq(Lines)
    <3>7. ASSUME NEW i \in 1 .. 3 PROVE v[i] = w[i]
      <4>1. i \in {1, 2, 3}
          OBVIOUS
      <4> QED BY <3>3, <3>5, <4>1
    <3>8. w = v
        BY ONLY <3>4, <3>6, <3>7
    <3> QED BY <3>5, <3>8 DEF w, one
  <2>3. (t \o two) \o <<n>> = t \o (two \o <<n>>)
    <3> HIDE DEF two
    <3> QED BY <1>1, <1>4, <2>2, ConcatAssociates
  <2>4. pre \o <<n>> \in Seq(Lines)
    <3>1. pre \in Seq(Lines)
        BY <1>5, DraftsAreLines
    <3> HIDE DEF pre
    <3> QED BY <2>2, <3>1
  <2>5. (pre \o <<n>>) \o <<>> = pre \o <<n>>
    <3> HIDE DEF pre
    <3> QED BY <2>4
  <2> HIDE DEF two
  <2> QED BY <2>1, <2>3, <2>5
<1>7. \E j \in DOMAIN pre : pre[j].kind = "missing"
  <2>1. PICK m \in Nat : m = Len(t)
      BY <1>1
  <2>2. DOMAIN pre = 1 .. m + 2 /\ \A i \in 1 .. m + 2 : i > m => pre[i] = two[i - m]
    <3> HIDE DEF two
    <3>1. t \in Seq(Drafted) /\ two \in Seq(Drafted)
        BY <1>1, <1>4
    <3>2. /\ DOMAIN (t \o two) = 1 .. Len(t) + Len(two)
          /\ \A i \in 1 .. Len(t) + Len(two) : i > Len(t) => (t \o two)[i] = two[i - Len(t)]
        BY <3>1, ConcatPlaces
    <3> QED BY <1>4, <2>1, <3>2
  <2>3. m + 2 \in 1 .. m + 2 /\ m + 2 > m /\ m + 2 - m = 2
      BY <2>1
  <2>4. pre[m + 2] = two[2]
    <3> HIDE DEF pre, two
    <3> QED BY <2>2, <2>3
  <2> HIDE DEF pre, two
  <2> QED BY <1>2, <1>4, <2>2, <2>3, <2>4
<1>8. ASSUME NEW T, NEW F, Quiet(F, T)
      PROVE  Each(F, pre) \o Each(F, <<>>) = Each(F, lines)
  <2>1. Gives(F, Lines, T)
      BY <1>8 DEF Quiet
  <2>2. Each(F, t) = Each(F, lines)
      BY <1>1, <1>8, TrimKeeps DEF t
  <2>3. Each(F, two) = <<>>
    <3>1. \A i \in DOMAIN two : F[two[i]] = <<>>
        BY <1>2, <1>8 DEF Quiet
    <3> HIDE DEF two
    <3> QED BY <1>4, <2>1, <3>1, EachNothing
  <2>4. Each(F, <<>>) = <<>>
    <3>1. <<>> \in Seq(Lines) /\ DOMAIN <<>> = {}
        OBVIOUS
    <3> QED BY <2>1, <3>1, EachNothing
  <2>5. Each(F, pre) = Each(F, t) \o Each(F, two)
    <3> HIDE DEF two
    <3> QED BY <1>1, <1>4, <2>1, EachConcat
  <2>6. Each(F, lines) \in Seq(T)
      BY <1>1, <2>1, EachHolds
  <2>7. (Each(F, lines) \o <<>>) \o <<>> = Each(F, lines)
      BY <2>6
  <2> HIDE DEF pre, two
  <2> QED BY <2>2, <2>3, <2>4, <2>5, <2>7
<1>9. /\ Each(Cites, pre) \o Each(Cites, <<>>) = Each(Cites, lines)
      /\ Each(Says, pre) \o Each(Says, <<>>) = Each(Says, lines)
  <2> HIDE DEF pre
  <2> QED BY <1>8, QuietOnes
<1>10. <<>> \in Seq(Drafted)
    OBVIOUS
<1> HIDE DEF pre
<1> QED BY <1>5, <1>6, <1>7, <1>9, <1>10 DEF Noted, l1, l2, n, t

\* A text with one gets the note at the end of what is under it.
LEMMA NoteUnderHeading ==
    ASSUME NEW lines \in Seq(Drafted), NEW count \in Int,
           NEW first \in DOMAIN lines, lines[first].kind = "missing",
           NEW end \in first + 1 .. Len(lines) + 1
    PROVE  Noted(lines, count,
                 SubSeq(lines, 1, first) \o TrimEnd(SubSeq(lines, first + 1, end - 1))
                    \o <<Line("note", count)>> \o SubSeq(lines, end, Len(lines)))
<1>1. PICK n \in Nat : n = Len(lines) /\ first \in 1 .. n /\ end - 1 \in first .. n /\ end - 1 + 1 = end
    OBVIOUS
<1>2. PICK a, m, c : /\ a = SubSeq(lines, 1, first) /\ m = SubSeq(lines, first + 1, end - 1)
                     /\ c = SubSeq(lines, end, Len(lines))
    OBVIOUS
<1>3. a \in Seq(Drafted) /\ m \in Seq(Drafted) /\ c \in Seq(Drafted) /\ lines = (a \o m) \o c
  <2>1. first \in 0 .. Len(lines) /\ end - 1 \in first .. Len(lines)
      BY <1>1
  <2>2. PICK k \in first .. Len(lines) : k = end - 1 /\ k + 1 = end
      BY <1>1, <2>1
  <2>3. /\ SubSeq(lines, 1, first) \in Seq(Drafted) /\ SubSeq(lines, first + 1, k) \in Seq(Drafted)
        /\ SubSeq(lines, k + 1, Len(lines)) \in Seq(Drafted)
        /\ lines = (SubSeq(lines, 1, first) \o SubSeq(lines, first + 1, k))
                     \o SubSeq(lines, k + 1, Len(lines))
      BY <2>1, SplitTwice
  <2> QED BY <1>2, <2>2, <2>3
<1>4. PICK t : t = TrimEnd(m)
    OBVIOUS
<1>5. t \in Seq(Drafted) /\ a \o t \in Seq(Drafted)
  <2>1. t \in Seq(Drafted)
      BY <1>3, <1>4, TrimStays
  <2> QED BY <1>3, <2>1
<1>6. \E j \in DOMAIN (a \o t) : (a \o t)[j].kind = "missing"
  <2>1. Len(a) = first /\ a[first] = lines[first]
    <3>1. first \in 0 .. Len(lines) /\ first \in 1 .. first
        BY <1>1
    <3>2. Len(SubSeq(lines, 1, first)) = first
          /\ \A i \in 1 .. first : SubSeq(lines, 1, first)[i] = lines[i]
        BY <3>1, SplitAt
    <3> QED BY <1>2, <3>1, <3>2
  <2>2. PICK k \in Nat : k = Len(t)
      BY <1>5
  <2>3. DOMAIN (a \o t) = 1 .. first + k /\ \A i \in 1 .. first : (a \o t)[i] = a[i]
    <3>1. a \in Seq(Drafted) /\ t \in Seq(Drafted)
        BY <1>3, <1>5
    <3>2. DOMAIN (a \o t) = 1 .. Len(a) + Len(t) /\ \A i \in 1 .. Len(a) : (a \o t)[i] = a[i]
        BY <3>1, ConcatPlaces
    <3> QED BY <2>1, <2>2, <3>2
  <2>4. first \in 1 .. first /\ first \in 1 .. first + k
      BY <1>1
  <2> QED BY <2>1, <2>3, <2>4
<1>7. ASSUME NEW T, NEW F, Quiet(F, T)
      PROVE  Each(F, a \o t) \o Each(F, c) = Each(F, lines)
  <2>1. Gives(F, Lines, T)
      BY <1>7 DEF Quiet
  <2>2. a \in Seq(Lines) /\ m \in Seq(Lines) /\ c \in Seq(Lines) /\ t \in Seq(Lines)
      BY <1>3, <1>5, DraftsAreLines
  <2>3. Each(F, t) = Each(F, m)
      BY <1>4, <1>7, <2>2, TrimKeeps
  <2>4. Each(F, a \o t) = Each(F, a) \o Each(F, t)
    <3>1. a \in Seq(Lines) /\ t \in Seq(Lines)
        BY <2>2
    <3> QED BY ONLY <2>1, <3>1, EachConcat
  <2>5. Each(F, a \o m) = Each(F, a) \o Each(F, m)
    <3>1. a \in Seq(Lines) /\ m \in Seq(Lines)
        BY <2>2
    <3> QED BY ONLY <2>1, <3>1, EachConcat
  <2>6. a \o m \in Seq(Lines)
      BY <2>2
  <2>7. Each(F, (a \o m) \o c) = Each(F, a \o m) \o Each(F, c)
    <3>1. PICK d \in Seq(Lines) : d = a \o m
        BY <2>6
    <3>2. c \in Seq(Lines)
        BY <2>2
    <3>3. Each(F, d \o c) = Each(F, d) \o Each(F, c)
        BY ONLY <2>1, <3>2, d \in Seq(Lines), EachConcat
    <3> QED BY <3>1, <3>3
  <2> QED BY <1>3, <2>3, <2>4, <2>5, <2>7
<1>8. /\ Each(Cites, a \o t) \o Each(Cites, c) = Each(Cites, lines)
      /\ Each(Says, a \o t) \o Each(Says, c) = Each(Says, lines)
    BY <1>7, QuietOnes
<1>9. Noted(lines, count, ((a \o t) \o <<Line("note", count)>>) \o c)
    BY <1>3, <1>5, <1>6, <1>8 DEF Noted
<1> QED BY <1>2, <1>4, <1>9

\* So every text does.
LEMMA NoteAppended ==
    ASSUME NEW lines \in Seq(Drafted), NEW count \in Int
    PROVE  Noted(lines, count, AppendMissingNote(lines, count))
<1> DEFINE heads == {i \in DOMAIN lines : lines[i].kind = "missing"}
           first == CHOOSE i \in heads : \A j \in heads : i <= j
           ends == {j \in first + 1 .. Len(lines) : lines[j].kind \in {"head", "missing"}}
                   \cup {Len(lines) + 1}
           end == CHOOSE j \in ends : \A k \in ends : j <= k
<1>1. CASE heads = {}
  <2>1. AppendMissingNote(lines, count)
           = TrimEnd(lines) \o <<Line("blank", 0), Line("missing", 0), Line("note", count)>>
      BY <1>1 DEF AppendMissingNote
  <2> QED BY <2>1, NoteWithHeading
<1>2. CASE heads # {}
  <2>1. AppendMissingNote(lines, count)
           = SubSeq(lines, 1, first) \o TrimEnd(SubSeq(lines, first + 1, end - 1))
                \o <<Line("note", count)>> \o SubSeq(lines, end, Len(lines))
      BY <1>2 DEF AppendMissingNote
  <2>2. PICK n \in Nat : n = Len(lines) /\ DOMAIN lines = 1 .. n
      OBVIOUS
  <2>3. first \in heads
    <3>1. heads \in SUBSET Nat
        BY <2>2
    <3> HIDE DEF heads
    <3> QED BY <1>2, <3>1, LeastNumber
  <2>4. first \in DOMAIN lines /\ lines[first].kind = "missing"
    <3> HIDE DEF first
    <3> QED BY <2>3
  <2> HIDE DEF first
  <2>5. ends \in SUBSET Nat /\ ends # {} /\ ends \subseteq first + 1 .. Len(lines) + 1
      BY <2>2, <2>4
  <2>6. end \in ends
    <3> HIDE DEF ends
    <3> QED BY <2>5, LeastNumber
  <2>7. end \in first + 1 .. Len(lines) + 1
    <3> HIDE DEF ends, end
    <3> QED BY <2>5, <2>6
  <2> HIDE DEF end
  <2> QED BY <2>1, <2>4, <2>7, NoteUnderHeading
<1> QED BY <1>1, <1>2

\* The one note of an answer, under the heading.
NoteAt(i, answer, count) ==
    /\ i \in DOMAIN answer /\ answer[i].kind = "note" /\ answer[i].count = count
    /\ \A k \in DOMAIN answer : answer[k].kind = "note" => k = i
    /\ \E j \in 1 .. i : answer[j].kind = "missing"

\* A text with its note cites and says what it did.
LEMMA NotedKeeps ==
    ASSUME NEW lines \in Seq(Drafted), NEW count \in Int, NEW answer, Noted(lines, count, answer)
    PROVE  /\ answer \in Seq(Lines)
           /\ Cited(answer) = Cited(lines) /\ Words(answer) = Words(lines)
           /\ \E i \in DOMAIN answer : NoteAt(i, answer, count)
<1>1. PICK pre \in Seq(Drafted), post \in Seq(Drafted) :
         /\ answer = (pre \o <<Line("note", count)>>) \o post
         /\ \E j \in DOMAIN pre : pre[j].kind = "missing"
         /\ Each(Cites, pre) \o Each(Cites, post) = Each(Cites, lines)
         /\ Each(Says, pre) \o Each(Says, post) = Each(Says, lines)
    BY DEF Noted
<1>2. PICK n : n = Line("note", count)
    OBVIOUS
<1>3. n \in Lines /\ n \in Silent /\ n.kind = "note" /\ n.count = count
    BY <1>2, WrittenLines DEF Silent
<1>4. PICK one : one = <<n>>
    OBVIOUS
<1>5. one \in Seq(Lines) /\ Len(one) = 1 /\ one[1] = n
    BY <1>3, <1>4
<1>6. pre \in Seq(Lines) /\ post \in Seq(Lines) /\ lines \in Seq(Lines)
    BY DraftsAreLines
<1>7. PICK most : most = pre \o one
    OBVIOUS
<1>8. most \in Seq(Lines) /\ answer = most \o post
    BY <1>1, <1>2, <1>4, <1>5, <1>6, <1>7
<1>9. answer \in Seq(Lines)
    BY <1>6, <1>8
<1>10. ASSUME NEW T, NEW F, Quiet(F, T)
       PROVE  Each(F, answer) = Each(F, pre) \o Each(F, post)
  <2>1. Gives(F, Lines, T)
      BY <1>10 DEF Quiet
  <2>2. Each(F, one) = <<>>
    <3>1. \A i \in DOMAIN one : F[one[i]] = <<>>
        BY <1>3, <1>5, <1>10 DEF Quiet
    <3> QED BY <1>5, <2>1, <3>1, EachNothing
  <2>3. Each(F, pre \o one) = Each(F, pre) \o Each(F, one)
    <3>1. pre \in Seq(Lines) /\ one \in Seq(Lines)
        BY <1>5, <1>6
    <3> QED BY ONLY <2>1, <3>1, EachConcat
  <2>4. Each(F, most \o post) = Each(F, most) \o Each(F, post)
    <3>1. most \in Seq(Lines) /\ post \in Seq(Lines)
        BY <1>6, <1>8
    <3> QED BY ONLY <2>1, <3>1, EachConcat
  <2>5. Each(F, pre) \in Seq(T)
      BY <1>6, <2>1, EachHolds
  <2>6. Each(F, pre) \o <<>> = Each(F, pre)
      BY <2>5
  <2> QED BY <1>7, <1>8, <2>2, <2>3, <2>4, <2>6
<1>11. Cited(answer) = Cited(lines)
    BY <1>1, <1>6, <1>9, <1>10, QuietOnes, CitedByLine
<1>12. Words(answer) = Words(lines)
    BY <1>1, <1>6, <1>9, <1>10, QuietOnes, WordsByLine
<1>13. PICK m \in Nat, p \in Nat : m = Len(pre) /\ p = Len(post)
    OBVIOUS
<1>14. /\ Len(most) = m + 1
       /\ \A i \in 1 .. m : most[i] = pre[i]
       /\ most[m + 1] = n
  <2>1. pre \in Seq(Lines) /\ one \in Seq(Lines)
      BY <1>5, <1>6
  <2>2. /\ Len(pre \o one) = Len(pre) + Len(one)
        /\ \A i \in 1 .. Len(pre) : (pre \o one)[i] = pre[i]
        /\ \A i \in 1 .. Len(pre) + Len(one) : i > Len(pre) => (pre \o one)[i] = one[i - Len(pre)]
      BY <2>1, ConcatPlaces
  <2>3. m + 1 \in 1 .. m + 1 /\ m + 1 > m /\ m + 1 - m = 1
      BY <1>13
  <2> QED BY <1>5, <1>7, <1>13, <2>2, <2>3
<1>15. /\ DOMAIN answer = 1 .. m + 1 + p
       /\ \A i \in 1 .. m + 1 : answer[i] = most[i]
       /\ \A i \in 1 .. m + 1 + p : i > m + 1 => answer[i] = post[i - (m + 1)]
  <2>1. most \in Seq(Lines) /\ post \in Seq(Lines)
      BY <1>6, <1>8
  <2>2. /\ DOMAIN (most \o post) = 1 .. Len(most) + Len(post)
        /\ \A i \in 1 .. Len(most) : (most \o post)[i] = most[i]
        /\ \A i \in 1 .. Len(most) + Len(post) : i > Len(most) => (most \o post)[i] = post[i - Len(most)]
      BY <2>1, ConcatPlaces
  <2> QED BY <1>8, <1>13, <1>14, <2>2
<1>16. ASSUME NEW k \in DOMAIN answer, answer[k].kind = "note" PROVE k = m + 1
  <2>1. k \in 1 .. m + 1 + p
      BY <1>15
  <2>2. ~(k <= m)
    <3> SUFFICES ASSUME k <= m PROVE FALSE
        OBVIOUS
    <3>1. k \in 1 .. m /\ k \in 1 .. m + 1
        BY <1>13, <2>1
    <3>2. answer[k] = pre[k] /\ pre[k] \in Drafted
        BY <1>13, <1>14, <1>15, <3>1
    <3> QED BY <1>16, <3>2 DEF Drafted
  <2>3. ~(k > m + 1)
    <3> SUFFICES ASSUME k > m + 1 PROVE FALSE
        OBVIOUS
    <3>1. k - (m + 1) \in 1 .. p
        BY <1>13, <2>1
    <3>2. answer[k] = post[k - (m + 1)] /\ post[k - (m + 1)] \in Drafted
        BY <1>13, <1>15, <2>1, <3>1
    <3> QED BY <1>16, <3>2 DEF Drafted
  <2> QED BY <1>13, <2>1, <2>2, <2>3
<1>17. m + 1 \in DOMAIN answer /\ answer[m + 1] = n /\ m + 1 \in 1 .. m + 1
    BY <1>13, <1>14, <1>15
<1>18. \E j \in 1 .. m + 1 : answer[j].kind = "missing"
  <2>1. PICK j \in DOMAIN pre : pre[j].kind = "missing"
      BY <1>1
  <2>2. j \in 1 .. m /\ j \in 1 .. m + 1
      BY <1>13
  <2> QED BY <1>14, <1>15, <2>1, <2>2
<1>19. NoteAt(m + 1, answer, count)
    BY <1>3, <1>16, <1>17, <1>18 DEF NoteAt
<1> QED BY <1>9, <1>11, <1>12, <1>17, <1>19

\* An answer is its draft without what is not allowed, and says how much that was.
Checked(draft, answer, allowed) ==
    LET notes == {i \in DOMAIN answer : answer[i].kind = "note"}
        removed == Len(Cited(draft)) - Len(Cited(answer))
    IN  /\ Cited(answer) = Only(Cited(draft), allowed)
        /\ Words(answer) = Words(draft)
        /\ removed = 0 => notes = {}
        /\ removed > 0 => \E i \in notes : /\ notes = {i} /\ answer[i].count = removed
                                           /\ \E j \in 1 .. i : answer[j].kind = "missing"
        /\ \A i \in DOMAIN answer : answer[i].kind # "thinking" /\ (answer[i].gap => Fenced(answer, i))

\* VerifyCitations makes such an answer.
LEMMA Verified ==
    ASSUME NEW draft \in Seq(Drafted), draft # <<>>, NEW allowed,
           NEW answer, answer = VerifyCitations(draft, allowed).answer
    PROVE  answer # <<>> /\ answer \in Seq(Lines) /\ Checked(draft, answer, allowed)
<1> DEFINE valid == Len(Only(Cited(draft), allowed))
           invalid == Len(Cited(draft)) - valid
           s == Strip(draft, allowed)
           lines == IF invalid = 0 THEN s ELSE AppendMissingNote(s, invalid)
<1>1. answer = CollapseGaps(lines)
    BY DEF VerifyCitations
<1>2. /\ s \in Seq(Drafted) /\ Len(s) = Len(draft)
      /\ Cited(s) = Only(Cited(draft), allowed) /\ Words(s) = Words(draft)
    BY StripKeeps
<1>3. Len(draft) # 0 /\ Len(draft) \in Nat
    OBVIOUS
<1>4. invalid \in Int
  <2>1. draft \in Seq(Lines)
      BY DraftsAreLines
  <2>2. Cited(draft) \in Seq(Ref)
      BY <2>1, QuietOnes, CitedByLine, EachHolds DEF Quiet
  <2>3. Only(Cited(draft), allowed) \in Seq(Ref)
      BY <2>2, OnlyHolds
  <2> QED BY <2>2, <2>3
<1> HIDE DEF s, invalid
<1>5. /\ lines \in Seq(Lines) /\ Len(lines) # 0
      /\ Cited(lines) = Cited(s) /\ Words(lines) = Words(s)
      /\ invalid = 0 => \A i \in DOMAIN lines : lines[i].kind # "note"
      /\ invalid # 0 => \E i \in DOMAIN lines : NoteAt(i, lines, invalid)
  <2>1. CASE invalid = 0
    <3>1. lines = s
        BY <2>1
    <3>2. s \in Seq(Lines) /\ Len(s) # 0 /\ \A i \in DOMAIN s : s[i].kind # "note"
        BY <1>2, <1>3, DraftsAreLines DEF Drafted
    <3> HIDE DEF lines
    <3> QED BY <2>1, <3>1, <3>2
  <2>2. CASE invalid # 0
    <3>1. lines = AppendMissingNote(s, invalid)
        BY <2>2
    <3>2. Noted(s, invalid, AppendMissingNote(s, invalid))
        BY <1>2, <1>4, NoteAppended
    <3> HIDE DEF lines
    <3>3. /\ lines \in Seq(Lines)
          /\ Cited(lines) = Cited(s) /\ Words(lines) = Words(s)
          /\ \E i \in DOMAIN lines : NoteAt(i, lines, invalid)
        BY <1>2, <1>4, <3>1, <3>2, NotedKeeps
    <3>4. Len(lines) # 0
        BY <3>3
    <3> QED BY <2>2, <3>3, <3>4
  <2> QED BY <2>1, <2>2
<1> HIDE DEF lines
<1>6. /\ answer \in Seq(Lines) /\ Len(answer) = Len(lines)
      /\ Cited(answer) = Cited(lines) /\ Words(answer) = Words(lines)
      /\ \A i \in DOMAIN answer : /\ answer[i].kind = lines[i].kind /\ answer[i].count = lines[i].count
                                  /\ answer[i].gap => Fenced(answer, i)
    BY <1>1, <1>5, CollapseKeeps
<1>7. DOMAIN answer = DOMAIN lines /\ answer # <<>>
    BY <1>5, <1>6
<1>8. invalid = Len(Cited(draft)) - Len(Cited(answer))
    BY <1>2, <1>5, <1>6 DEF invalid
<1>9. ASSUME invalid > 0
      PROVE  LET notes == {i \in DOMAIN answer : answer[i].kind = "note"} IN
             \E i \in notes : /\ notes = {i} /\ answer[i].count = invalid
                              /\ \E j \in 1 .. i : answer[j].kind = "missing"
  <2>1. PICK i \in DOMAIN lines : NoteAt(i, lines, invalid)
      BY <1>4, <1>5, <1>9
  <2>2. \A j \in 1 .. i : j \in DOMAIN lines
      BY <1>5
  <2>3. i \in DOMAIN answer /\ answer[i].kind = "note" /\ answer[i].count = invalid
      BY <1>6, <1>7, <2>1 DEF NoteAt
  <2>4. \A k \in DOMAIN answer : answer[k].kind = "note" => k = i
      BY <1>6, <1>7, <2>1 DEF NoteAt
  <2>5. {k \in DOMAIN answer : answer[k].kind = "note"} = {i}
      BY <2>3, <2>4
  <2>6. \E j \in 1 .. i : answer[j].kind = "missing"
      BY <1>6, <1>7, <2>1, <2>2 DEF NoteAt
  <2> QED BY <2>3, <2>5, <2>6
<1>10. \A i \in DOMAIN answer : answer[i].kind # "thinking"
    BY <1>6 DEF Lines
<1>11. invalid = 0 => {i \in DOMAIN answer : answer[i].kind = "note"} = {}
    BY <1>5, <1>6, <1>7
<1>12. Checked(draft, answer, allowed)
  <2>1. Cited(answer) = Only(Cited(draft), allowed) /\ Words(answer) = Words(draft)
      BY <1>2, <1>5, <1>6
  <2> QED BY <1>6, <1>8, <1>9, <1>10, <1>11, <2>1 DEF Checked
<1> QED BY <1>6, <1>7, <1>12
--------------------------------------------------------------------------------
(* The text of an upstream body.                                              *)

\* A block that is no thinking has the lines of a draft.
LEMMA BlockIsDrafted ==
    ASSUME NEW body \in Body, NEW i \in DOMAIN body, body[i].type # "thinking"
    PROVE  body[i].text \in Seq(Drafted)
<1>1. body[i] \in Blocks
    BY DEF Body
<1>2. PICK text \in Seq(LineOf(Written)) : text = body[i].text
    BY <1>1 DEF Blocks
<1>3. \A k \in DOMAIN text : text[k] \in Drafted
  <2> SUFFICES ASSUME NEW k \in DOMAIN text PROVE text[k] \in Drafted
      OBVIOUS
  <2>1. PICK line \in LineOf(Written) : line = text[k]
      OBVIOUS
  <2>2. /\ line.kind = "thinking" <=> body[i].type = "thinking"
        /\ line.kind = "blank" => line.cites = <<>>
      BY <1>2, <2>1 DEF Body
  <2>3. line.kind \in Written \ {"thinking"} /\ line.kind # "note"
      BY <2>2 DEF LineOf, Written
  <2>4. line \in [kind : (Written \ {"thinking"}) \cup {"note"}, cites : Seq(Ref),
                  gap : BOOLEAN, count : Int]
      BY <2>3 DEF LineOf
  <2> QED BY <2>1, <2>2, <2>3, <2>4 DEF Drafted, Lines
<1> QED BY <1>2, <1>3

\* The texts of a body.
LEMMA TextsAreDrafted ==
    ASSUME NEW body \in Body, NEW types, "thinking" \notin types
    PROVE  Texts(body, types) \in Seq(Drafted)
<1> DEFINE texts == [i \in DOMAIN body |-> IF body[i].type \in types THEN body[i].text ELSE NoText]
<1>1. Len(body) \in Nat /\ DOMAIN body = 1 .. Len(body)
    BY DEF Body
<1>2. ASSUME NEW i \in DOMAIN body PROVE texts[i] \in Seq(Drafted)
  <2>1. CASE body[i].type \in types
      BY <2>1, BlockIsDrafted
  <2>2. CASE body[i].type \notin types
    <3>1. texts[i] = <<>>
        BY <2>2 DEF NoText
    <3>2. <<>> \in Seq(Drafted)
        OBVIOUS
    <3> HIDE DEF texts
    <3> QED BY <3>1, <3>2
  <2> QED BY <2>1, <2>2
<1>3. texts \in Seq(Seq(Drafted))
  <2>1. texts \in [1 .. Len(body) -> Seq(Drafted)]
      BY <1>1, <1>2
  <2> HIDE DEF texts
  <2> QED BY <1>1, <2>1
<1>4. FlattenSeq(texts) \in Seq(Drafted)
  <2> HIDE DEF texts
  <2> QED BY <1>3, FlattenHolds
<1> QED BY <1>4 DEF Texts

\* What a protocol reads is a draft, and so is what is left of it.
LEMMA ExtractedIsDrafted ==
    ASSUME NEW body \in Body, NEW protocol \in {"openai", "responses", "anthropic"}
    PROVE  TrimEnd(ExtractText(protocol, body)) \in Seq(Drafted)
<1>1. OpenaiText(body) \in Seq(Drafted)
  <2>1. CASE body # <<>> /\ body[1].type = "message"
    <3>1. 1 \in DOMAIN body
        BY <2>1 DEF Body
    <3>2. body[1].text \in Seq(Drafted)
        BY <2>1, <3>1, BlockIsDrafted
    <3> QED BY <2>1, <3>2 DEF OpenaiText
  <2>2. CASE ~(body # <<>> /\ body[1].type = "message")
    <3>1. OpenaiText(body) = <<>>
        BY <2>2 DEF OpenaiText, NoText
    <3> QED BY <3>1
  <2> QED BY <2>1, <2>2
<1>2. ResponsesText(body) \in Seq(Drafted) /\ AnthropicText(body) \in Seq(Drafted)
    BY TextsAreDrafted DEF ResponsesText, AnthropicText
<1>3. ExtractText(protocol, body) \in Seq(Drafted)
  <2>1. CASE protocol = "openai"
      BY <1>1, <2>1 DEF ExtractText
  <2>2. CASE protocol = "responses"
      BY <1>2, <2>2 DEF ExtractText
  <2>3. CASE protocol = "anthropic"
      BY <1>2, <2>3 DEF ExtractText
  <2> QED BY <2>1, <2>2, <2>3
<1> QED BY <1>3, TrimStays

--------------------------------------------------------------------------------
(* The evidence of a pack.                                                    *)

\* The types of the items of a pack.
Kinds == {"code", "test", "spec"}

\* All the items of a pack, and those of its two lists.
LEMMA ItemsAreEvidence ==
    ASSUME NEW pack \in Pack
    PROVE  /\ pack.code \in Seq(Evidence(Kinds)) /\ pack.docs \in Seq(Evidence(Kinds))
           /\ pack.flows \in Seq(Ref) /\ Items(pack) \in Seq(Evidence(Kinds))
           /\ ToSet(Items(pack)) = ToSet(pack.code) \cup ToSet(pack.docs)
<1>1. PICK code \in Seq(Evidence({"code", "test"})) : code = pack.code
    BY DEF Pack
<1>2. PICK docs \in Seq(Evidence({"spec"})) : docs = pack.docs
    BY DEF Pack
<1>3. PICK flows \in Seq({"F"} \X Nat) : flows = pack.flows
    BY DEF Pack
<1>4. /\ Evidence({"code", "test"}) \subseteq Evidence(Kinds)
      /\ Evidence({"spec"}) \subseteq Evidence(Kinds)
      /\ {"F"} \X Nat \subseteq Ref
    BY DEF Evidence, Kinds, Ref
<1>5. code \in Seq(Evidence(Kinds))
    BY <1>4
<1>6. docs \in Seq(Evidence(Kinds))
    BY <1>4
<1>7. flows \in Seq(Ref)
    BY <1>4
<1>8. code \o docs \in Seq(Evidence(Kinds)) /\ ToSet(code \o docs) = ToSet(code) \cup ToSet(docs)
    BY <1>5, <1>6, ConcatHolds
<1> QED BY <1>1, <1>2, <1>3, <1>5, <1>6, <1>7, <1>8 DEF Items

\* An item has its number.
LEMMA ItemNumbers ==
    ASSUME NEW items \in Seq(Evidence(Kinds)), NEW i \in DOMAIN items
    PROVE  items[i].no \in Nat /\ Id(items[i]) \in Ref
<1>1. PICK item \in Evidence(Kinds) : item = items[i]
    OBVIOUS
<1>2. item.no \in Nat
    BY DEF Evidence
<1> QED BY <1>1, <1>2 DEF Id, Ref

\* The ids of items.
Named(S) == {Id(item) : item \in S}

\* The ids of what is in a list.
LEMMA IdsHold ==
    ASSUME NEW items \in Seq(Evidence(Kinds))
    PROVE  /\ Ids(items) \in Seq(Ref) /\ ToSet(Ids(items)) = Named(ToSet(items))
           /\ {Id(items[i]) : i \in DOMAIN items} = Named(ToSet(items))
<1>1. Len(items) \in Nat /\ DOMAIN items = 1 .. Len(items)
    OBVIOUS
<1>2. \A i \in DOMAIN items : Id(items[i]) \in Ref
    BY ItemNumbers
<1>3. Ids(items) \in [1 .. Len(items) -> Ref] /\ DOMAIN Ids(items) = DOMAIN items
      /\ \A i \in DOMAIN items : Ids(items)[i] = Id(items[i])
    BY <1>1, <1>2 DEF Ids
<1>4. Ids(items) \in Seq(Ref)
    BY <1>1, <1>3
<1>5. ToSet(items) = {items[i] : i \in DOMAIN items}
    BY DEF ToSet
<1>6. {Id(items[i]) : i \in DOMAIN items} = Named(ToSet(items))
    BY <1>5 DEF Named
<1>7. ToSet(Ids(items)) = {Id(items[i]) : i \in DOMAIN items}
    BY <1>3 DEF ToSet
<1> QED BY <1>4, <1>6, <1>7

\* Every item of the code is in one of the three groups of its section.
LEMMA CodeSectionHolds ==
    ASSUME NEW pack \in Pack
    PROVE  /\ CodeSection(pack) \in Seq(Evidence(Kinds))
           /\ ToSet(CodeSection(pack)) = ToSet(pack.code)
<1> DEFINE code == pack.code
           top == TopScore(code)
           chosen(g) == {item \in ToSet(code) : EvidenceGroup(item, top) = g}
           group(g) == Only(code, chosen(g))
<1>1. code \in Seq(Evidence(Kinds)) /\ code \in Seq(Evidence({"code", "test"}))
    BY ItemsAreEvidence DEF Pack
<1>2. \A item \in ToSet(code) : item.type \in {"code", "test"}
  <2>1. \A k \in DOMAIN code : code[k] \in Evidence({"code", "test"})
      BY <1>1
  <2>2. \A item \in Evidence({"code", "test"}) : item.type \in {"code", "test"}
      BY DEF Evidence
  <2> HIDE DEF code
  <2> QED BY <2>1, <2>2 DEF ToSet
<1> HIDE DEF top
<1>3. ToSet(code) = (chosen("Core") \cup chosen("Related")) \cup chosen("Tests")
  <2>1. \A item \in ToSet(code) : EvidenceGroup(item, top) \in {"Core", "Related", "Tests"}
    <3> SUFFICES ASSUME NEW item \in ToSet(code)
                 PROVE  EvidenceGroup(item, top) \in {"Core", "Related", "Tests"}
        OBVIOUS
    <3>1. CASE item.type = "test"
        BY <3>1 DEF EvidenceGroup
    <3>2. CASE item.type = "code"
        BY <3>2 DEF EvidenceGroup
    <3> QED BY <1>2, <3>1, <3>2
  <2> QED BY <2>1
<1> HIDE DEF chosen, code
<1>4. ASSUME NEW g PROVE group(g) \in Seq(Evidence(Kinds)) /\ ToSet(group(g)) = ToSet(code) \cap chosen(g)
    BY <1>1, OnlyHolds
<1> HIDE DEF group
<1>5. /\ group("Core") \o group("Related") \in Seq(Evidence(Kinds))
      /\ ToSet(group("Core") \o group("Related")) = ToSet(group("Core")) \cup ToSet(group("Related"))
    BY <1>4, ConcatHolds
<1>6. /\ group("Core") \o group("Related") \o group("Tests") \in Seq(Evidence(Kinds))
      /\ ToSet(group("Core") \o group("Related") \o group("Tests"))
           = ToSet(group("Core") \o group("Related")) \cup ToSet(group("Tests"))
  <2>1. PICK a, b : a = group("Core") \o group("Related") /\ b = group("Tests")
      OBVIOUS
  <2>2. a \in Seq(Evidence(Kinds)) /\ b \in Seq(Evidence(Kinds))
      BY <1>4, <1>5, <2>1
  <2>3. a \o b \in Seq(Evidence(Kinds)) /\ ToSet(a \o b) = ToSet(a) \cup ToSet(b)
      BY <2>2, ConcatHolds
  <2> QED BY <2>1, <2>3
<1>7. ToSet(group("Core") \o group("Related") \o group("Tests")) = ToSet(code)
    BY <1>3, <1>4, <1>5, <1>6
<1>8. CodeSection(pack) = group("Core") \o group("Related") \o group("Tests")
    BY DEF CodeSection, group, chosen, code, top
<1> QED BY <1>6, <1>7, <1>8 DEF code

\* The ids the check admits.
LEMMA AllowedAre ==
    ASSUME NEW pack \in Pack
    PROVE  AllowedIds(pack) = Named(ToSet(pack.code) \cup ToSet(pack.docs)) \cup ToSet(pack.flows)
<1>1. {Id(Items(pack)[i]) : i \in DOMAIN Items(pack)} = Named(ToSet(pack.code) \cup ToSet(pack.docs))
    BY ItemsAreEvidence, IdsHold
<1>2. {pack.flows[i] : i \in DOMAIN pack.flows} = ToSet(pack.flows)
    BY DEF ToSet
<1> QED BY <1>1, <1>2 DEF AllowedIds

\* The prompt shows exactly these.
LEMMA PromptShowsAllowed ==
    ASSUME NEW pack \in Pack
    PROVE  ToSet(EvidenceBlock(pack)) = AllowedIds(pack)
<1>1. /\ Ids(pack.docs) \in Seq(Ref) /\ ToSet(Ids(pack.docs)) = Named(ToSet(pack.docs))
    BY ItemsAreEvidence, IdsHold
<1>2. /\ Ids(CodeSection(pack)) \in Seq(Ref)
      /\ ToSet(Ids(CodeSection(pack))) = Named(ToSet(pack.code))
    BY CodeSectionHolds, IdsHold
<1>3. PICK a, b, c : a = Ids(pack.docs) /\ b = Ids(CodeSection(pack)) /\ c = pack.flows
    OBVIOUS
<1>4. a \in Seq(Ref) /\ b \in Seq(Ref) /\ c \in Seq(Ref)
    BY <1>1, <1>2, <1>3, ItemsAreEvidence
<1>5. a \o b \in Seq(Ref) /\ ToSet(a \o b) = ToSet(a) \cup ToSet(b)
    BY <1>4, ConcatHolds
<1>6. ToSet((a \o b) \o c) = (ToSet(a) \cup ToSet(b)) \cup ToSet(c)
  <2>1. PICK d \in Seq(Ref) : d = a \o b
      BY <1>5
  <2>2. ToSet(d \o c) = ToSet(d) \cup ToSet(c)
      BY <1>4, ConcatHolds
  <2> QED BY <1>5, <2>1, <2>2
<1>7. Named(ToSet(pack.code) \cup ToSet(pack.docs)) = Named(ToSet(pack.code)) \cup Named(ToSet(pack.docs))
    BY DEF Named
<1>8. EvidenceBlock(pack) = (a \o b) \o c
    BY <1>3 DEF EvidenceBlock
<1> QED BY <1>1, <1>2, <1>3, <1>6, <1>7, <1>8, AllowedAre

\* Putting items in order loses none.
LEMMA OrderedHold ==
    ASSUME NEW items \in Seq(Evidence(Kinds))
    PROVE  InOrder(items) \in Seq(Evidence(Kinds)) /\ ToSet(InOrder(items)) = ToSet(items)
<1> DEFINE numbers == [i \in DOMAIN items |-> items[i].no]
           t == SortedBy(numbers, items)
<1>1. numbers \in [DOMAIN items -> Int]
  <2>1. \A i \in DOMAIN items : items[i].no \in Int
      BY ItemNumbers
  <2> QED BY <2>1
<1> HIDE DEF numbers
<1>2. /\ t \in Seq(Evidence(Kinds)) /\ Len(t) = Len(items)
      /\ \E p : Sorting(numbers, items, t, p)
    BY <1>1, SortedByKeys
<1> HIDE DEF t
<1>3. DOMAIN t = DOMAIN items
    BY <1>2
<1>4. PICK p : Sorting(numbers, items, t, p)
    BY <1>2
<1>5. /\ \A r \in DOMAIN t : t[r] = items[p[r]] /\ p[r] \in DOMAIN items
      /\ \A k \in DOMAIN items : \E r \in DOMAIN t : t[r] = items[k]
    BY <1>3, <1>4 DEF Sorting
<1>6. ToSet(t) = ToSet(items)
    BY <1>5 DEF ToSet
<1>7. InOrder(items) = t
    BY DEF InOrder, t, numbers
<1> QED BY <1>2, <1>6, <1>7

\* The meta data of the audit names them all, but for the flows.
LEMMA MetaNamesEvidence ==
    ASSUME NEW pack \in Pack, NEW meta, meta = EvidenceMeta(pack)
    PROVE  {meta[i].id : i \in DOMAIN meta}
             = AllowedIds(pack) \ {pack.flows[i] : i \in DOMAIN pack.flows}
<1> DEFINE items == InOrder(Items(pack))
<1>1. items \in Seq(Evidence(Kinds)) /\ ToSet(items) = ToSet(pack.code) \cup ToSet(pack.docs)
    BY ItemsAreEvidence, OrderedHold
<1>2. meta = [i \in DOMAIN items |->
                 [id |-> Id(items[i]), group |-> EvidenceGroup(items[i], TopScore(items))]]
    BY DEF EvidenceMeta
<1> HIDE DEF items
<1>3. DOMAIN meta = DOMAIN items /\ \A i \in DOMAIN items : meta[i].id = Id(items[i])
    BY <1>2
<1>4. {meta[i].id : i \in DOMAIN meta} = {Id(items[i]) : i \in DOMAIN items}
    BY <1>3
<1>5. {Id(items[i]) : i \in DOMAIN items} = Named(ToSet(pack.code) \cup ToSet(pack.docs))
    BY <1>1, IdsHold
<1>6. \A x \in Named(ToSet(pack.code) \cup ToSet(pack.docs)) : x[1] = "E"
    BY DEF Named, Id
<1>7. PICK flows \in Seq({"F"} \X Nat) : flows = pack.flows
    BY DEF Pack
<1>8. \A x \in ToSet(flows) : x[1] = "F"
    BY DEF ToSet
<1>9. {pack.flows[i] : i \in DOMAIN pack.flows} = ToSet(pack.flows)
    BY DEF ToSet
<1> QED BY <1>4, <1>5, <1>6, <1>7, <1>8, <1>9, AllowedAre

\* The text an audit keeps.
LEMMA Truncated ==
    ASSUME NEW answer \in Seq(Lines), NEW text, text = TruncateAnswer(answer)
    PROVE  /\ text # NoText <=> answer # NoText
           /\ \A i \in 1 .. Len(text) : i <= StoreMax => text[i] = answer[i]
           /\ Len(answer) > StoreMax => text[Len(text)].kind = "cut"
<1>1. CASE Len(answer) <= StoreMax
    BY <1>1, AnswerAssumption DEF TruncateAnswer, NoText
<1>2. CASE ~(Len(answer) <= StoreMax)
  <2> DEFINE S == Lines \cup {Line("cut", 0)}
             kept == SubSeq(answer, 1, StoreMax)
             cut == <<Line("cut", 0)>>
  <2>1. answer \in Seq(S) /\ StoreMax \in 0 .. Len(answer)
      BY <1>2, AnswerAssumption
  <2>2. kept \in Seq(S) /\ Len(kept) = StoreMax /\ \A i \in 1 .. StoreMax : kept[i] = answer[i]
      BY <2>1, SplitAt
  <2>3. cut \in Seq(S) /\ Len(cut) = 1 /\ cut[1].kind = "cut"
      BY DEF Line
  <2> HIDE DEF kept, cut, S
  <2>4. /\ Len(kept \o cut) = StoreMax + 1
        /\ \A i \in 1 .. StoreMax : (kept \o cut)[i] = kept[i]
        /\ (kept \o cut)[StoreMax + 1] = cut[1]
        /\ kept \o cut # <<>>
    <3>1. StoreMax \in Nat
        BY AnswerAssumption
    <3>2. PICK a \in Seq(S), b \in Seq(S) : a = kept /\ b = cut
        BY <2>2, <2>3
    <3>3. Len(a) = StoreMax /\ Len(b) = 1
        BY <2>2, <2>3, <3>2
    <3>4. /\ a \o b \in Seq(S)
          /\ Len(a \o b) = Len(a) + Len(b)
          /\ \A i \in 1 .. Len(a) : (a \o b)[i] = a[i]
          /\ \A i \in 1 .. Len(a) + Len(b) : i > Len(a) => (a \o b)[i] = b[i - Len(a)]
        BY ConcatPlaces
    <3>5. StoreMax + 1 - StoreMax = 1 /\ StoreMax + 1 > StoreMax /\ StoreMax + 1 \in 1 .. StoreMax + 1
          /\ StoreMax + 1 # 0
        BY <3>1
    <3>6. /\ Len(a \o b) = StoreMax + 1
          /\ \A i \in 1 .. StoreMax : (a \o b)[i] = a[i]
        BY <3>3, <3>4
    <3>7. (a \o b)[StoreMax + 1] = b[1]
        BY <3>3, <3>4, <3>5
    <3>8. a \o b # <<>>
        BY <3>5, <3>6
    <3> QED BY <3>2, <3>6, <3>7, <3>8
  <2>5. text = kept \o cut
      BY <1>2 DEF TruncateAnswer, kept, cut
  <2>6. answer # <<>>
      BY <1>2, AnswerAssumption
  <2> QED BY <1>2, <2>2, <2>3, <2>4, <2>5, <2>6, AnswerAssumption DEF NoText
<1> QED BY <1>1, <1>2

--------------------------------------------------------------------------------
(* A step of a request: Moves(t, F) if it changes the fields F of the request *)
(* of thread t, and no other request.                                         *)

Moves(t, F) ==
    /\ DOMAIN req' = Thread /\ \A s \in Thread \ {t} : req'[s] = req[s]
    /\ But(req'[t], req[t], F)

\* Set replaces the request of one thread.
LEMMA SetMoves ==
    ASSUME Requests, NEW t \in Thread, NEW q, Set(t, q)
    PROVE  DOMAIN req' = Thread /\ req'[t] = q /\ \A s \in Thread \ {t} : req'[s] = req[s]
BY DEF Set, Requests

\* The request a thread without one has.
LEMMA IdleFields ==
    /\ DOMAIN Idle = Fields
    /\ Idle.op = "idle" /\ Idle.at = "idle" /\ Idle.user = None /\ Idle.project = FALSE
    /\ Idle.pack = NoPack /\ Idle.degraded = FALSE /\ Idle.usage = NoUsage /\ Idle.stamp = -1
    /\ Idle.provider = NoConfig /\ Idle.due = NoConfig /\ Idle.read = NoConfig
    /\ Idle.posts = 0 /\ Idle.code = 0 /\ Idle.status = "none" /\ Idle.answer = NoText
BY DEF Idle, Fields

\* It is sound.
LEMMA IdleIsSound == ASSUME SharedOK PROVE Sound(Idle)
<1>1. Idle.posts \in 0 .. MaxRetries + 1 /\ Idle.stamp \in Nat \cup {-1}
    BY IdleFields, QueryAssumption
<1>2. Idle.user \in User \cup {None} /\ Idle.pack \in Packs \cup {NoPack}
      /\ Idle.usage \in Usages \cup {NoUsage} /\ {Idle.provider, Idle.due, Idle.read} \subseteq Configs
    BY IdleFields DEF Configs
<1>3. Idle.project \in BOOLEAN /\ Idle.degraded \in BOOLEAN
    BY IdleFields
<1>4. Idle.op = "idle" /\ Idle.at = "idle" /\ Idle.code = 0 /\ Idle.status = "none"
    BY IdleFields
<1>5. Typed(Idle)
    BY <1>1, <1>2, <1>3, <1>4 DEF Typed
<1> QED BY <1>4, <1>5, IdleFields DEF Sound, RequestOK, EndsWell, Choosing

\* Steps that leave a request alone leave it sound: nobody comes back and no
\* fault is undone.
LEMMA StillSound ==
    ASSUME SharedOK, NEW r, Sound(r), gone \subseteq gone', faults' \in Nat, faults <= faults'
    PROVE  Sound(r)'
BY DEF Sound, EndsWell, SharedOK

--------------------------------------------------------------------------------
(* What each action does to the request of its thread.                        *)

\* The codes the checks can answer with; that the project is not the caller's only
\* when it is not.
LEMMA RefusalCodes ==
    ASSUME NEW op, NEW owned \in BOOLEAN
    PROVE  /\ Refusals(op, owned) \subseteq {200, 400, 404, 409, 500, 503}
           /\ owned => 404 \notin Refusals(op, owned)
<1>1. ASSUME NEW valid, NEW empty, NEW broken, NEW uploaded
      PROVE  /\ Refusal(op, owned, valid, empty, broken, uploaded) \in {200, 400, 404, 409, 500, 503}
             /\ owned => Refusal(op, owned, valid, empty, broken, uploaded) # 404
    BY DEF Refusal, EmptyIndex
<1> QED BY <1>1 DEF Refusals

\* A request that begins goes to the search, or fails its checks.
LEMMA BeginEffect ==
    ASSUME Requests, NEW t \in Thread, NEW op \in Rest \cup Mcp, NEW u \in User, Begin(t, op, u)
    PROVE  LET q == req'[t] IN
           /\ DOMAIN req' = Thread /\ \A s \in Thread \ {t} : req'[s] = req[s]
           /\ But(q, Idle, {"op", "user", "code", "project", "at"})
           /\ q.op = op /\ q.user = u /\ q.project \in BOOLEAN
           /\ q.project => q.code # 404
           /\ \/ q.at = "search" /\ q.code = 200
              \/ q.at = "audit" /\ q.code \in {400, 404, 409, 500, 503}
<1> DEFINE at(code) == IF code = 200 THEN "search" ELSE "audit"
<1>1. PICK owned \in BOOLEAN :
         \E code \in Refusals(op, owned) :
            Set(t, [Idle EXCEPT !.op = op, !.user = u, !.code = code,
                                !.project = (op \in Rest /\ owned), !.at = at(code)])
    BY DEF Begin
<1> DEFINE Begun(c) == Set(t, [Idle EXCEPT !.op = op, !.user = u, !.code = c,
                                           !.project = (op \in Rest /\ owned), !.at = at(c)])
<1>2. PICK code \in {200, 400, 404, 409, 500, 503} : Begun(code) /\ (owned => code # 404)
  <2>1. \E c \in Refusals(op, owned) : Begun(c)
      BY <1>1
  <2> HIDE DEF Begun
  <2> QED BY <2>1, RefusalCodes
<1> DEFINE project == op \in Rest /\ owned
           q == [Idle EXCEPT !.op = op, !.user = u, !.code = code, !.project = project,
                             !.at = at(code)]
<1>3. Set(t, q)
    BY <1>2
<1>4. project \in BOOLEAN /\ (project => code # 404)
    BY <1>2
<1>5. DOMAIN req' = Thread /\ req'[t] = q /\ \A s \in Thread \ {t} : req'[s] = req[s]
    BY <1>3, SetMoves
<1>6. /\ But(q, Idle, {"op", "user", "code", "project", "at"})
      /\ q.op = op /\ q.user = u /\ q.code = code /\ q.project = project /\ q.at = at(code)
  <2> HIDE DEF at, project
  <2> QED BY IdleFields DEF But, Fields
<1> HIDE DEF q
<1>7. \/ at(code) = "search" /\ code = 200
      \/ at(code) = "audit" /\ code \in {400, 404, 409, 500, 503}
    BY <1>2
<1>8. q.project \in BOOLEAN /\ (q.project => q.code # 404)
  <2> HIDE DEF project
  <2> QED BY <1>4, <1>6
<1>9. /\ But(q, Idle, {"op", "user", "code", "project", "at"})
      /\ q.op = op /\ q.user = u /\ q.code = code /\ q.at = at(code)
    BY <1>6
<1> HIDE DEF project, at
<1> QED BY <1>5, <1>7, <1>8, <1>9

\* The pack is found: an ask with evidence goes on.
LEMMA SearchFoundEffect ==
    ASSUME Requests, NEW t \in Thread, SearchFound(t)
    PROVE  LET q == req'[t] IN
           /\ Moves(t, {"pack", "degraded", "at", "status"})
           /\ q.pack \in Packs /\ q.degraded \in BOOLEAN
           /\ \/ q.op \notin Asks /\ q.at = "audit" /\ q.status = "found"
              \/ q.op \in Asks /\ q.at = "audit" /\ q.status = "insufficient_evidence"
                 /\ ~q.pack.answerable
              \/ q.op \in Asks /\ q.at = "owner" /\ q.status = req[t].status /\ q.pack.answerable
<1>1. PICK pack \in Packs, degraded \in BOOLEAN :
         Set(t, Found([req[t] EXCEPT !.pack = pack, !.degraded = degraded]))
    BY DEF SearchFound
<1> DEFINE r == req[t]
           s == [r EXCEPT !.pack = pack, !.degraded = degraded]
           q == Found(s)
<1>2. DOMAIN req' = Thread /\ req'[t] = q /\ \A i \in Thread \ {t} : req'[i] = req[i]
    BY <1>1, SetMoves
<1>3. DOMAIN r = Fields
    BY DEF Requests, Sound
<1>4. But(s, r, {"pack", "degraded"}) /\ s.pack = pack /\ s.degraded = degraded
  <2> HIDE DEF r
  <2> QED BY <1>3 DEF But, Fields
<1> HIDE DEF s
<1>5. DOMAIN s = Fields
    BY <1>4 DEF But
<1>6. CASE s.op \notin Asks
  <2>1. q = [s EXCEPT !.at = "audit", !.status = "found"]
      BY <1>6 DEF Found, FoundContext
  <2>2. But(q, s, {"at", "status"}) /\ q.at = "audit" /\ q.status = "found"
      BY <1>5, <2>1 DEF But, Fields
  <2> HIDE DEF q
  <2>3. But(q, r, {"pack", "degraded", "at", "status"}) /\ q.pack = pack /\ q.degraded = degraded
        /\ q.op = s.op
      BY <1>4, <2>2 DEF But, Fields
  <2> QED BY <1>2, <1>6, <2>2, <2>3 DEF Moves
<1>7. CASE s.op \in Asks /\ ~s.pack.answerable
  <2>1. q = [s EXCEPT !.at = "audit", !.status = "insufficient_evidence", !.degraded = TRUE]
      BY <1>7 DEF Found, FoundTooLittle
  <2>2. But(q, s, {"at", "status", "degraded"}) /\ q.at = "audit"
        /\ q.status = "insufficient_evidence" /\ q.degraded = TRUE
      BY <1>5, <2>1 DEF But, Fields
  <2> HIDE DEF q
  <2>3. But(q, r, {"pack", "degraded", "at", "status"}) /\ q.pack = pack /\ q.op = s.op
      BY <1>4, <2>2 DEF But, Fields
  <2> QED BY <1>2, <1>4, <1>7, <2>2, <2>3 DEF Moves
<1>8. CASE s.op \in Asks /\ s.pack.answerable
  <2>1. q = [s EXCEPT !.at = "owner", !.degraded = TRUE]
      BY <1>8 DEF Found
  <2>2. But(q, s, {"at", "degraded"}) /\ q.at = "owner" /\ q.degraded = TRUE
      BY <1>5, <2>1 DEF But, Fields
  <2> HIDE DEF q
  <2>3. But(q, r, {"pack", "degraded", "at", "status"}) /\ q.pack = pack /\ q.op = s.op
        /\ q.status = r.status
      BY <1>4, <2>2 DEF But, Fields
  <2> QED BY <1>2, <1>4, <1>8, <2>2, <2>3 DEF Moves
<1> QED BY <1>6, <1>7, <1>8

\* A request replaced by one like it, but for the fields F.
LEMMA Replaced ==
    ASSUME Requests, NEW t \in Thread, NEW q, Set(t, q), NEW F, But(q, req[t], F)
    PROVE  Moves(t, F) /\ req'[t] = q
BY SetMoves DEF Moves

\* A request has its fields.
LEMMA HasFields == ASSUME Requests, NEW t \in Thread PROVE DOMAIN req[t] = Fields
BY DEF Requests, Sound

\* The engine fails, which takes a fault.
LEMMA SearchFailsEffect ==
    ASSUME Requests, NEW t \in Thread, SearchFails(t)
    PROVE  LET q == req'[t] IN
           /\ Moves(t, {"at", "code"})
           /\ q.at = "audit" /\ q.code \in {500, 503, 507}
<1> DEFINE r == req[t]
<1>1. PICK exc \in Exceptions : Set(t, [r EXCEPT !.at = "audit", !.code = MapEngineError(exc)])
    BY DEF SearchFails
<1> DEFINE code == MapEngineError(exc)
           q == [r EXCEPT !.at = "audit", !.code = code]
<1>2. code \in {500, 503, 507}
    BY DEF MapEngineError
<1>3. DOMAIN r = Fields
    BY HasFields
<1> HIDE DEF r, code
<1>4. But(q, r, {"at", "code"}) /\ q.at = "audit" /\ q.code = code
    BY <1>3 DEF But, Fields
<1>5. Moves(t, {"at", "code"}) /\ req'[t] = q
  <2> USE DEF r
  <2> QED BY <1>1, <1>4, Replaced DEF code
<1> QED BY <1>2, <1>4, <1>5

\* The choice begins with the configuration in force, or the session has ended.
LEMMA OwnerEffect ==
    ASSUME Requests, NEW t \in Thread, Owner(t)
    PROVE  LET r == req[t]
               q == req'[t]
           IN  /\ Moves(t, {"at", "code", "due"})
               /\ \/ q.at = "audit" /\ q.code = 401 /\ r.user \in gone /\ q.due = r.due
                  \/ q.at = "stamp" /\ q.code = r.code /\ q.due = Effective(r.user)
<1> DEFINE r == req[t]
           due == Effective(r.user)
           q1 == [r EXCEPT !.at = "audit", !.code = 401]
           q2 == [r EXCEPT !.at = "stamp", !.due = due]
<1>1. \/ r.user \in gone /\ Set(t, q1)
      \/ Set(t, q2)
    BY DEF Owner
<1>2. DOMAIN r = Fields
    BY HasFields
<1>3. But(q1, r, {"at", "code", "due"}) /\ q1.at = "audit" /\ q1.code = 401 /\ q1.due = r.due
  <2> HIDE DEF r
  <2> QED BY <1>2 DEF But, Fields
<1>4. But(q2, r, {"at", "code", "due"}) /\ q2.at = "stamp" /\ q2.due = due /\ q2.code = r.code
  <2> HIDE DEF r, due
  <2> QED BY <1>2 DEF But, Fields
<1> HIDE DEF q1, q2
<1>5. CASE r.user \in gone /\ Set(t, q1)
    BY <1>3, <1>5, Replaced
<1>6. CASE Set(t, q2)
    BY <1>4, <1>6, Replaced
<1> QED BY <1>1, <1>5, <1>6

\* The stamp is that of the configuration, if the read succeeds.
LEMMA ReadStampEffect ==
    ASSUME Requests, NEW t \in Thread, ReadStamp(t)
    PROVE  LET q == req'[t] IN
           /\ Moves(t, {"at", "stamp"})
           /\ q.at = "cached"
           /\ \/ q.stamp = config[req[t].user].at /\ mixed' = mixed
              \/ q.stamp = -1 /\ mixed' = TRUE
<1> DEFINE r == req[t]
           at == config[r.user].at
           q(s) == [r EXCEPT !.at = "cached", !.stamp = s]
<1>1. \/ Set(t, q(at)) /\ mixed' = mixed
      \/ Set(t, q(-1)) /\ mixed' = TRUE
    BY DEF ReadStamp
<1>2. DOMAIN r = Fields
    BY HasFields
<1>3. ASSUME NEW s PROVE But(q(s), r, {"at", "stamp"}) /\ q(s).at = "cached" /\ q(s).stamp = s
  <2> HIDE DEF r
  <2> QED BY <1>2 DEF But, Fields
<1> HIDE DEF q
<1>4. CASE Set(t, q(at)) /\ mixed' = mixed
    BY <1>3, <1>4, Replaced
<1>5. CASE Set(t, q(-1)) /\ mixed' = TRUE
  <2>1. Moves(t, {"at", "stamp"}) /\ req'[t].at = "cached" /\ req'[t].stamp = -1
      BY <1>3, <1>5, Replaced
  <2> QED BY <1>5, <2>1
<1> QED BY <1>1, <1>4, <1>5

\* What is cached is read, then compared with the key.
LEMMA ReadCachedEffect ==
    ASSUME Requests, NEW t \in Thread, ReadCached(t)
    PROVE  LET q == req'[t] IN
           /\ Moves(t, {"at", "read"})
           /\ q.at = "key" /\ q.read = llmProvider
<1> DEFINE r == req[t]
           q == [r EXCEPT !.at = "key", !.read = llmProvider]
<1>1. Set(t, q)
    BY DEF ReadCached
<1>2. DOMAIN r = Fields
    BY HasFields
<1>3. But(q, r, {"at", "read"}) /\ q.at = "key" /\ q.read = llmProvider
  <2> HIDE DEF r
  <2> QED BY <1>2 DEF But, Fields
<1> HIDE DEF q
<1> QED BY <1>1, <1>3, Replaced

\* The cached provider is taken if the key is this choice's.
LEMMA CompareKeyEffect ==
    ASSUME Requests, NEW t \in Thread, CompareKey(t)
    PROVE  LET r == req[t]
               q == req'[t]
           IN  /\ Moves(t, {"at", "provider"})
               /\ \/ q.at = "post" /\ q.provider = r.read /\ llmProviderKey = <<r.user, r.stamp>>
                     /\ q.provider # NoConfig
                  \/ q.at = "build" /\ q.provider = r.provider
<1> DEFINE r == req[t]
           q1 == [r EXCEPT !.at = "post", !.provider = r.read]
           q2 == [r EXCEPT !.at = "build"]
<1>1. \/ Set(t, q1) /\ llmProviderKey = <<r.user, r.stamp>> /\ r.read # NoConfig
      \/ Set(t, q2)
    BY DEF CompareKey, ProviderKey
<1>2. DOMAIN r = Fields
    BY HasFields
<1> HIDE DEF r
<1>3. But(q1, r, {"at", "provider"}) /\ q1.at = "post" /\ q1.provider = r.read
    BY <1>2 DEF But, Fields
<1>4. But(q2, r, {"at", "provider"}) /\ q2.at = "build" /\ q2.provider = r.provider
    BY <1>2 DEF But, Fields
<1> HIDE DEF q1, q2
<1> USE DEF r
<1>5. CASE Set(t, q1) /\ llmProviderKey = <<r.user, r.stamp>> /\ r.read # NoConfig
    BY <1>3, <1>5, Replaced
<1>6. CASE Set(t, q2)
    BY <1>4, <1>6, Replaced
<1> QED BY <1>1, <1>5, <1>6

\* A provider is built from the configuration in force, or from the server's.
LEMMA BuildEffect ==
    ASSUME Requests, NEW t \in Thread, Build(t)
    PROVE  LET q == req'[t] IN
           /\ Moves(t, {"at", "provider"})
           /\ q.at = "keep"
           /\ \/ q.provider = Effective(req[t].user) /\ mixed' = mixed
              \/ q.provider = server /\ mixed' = TRUE
<1> DEFINE r == req[t]
           own == Effective(r.user)
           q(c) == [r EXCEPT !.at = "keep", !.provider = c]
<1>1. \/ Set(t, q(own)) /\ mixed' = mixed
      \/ Set(t, q(server)) /\ mixed' = TRUE
    BY DEF Build
<1>2. DOMAIN r = Fields
    BY HasFields
<1>3. ASSUME NEW c PROVE But(q(c), r, {"at", "provider"}) /\ q(c).at = "keep" /\ q(c).provider = c
  <2> HIDE DEF r
  <2> QED BY <1>2 DEF But, Fields
<1> HIDE DEF q, own
<1>4. CASE Set(t, q(own)) /\ mixed' = mixed
    BY <1>3, <1>4, Replaced DEF own
<1>5. CASE Set(t, q(server)) /\ mixed' = TRUE
  <2>1. Moves(t, {"at", "provider"}) /\ req'[t].at = "keep" /\ req'[t].provider = server
      BY <1>3, <1>5, Replaced
  <2> QED BY <1>5, <2>1
<1> QED BY <1>1, <1>4, <1>5 DEF own

\* The provider is put into the cache.
LEMMA KeepProviderEffect ==
    ASSUME Requests, NEW t \in Thread, KeepProvider(t)
    PROVE  Moves(t, {"at"}) /\ req'[t].at = "sign"
<1> DEFINE r == req[t]
           q == [r EXCEPT !.at = "sign"]
<1>1. Set(t, q)
    BY DEF KeepProvider
<1>2. DOMAIN r = Fields
    BY HasFields
<1>3. But(q, r, {"at"}) /\ q.at = "sign"
  <2> HIDE DEF r
  <2> QED BY <1>2 DEF But, Fields
<1> HIDE DEF q
<1> QED BY <1>1, <1>3, Replaced

\* With a provider the model is called, without one the ask ends degraded.
LEMMA SignProviderEffect ==
    ASSUME Requests, NEW t \in Thread, SignProvider(t)
    PROVE  LET r == req[t]
               q == req'[t]
           IN  /\ Moves(t, {"at", "status"})
               /\ \/ q.at = "post" /\ q.status = r.status /\ q.provider # NoConfig
                  \/ q.at = "audit" /\ q.status = "degraded"
<1> DEFINE r == req[t]
           q1 == [r EXCEPT !.at = "post"]
           q2 == [r EXCEPT !.at = "audit", !.status = "degraded"]
<1>1. \/ Set(t, q1) /\ r.provider # NoConfig
      \/ Set(t, q2)
    BY DEF SignProvider
<1>2. DOMAIN r = Fields
    BY HasFields
<1> HIDE DEF r
<1>3. But(q1, r, {"at", "status"}) /\ q1.at = "post" /\ q1.status = r.status
      /\ q1.provider = r.provider
    BY <1>2 DEF But, Fields
<1>4. But(q2, r, {"at", "status"}) /\ q2.at = "audit" /\ q2.status = "degraded"
    BY <1>2 DEF But, Fields
<1> HIDE DEF q1, q2
<1> USE DEF r
<1>5. CASE Set(t, q1) /\ r.provider # NoConfig
    BY <1>3, <1>5, Replaced
<1>6. CASE Set(t, q2)
    BY <1>4, <1>6, Replaced
<1> QED BY <1>1, <1>5, <1>6

\* The fields a call of the model changes.
Called == {"at", "posts", "status", "degraded", "draft", "answer", "coverage"}

\* An ask whose call failed for good keeps its evidence.
LEMMA DegradeEffect ==
    ASSUME NEW r, DOMAIN r = Fields, NEW s, s = [r EXCEPT !.posts = @ + 1], NEW q, q = Degrade(s)
    PROVE  But(q, r, Called) /\ q.at = "audit" /\ q.posts = r.posts + 1 /\ q.status = "degraded"
           /\ q.degraded = r.degraded /\ q.answer = r.answer
<1>1. But(s, r, {"posts"}) /\ s.posts = r.posts + 1
    BY DEF But, Fields
<1>2. DOMAIN s = Fields
    BY <1>1 DEF But
<1>3. But(q, s, {"at", "status"}) /\ q.at = "audit" /\ q.status = "degraded"
    BY <1>2 DEF But, Fields, Degrade
<1> QED BY <1>1, <1>3 DEF But, Fields, Called

\* An answer is checked and returned.
LEMMA AnsweredEffect ==
    ASSUME NEW r, DOMAIN r = Fields, NEW s, s = [r EXCEPT !.posts = @ + 1],
           NEW text, NEW q, q = Answered(s, text)
    PROVE  But(q, r, Called) /\ q.at = "audit" /\ q.posts = r.posts + 1 /\ q.status = "answered"
           /\ q.degraded \in BOOLEAN /\ q.draft = text
           /\ q.answer = VerifyCitations(text, AllowedIds(r.pack)).answer
<1> DEFINE check == VerifyCitations(text, AllowedIds(s.pack))
<1>1. But(s, r, {"posts"}) /\ s.posts = r.posts + 1
    BY DEF But, Fields
<1>2. DOMAIN s = Fields
    BY <1>1 DEF But
<1>3. q = [s EXCEPT !.at = "audit", !.status = "answered", !.degraded = FALSE,
                    !.draft = text, !.answer = check.answer, !.coverage = check.coverage]
    BY DEF Answered
<1>4. s.pack = r.pack
    BY <1>1 DEF But, Fields
<1> HIDE DEF check
<1>5. But(q, s, Called \ {"posts"}) /\ q.at = "audit" /\ q.status = "answered" /\ q.degraded = FALSE
      /\ q.draft = text /\ q.answer = check.answer
    BY <1>2, <1>3 DEF But, Fields, Called
<1>6. q.answer = VerifyCitations(text, AllowedIds(r.pack)).answer
    BY <1>4, <1>5 DEF check
<1> QED BY <1>1, <1>5, <1>6 DEF But, Fields, Called

\* The answer is what is left of the model's words.
AnswerChecked(r, q) ==
    /\ q.draft # NoText
    /\ \E body \in Bodies : q.draft = TrimEnd(ExtractText(r.provider.protocol, body))
    /\ q.answer = VerifyCitations(q.draft, AllowedIds(r.pack)).answer

\* After a call the ask has an answer, is degraded, or tries again while it may.
CallEnded(r, q) ==
    /\ q.posts = r.posts + 1
    /\ \/ q.at = "audit" /\ q.status = "answered" /\ q.degraded \in BOOLEAN /\ AnswerChecked(r, q)
       \/ q.at = "audit" /\ q.status = "degraded" /\ q.degraded = r.degraded /\ q.answer = r.answer
       \/ q.at = "post" /\ q.status = r.status /\ q.degraded = r.degraded /\ r.posts < MaxRetries
          /\ q.answer = r.answer

\* The call returns, is worth another try, or is refused.
LEMMA PostEffect ==
    ASSUME Requests, NEW t \in Thread, PostReplies(t) \/ PostRetries(t) \/ PostRefused(t)
    PROVE  Moves(t, Called) /\ CallEnded(req[t], req'[t])
<1> DEFINE r == req[t]
           s == [r EXCEPT !.posts = @ + 1]
<1>1. DOMAIN r = Fields
    BY HasFields
<1>2. But(Degrade(s), r, Called) /\ CallEnded(r, Degrade(s))
    BY <1>1, DegradeEffect DEF CallEnded
<1>3. But(s, r, Called) /\ s.at = r.at /\ s.posts = r.posts + 1 /\ s.status = r.status
      /\ s.degraded = r.degraded /\ s.answer = r.answer
  <2> HIDE DEF r
  <2> QED BY <1>1 DEF But, Fields, Called
<1>4. ASSUME NEW body \in Bodies, NEW text, text = TrimEnd(ExtractText(r.provider.protocol, body)),
             text # NoText
      PROVE  But(Answered(s, text), r, Called) /\ CallEnded(r, Answered(s, text))
  <2> DEFINE q == Answered(s, text)
  <2>1. /\ But(q, r, Called) /\ q.at = "audit" /\ q.posts = r.posts + 1 /\ q.status = "answered"
        /\ q.degraded \in BOOLEAN /\ q.draft = text
        /\ q.answer = VerifyCitations(text, AllowedIds(r.pack)).answer
    <3> HIDE DEF r
    <3> QED BY <1>1, AnsweredEffect DEF s
  <2> HIDE DEF q, r, s
  <2>2. AnswerChecked(r, q)
      BY <1>4, <2>1 DEF AnswerChecked
  <2>3. CallEnded(r, q)
      BY <2>1, <2>2 DEF CallEnded
  <2> USE DEF q
  <2> QED BY <2>1, <2>3
<1> HIDE DEF s
<1>5. CASE PostReplies(t)
  <2>1. PICK body \in Bodies :
           LET text == TrimEnd(ExtractText(req[t].provider.protocol, body))
           IN  Set(t, IF text = NoText THEN Degrade(s) ELSE Answered(s, text))
      BY <1>5 DEF PostReplies, s
  <2> DEFINE text == TrimEnd(ExtractText(req[t].provider.protocol, body))
  <2>2. CASE Set(t, Degrade(s))
      BY <1>2, <2>2, Replaced
  <2>3. CASE text # NoText /\ Set(t, Answered(s, text))
    <3>1. But(Answered(s, text), r, Called) /\ CallEnded(r, Answered(s, text))
        BY <1>4, <2>3
    <3> HIDE DEF text
    <3> QED BY <2>3, <3>1, Replaced
  <2> QED BY <2>1, <2>2, <2>3
<1>6. CASE PostRetries(t)
  <2>1. \/ r.posts < MaxRetries /\ Set(t, s)
        \/ Set(t, Degrade(s))
      BY <1>6 DEF PostRetries, Retried, s
  <2>2. CASE r.posts < MaxRetries /\ Set(t, s)
    <3>1. CallEnded(r, s)
        BY <1>3, <1>6, <2>2 DEF CallEnded, PostRetries
    <3> QED BY <1>3, <2>2, <3>1, Replaced
  <2>3. CASE Set(t, Degrade(s))
      BY <1>2, <2>3, Replaced
  <2> QED BY <2>1, <2>2, <2>3
<1>7. CASE PostRefused(t)
    BY <1>2, <1>7, Replaced DEF PostRefused, s
<1> QED BY <1>5, <1>6, <1>7

\* The client breaks, which takes a fault.
LEMMA PostBreaksEffect ==
    ASSUME Requests, NEW t \in Thread, PostBreaks(t)
    PROVE  Moves(t, {"at", "code"}) /\ req'[t].at = "audit" /\ req'[t].code = 500
<1> DEFINE r == req[t]
           q == [r EXCEPT !.at = "audit", !.code = 500]
<1>1. Set(t, q)
    BY DEF PostBreaks
<1>2. DOMAIN r = Fields
    BY HasFields
<1>3. But(q, r, {"at", "code"}) /\ q.at = "audit" /\ q.code = 500
  <2> HIDE DEF r
  <2> QED BY <1>2 DEF But, Fields
<1> HIDE DEF q
<1> QED BY <1>1, <1>3, Replaced

\* The row of a request, if the database took it.
RowOf(r) == r.row = [at |-> "lost"] \/ r.row = (IF Failed(r) THEN FailureRow(r) ELSE SuccessRow(r))

\* It is about the request before it was written.
LEMMA RowIgnoresItself ==
    ASSUME NEW r, NEW q, But(q, r, {"row"})
    PROVE  SuccessRow(q) = SuccessRow(r) /\ FailureRow(q) = FailureRow(r)
<1>1. /\ q.project = r.project /\ q.op = r.op /\ q.user = r.user /\ q.pack = r.pack
      /\ q.degraded = r.degraded /\ q.answer = r.answer /\ q.status = r.status
      /\ q.coverage = r.coverage
    BY DEF But, Fields
<1> QED BY <1>1 DEF SuccessRow, FailureRow

\* The response, with the sizes the warning looked at, and the row.
LEMMA AuditEffect ==
    ASSUME Requests, NEW t \in Thread, Audit(t)
    PROVE  /\ Moves(t, {"at", "usage", "row"})
           /\ req'[t].at = "done" /\ req'[t].usage \in Usages \cup {NoUsage}
           /\ ~(req[t].op \in Rest /\ ~local) \/ RowOf(req'[t])
<1> DEFINE r == req[t]
           s(usage) == [r EXCEPT !.at = "done", !.usage = usage]
           row(usage) == IF Failed(s(usage)) THEN FailureRow(s(usage)) ELSE SuccessRow(s(usage))
           q(usage, w) == [s(usage) EXCEPT !.row = w]
<1>1. PICK usage \in Usages \cup {NoUsage} :
         \/ Set(t, q(usage, row(usage))) \/ Set(t, q(usage, [at |-> "lost"]))
         \/ ~(s(usage).op \in Rest /\ ~local) /\ Set(t, s(usage))
    BY DEF Audit
<1>2. DOMAIN r = Fields
    BY HasFields
<1>3. But(s(usage), r, {"at", "usage"}) /\ s(usage).at = "done" /\ s(usage).usage = usage
  <2> HIDE DEF r
  <2> QED BY <1>2 DEF But, Fields
<1> HIDE DEF s
<1>4. ASSUME NEW w
      PROVE  /\ But(q(usage, w), s(usage), {"row"}) /\ But(q(usage, w), r, {"at", "usage", "row"})
             /\ q(usage, w).at = "done" /\ q(usage, w).usage = usage /\ q(usage, w).row = w
  <2> HIDE DEF r
  <2>1. DOMAIN s(usage) = Fields
      BY <1>3 DEF But
  <2>2. /\ But(q(usage, w), s(usage), {"row"}) /\ q(usage, w).row = w
        /\ q(usage, w).at = s(usage).at /\ q(usage, w).usage = s(usage).usage
      BY <2>1 DEF But, Fields
  <2> QED BY <1>3, <2>2 DEF But, Fields
<1> HIDE DEF q
<1>5. CASE ~(s(usage).op \in Rest /\ ~local) /\ Set(t, s(usage))
  <2>1. s(usage).op = r.op /\ But(s(usage), r, {"at", "usage", "row"})
      BY <1>3 DEF But, Fields
  <2> QED BY <1>3, <1>5, <2>1, Replaced
<1>6. ASSUME NEW w, Set(t, q(usage, w))
      PROVE  /\ Moves(t, {"at", "usage", "row"}) /\ req'[t] = q(usage, w)
             /\ req'[t].at = "done" /\ req'[t].usage = usage
    BY <1>4, <1>6, Replaced
<1>7. CASE Set(t, q(usage, [at |-> "lost"]))
  <2>1. RowOf(q(usage, [at |-> "lost"]))
      BY <1>4 DEF RowOf
  <2> QED BY <1>6, <1>7, <2>1
<1>8. CASE Set(t, q(usage, row(usage)))
  <2>1. PICK a, b : a = s(usage) /\ b = q(usage, row(usage))
      OBVIOUS
  <2>2. But(b, a, {"row"}) /\ b.row = row(usage)
      BY <1>4, <2>1
  <2>3. SuccessRow(b) = SuccessRow(a) /\ FailureRow(b) = FailureRow(a) /\ b.code = a.code
      BY <2>2, RowIgnoresItself DEF But, Fields
  <2>4. RowOf(b)
      BY <2>1, <2>2, <2>3 DEF RowOf, Failed
  <2> QED BY <1>6, <1>8, <2>1, <2>4
<1> QED BY <1>1, <1>5, <1>7, <1>8

\* The caller has its response.
LEMMA CloseEffect ==
    ASSUME Requests, NEW t \in Thread, Close(t)
    PROVE  DOMAIN req' = Thread /\ req'[t] = Idle /\ \A s \in Thread \ {t} : req'[s] = req[s]
BY SetMoves DEF Close

\* A save without a key is refused; what is written has a model and the time.
LEMMA SaveReadEffect ==
    ASSUME SharedOK, Requests, NEW t \in Thread, NEW u \in User, NEW m \in Model,
           NEW keep \in BOOLEAN, SaveRead(t, u, m, keep)
    PROVE  LET q == req'[t] IN
           /\ DOMAIN req' = Thread /\ \A s \in Thread \ {t} : req'[s] = req[s]
           /\ But(q, Idle, {"op", "user", "at", "read", "code"})
           /\ q.op = "save"
           /\ \/ q.at = "saved" /\ q.code = 400 /\ q.user = None /\ q.read = NoConfig
              \/ q.at = "write" /\ q.code = 0 /\ q.user = u /\ q.read \in Configs \ {NoConfig}
<1> DEFINE old == config[u]
           key == IF keep THEN old.key ELSE m
           protocol == IF keep /\ old # NoConfig THEN old.protocol ELSE Protocol[m]
           new == Configured(m, key, protocol, clock)
           q1 == [Idle EXCEPT !.op = "save", !.at = "saved", !.code = 400]
           q2 == [Idle EXCEPT !.op = "save", !.user = u, !.at = "write", !.read = new]
<1>1. \/ Set(t, q1)
      \/ new.key # None /\ Set(t, q2)
    BY DEF SaveRead
<1>2. ASSUME new.key # None PROVE new \in Configs \ {NoConfig}
  <2>1. old \in Configs /\ clock \in Nat
      BY QueryAssumption DEF SharedOK
  <2>2. new.key = key /\ new.model = m
      BY DEF Configured
  <2>3. key \in Model /\ protocol \in {"openai", "responses", "anthropic"}
    <3>1. CASE keep
      <4>1. old # NoConfig
          BY <1>2, <2>2, <3>1 DEF NoConfig
      <4> QED BY <2>1, <3>1, <4>1 DEF Configs
    <3>2. CASE ~keep
        BY <3>2, QueryAssumption
    <3> QED BY <3>1, <3>2
  <2>4. new \in [model : Model, key : Model, protocol : {"openai", "responses", "anthropic"}, at : Nat]
    <3> HIDE DEF key, protocol
    <3> QED BY <2>1, <2>3 DEF Configured
  <2>5. new.model # None
      BY <2>2, QueryAssumption
  <2>6. new # NoConfig
      BY <2>5 DEF NoConfig
  <2> HIDE DEF new
  <2> QED BY <2>4, <2>6 DEF Configs
<1> HIDE DEF new
<1>3. /\ But(q1, Idle, {"op", "user", "at", "read", "code"})
      /\ q1.op = "save" /\ q1.at = "saved" /\ q1.code = 400 /\ q1.user = None /\ q1.read = NoConfig
    BY IdleFields DEF But, Fields
<1>4. /\ But(q2, Idle, {"op", "user", "at", "read", "code"})
      /\ q2.op = "save" /\ q2.at = "write" /\ q2.code = 0 /\ q2.user = u /\ q2.read = new
    BY IdleFields DEF But, Fields
<1> HIDE DEF q1, q2
<1>5. CASE Set(t, q1)
    BY <1>3, <1>5, SetMoves
<1>6. CASE new.key # None /\ Set(t, q2)
    BY <1>2, <1>4, <1>6, SetMoves
<1> QED BY <1>1, <1>5, <1>6

\* The write ends the save.
LEMMA SaveWriteEffect ==
    ASSUME Requests, NEW t \in Thread, SaveWrite(t)
    PROVE  Moves(t, {"at"}) /\ req'[t].at = "saved"
<1> DEFINE r == req[t]
           q == [r EXCEPT !.at = "saved"]
<1>1. Set(t, q)
    BY DEF SaveWrite
<1>2. DOMAIN r = Fields
    BY HasFields
<1>3. But(q, r, {"at"}) /\ q.at = "saved"
  <2> HIDE DEF r
  <2> QED BY <1>2 DEF But, Fields
<1> HIDE DEF q
<1> QED BY <1>1, <1>3, Replaced

--------------------------------------------------------------------------------
(* Every step leaves every request sound.                                     *)

\* A step of one request, which takes no fault back and no user back in.
LEMMA OneRequest ==
    ASSUME SharedOK, Requests, NEW t \in Thread,
           DOMAIN req' = Thread, \A s \in Thread \ {t} : req'[s] = req[s],
           gone \subseteq gone', faults' \in Nat, faults <= faults', Sound(req[t])'
    PROVE  Requests'
<1>1. ASSUME NEW s \in Thread \ {t} PROVE Sound(req[s])'
  <2>1. Sound(req[s]) /\ req'[s] = req[s]
      BY DEF Requests
  <2> QED BY <2>1 DEF Sound, EndsWell, SharedOK
<1> QED BY <1>1 DEF Requests

\* The configuration in force is one.
LEMMA Chosen ==
    ASSUME SharedOK, NEW u \in User
    PROVE  config[u] \in Configs /\ Effective(u) \in Configs /\ config[u].at \in Nat \cup {-1}
BY DEF SharedOK, Effective, Configs, NoConfig

\* A thread at work leaves its request sound.
LEMMA WorkIsSound ==
    ASSUME SharedOK, Requests, NEW t \in Thread, Work(t)
    PROVE  Requests'
<1> DEFINE r == req[t]
           q == req'[t]
<1>1. Typed(r) /\ RequestOK(r) /\ EndsWell(r)
    BY DEF Requests, Sound
<1>2. faults \in Nat /\ MaxRetries \in Nat /\ server \in Configs
    BY QueryAssumption DEF SharedOK
<1>3. CASE SearchFound(t)
  <2>1. r.at = "search" /\ gone' = gone /\ faults' = faults
      BY <1>3 DEF SearchFound
  <2>2. /\ DOMAIN req' = Thread /\ (\A s \in Thread \ {t} : req'[s] = req[s]) /\ DOMAIN q = Fields
        /\ q.op = r.op /\ q.user = r.user /\ q.project = r.project
        /\ q.usage = r.usage /\ q.stamp = r.stamp /\ q.provider = r.provider
        /\ q.due = r.due /\ q.read = r.read /\ q.posts = r.posts
        /\ q.code = r.code
      BY <1>3, SearchFoundEffect DEF Moves, But, Fields, Called
  <2>3. /\ q.pack \in Packs /\ q.degraded \in BOOLEAN
        /\ \/ q.op \notin Asks /\ q.at = "audit" /\ q.status = "found"
           \/ q.op \in Asks /\ q.at = "audit" /\ q.status = "insufficient_evidence"
           \/ q.op \in Asks /\ q.at = "owner" /\ q.status = r.status
      BY <1>3, SearchFoundEffect
  <2>4. Typed(q)
      BY <1>1, <2>2, <2>3 DEF Typed, Choosing
  <2>5. RequestOK(q)
      BY <1>1, <1>2, <2>1, <2>2, <2>3 DEF RequestOK, Choosing, Typed, Asks
  <2>6. EndsWell(req[t])'
      BY <1>1, <1>2, <2>1, <2>2, <2>3 DEF EndsWell, RequestOK, Choosing, Asks
  <2> QED BY <1>2, <2>1, <2>2, <2>4, <2>5, <2>6, OneRequest DEF Sound
<1>4. CASE SearchFails(t)
  <2>1. r.at = "search" /\ gone' = gone /\ faults' = faults + 1
      BY <1>4 DEF SearchFails
  <2>2. /\ DOMAIN req' = Thread /\ (\A s \in Thread \ {t} : req'[s] = req[s]) /\ DOMAIN q = Fields
        /\ q.op = r.op /\ q.user = r.user /\ q.project = r.project
        /\ q.pack = r.pack /\ q.degraded = r.degraded /\ q.usage = r.usage
        /\ q.stamp = r.stamp /\ q.provider = r.provider /\ q.due = r.due
        /\ q.read = r.read /\ q.posts = r.posts /\ q.status = r.status
      BY <1>4, SearchFailsEffect DEF Moves, But, Fields, Called
  <2>3. q.at = "audit" /\ q.code \in {500, 503, 507}
      BY <1>4, SearchFailsEffect
  <2>4. Typed(q)
      BY <1>1, <2>2, <2>3 DEF Typed, Choosing
  <2>5. RequestOK(q)
      BY <1>1, <1>2, <2>1, <2>2, <2>3 DEF RequestOK, Choosing, Typed, Asks
  <2>6. EndsWell(req[t])'
      BY <1>1, <1>2, <2>1, <2>2, <2>3 DEF EndsWell, RequestOK, Choosing, Asks
  <2> QED BY <1>2, <2>1, <2>2, <2>4, <2>5, <2>6, OneRequest DEF Sound
<1>5. CASE Owner(t)
  <2>1. r.at = "owner" /\ gone' = gone /\ faults' = faults
      BY <1>5 DEF Owner
  <2>2. /\ DOMAIN req' = Thread /\ (\A s \in Thread \ {t} : req'[s] = req[s]) /\ DOMAIN q = Fields
        /\ q.op = r.op /\ q.user = r.user /\ q.project = r.project
        /\ q.pack = r.pack /\ q.degraded = r.degraded /\ q.usage = r.usage
        /\ q.stamp = r.stamp /\ q.provider = r.provider /\ q.read = r.read
        /\ q.posts = r.posts /\ q.status = r.status
      BY <1>5, OwnerEffect DEF Moves, But, Fields, Called
  <2>3. \/ q.at = "audit" /\ q.code = 401 /\ r.user \in gone /\ q.due \in Configs
        \/ q.at = "stamp" /\ q.code = r.code /\ q.due \in Configs
      BY <1>5, OwnerEffect, <1>1, <2>1, Chosen DEF Typed, RequestOK
  <2>4. Typed(q)
      BY <1>1, <2>2, <2>3 DEF Typed, Choosing
  <2>5. RequestOK(q)
      BY <1>1, <1>2, <2>1, <2>2, <2>3 DEF RequestOK, Choosing, Typed, Asks
  <2>6. EndsWell(req[t])'
      BY <1>1, <1>2, <2>1, <2>2, <2>3 DEF EndsWell, RequestOK, Choosing, Asks
  <2> QED BY <1>2, <2>1, <2>2, <2>4, <2>5, <2>6, OneRequest DEF Sound
<1>6. CASE ReadStamp(t)
  <2>1. r.at = "stamp" /\ gone' = gone /\ faults' \in {faults, faults + 1}
      BY <1>6 DEF ReadStamp
  <2>2. /\ DOMAIN req' = Thread /\ (\A s \in Thread \ {t} : req'[s] = req[s]) /\ DOMAIN q = Fields
        /\ q.op = r.op /\ q.user = r.user /\ q.project = r.project
        /\ q.pack = r.pack /\ q.degraded = r.degraded /\ q.usage = r.usage
        /\ q.provider = r.provider /\ q.due = r.due /\ q.read = r.read
        /\ q.posts = r.posts /\ q.code = r.code /\ q.status = r.status
      BY <1>6, ReadStampEffect DEF Moves, But, Fields, Called
  <2>3. q.at = "cached" /\ q.stamp \in Nat \cup {-1}
      BY <1>6, ReadStampEffect, <1>1, <2>1, Chosen DEF RequestOK, Choosing
  <2>4. Typed(q)
      BY <1>1, <2>2, <2>3 DEF Typed, Choosing
  <2>5. RequestOK(q)
      BY <1>1, <1>2, <2>1, <2>2, <2>3 DEF RequestOK, Choosing, Typed, Asks
  <2>6. EndsWell(req[t])'
      BY <1>1, <1>2, <2>1, <2>2, <2>3 DEF EndsWell, RequestOK, Choosing, Asks
  <2> QED BY <1>2, <2>1, <2>2, <2>4, <2>5, <2>6, OneRequest DEF Sound
<1>7. CASE ReadCached(t)
  <2>1. r.at = "cached" /\ gone' = gone /\ faults' = faults
      BY <1>7 DEF ReadCached
  <2>2. /\ DOMAIN req' = Thread /\ (\A s \in Thread \ {t} : req'[s] = req[s]) /\ DOMAIN q = Fields
        /\ q.op = r.op /\ q.user = r.user /\ q.project = r.project
        /\ q.pack = r.pack /\ q.degraded = r.degraded /\ q.usage = r.usage
        /\ q.stamp = r.stamp /\ q.provider = r.provider /\ q.due = r.due
        /\ q.posts = r.posts /\ q.code = r.code /\ q.status = r.status
      BY <1>7, ReadCachedEffect DEF Moves, But, Fields, Called
  <2>3. q.at = "key" /\ q.read \in Configs
      BY <1>7, ReadCachedEffect DEF SharedOK
  <2>4. Typed(q)
      BY <1>1, <2>2, <2>3 DEF Typed, Choosing
  <2>5. RequestOK(q)
      BY <1>1, <1>2, <2>1, <2>2, <2>3 DEF RequestOK, Choosing, Typed, Asks
  <2>6. EndsWell(req[t])'
      BY <1>1, <1>2, <2>1, <2>2, <2>3 DEF EndsWell, RequestOK, Choosing, Asks
  <2> QED BY <1>2, <2>1, <2>2, <2>4, <2>5, <2>6, OneRequest DEF Sound
<1>8. CASE CompareKey(t)
  <2>1. r.at = "key" /\ gone' = gone /\ faults' = faults
      BY <1>8 DEF CompareKey
  <2>2. /\ DOMAIN req' = Thread /\ (\A s \in Thread \ {t} : req'[s] = req[s]) /\ DOMAIN q = Fields
        /\ q.op = r.op /\ q.user = r.user /\ q.project = r.project
        /\ q.pack = r.pack /\ q.degraded = r.degraded /\ q.usage = r.usage
        /\ q.stamp = r.stamp /\ q.due = r.due /\ q.read = r.read
        /\ q.posts = r.posts /\ q.code = r.code /\ q.status = r.status
      BY <1>8, CompareKeyEffect DEF Moves, But, Fields, Called
  <2>3. q.at \in {"post", "build"} /\ q.provider \in Configs
      BY <1>8, CompareKeyEffect, <1>1 DEF Typed
  <2>4. Typed(q)
      BY <1>1, <2>2, <2>3 DEF Typed, Choosing
  <2>5. RequestOK(q)
      BY <1>1, <1>2, <2>1, <2>2, <2>3 DEF RequestOK, Choosing, Typed, Asks
  <2>6. EndsWell(req[t])'
      BY <1>1, <1>2, <2>1, <2>2, <2>3 DEF EndsWell, RequestOK, Choosing, Asks
  <2> QED BY <1>2, <2>1, <2>2, <2>4, <2>5, <2>6, OneRequest DEF Sound
<1>9. CASE Build(t)
  <2>1. r.at = "build" /\ gone' = gone /\ faults' \in {faults, faults + 1}
      BY <1>9 DEF Build
  <2>2. /\ DOMAIN req' = Thread /\ (\A s \in Thread \ {t} : req'[s] = req[s]) /\ DOMAIN q = Fields
        /\ q.op = r.op /\ q.user = r.user /\ q.project = r.project
        /\ q.pack = r.pack /\ q.degraded = r.degraded /\ q.usage = r.usage
        /\ q.stamp = r.stamp /\ q.due = r.due /\ q.read = r.read
        /\ q.posts = r.posts /\ q.code = r.code /\ q.status = r.status
      BY <1>9, BuildEffect DEF Moves, But, Fields, Called
  <2>3. q.at = "keep" /\ q.provider \in Configs
    <3>1. r.user \in User
        BY <1>1, <2>1 DEF RequestOK, Choosing
    <3>2. Effective(r.user) \in Configs
        BY <3>1, Chosen
    <3>3. q.at = "keep" /\ q.provider \in {Effective(r.user), server}
        BY <1>9, BuildEffect
    <3> HIDE DEF q
    <3> QED BY <3>2, <3>3, <1>2
  <2>4. Typed(q)
      BY <1>1, <2>2, <2>3 DEF Typed, Choosing
  <2>5. RequestOK(q)
      BY <1>1, <1>2, <2>1, <2>2, <2>3 DEF RequestOK, Choosing, Typed, Asks
  <2>6. EndsWell(req[t])'
      BY <1>1, <1>2, <2>1, <2>2, <2>3 DEF EndsWell, RequestOK, Choosing, Asks
  <2> QED BY <1>2, <2>1, <2>2, <2>4, <2>5, <2>6, OneRequest DEF Sound
<1>10. CASE KeepProvider(t)
  <2>1. r.at = "keep" /\ gone' = gone /\ faults' = faults
      BY <1>10 DEF KeepProvider
  <2>2. /\ DOMAIN req' = Thread /\ (\A s \in Thread \ {t} : req'[s] = req[s]) /\ DOMAIN q = Fields
        /\ q.op = r.op /\ q.user = r.user /\ q.project = r.project
        /\ q.pack = r.pack /\ q.degraded = r.degraded /\ q.usage = r.usage
        /\ q.stamp = r.stamp /\ q.provider = r.provider /\ q.due = r.due
        /\ q.read = r.read /\ q.posts = r.posts /\ q.code = r.code
        /\ q.status = r.status
      BY <1>10, KeepProviderEffect DEF Moves, But, Fields, Called
  <2>3. q.at = "sign"
      BY <1>10, KeepProviderEffect
  <2>4. Typed(q)
      BY <1>1, <2>2, <2>3 DEF Typed, Choosing
  <2>5. RequestOK(q)
      BY <1>1, <1>2, <2>1, <2>2, <2>3 DEF RequestOK, Choosing, Typed, Asks
  <2>6. EndsWell(req[t])'
      BY <1>1, <1>2, <2>1, <2>2, <2>3 DEF EndsWell, RequestOK, Choosing, Asks
  <2> QED BY <1>2, <2>1, <2>2, <2>4, <2>5, <2>6, OneRequest DEF Sound
<1>11. CASE SignProvider(t)
  <2>1. r.at = "sign" /\ gone' = gone /\ faults' = faults
      BY <1>11 DEF SignProvider
  <2>2. /\ DOMAIN req' = Thread /\ (\A s \in Thread \ {t} : req'[s] = req[s]) /\ DOMAIN q = Fields
        /\ q.op = r.op /\ q.user = r.user /\ q.project = r.project
        /\ q.pack = r.pack /\ q.degraded = r.degraded /\ q.usage = r.usage
        /\ q.stamp = r.stamp /\ q.provider = r.provider /\ q.due = r.due
        /\ q.read = r.read /\ q.posts = r.posts /\ q.code = r.code
      BY <1>11, SignProviderEffect DEF Moves, But, Fields, Called
  <2>3. \/ q.at = "post" /\ q.status = r.status
        \/ q.at = "audit" /\ q.status = "degraded"
      BY <1>11, SignProviderEffect
  <2>4. Typed(q)
      BY <1>1, <2>2, <2>3 DEF Typed, Choosing
  <2>5. RequestOK(q)
      BY <1>1, <1>2, <2>1, <2>2, <2>3 DEF RequestOK, Choosing, Typed, Asks
  <2>6. EndsWell(req[t])'
      BY <1>1, <1>2, <2>1, <2>2, <2>3 DEF EndsWell, RequestOK, Choosing, Asks
  <2> QED BY <1>2, <2>1, <2>2, <2>4, <2>5, <2>6, OneRequest DEF Sound
<1>12. CASE PostReplies(t) \/ PostRetries(t) \/ PostRefused(t)
  <2>1. r.at = "post" /\ gone' = gone /\ faults' = faults
      BY <1>12 DEF PostReplies, PostRetries, PostRefused
  <2>2. /\ DOMAIN req' = Thread /\ (\A s \in Thread \ {t} : req'[s] = req[s]) /\ DOMAIN q = Fields
        /\ q.op = r.op /\ q.user = r.user /\ q.project = r.project
        /\ q.pack = r.pack /\ q.usage = r.usage /\ q.stamp = r.stamp
        /\ q.provider = r.provider /\ q.due = r.due /\ q.read = r.read
        /\ q.code = r.code
      BY <1>12, PostEffect DEF Moves, But, Fields, Called
  <2>3. CallEnded(r, q)
      BY <1>12, PostEffect
  <2>4. q.degraded \in BOOLEAN /\ q.posts \in 0 .. MaxRetries + 1
      BY <1>1, <1>2, <2>1, <2>3 DEF CallEnded, Typed, RequestOK
  <2>5. Typed(q)
      BY <1>1, <2>2, <2>3, <2>4 DEF Typed, Choosing, CallEnded
  <2>6. RequestOK(q)
      BY <1>1, <1>2, <2>1, <2>2, <2>3 DEF RequestOK, Choosing, Typed, Asks, CallEnded
  <2>7. EndsWell(req[t])'
      BY <1>1, <1>2, <2>1, <2>2, <2>3 DEF EndsWell, RequestOK, Choosing, Asks, CallEnded
  <2> QED BY <1>2, <2>1, <2>2, <2>5, <2>6, <2>7, OneRequest DEF Sound
<1>13. CASE PostBreaks(t)
  <2>1. r.at = "post" /\ gone' = gone /\ faults' = faults + 1
      BY <1>13 DEF PostBreaks
  <2>2. /\ DOMAIN req' = Thread /\ (\A s \in Thread \ {t} : req'[s] = req[s]) /\ DOMAIN q = Fields
        /\ q.op = r.op /\ q.user = r.user /\ q.project = r.project
        /\ q.pack = r.pack /\ q.degraded = r.degraded /\ q.usage = r.usage
        /\ q.stamp = r.stamp /\ q.provider = r.provider /\ q.due = r.due
        /\ q.read = r.read /\ q.posts = r.posts /\ q.status = r.status
      BY <1>13, PostBreaksEffect DEF Moves, But, Fields, Called
  <2>3. q.at = "audit" /\ q.code = 500
      BY <1>13, PostBreaksEffect
  <2>4. Typed(q)
      BY <1>1, <2>2, <2>3 DEF Typed, Choosing
  <2>5. RequestOK(q)
      BY <1>1, <1>2, <2>1, <2>2, <2>3 DEF RequestOK, Choosing, Typed, Asks
  <2>6. EndsWell(req[t])'
      BY <1>1, <1>2, <2>1, <2>2, <2>3 DEF EndsWell, RequestOK, Choosing, Asks
  <2> QED BY <1>2, <2>1, <2>2, <2>4, <2>5, <2>6, OneRequest DEF Sound
<1>14. CASE Audit(t)
  <2>1. r.at = "audit" /\ gone' = gone /\ faults' \in {faults, faults + 1}
      BY <1>14 DEF Audit
  <2>2. /\ DOMAIN req' = Thread /\ (\A s \in Thread \ {t} : req'[s] = req[s]) /\ DOMAIN q = Fields
        /\ q.op = r.op /\ q.user = r.user /\ q.project = r.project
        /\ q.pack = r.pack /\ q.degraded = r.degraded /\ q.stamp = r.stamp
        /\ q.provider = r.provider /\ q.due = r.due /\ q.read = r.read
        /\ q.posts = r.posts /\ q.code = r.code /\ q.status = r.status
      BY <1>14, AuditEffect DEF Moves, But, Fields, Called
  <2>3. q.at = "done" /\ q.usage \in Usages \cup {NoUsage}
      BY <1>14, AuditEffect
  <2>4. Typed(q)
      BY <1>1, <2>2, <2>3 DEF Typed, Choosing
  <2>5. RequestOK(q)
      BY <1>1, <1>2, <2>1, <2>2, <2>3 DEF RequestOK, Choosing, Typed, Asks
  <2>6. EndsWell(req[t])'
      BY <1>1, <1>2, <2>1, <2>2, <2>3 DEF EndsWell, RequestOK, Choosing, Asks
  <2> QED BY <1>2, <2>1, <2>2, <2>4, <2>5, <2>6, OneRequest DEF Sound
<1>15. CASE SaveWrite(t)
  <2>1. r.at = "write" /\ gone' = gone /\ faults' = faults
      BY <1>15 DEF SaveWrite
  <2>2. /\ DOMAIN req' = Thread /\ (\A s \in Thread \ {t} : req'[s] = req[s]) /\ DOMAIN q = Fields
        /\ q.op = r.op /\ q.user = r.user /\ q.project = r.project
        /\ q.pack = r.pack /\ q.degraded = r.degraded /\ q.usage = r.usage
        /\ q.stamp = r.stamp /\ q.provider = r.provider /\ q.due = r.due
        /\ q.read = r.read /\ q.posts = r.posts /\ q.code = r.code
        /\ q.status = r.status
      BY <1>15, SaveWriteEffect DEF Moves, But, Fields, Called
  <2>3. q.at = "saved"
      BY <1>15, SaveWriteEffect
  <2>4. Typed(q)
      BY <1>1, <2>2, <2>3 DEF Typed, Choosing
  <2>5. RequestOK(q)
      BY <1>1, <1>2, <2>1, <2>2, <2>3 DEF RequestOK, Choosing, Typed, Asks
  <2>6. EndsWell(req[t])'
      BY <1>1, <1>2, <2>1, <2>2, <2>3 DEF EndsWell, RequestOK, Choosing, Asks
  <2> QED BY <1>2, <2>1, <2>2, <2>4, <2>5, <2>6, OneRequest DEF Sound
<1>16. CASE Close(t)
  <2>1. gone' = gone /\ faults' = faults
      BY <1>16 DEF Close
  <2>2. Sound(Idle)
      BY IdleIsSound
  <2>3. Sound(req[t])'
      BY <1>16, <2>1, <2>2, CloseEffect DEF Sound, EndsWell
  <2> QED BY <1>2, <1>16, <2>1, <2>3, CloseEffect, OneRequest
<1> QED BY <1>3, <1>4, <1>5, <1>6, <1>7, <1>8, <1>9, <1>10, <1>11, <1>12, <1>13, <1>14, <1>15, <1>16 DEF Work

\* A request that begins is sound.
LEMMA BegunIsSound ==
    ASSUME SharedOK, Requests, NEW t \in Thread, NEW u \in User, NEW op \in Rest \cup Mcp, Begin(t, op, u)
    PROVE  Requests'
<1> DEFINE q == req'[t]
<1>1. gone' = gone /\ faults' = faults /\ faults \in Nat
    BY DEF Begin, SharedOK
<1>2. Sound(Idle)
    BY IdleIsSound
<1>3. /\ DOMAIN req' = Thread /\ (\A s \in Thread \ {t} : req'[s] = req[s]) /\ DOMAIN q = Fields
      /\ q.pack = Idle.pack /\ q.degraded = Idle.degraded /\ q.usage = Idle.usage
      /\ q.stamp = Idle.stamp /\ q.provider = Idle.provider /\ q.due = Idle.due
      /\ q.read = Idle.read /\ q.posts = Idle.posts /\ q.status = Idle.status
    BY BeginEffect DEF But, Fields
<1>4. /\ q.op = op /\ q.user = u /\ q.project \in BOOLEAN
      /\ \/ q.at = "search" /\ q.code = 200
         \/ q.at = "audit" /\ q.code \in {400, 404, 409, 500, 503}
    BY BeginEffect
<1>5. Typed(q)
    BY <1>2, <1>3, <1>4 DEF Sound, Typed, Choosing
<1>6. q.pack = NoPack /\ q.posts = 0
    BY <1>3, IdleFields
<1>7. RequestOK(q)
    BY <1>4, <1>6 DEF RequestOK, Choosing
<1>8. EndsWell(req[t])'
    BY <1>6 DEF EndsWell
<1> QED BY <1>1, <1>3, <1>5, <1>7, <1>8, OneRequest DEF Sound

\* A save that begins is sound.
LEMMA SaveReadIsSound ==
    ASSUME SharedOK, Requests, NEW t \in Thread, NEW u \in User, NEW m \in Model,
           NEW keep \in BOOLEAN, SaveRead(t, u, m, keep)
    PROVE  Requests'
<1> DEFINE q == req'[t]
<1>1. gone' = gone /\ faults' = faults /\ faults \in Nat
    BY DEF SaveRead, SharedOK
<1>2. Sound(Idle)
    BY IdleIsSound
<1>3. /\ DOMAIN req' = Thread /\ (\A s \in Thread \ {t} : req'[s] = req[s]) /\ DOMAIN q = Fields
      /\ q.pack = Idle.pack /\ q.degraded = Idle.degraded /\ q.usage = Idle.usage
      /\ q.stamp = Idle.stamp /\ q.provider = Idle.provider /\ q.due = Idle.due
      /\ q.project = Idle.project /\ q.posts = Idle.posts /\ q.status = Idle.status
    BY SaveReadEffect DEF But, Fields
<1>4. /\ q.op = "save"
      /\ \/ q.at = "saved" /\ q.code = 400 /\ q.user = None /\ q.read = NoConfig
         \/ q.at = "write" /\ q.code = 0 /\ q.user = u /\ q.read \in Configs \ {NoConfig}
    BY SaveReadEffect
<1>5. NoConfig \in Configs
    BY DEF Configs
<1>6. Typed(q)
    BY <1>2, <1>3, <1>4, <1>5 DEF Sound, Typed, Choosing
<1>7. q.pack = NoPack /\ q.posts = 0
    BY <1>3, IdleFields
<1>8. RequestOK(q)
    BY <1>4, <1>7 DEF RequestOK, Choosing
<1>9. EndsWell(req[t])'
    BY <1>7 DEF EndsWell
<1> QED BY <1>1, <1>3, <1>6, <1>8, <1>9, OneRequest DEF Sound

\* Every step leaves every request sound.
LEMMA RequestsKept ==
    ASSUME SharedOK, Requests, [Next]_vars
    PROVE  Requests'
<1>1. CASE \E t \in Thread : Work(t)
    BY <1>1, WorkIsSound
<1>2. CASE \E t \in Thread, u \in User, op \in Rest \cup Mcp : Begin(t, op, u)
    BY <1>2, BegunIsSound
<1>3. CASE \E t \in Thread, u \in User, m \in Model, keep \in BOOLEAN : SaveRead(t, u, m, keep)
    BY <1>3, SaveReadIsSound
<1>4. ASSUME req' = req, gone \subseteq gone', faults' \in Nat, faults <= faults' PROVE Requests'
  <2>1. ASSUME NEW s \in Thread PROVE Sound(req[s])'
    <3>1. Sound(req[s]) /\ req'[s] = req[s]
        BY <1>4 DEF Requests
    <3> QED BY <1>4, <3>1 DEF Sound, EndsWell, SharedOK
  <2> QED BY <1>4, <2>1 DEF Requests
<1>5. faults \in Nat
    BY QueryAssumption DEF SharedOK
<1>6. CASE \E u \in User : Delete(u)
    BY <1>4, <1>5, <1>6 DEF Delete
<1>7. CASE \E u \in User : Leave(u)
    BY <1>4, <1>5, <1>7 DEF Leave
<1>8. CASE Tick
    BY <1>4, <1>5, <1>8 DEF Tick
<1>9. CASE UNCHANGED vars
    BY <1>4, <1>5, <1>9 DEF vars
<1> QED BY <1>1, <1>2, <1>3, <1>6, <1>7, <1>8, <1>9 DEF Next

--------------------------------------------------------------------------------
(* What the requests share keeps its types.                                   *)

\* The exceptions of the engine leave a truth value.
LEMMA Observed ==
    ASSUME SharedOK, NEW exc, NEW degraded
    PROVE  Observe(exc, degraded) \in BOOLEAN
BY DEF Observe, SharedOK

\* A thread at work leaves what is shared in its types.
LEMMA SharedOfWork ==
    ASSUME SharedOK, Requests, NEW t \in Thread, Work(t)
    PROVE  SharedOK'
<1> DEFINE r == req[t]
<1>1. Typed(r) /\ RequestOK(r)
    BY DEF Requests, Sound
<1>2. faults \in 0 .. MaxFaults /\ MaxFaults \in Nat /\ mixed \in BOOLEAN
    BY QueryAssumption DEF SharedOK
<1>3. CASE SearchFound(t)
  <2>1. providerError' \in BOOLEAN
      BY <1>3, Observed DEF SearchFound
  <2> QED BY <1>3, <2>1 DEF SharedOK, SearchFound, ghosts
<1>4. CASE SearchFails(t)
  <2>1. providerError' \in BOOLEAN
      BY <1>4, Observed DEF SearchFails
  <2>2. faults' \in 0 .. MaxFaults
      BY <1>2, <1>4 DEF SearchFails
  <2> QED BY <1>4, <2>1, <2>2 DEF SharedOK, SearchFails, ghosts
<1>5. CASE Owner(t)
  <2>1. mixed' \in BOOLEAN
      BY <1>2, <1>5 DEF Owner
  <2> QED BY <1>5, <2>1 DEF SharedOK, Owner, shared
<1>6. CASE ReadStamp(t)
  <2>1. mixed' \in BOOLEAN
      BY <1>2, <1>6 DEF ReadStamp
  <2>2. faults' \in 0 .. MaxFaults
      BY <1>2, <1>6 DEF ReadStamp
  <2> QED BY <1>6, <2>1, <2>2 DEF SharedOK, ReadStamp, shared
<1>7. CASE ReadCached(t)
    BY <1>7 DEF SharedOK, ReadCached, shared, ghosts
<1>8. CASE CompareKey(t)
    BY <1>8 DEF SharedOK, CompareKey, shared, ghosts
<1>9. CASE Build(t)
  <2>1. mixed' \in BOOLEAN
      BY <1>2, <1>9 DEF Build
  <2>2. faults' \in 0 .. MaxFaults
      BY <1>2, <1>9 DEF Build
  <2> QED BY <1>9, <2>1, <2>2 DEF SharedOK, Build, shared
<1>10. CASE KeepProvider(t)
  <2>1. llmProvider' \in Configs
      BY <1>1, <1>10 DEF KeepProvider, Typed
  <2> QED BY <1>10, <2>1 DEF SharedOK, KeepProvider, ghosts
<1>11. CASE SignProvider(t)
  <2>1. r.user \in User /\ r.stamp \in Nat \cup {-1}
      BY <1>1, <1>11 DEF SignProvider, Typed, RequestOK, Choosing
  <2>2. llmProviderKey' \in User \X (Nat \cup {-1})
      BY <1>11, <2>1 DEF SignProvider, ProviderKey
  <2> QED BY <1>11, <2>2 DEF SharedOK, SignProvider, ghosts
<1>12. CASE PostReplies(t) \/ PostRetries(t) \/ PostRefused(t)
    BY <1>12 DEF SharedOK, PostReplies, PostRetries, PostRefused, shared, ghosts
<1>13. CASE PostBreaks(t)
  <2>1. faults' \in 0 .. MaxFaults
      BY <1>2, <1>13 DEF PostBreaks
  <2> QED BY <1>13, <2>1 DEF SharedOK, PostBreaks, shared, ghosts
<1>14. CASE Audit(t)
  <2>1. faults' \in 0 .. MaxFaults
      BY <1>2, <1>14 DEF Audit
  <2> QED BY <1>14, <2>1 DEF SharedOK, Audit, shared, ghosts
<1>15. CASE SaveWrite(t)
  <2>1. r.user \in User /\ r.read \in Configs /\ r.read # NoConfig
      BY <1>1, <1>15 DEF SaveWrite, Typed, RequestOK
  <2>2. r.read.at \in Nat
      BY <2>1 DEF Configs
  <2>3. config' \in [User -> Configs]
      BY <1>15, <2>1 DEF SaveWrite, SharedOK
  <2>4. stamps' \in [User -> SUBSET Nat]
      BY <1>15, <2>1, <2>2 DEF SaveWrite, SharedOK
  <2>5. mixed' \in BOOLEAN
      BY <1>2, <1>15 DEF SaveWrite
  <2> QED BY <1>15, <2>3, <2>4, <2>5 DEF SharedOK, SaveWrite
<1>16. CASE Close(t)
    BY <1>16 DEF SharedOK, Close, shared, ghosts
<1> QED BY <1>3, <1>4, <1>5, <1>6, <1>7, <1>8, <1>9, <1>10, <1>11, <1>12, <1>13, <1>14, <1>15,
           <1>16 DEF Work

\* Every step leaves what is shared in its types.
LEMMA SharedKept ==
    ASSUME SharedOK, Requests, [Next]_vars
    PROVE  SharedOK'
<1>1. /\ faults \in 0 .. MaxFaults /\ begun \in 0 .. MaxRequests /\ clock \in 0 .. MaxClock
      /\ mixed \in BOOLEAN
    BY DEF SharedOK
<1>2. MaxFaults \in Nat /\ MaxRequests \in Nat /\ MaxClock \in Nat
    BY QueryAssumption
<1>3. CASE \E t \in Thread : Work(t)
    BY <1>3, SharedOfWork
<1>4. ASSUME NEW t \in Thread, NEW u \in User, NEW op \in Rest \cup Mcp, Begin(t, op, u) PROVE SharedOK'
  <2>1. begun' \in 0 .. MaxRequests
      BY <1>1, <1>2, <1>4 DEF Begin
  <2> QED BY <1>4, <2>1 DEF SharedOK, Begin, shared, ghosts
<1>5. ASSUME NEW t \in Thread, NEW u \in User, NEW m \in Model, NEW keep \in BOOLEAN,
             SaveRead(t, u, m, keep)
      PROVE  SharedOK'
  <2>1. begun' \in 0 .. MaxRequests
      BY <1>1, <1>2, <1>5 DEF SaveRead
  <2> QED BY <1>5, <2>1 DEF SharedOK, SaveRead, shared, ghosts
<1>6. ASSUME NEW u \in User, Delete(u) PROVE SharedOK'
  <2>1. begun' \in 0 .. MaxRequests
      BY <1>1, <1>2, <1>6 DEF Delete
  <2>2. config' \in [User -> Configs]
      BY <1>6 DEF Delete, SharedOK, Configs
  <2>3. mixed' \in BOOLEAN
      BY <1>1, <1>6 DEF Delete
  <2> QED BY <1>6, <2>1, <2>2, <2>3 DEF SharedOK, Delete
<1>7. ASSUME NEW u \in User, Leave(u) PROVE SharedOK'
  <2>1. faults' \in 0 .. MaxFaults
      BY <1>1, <1>2, <1>7 DEF Leave
  <2>2. gone' \subseteq User
      BY <1>7 DEF Leave, SharedOK
  <2> QED BY <1>7, <2>1, <2>2 DEF SharedOK, Leave, shared, ghosts
<1>8. CASE Tick
  <2>1. clock' \in 0 .. MaxClock
      BY <1>1, <1>2, <1>8 DEF Tick
  <2> QED BY <1>8, <2>1 DEF SharedOK, Tick, shared, ghosts
<1>9. CASE UNCHANGED vars
    BY <1>9 DEF SharedOK, vars, shared, ghosts
<1> QED BY <1>3, <1>4, <1>5, <1>6, <1>7, <1>8, <1>9 DEF Next

--------------------------------------------------------------------------------
(* Every saved configuration carries a time it was saved at.                  *)

\* Only a save makes a configuration, and it keeps its time.
LEMMA StampsKept ==
    ASSUME SharedOK, Requests, StampInv, [Next]_vars
    PROVE  StampInv'
<1>1. ASSUME UNCHANGED <<config, stamps>> PROVE StampInv'
    BY <1>1 DEF StampInv
<1>2. ASSUME NEW t \in Thread, SaveWrite(t) PROVE StampInv'
  <2> DEFINE r == req[t]
  <2>1. r.user \in User
      BY <1>2 DEF Requests, Sound, RequestOK, SaveWrite
  <2>2. /\ config' = [config EXCEPT ![r.user] = r.read]
        /\ stamps' = [stamps EXCEPT ![r.user] = @ \cup {r.read.at}]
      BY <1>2 DEF SaveWrite
  <2>3. config \in [User -> Configs] /\ stamps \in [User -> SUBSET Nat]
      BY DEF SharedOK
  <2> HIDE DEF r
  <2> QED BY <2>1, <2>2, <2>3 DEF StampInv
<1>3. ASSUME NEW u \in User, Delete(u) PROVE StampInv'
  <2>1. config' = [config EXCEPT ![u] = NoConfig] /\ stamps' = stamps
      BY <1>3 DEF Delete
  <2>2. config \in [User -> Configs]
      BY DEF SharedOK
  <2> QED BY <2>1, <2>2 DEF StampInv
<1>4. ASSUME NEW t \in Thread, Work(t), ~SaveWrite(t) PROVE UNCHANGED <<config, stamps>>
    BY <1>4 DEF Work, SearchFound, SearchFails, Owner, ReadStamp, ReadCached, CompareKey, Build,
                KeepProvider, SignProvider, PostReplies, PostRetries, PostRefused, PostBreaks,
                Audit, Close, shared, ghosts
<1>5. ASSUME NEW t \in Thread, NEW u \in User, NEW op \in Rest \cup Mcp, Begin(t, op, u)
      PROVE UNCHANGED <<config, stamps>>
    BY <1>5 DEF Begin, shared, ghosts
<1>6. ASSUME NEW t \in Thread, NEW u \in User, NEW m \in Model, NEW keep \in BOOLEAN,
             SaveRead(t, u, m, keep)
      PROVE  UNCHANGED <<config, stamps>>
    BY <1>6 DEF SaveRead, shared, ghosts
<1>7. ASSUME NEW u \in User, Leave(u) PROVE UNCHANGED <<config, stamps>>
    BY <1>7 DEF Leave, shared, ghosts
<1>8. CASE Tick
    BY <1>1, <1>8 DEF Tick, shared, ghosts
<1>9. CASE UNCHANGED vars
    BY <1>1, <1>9 DEF vars, shared, ghosts
<1> QED BY <1>1, <1>2, <1>3, <1>4, <1>5, <1>6, <1>7, <1>8, <1>9 DEF Next

--------------------------------------------------------------------------------
(* The choice of a provider.                                                  *)

\* What the cache and the choices rest on.
provided == <<server, config, llmProvider, llmProviderKey, stamps, mixed>>

\* A request that is not choosing before or after a step, and is not called by
\* another provider, disturbs no choice.
LEMMA QuietStep ==
    ASSUME ProviderInv, UNCHANGED provided, NEW t \in Thread,
           DOMAIN req' = Thread, \A s \in Thread \ {t} : req'[s] = req[s],
           req[t].at \notin Choosing, req'[t].at \notin Choosing,
           \/ req'[t].at # "post" /\ req'[t].posts = 0
           \/ /\ req'[t].provider = req[t].provider /\ req'[t].due = req[t].due
              /\ req'[t].at = "post" \/ req'[t].posts > 0 => req[t].at = "post" \/ req[t].posts > 0
    PROVE  ProviderInv'
<1> SUFFICES ASSUME ~mixed PROVE /\ \A i, j \in Thread : Chooses(i)' /\ Chooses(j)' => i = j
                                 /\ \A i \in Thread : Chooses(i)' => ChoiceOK(req[i])'
                                 /\ (\A i \in Thread : req'[i].at # "sign") => CacheOK'
                                 /\ \A i \in Thread : req'[i].at = "post" \/ req'[i].posts > 0 =>
                                       req'[i].provider = req'[i].due
    BY DEF ProviderInv, provided
<1>1. \A i \in Thread : Chooses(i)' => i # t /\ Chooses(i) /\ req'[i] = req[i]
    BY DEF Chooses
<1>2. ASSUME NEW i \in Thread, Chooses(i)' PROVE ChoiceOK(req[i])'
  <2>1. ChoiceOK(req[i]) /\ req'[i] = req[i]
      BY <1>1, <1>2 DEF ProviderInv
  <2> QED BY <2>1 DEF ChoiceOK, Effective, provided
<1>3. ASSUME \A i \in Thread : req'[i].at # "sign" PROVE CacheOK'
  <2>1. \A i \in Thread : req[i].at # "sign"
      BY <1>3 DEF Choosing
  <2>2. CacheOK
      BY <2>1 DEF ProviderInv
  <2> QED BY <2>2 DEF CacheOK, Effective, provided
<1>4. ASSUME NEW i \in Thread, req'[i].at = "post" \/ req'[i].posts > 0
      PROVE  req'[i].provider = req'[i].due
    BY <1>4 DEF ProviderInv
<1> QED BY <1>1, <1>2, <1>3, <1>4 DEF ProviderInv

\* Requests outside the choice of a provider leave it alone.
LEMMA ProviderOfOthers ==
    ASSUME SharedOK, Requests, ProviderInv, NEW t \in Thread,
           \/ SearchFound(t) \/ SearchFails(t)
           \/ PostReplies(t) \/ PostRetries(t) \/ PostRefused(t) \/ PostBreaks(t)
           \/ Audit(t) \/ Close(t)
    PROVE  ProviderInv'
<1> DEFINE r == req[t]
           q == req'[t]
<1>1. RequestOK(r) /\ Typed(r) /\ UNCHANGED provided
    BY DEF Requests, Sound, provided, shared, ghosts, SearchFound, SearchFails, PostReplies,
           PostRetries, PostRefused, PostBreaks, Audit, Close
<1>2. ASSUME Moves(t, {"pack", "degraded", "at", "status"}) \/ Moves(t, {"at", "code"})
                \/ Moves(t, Called) \/ Moves(t, {"at", "usage", "row"})
      PROVE  /\ DOMAIN req' = Thread /\ \A s \in Thread \ {t} : req'[s] = req[s]
             /\ q.provider = r.provider /\ q.due = r.due
    BY <1>2 DEF Moves, But, Fields, Called
<1>3. CASE SearchFound(t)
  <2>1. r.at = "search" /\ q.at \in {"audit", "owner"} /\ q.posts = r.posts
      BY <1>3, SearchFoundEffect DEF SearchFound, Moves, But, Fields
  <2>2. q.posts = 0
      BY <1>1, <2>1 DEF RequestOK
  <2> QED BY <1>1, <1>2, <1>3, <2>1, <2>2, SearchFoundEffect, QuietStep DEF Choosing
<1>4. CASE SearchFails(t)
  <2>1. r.at = "search"
      BY <1>4 DEF SearchFails
  <2>2. q.at = "audit" /\ q.posts = r.posts
      BY <1>4, SearchFailsEffect DEF Moves, But, Fields
  <2>3. q.posts = 0
      BY <1>1, <2>1, <2>2 DEF RequestOK
  <2> QED BY <1>1, <1>2, <1>4, <2>1, <2>2, <2>3, SearchFailsEffect, QuietStep DEF Choosing
<1>5. CASE PostReplies(t) \/ PostRetries(t) \/ PostRefused(t)
  <2>1. r.at = "post" /\ q.at \in {"audit", "post"} /\ Moves(t, Called)
      BY <1>5, PostEffect DEF PostReplies, PostRetries, PostRefused, CallEnded
  <2> QED BY <1>1, <1>2, <2>1, QuietStep DEF Choosing
<1>6. CASE PostBreaks(t)
  <2>1. r.at = "post" /\ q.at = "audit"
      BY <1>6, PostBreaksEffect DEF PostBreaks
  <2> QED BY <1>1, <1>2, <1>6, <2>1, PostBreaksEffect, QuietStep DEF Choosing
<1>7. CASE Audit(t)
  <2>1. r.at = "audit" /\ q.at = "done" /\ q.posts = r.posts
      BY <1>7, AuditEffect DEF Audit, Moves, But, Fields
  <2> QED BY <1>1, <1>2, <1>7, <2>1, AuditEffect, QuietStep DEF Choosing
<1>8. CASE Close(t)
  <2>1. r.at \in {"done", "saved"} /\ q.at = "idle" /\ q.posts = 0
      BY <1>8, CloseEffect, IdleFields DEF Close
  <2> QED BY <1>1, <1>8, <2>1, CloseEffect, QuietStep DEF Choosing
<1> QED BY <1>3, <1>4, <1>5, <1>6, <1>7, <1>8

\* Nor do requests that begin.
LEMMA ProviderOfBeginnings ==
    ASSUME SharedOK, Requests, ProviderInv, NEW t \in Thread, NEW u \in User,
           \/ \E op \in Rest \cup Mcp : Begin(t, op, u)
           \/ \E m \in Model, keep \in BOOLEAN : SaveRead(t, u, m, keep)
    PROVE  ProviderInv'
<1> DEFINE q == req'[t]
<1>1. CASE \E op \in Rest \cup Mcp : Begin(t, op, u)
  <2>1. req[t].at = "idle" /\ UNCHANGED provided
      BY <1>1 DEF Begin, provided, shared, ghosts
  <2>2. DOMAIN req' = Thread /\ (\A s \in Thread \ {t} : req'[s] = req[s])
        /\ q.at \in {"search", "audit"} /\ q.posts = Idle.posts
      BY <1>1, BeginEffect DEF But, Fields
  <2> QED BY <2>1, <2>2, IdleFields, QuietStep DEF Choosing
<1>2. CASE \E m \in Model, keep \in BOOLEAN : SaveRead(t, u, m, keep)
  <2>1. req[t].at = "idle" /\ UNCHANGED provided
      BY <1>2 DEF SaveRead, provided, shared, ghosts
  <2>2. DOMAIN req' = Thread /\ (\A s \in Thread \ {t} : req'[s] = req[s])
        /\ q.at \in {"saved", "write"} /\ q.posts = Idle.posts
      BY <1>2, SaveReadEffect DEF But, Fields
  <2> QED BY <2>1, <2>2, IdleFields, QuietStep DEF Choosing
<1> QED BY <1>1, <1>2

\* A step of the only request that chooses, or begins to: its choice goes on or
\* is over, and the cache is what the key says unless a provider has just been kept.
LEMMA ChoosingStep ==
    ASSUME Requests, ProviderInv, NEW t \in Thread, UNCHANGED <<server, config, stamps>>,
           DOMAIN req' = Thread, \A s \in Thread \ {t} : req'[s] = req[s],
           req[t].at \in Choosing \cup {"owner"},
           req[t].at \in Choosing \/ \A s \in Thread \ {t} : ~Chooses(s),
           ~mixed => /\ Chooses(t)' => ChoiceOK(req[t])'
                     /\ req'[t].at # "sign" => CacheOK'
                     /\ req'[t].at = "post" \/ req'[t].posts > 0 => req'[t].provider = req'[t].due,
           mixed' = mixed
    PROVE  ProviderInv'
<1> SUFFICES ASSUME ~mixed PROVE /\ \A i, j \in Thread : Chooses(i)' /\ Chooses(j)' => i = j
                                 /\ \A i \in Thread : Chooses(i)' => ChoiceOK(req[i])'
                                 /\ (\A i \in Thread : req'[i].at # "sign") => CacheOK'
                                 /\ \A i \in Thread : req'[i].at = "post" \/ req'[i].posts > 0 =>
                                       req'[i].provider = req'[i].due
    BY DEF ProviderInv
<1>1. \A s \in Thread \ {t} : ~Chooses(s)
    BY DEF ProviderInv, Chooses
<1>2. \A s \in Thread : Chooses(s)' => s = t
    BY <1>1 DEF Chooses
<1>3. ASSUME NEW i \in Thread, req'[i].at = "post" \/ req'[i].posts > 0
      PROVE  req'[i].provider = req'[i].due
    BY <1>3 DEF ProviderInv
<1> QED BY <1>2, <1>3

\* Nobody is between keeping a provider and signing it while another chooses.
LEMMA CacheWhileChoosing ==
    ASSUME ProviderInv, ~mixed, NEW t \in Thread, req[t].at # "sign",
           Chooses(t) \/ \A s \in Thread \ {t} : ~Chooses(s)
    PROVE  CacheOK
<1>1. ASSUME NEW s \in Thread, req[s].at = "sign" PROVE FALSE
    BY <1>1 DEF ProviderInv, Chooses, Choosing
<1> QED BY <1>1 DEF ProviderInv

\* The steps of a choice: what was read is still true, so the provider kept and
\* signed, or found signed, is the configuration in force.
LEMMA ProviderOfChoice ==
    ASSUME SharedOK, Requests, StampInv, ProviderInv, NEW t \in Thread,
           \/ Owner(t) \/ ReadStamp(t) \/ ReadCached(t) \/ CompareKey(t) \/ Build(t)
           \/ KeepProvider(t) \/ SignProvider(t)
    PROVE  ProviderInv'
<1> DEFINE r == req[t]
           q == req'[t]
<1> SUFFICES ASSUME ~mixed' PROVE ProviderInv'
    BY DEF ProviderInv
<1>1. RequestOK(r) /\ Typed(r) /\ mixed \in BOOLEAN
    BY DEF Requests, Sound, SharedOK
<1>2. r.at \in Choosing /\ ~mixed => ChoiceOK(r)
    BY DEF ProviderInv, Chooses
<1>3. r.at \in Choosing \cup {"owner"} => r.user \in User /\ r.posts = 0
    BY <1>1 DEF RequestOK
<1>4. CASE Owner(t)
  <2>1. r.at = "owner" /\ UNCHANGED <<server, config, llmProvider, llmProviderKey, stamps>>
      BY <1>4 DEF Owner, shared
  <2>2. /\ DOMAIN req' = Thread /\ (\A s \in Thread \ {t} : req'[s] = req[s])
        /\ q.user = r.user /\ q.posts = r.posts
        /\ \/ q.at = "audit"
           \/ q.at = "stamp" /\ q.due = Effective(r.user)
      BY <1>4, OwnerEffect DEF Moves, But, Fields
  <2>3. mixed' = mixed /\ \A s \in Thread \ {t} : ~Chooses(s)
      BY <1>1, <1>4 DEF Owner, Chooses
  <2>4. CacheOK'
    <3>1. CacheOK
        BY <2>1, <2>3, CacheWhileChoosing
    <3> QED BY <2>1, <3>1 DEF CacheOK, Effective
  <2>5. Chooses(t)' => ChoiceOK(req[t])'
      BY <2>1, <2>2 DEF Chooses, Choosing, ChoiceOK, Effective
  <2>6. q.posts = 0 /\ q.at # "post"
      BY <1>3, <2>1, <2>2
  <2> QED BY <2>1, <2>2, <2>3, <2>4, <2>5, <2>6, ChoosingStep
<1>5. CASE ReadStamp(t)
  <2>1. r.at = "stamp" /\ UNCHANGED <<server, config, llmProvider, llmProviderKey, stamps>>
      BY <1>5 DEF ReadStamp, shared
  <2>2. /\ DOMAIN req' = Thread /\ (\A s \in Thread \ {t} : req'[s] = req[s])
        /\ q.user = r.user /\ q.posts = r.posts /\ q.due = r.due /\ q.at = "cached"
      BY <1>5, ReadStampEffect DEF Moves, But, Fields
  <2>3. q.stamp = config[r.user].at /\ mixed' = mixed
      BY <1>5, ReadStampEffect
  <2>4. CacheOK'
    <3>1. CacheOK
        BY <2>1, <2>3, CacheWhileChoosing DEF Chooses, Choosing
    <3> QED BY <2>1, <3>1 DEF CacheOK, Effective
  <2>5. ChoiceOK(req[t])'
      BY <1>2, <2>1, <2>2, <2>3 DEF Choosing, ChoiceOK, Effective
  <2>6. q.posts = 0
      BY <1>3, <2>1, <2>2 DEF Choosing
  <2> QED BY <2>1, <2>2, <2>3, <2>4, <2>5, <2>6, ChoosingStep DEF Choosing
<1>6. CASE ReadCached(t)
  <2>1. r.at = "cached" /\ UNCHANGED provided
      BY <1>6 DEF ReadCached, shared, ghosts, provided
  <2>2. /\ DOMAIN req' = Thread /\ (\A s \in Thread \ {t} : req'[s] = req[s])
        /\ q.user = r.user /\ q.posts = r.posts /\ q.due = r.due /\ q.stamp = r.stamp
        /\ q.at = "key" /\ q.read = llmProvider
      BY <1>6, ReadCachedEffect DEF Moves, But, Fields
  <2>3. mixed' = mixed /\ UNCHANGED <<server, config, stamps>>
      BY <2>1 DEF provided
  <2>4. CacheOK'
    <3>1. CacheOK
        BY <2>1, <2>3, CacheWhileChoosing DEF Chooses, Choosing
    <3> QED BY <2>1, <3>1 DEF CacheOK, Effective, provided
  <2>5. ChoiceOK(req[t])'
      BY <1>2, <2>1, <2>2, <2>3 DEF Choosing, ChoiceOK, Effective, provided
  <2>6. q.posts = 0
      BY <1>3, <2>1, <2>2 DEF Choosing
  <2> QED BY <2>1, <2>2, <2>3, <2>4, <2>5, <2>6, ChoosingStep DEF Choosing
<1>7. CASE CompareKey(t)
  <2>1. r.at = "key" /\ UNCHANGED provided
      BY <1>7 DEF CompareKey, shared, ghosts, provided
  <2>2. /\ DOMAIN req' = Thread /\ (\A s \in Thread \ {t} : req'[s] = req[s])
        /\ q.user = r.user /\ q.posts = r.posts /\ q.due = r.due /\ q.stamp = r.stamp
      BY <1>7, CompareKeyEffect DEF Moves, But, Fields
  <2>3. mixed' = mixed /\ UNCHANGED <<server, config, stamps>>
      BY <2>1 DEF provided
  <2>4. CacheOK
      BY <2>1, <2>3, CacheWhileChoosing DEF Chooses, Choosing
  <2>5. CacheOK'
      BY <2>1, <2>4 DEF CacheOK, Effective, provided
  <2>6. r.due = Effective(r.user) /\ r.stamp = config[r.user].at /\ r.read = llmProvider
      BY <1>2, <2>1, <2>3 DEF Choosing, ChoiceOK
  <2>7. r.user \in User /\ q.posts = 0
      BY <1>3, <2>1, <2>2 DEF Choosing
  <2>8. CASE q.at = "post" /\ q.provider = r.read /\ llmProviderKey = <<r.user, r.stamp>>
    <3>1. llmProviderKey # NoKey
        BY <2>7, <2>8, QueryAssumption DEF NoKey
    <3>2. llmProvider = Effective(r.user)
        BY <2>4, <2>6, <2>8, <3>1 DEF CacheOK
    <3>3. q.provider = q.due
        BY <2>2, <2>6, <2>8, <3>2
    <3> QED BY <2>1, <2>2, <2>3, <2>5, <2>8, <3>3, ChoosingStep DEF Choosing, Chooses
  <2>9. CASE q.at = "build"
    <3>1. ChoiceOK(req[t])'
        BY <2>1, <2>2, <2>6, <2>9 DEF ChoiceOK, Effective, provided
    <3> QED BY <2>1, <2>2, <2>3, <2>5, <2>7, <2>9, <3>1, ChoosingStep DEF Choosing
  <2> QED BY <1>7, <2>8, <2>9, CompareKeyEffect
<1>8. CASE Build(t)
  <2>1. r.at = "build" /\ UNCHANGED <<server, config, llmProvider, llmProviderKey, stamps>>
      BY <1>8 DEF Build, shared
  <2>2. /\ DOMAIN req' = Thread /\ (\A s \in Thread \ {t} : req'[s] = req[s])
        /\ q.user = r.user /\ q.posts = r.posts /\ q.due = r.due /\ q.stamp = r.stamp
        /\ q.at = "keep"
      BY <1>8, BuildEffect DEF Moves, But, Fields
  <2>3. q.provider = Effective(r.user) /\ mixed' = mixed
      BY <1>8, BuildEffect
  <2>4. CacheOK'
    <3>1. CacheOK
        BY <2>1, <2>3, CacheWhileChoosing DEF Chooses, Choosing
    <3> QED BY <2>1, <3>1 DEF CacheOK, Effective
  <2>5. ChoiceOK(req[t])'
      BY <1>2, <2>1, <2>2, <2>3 DEF Choosing, ChoiceOK, Effective
  <2>6. q.posts = 0
      BY <1>3, <2>1, <2>2 DEF Choosing
  <2> QED BY <2>1, <2>2, <2>3, <2>4, <2>5, <2>6, ChoosingStep DEF Choosing
<1>9. CASE KeepProvider(t)
  <2>1. r.at = "keep" /\ UNCHANGED <<server, config, stamps>> /\ llmProvider' = r.provider
        /\ mixed' = mixed
      BY <1>9 DEF KeepProvider, ghosts
  <2>2. /\ DOMAIN req' = Thread /\ (\A s \in Thread \ {t} : req'[s] = req[s])
        /\ q.user = r.user /\ q.posts = r.posts /\ q.due = r.due /\ q.stamp = r.stamp
        /\ q.provider = r.provider /\ q.at = "sign"
      BY <1>9, KeepProviderEffect DEF Moves, But, Fields
  <2>3. ChoiceOK(req[t])'
      BY <1>2, <2>1, <2>2 DEF Choosing, ChoiceOK, Effective
  <2>4. q.posts = 0
      BY <1>3, <2>1, <2>2 DEF Choosing
  <2> QED BY <2>1, <2>2, <2>3, <2>4, ChoosingStep DEF Choosing
<1>10. CASE SignProvider(t)
  <2>1. r.at = "sign" /\ UNCHANGED <<server, config, llmProvider, stamps>> /\ mixed' = mixed
        /\ llmProviderKey' = <<r.user, r.stamp>>
      BY <1>10 DEF SignProvider, ghosts, ProviderKey
  <2>2. /\ DOMAIN req' = Thread /\ (\A s \in Thread \ {t} : req'[s] = req[s])
        /\ q.posts = r.posts /\ q.due = r.due /\ q.provider = r.provider
        /\ q.at \in {"post", "audit"}
      BY <1>10, SignProviderEffect DEF Moves, But, Fields
  <2>3. /\ r.due = Effective(r.user) /\ r.stamp = config[r.user].at
        /\ r.provider = r.due /\ r.provider = llmProvider
      BY <1>2, <2>1 DEF Choosing, ChoiceOK
  <2>4. r.user \in User
      BY <1>3, <2>1 DEF Choosing
  <2>5. \/ config[r.user] = NoConfig
        \/ config[r.user].at \in Nat /\ config[r.user].at \in stamps[r.user]
      BY <2>4, Chosen DEF StampInv, Configs
  <2>6. CacheOK'
    <3>1. r.stamp = -1 => llmProvider = server
        BY <2>3, <2>5 DEF Effective
    <3>2. r.stamp # -1 => r.stamp \in stamps[r.user]
        BY <2>3, <2>5 DEF NoConfig
    <3> QED BY <2>1, <2>3, <3>1, <3>2 DEF CacheOK, Effective
  <2> QED BY <2>1, <2>2, <2>3, <2>6, ChoosingStep DEF Choosing, Chooses
<1> QED BY <1>4, <1>5, <1>6, <1>7, <1>8, <1>9, <1>10

\* A save or a deletion that disturbs no choice: the cache keeps to its key, as the
\* configuration has another time or is gone.
LEMMA ProviderOfChange ==
    ASSUME SharedOK, Requests, StampInv, ProviderInv, NEW u \in User, NEW new \in Configs,
           config' = [config EXCEPT ![u] = new], UNCHANGED <<server, llmProvider, llmProviderKey>>,
           \/ new = NoConfig /\ stamps' = stamps
           \/ new # NoConfig /\ new.at \notin stamps[u] /\ stamps' = [stamps EXCEPT ![u] = @ \cup {new.at}],
           ~mixed, \A s \in Thread : ~(req[s].at \in Choosing /\ req[s].user = u),
           DOMAIN req' = Thread,
           \A s \in Thread : \/ req'[s] = req[s]
                             \/ /\ req[s].at \notin Choosing /\ req'[s].posts = 0
                                /\ req'[s].at \notin Choosing \cup {"post"}
    PROVE  ProviderInv'
<1>1. config \in [User -> Configs] /\ stamps \in [User -> SUBSET Nat]
      /\ llmProviderKey \in {NoKey} \cup User \X (Nat \cup {-1})
    BY DEF SharedOK
<1>2. \A s \in Thread : Chooses(s)' => Chooses(s) /\ req'[s] = req[s] /\ req[s].user # u
    BY DEF Chooses
<1>3. ASSUME NEW s \in Thread, Chooses(s)' PROVE ChoiceOK(req[s])'
  <2>1. ChoiceOK(req[s]) /\ req'[s] = req[s] /\ req[s].user # u
      BY <1>2, <1>3 DEF ProviderInv
  <2>2. req[s].user \in User
      BY <1>2, <1>3 DEF Requests, Sound, RequestOK, Chooses
  <2>3. config'[req[s].user] = config[req[s].user]
      BY <1>1, <2>1, <2>2
  <2> QED BY <2>1, <2>3 DEF ChoiceOK, Effective
<1>4. ASSUME \A s \in Thread : req'[s].at # "sign" PROVE CacheOK'
  <2>1. CacheOK
    <3>1. \A s \in Thread : req[s].at # "sign"
        BY <1>4 DEF Choosing
    <3> QED BY <3>1 DEF ProviderInv
  <2> SUFFICES ASSUME llmProviderKey # NoKey PROVE CacheOK'
      BY DEF CacheOK
  <2>2. PICK v \in User, n \in Nat \cup {-1} : llmProviderKey = <<v, n>>
      BY <1>1
  <2>3. /\ n = -1 => llmProvider = server
        /\ n # -1 => n \in stamps[v]
        /\ config[v].at = n => llmProvider = Effective(v)
      BY <2>1, <2>2 DEF CacheOK
  <2>4. n # -1 => n \in stamps'[v]
      BY <1>1, <2>2, <2>3
  <2>5. config'[v].at = n => llmProvider = IF config'[v] = NoConfig THEN server ELSE config'[v]
    <3>1. CASE v # u
      <4>1. config'[v] = config[v]
          BY <1>1, <2>2, <3>1
      <4> QED BY <2>3, <4>1 DEF Effective
    <3>2. CASE v = u /\ new = NoConfig
      <4>1. config'[v] = NoConfig
          BY <1>1, <2>2, <3>2
      <4>2. NoConfig.at = -1
          BY DEF NoConfig
      <4> QED BY <2>3, <4>1, <4>2
    <3>3. CASE v = u /\ new # NoConfig
      <4>1. config'[v] = new /\ new.at \in Nat /\ new.at \notin stamps[v]
          BY <1>1, <2>2, <3>3 DEF Configs
      <4> QED BY <2>3, <4>1
    <3> QED BY <3>1, <3>2, <3>3
  <2> QED BY <2>2, <2>3, <2>4, <2>5 DEF CacheOK, Effective
<1>5. ASSUME NEW s \in Thread, req'[s].at = "post" \/ req'[s].posts > 0
      PROVE  req'[s].provider = req'[s].due
    BY <1>5 DEF ProviderInv
<1>6. \A i, j \in Thread : Chooses(i)' /\ Chooses(j)' => i = j
    BY <1>2 DEF ProviderInv
<1> QED BY <1>3, <1>4, <1>5, <1>6 DEF ProviderInv

\* Every step keeps the choice of a provider what it is.
LEMMA ProviderKept ==
    ASSUME SharedOK, Requests, StampInv, ProviderInv, [Next]_vars
    PROVE  ProviderInv'
<1>1. ASSUME NEW t \in Thread, Work(t), ~SaveWrite(t) PROVE ProviderInv'
    BY <1>1, ProviderOfOthers, ProviderOfChoice DEF Work
<1>2. ASSUME NEW t \in Thread, SaveWrite(t) PROVE ProviderInv'
  <2> DEFINE r == req[t]
             u == r.user
             new == r.read
  <2> SUFFICES ASSUME ~mixed' PROVE ProviderInv'
      BY DEF ProviderInv
  <2>1. /\ r.at = "write" /\ config' = [config EXCEPT ![u] = new]
        /\ stamps' = [stamps EXCEPT ![u] = @ \cup {new.at}]
        /\ UNCHANGED <<server, llmProvider, llmProviderKey>>
      BY <1>2 DEF SaveWrite
  <2>2. /\ ~mixed /\ new.at \notin stamps[u]
        /\ \A s \in Thread : ~(req[s].at \in Choosing /\ req[s].user = u)
      BY <1>2 DEF SaveWrite
  <2>3. u \in User /\ new \in Configs /\ new # NoConfig /\ r.posts = 0
      BY <2>1 DEF Requests, Sound, RequestOK, Typed
  <2>4. /\ DOMAIN req' = Thread /\ (\A s \in Thread \ {t} : req'[s] = req[s])
        /\ req'[t].at = "saved" /\ req'[t].posts = r.posts
      BY <1>2, SaveWriteEffect DEF Moves, But, Fields
  <2>5. \A s \in Thread : \/ req'[s] = req[s]
                          \/ /\ req[s].at \notin Choosing /\ req'[s].posts = 0
                             /\ req'[s].at \notin Choosing \cup {"post"}
      BY <2>1, <2>3, <2>4 DEF Choosing
  <2> QED BY <2>1, <2>2, <2>3, <2>4, <2>5, ProviderOfChange
<1>3. ASSUME NEW t \in Thread, NEW u \in User, NEW op \in Rest \cup Mcp, Begin(t, op, u)
      PROVE ProviderInv'
    BY <1>3, ProviderOfBeginnings
<1>4. ASSUME NEW t \in Thread, NEW u \in User, NEW m \in Model, NEW keep \in BOOLEAN,
             SaveRead(t, u, m, keep)
      PROVE  ProviderInv'
    BY <1>4, ProviderOfBeginnings
<1>5. ASSUME NEW u \in User, Delete(u) PROVE ProviderInv'
  <2> SUFFICES ASSUME ~mixed' PROVE ProviderInv'
      BY DEF ProviderInv
  <2>1. /\ config' = [config EXCEPT ![u] = NoConfig] /\ stamps' = stamps /\ req' = req
        /\ UNCHANGED <<server, llmProvider, llmProviderKey>>
        /\ ~mixed /\ \A s \in Thread : ~(req[s].at \in Choosing /\ req[s].user = u)
      BY <1>5 DEF Delete
  <2>2. NoConfig \in Configs /\ DOMAIN req = Thread
      BY DEF Configs, Requests
  <2> QED BY <2>1, <2>2, ProviderOfChange
<1>6. ASSUME UNCHANGED <<provided, req>> PROVE ProviderInv'
    BY <1>6 DEF ProviderInv, provided, Chooses, ChoiceOK, CacheOK, Effective
<1>7. ASSUME NEW u \in User, Leave(u) PROVE ProviderInv'
    BY <1>6, <1>7 DEF Leave, provided, shared, ghosts
<1>8. CASE Tick
    BY <1>6, <1>8 DEF Tick, provided, shared, ghosts
<1>9. CASE UNCHANGED vars
    BY <1>6, <1>9 DEF vars, provided, shared, ghosts
<1> QED BY <1>1, <1>2, <1>3, <1>4, <1>5, <1>7, <1>8, <1>9 DEF Next

--------------------------------------------------------------------------------
(* The invariant and what follows from it.                                    *)

\* It holds at the start.
LEMMA InitInv == Init => IndInv
<1> SUFFICES ASSUME Init PROVE IndInv
    OBVIOUS
<1>1. SharedOK
  <2>1. \A m \in ServerModel : Configured(m, m, Protocol[m], 0) \in Configs
      BY QueryAssumption DEF Configured, Configs
  <2>2. server \in Configs /\ NoConfig \in Configs
      BY <2>1 DEF Init, Configs
  <2>3. /\ clock \in 0 .. MaxClock /\ begun \in 0 .. MaxRequests /\ faults \in 0 .. MaxFaults
      BY QueryAssumption DEF Init
  <2>4. config \in [User -> Configs] /\ stamps \in [User -> SUBSET Nat]
      BY <2>2 DEF Init
  <2> QED BY <2>2, <2>3, <2>4 DEF Init, SharedOK
<1>2. DOMAIN req = Thread /\ \A t \in Thread : req[t] = Idle
    BY DEF Init
<1>3. Requests
    BY <1>1, <1>2, IdleIsSound DEF Requests
<1>4. StampInv
    BY DEF Init, StampInv
<1>5. ProviderInv
  <2>1. \A t \in Thread : ~Chooses(t) /\ req[t].at # "post" /\ req[t].posts = 0
      BY <1>2, IdleFields DEF Chooses, Choosing
  <2>2. CacheOK
      BY DEF CacheOK, Init
  <2> QED BY <2>1, <2>2 DEF ProviderInv
<1> QED BY <1>1, <1>3, <1>4, <1>5 DEF IndInv

\* Every step keeps it.
LEMMA NextInv == IndInv /\ [Next]_vars => IndInv'
BY RequestsKept, SharedKept, StampsKept, ProviderKept DEF IndInv

\* It is an invariant.
LEMMA IsInvariant == Spec => []IndInv
BY InitInv, NextInv, PTL DEF Spec

\* What is shared, the requests of all threads and the counters have their types
\* whatever the handlers do and wherever they are interrupted.
THEOREM TypeCorrect == Spec => []TypeOK
<1>1. IndInv => TypeOK
    BY DEF IndInv, SharedOK, Requests, Sound, TypeOK
<1> QED BY <1>1, IsInvariant, PTL

\* provider_for_request calls the model of the asking user, for any number of
\* users, threads and saves, as long as nothing has come in between.
THEOREM ModelIsOwn == Spec => []OwnModel
<1>1. IndInv => OwnModel
    BY DEF IndInv, ProviderInv, OwnModel
<1> QED BY <1>1, IsInvariant, PTL

\* answer_question takes no evidence back: whatever the model does, and however
\* often, an ask with its pack ends with it, but for the two exceptions named.
THEOREM EvidenceIsDelivered == Spec => []AskDegrades
<1>1. IndInv => AskDegrades
    BY DEF IndInv, Requests, Sound, EndsWell, AskDegrades, Done, Failed
<1> QED BY <1>1, IsInvariant, PTL

\* The limit of a user is a number, with a role, an override or neither.
LEMMA LimitIsNumber == ASSUME local \in BOOLEAN, NEW u \in User PROVE Limit(u) \in Int
<1>1. /\ Settings.perUser \in Int /\ Account[u].override \in Int
      /\ Account[u].role \in {"none"} \cup DOMAIN QuotaByRole
    BY QueryAssumption
<1>2. \A role \in DOMAIN QuotaByRole : QuotaByRole[role] \in Int
    BY DEF QuotaByRole
<1>3. EffectiveLimit(Settings, Account[u].role, Account[u].override) \in Int
    BY <1>1, <1>2 DEF EffectiveLimit
<1> QED BY <1>1, <1>3 DEF Limit

\* enforce_upload_limit and warning_for agree on when the space is used up, for any
\* sizes, settings, roles and overrides.
THEOREM LimitIsOne == Spec => []WarningMatchesLimit
<1>1. ASSUME IndInv, NEW t \in Thread, Done(req[t])
      PROVE  LET r == req[t]
             IN  WarningFor(Settings, Limit(r.user), r.usage).user = "exceeded"
                    <=> UploadRefused(Limit(r.user), r.usage, 1)
  <2> DEFINE r == req[t]
             limit == Limit(r.user)
             u == r.usage
  <2>1. r.user \in User /\ u \in Usages \cup {NoUsage}
      BY <1>1 DEF IndInv, Requests, Sound, RequestOK, Typed, Done
  <2>2. limit \in Int
      BY <1>1, <2>1, LimitIsNumber DEF IndInv, SharedOK
  <2>3. u.mine \in Nat /\ u.readable \in BOOLEAN
    <3>1. Usages \subseteq [mine : Nat, project : Nat, readable : BOOLEAN]
        BY QueryAssumption
    <3>2. NoUsage \in [mine : Nat, project : Nat, readable : BOOLEAN]
        BY DEF NoUsage
    <3>3. u \in [mine : Nat, project : Nat, readable : BOOLEAN]
        BY <2>1, <3>1, <3>2
    <3> HIDE DEF u
    <3> QED BY <3>3
  <2> HIDE DEF limit, u
  <2>4. Judge(u.mine, limit) = "exceeded" <=> limit > 0 /\ u.mine + 1 > limit
      BY <2>2, <2>3 DEF Judge
  <2>5. CASE ~u.readable
    <3>1. WarningFor(Settings, limit, u) = [user |-> "ok", project |-> "ok"]
        BY <2>5 DEF WarningFor
    <3> QED BY <2>5, <3>1 DEF UploadRefused, limit, u
  <2>6. CASE limit <= 0 /\ Settings.perUser <= 0 /\ Settings.perProject <= 0
    <3>1. WarningFor(Settings, limit, u) = [user |-> "ok", project |-> "ok"]
        BY <2>6 DEF WarningFor
    <3> QED BY <2>2, <2>6, <3>1 DEF UploadRefused, limit, u
  <2>7. CASE u.readable /\ ~(limit <= 0 /\ Settings.perUser <= 0 /\ Settings.perProject <= 0)
    <3>1. WarningFor(Settings, limit, u)
             = [user |-> Judge(u.mine, limit), project |-> Judge(u.project, Settings.perProject)]
        BY <2>7 DEF WarningFor
    <3> QED BY <2>4, <2>7, <3>1 DEF UploadRefused, limit, u
  <2> QED BY <2>5, <2>6, <2>7
<1>2. IndInv => WarningMatchesLimit
    BY <1>1 DEF WarningMatchesLimit
<1> QED BY <1>2, IsInvariant, PTL

--------------------------------------------------------------------------------
(* What a request has told: its verdict, its answer and its row.              *)

\* An answer that was checked.
AnswerRests(r) ==
    r.answer # NoText /\ r.answer \in Seq(Lines) /\ Checked(r.draft, r.answer, AllowedIds(r.pack))

\* A verdict stands for what was found, and only a finished request has one.
Told(r) ==
    /\ r.at \notin {"audit", "done"} => r.status = "none"
    /\ r.status # "answered" => r.answer = NoText
    /\ r.status \in {"answered", "insufficient_evidence"} => r.code = 200
    /\ r.status = "answered" => AnswerRests(r)
    /\ r.status = "insufficient_evidence" => ~r.pack.answerable
    /\ r.at \in Choosing \cup {"owner", "post"} \/ r.posts > 0 => r.pack.answerable
    /\ r.project => r.code # 404
    /\ r.at = "post" => r.provider # NoConfig

Recorded(r) == r.at = "done" /\ r.op \in Rest /\ ~local => RowOf(r)

Telling == \A t \in Thread : Told(req[t]) /\ Recorded(req[t])

\* A thread without a request has told nothing.
LEMMA IdleTells == Told(Idle) /\ Idle.at # "done"
BY IdleFields DEF Told, Choosing

\* A step of one request.
LEMMA OneTells ==
    ASSUME Telling, NEW t \in Thread, DOMAIN req' = Thread, \A s \in Thread \ {t} : req'[s] = req[s],
           local' = local, Told(req'[t]), Recorded(req[t])'
    PROVE  Telling'
<1>1. ASSUME NEW s \in Thread \ {t} PROVE Told(req'[s]) /\ Recorded(req[s])'
  <2>1. Told(req[s]) /\ Recorded(req[s]) /\ req'[s] = req[s]
      BY DEF Telling
  <2> QED BY <2>1 DEF Recorded, RowOf, Failed, FailureRow, SuccessRow
<1> QED BY <1>1 DEF Telling

\* The model's words, checked against the pack they were written from.
LEMMA AnswersRest ==
    ASSUME NEW r, Typed(r), r.provider # NoConfig, NEW q, AnswerChecked(r, q), q.pack = r.pack
    PROVE  AnswerRests(q)
<1>1. PICK body \in Bodies : q.draft = TrimEnd(ExtractText(r.provider.protocol, body))
    BY DEF AnswerChecked
<1>2. body \in Body
    BY QueryAssumption
<1>3. r.provider.protocol \in {"openai", "responses", "anthropic"}
    BY DEF Typed, Configs
<1>4. q.draft \in Seq(Drafted)
    BY <1>1, <1>2, <1>3, ExtractedIsDrafted
<1>5. q.draft # <<>> /\ q.answer = VerifyCitations(q.draft, AllowedIds(q.pack)).answer
    BY DEF AnswerChecked, NoText
<1>6. PICK draft, allowed, answer :
         draft = q.draft /\ allowed = AllowedIds(q.pack) /\ answer = q.answer
    OBVIOUS
<1>7. answer # <<>> /\ answer \in Seq(Lines) /\ Checked(draft, answer, allowed)
  <2>1. draft \in Seq(Drafted) /\ draft # <<>> /\ answer = VerifyCitations(draft, allowed).answer
      BY <1>4, <1>5, <1>6
  <2> QED BY ONLY <2>1, Verified
<1> QED BY <1>6, <1>7 DEF AnswerRests, NoText

\* A service stays in its mode.
LEMMA SameMode == ASSUME [Next]_vars PROVE local' = local
<1>1. ASSUME NEW t \in Thread, Work(t) PROVE local' = local
    BY <1>1 DEF Work, SearchFound, SearchFails, Owner, ReadStamp, ReadCached, CompareKey, Build,
       KeepProvider, SignProvider, PostReplies, PostRetries, PostRefused, PostBreaks, Audit,
       SaveWrite, Close
<1>2. ASSUME NEW t \in Thread, NEW op \in Rest \cup Mcp, NEW u \in User, Begin(t, op, u)
      PROVE  local' = local
    BY <1>2 DEF Begin
<1>3. ASSUME NEW t \in Thread, NEW u \in User, NEW m, NEW keep, SaveRead(t, u, m, keep)
      PROVE  local' = local
    BY <1>3 DEF SaveRead
<1>4. ASSUME NEW u \in User, Delete(u) \/ Leave(u) PROVE local' = local
    BY <1>4 DEF Delete, Leave
<1>5. Tick \/ UNCHANGED vars => local' = local
    BY DEF Tick, vars
<1> QED BY <1>1, <1>2, <1>3, <1>4, <1>5 DEF Next

\* A thread at work tells the truth.
LEMMA WorkTells ==
    ASSUME SharedOK, Requests, Telling, NEW t \in Thread, Work(t), local' = local
    PROVE  Telling'
<1> DEFINE r == req[t]
           q == req'[t]
<1>1. Typed(r) /\ Told(r) /\ r.posts \in Nat
    BY QueryAssumption DEF Requests, Sound, Typed, Telling
<1>2. CASE SearchFound(t)
  <2>1. r.at = "search" /\ r.posts = 0
      BY <1>2 DEF SearchFound, Requests, Sound, RequestOK
  <2>2. /\ DOMAIN req' = Thread /\ \A s \in Thread \ {t} : req'[s] = req[s]
        /\ q.answer = r.answer /\ q.code = r.code /\ q.posts = r.posts /\ q.project = r.project
      BY <1>2, SearchFoundEffect DEF Moves, But, Fields
  <2>3. \/ q.at = "audit" /\ q.status = "found"
        \/ q.at = "audit" /\ q.status = "insufficient_evidence" /\ ~q.pack.answerable
        \/ q.at = "owner" /\ q.status = r.status /\ q.pack.answerable
      BY <1>2, SearchFoundEffect
  <2>4. r.code = 200 /\ r.status = "none" /\ r.answer = NoText
      BY <1>1, <2>1 DEF Told, Requests, Sound, RequestOK
  <2> HIDE DEF r, q
  <2>5. Told(q) /\ q.at # "done"
      BY <1>1, <2>1, <2>2, <2>3, <2>4 DEF Told, Choosing
  <2> QED BY <2>2, <2>5, OneTells DEF q, Recorded
<1>3. CASE SearchFails(t) \/ PostBreaks(t)
  <2>1. r.at \in {"search", "post"}
      BY <1>3 DEF SearchFails, PostBreaks
  <2>2. Moves(t, {"at", "code"}) /\ q.at = "audit" /\ q.code \in {500, 503, 507}
      BY <1>3, SearchFailsEffect, PostBreaksEffect
  <2>3. /\ DOMAIN req' = Thread /\ \A s \in Thread \ {t} : req'[s] = req[s]
        /\ q.answer = r.answer /\ q.status = r.status /\ q.posts = r.posts /\ q.project = r.project
        /\ q.pack = r.pack
      BY <2>2 DEF Moves, But, Fields
  <2> HIDE DEF r, q
  <2>4. Told(q) /\ q.at # "done"
      BY <1>1, <2>1, <2>2, <2>3 DEF Told, Choosing
  <2> QED BY <2>3, <2>4, OneTells DEF q, Recorded
<1>4. CASE Owner(t)
  <2>1. r.at = "owner"
      BY <1>4 DEF Owner
  <2>2. /\ DOMAIN req' = Thread /\ \A s \in Thread \ {t} : req'[s] = req[s]
        /\ q.answer = r.answer /\ q.status = r.status /\ q.posts = r.posts /\ q.project = r.project
        /\ q.pack = r.pack
      BY <1>4, OwnerEffect DEF Moves, But, Fields
  <2>3. \/ q.at = "audit" /\ q.code = 401
        \/ q.at = "stamp" /\ q.code = r.code
      BY <1>4, OwnerEffect
  <2> HIDE DEF r, q
  <2>4. Told(q) /\ q.at # "done"
      BY <1>1, <2>1, <2>2, <2>3 DEF Told, Choosing
  <2> QED BY <2>2, <2>4, OneTells DEF q, Recorded
<1>5. ASSUME NEW F, Moves(t, F), F \in SUBSET {"at", "stamp", "read", "provider", "status"},
             r.at \in Choosing,
             \/ q.at \in Choosing \cup {"post"} /\ q.status = r.status
             \/ q.at = "audit" /\ q.status = "degraded",
             q.at = "post" => q.provider # NoConfig
      PROVE  Telling'
  <2>1. /\ DOMAIN req' = Thread /\ \A s \in Thread \ {t} : req'[s] = req[s]
        /\ q.answer = r.answer /\ q.code = r.code /\ q.posts = r.posts /\ q.project = r.project
        /\ q.pack = r.pack
      BY <1>5 DEF Moves, But, Fields
  <2> HIDE DEF r, q
  <2>2. Told(q) /\ q.at # "done"
      BY <1>1, <1>5, <2>1 DEF Told, Choosing
  <2> QED BY <2>1, <2>2, OneTells DEF q, Recorded
<1>6. CASE ReadStamp(t)
  <2>1. r.at \in Choosing /\ q.at \in Choosing /\ Moves(t, {"at", "stamp"})
      BY <1>6, ReadStampEffect DEF ReadStamp, Choosing
  <2>2. q.status = r.status /\ q.at # "post"
      BY <2>1 DEF Moves, But, Fields, Choosing
  <2> QED BY <1>5, <2>1, <2>2
<1>7. CASE ReadCached(t)
  <2>1. r.at \in Choosing /\ q.at \in Choosing /\ Moves(t, {"at", "read"})
      BY <1>7, ReadCachedEffect DEF ReadCached, Choosing
  <2>2. q.status = r.status /\ q.at # "post"
      BY <2>1 DEF Moves, But, Fields, Choosing
  <2> QED BY <1>5, <2>1, <2>2
<1>8. CASE CompareKey(t)
  <2>1. r.at \in Choosing /\ Moves(t, {"at", "provider"})
      BY <1>8, CompareKeyEffect DEF CompareKey, Choosing
  <2>2. \/ q.at = "post" /\ q.provider # NoConfig
        \/ q.at = "build"
      BY <1>8, CompareKeyEffect
  <2>3. q.status = r.status
      BY <2>1 DEF Moves, But, Fields
  <2>4. q.at \in Choosing \cup {"post"}
      BY <2>2 DEF Choosing
  <2> QED BY <1>5, <2>1, <2>2, <2>3, <2>4
<1>9. CASE Build(t)
  <2>1. r.at \in Choosing /\ q.at \in Choosing /\ Moves(t, {"at", "provider"})
      BY <1>9, BuildEffect DEF Build, Choosing
  <2>2. q.status = r.status /\ q.at # "post"
      BY <2>1 DEF Moves, But, Fields, Choosing
  <2> QED BY <1>5, <2>1, <2>2
<1>10. CASE KeepProvider(t)
  <2>1. r.at \in Choosing /\ q.at \in Choosing /\ Moves(t, {"at"})
      BY <1>10, KeepProviderEffect DEF KeepProvider, Choosing
  <2>2. q.status = r.status /\ q.at # "post"
      BY <2>1 DEF Moves, But, Fields, Choosing
  <2> QED BY <1>5, <2>1, <2>2
<1>11. CASE SignProvider(t)
  <2>1. r.at \in Choosing /\ Moves(t, {"at", "status"})
      BY <1>11, SignProviderEffect DEF SignProvider, Choosing
  <2>2. \/ q.at = "post" /\ q.status = r.status /\ q.provider # NoConfig
        \/ q.at = "audit" /\ q.status = "degraded"
      BY <1>11, SignProviderEffect
  <2> QED BY <1>5, <2>1, <2>2
<1>12. CASE PostReplies(t) \/ PostRetries(t) \/ PostRefused(t)
  <2>1. r.at = "post" /\ Moves(t, Called) /\ CallEnded(r, q)
      BY <1>12, PostEffect DEF PostReplies, PostRetries, PostRefused
  <2>2. /\ DOMAIN req' = Thread /\ \A s \in Thread \ {t} : req'[s] = req[s]
        /\ q.code = r.code /\ q.project = r.project /\ q.pack = r.pack /\ q.provider = r.provider
      BY <2>1 DEF Moves, But, Fields, Called
  <2>3. /\ r.status = "none" /\ r.answer = NoText /\ r.provider # NoConfig /\ r.pack.answerable
        /\ r.code = 200
      BY <1>1, <2>1 DEF Told, Requests, Sound, RequestOK
  <2> HIDE DEF r, q
  <2>4. CASE q.at = "audit" /\ q.status = "answered" /\ AnswerChecked(r, q)
    <3>1. AnswerRests(q)
        BY <1>1, <2>2, <2>3, <2>4, AnswersRest
    <3>2. Told(q) /\ q.at # "done"
        BY <1>1, <2>2, <2>3, <2>4, <3>1 DEF Told, Choosing
    <3> QED BY <2>2, <3>2, OneTells DEF q, Recorded
  <2>5. CASE /\ q.answer = r.answer
             /\ \/ q.at = "audit" /\ q.status = "degraded"
                \/ q.at = "post" /\ q.status = r.status
    <3>1. Told(q) /\ q.at # "done"
        BY <1>1, <2>2, <2>3, <2>5 DEF Told, Choosing
    <3> QED BY <2>2, <3>1, OneTells DEF q, Recorded
  <2> QED BY <2>1, <2>4, <2>5 DEF CallEnded
<1>13. CASE Audit(t)
  <2>1. r.at = "audit" /\ q.at = "done" /\ Moves(t, {"at", "usage", "row"})
      BY <1>13, AuditEffect DEF Audit
  <2>2. ~(r.op \in Rest /\ ~local) \/ RowOf(q)
      BY <1>13, AuditEffect
  <2>3. /\ DOMAIN req' = Thread /\ \A s \in Thread \ {t} : req'[s] = req[s]
        /\ q.answer = r.answer /\ q.code = r.code /\ q.posts = r.posts /\ q.project = r.project
        /\ q.pack = r.pack /\ q.status = r.status /\ q.draft = r.draft /\ q.op = r.op
      BY <2>1 DEF Moves, But, Fields
  <2> HIDE DEF r, q
  <2>4. AnswerRests(r) => AnswerRests(q)
      BY <2>3 DEF AnswerRests
  <2>5. Told(q)
      BY <1>1, <2>1, <2>3, <2>4 DEF Told, Choosing
  <2>6. Recorded(req[t])'
      BY <2>2, <2>3 DEF Recorded, q, RowOf, Failed, FailureRow, SuccessRow
  <2> QED BY <2>3, <2>5, <2>6, OneTells DEF q
<1>14. CASE SaveWrite(t)
  <2>1. r.at = "write" /\ q.at = "saved" /\ Moves(t, {"at"})
      BY <1>14, SaveWriteEffect DEF SaveWrite
  <2>2. /\ DOMAIN req' = Thread /\ \A s \in Thread \ {t} : req'[s] = req[s]
        /\ q.answer = r.answer /\ q.code = r.code /\ q.posts = r.posts /\ q.project = r.project
        /\ q.pack = r.pack /\ q.status = r.status
      BY <2>1 DEF Moves, But, Fields
  <2> HIDE DEF r, q
  <2>3. Told(q) /\ q.at # "done"
      BY <1>1, <2>1, <2>2 DEF Told, Choosing
  <2> QED BY <2>2, <2>3, OneTells DEF q, Recorded
<1>15. CASE Close(t)
  <2>1. DOMAIN req' = Thread /\ q = Idle /\ \A s \in Thread \ {t} : req'[s] = req[s]
      BY <1>15, CloseEffect
  <2> QED BY <2>1, IdleTells, OneTells DEF Recorded
<1> QED BY <1>2, <1>3, <1>4, <1>6, <1>7, <1>8, <1>9, <1>10, <1>11, <1>12, <1>13, <1>14, <1>15 DEF Work

\* A request that begins has told nothing but why it is refused.
LEMMA BegunTells ==
    ASSUME SharedOK, Requests, Telling, NEW t \in Thread, NEW u \in User, NEW op \in Rest \cup Mcp,
           Begin(t, op, u), local' = local
    PROVE  Telling'
<1> DEFINE q == req'[t]
<1>1. /\ DOMAIN req' = Thread /\ \A s \in Thread \ {t} : req'[s] = req[s]
      /\ q.answer = NoText /\ q.status = "none" /\ q.posts = 0
    BY BeginEffect, IdleFields DEF But, Fields
<1>2. q.project => q.code # 404
    BY BeginEffect
<1>3. q.at \in {"search", "audit"}
    BY BeginEffect
<1> HIDE DEF q
<1>4. Told(q) /\ q.at # "done"
    BY <1>1, <1>2, <1>3 DEF Told, Choosing
<1> QED BY <1>1, <1>4, OneTells DEF q, Recorded

\* A save tells nothing.
LEMMA SaveTells ==
    ASSUME SharedOK, Requests, Telling, NEW t \in Thread, NEW u \in User, NEW m \in Model,
           NEW keep \in BOOLEAN, SaveRead(t, u, m, keep), local' = local
    PROVE  Telling'
<1> DEFINE q == req'[t]
<1>1. /\ DOMAIN req' = Thread /\ \A s \in Thread \ {t} : req'[s] = req[s]
      /\ q.answer = NoText /\ q.status = "none" /\ q.posts = 0 /\ q.project = FALSE
    BY SaveReadEffect, IdleFields DEF But, Fields
<1>2. q.at \in {"saved", "write"}
    BY SaveReadEffect
<1> HIDE DEF q
<1>3. Told(q) /\ q.at # "done"
    BY <1>1, <1>2 DEF Told, Choosing
<1> QED BY <1>1, <1>3, OneTells DEF q, Recorded

\* Every step tells the truth.
LEMMA TellingKept ==
    ASSUME SharedOK, Requests, Telling, [Next]_vars
    PROVE  Telling'
<1>1. local' = local
    BY SameMode
<1>2. CASE \E t \in Thread : Work(t)
    BY <1>1, <1>2, WorkTells
<1>3. CASE \E t \in Thread, u \in User, op \in Rest \cup Mcp : Begin(t, op, u)
    BY <1>1, <1>3, BegunTells
<1>4. CASE \E t \in Thread, u \in User, m \in Model, keep \in BOOLEAN : SaveRead(t, u, m, keep)
    BY <1>1, <1>4, SaveTells
<1>5. CASE req' = req
    BY <1>1, <1>5 DEF Telling, Recorded, RowOf, Failed, FailureRow, SuccessRow
<1>6. CASE (\E u \in User : Delete(u) \/ Leave(u)) \/ Tick \/ UNCHANGED vars
    BY <1>5, <1>6 DEF Delete, Leave, Tick, vars
<1> QED BY <1>2, <1>3, <1>4, <1>6 DEF Next

\* What is told is an invariant.
LEMMA TellingIsInvariant == Spec => [](IndInv /\ Telling)
<1>1. Init => Telling
  <2> SUFFICES ASSUME Init PROVE Telling
      OBVIOUS
  <2>1. \A t \in Thread : req[t] = Idle
      BY DEF Init
  <2> QED BY <2>1, IdleTells DEF Telling, Recorded
<1>2. IndInv /\ Telling /\ [Next]_vars => (IndInv /\ Telling)'
    BY NextInv, TellingKept DEF IndInv
<1> QED BY <1>1, <1>2, InitInv, PTL DEF Spec

\* The rows of the audit, counted.
LEMMA RowsAreCounted ==
    ASSUME NEW r
    PROVE  /\ Counted(FailureRow(r)) = {"failed"}
           /\ Counted(SuccessRow(r)) = IF r.pack.answerable THEN {"succeeded"} ELSE {"insufficient"}
<1>1. Counted(FailureRow(r)) = {"failed"}
  <2>1. FailureRow(r).answerable = "unknown" /\ FailureRow(r).degraded = TRUE
      BY DEF FailureRow
  <2> QED BY <2>1 DEF Counted
<1>2. PICK row : row = SuccessRow(r)
    OBVIOUS
<1>3. CASE r.pack.answerable
  <2>1. row.answerable = "yes"
      BY <1>2, <1>3 DEF SuccessRow
  <2>2. Counted(row) = {"succeeded"}
      BY <2>1 DEF Counted
  <2> QED BY <1>1, <1>2, <1>3, <2>2
<1>4. CASE ~r.pack.answerable
  <2>1. row.answerable = "no"
      BY <1>2, <1>4 DEF SuccessRow
  <2>2. Counted(row) = {"insufficient"}
      BY <2>1 DEF Counted
  <2> QED BY <1>1, <1>2, <1>4, <2>2
<1> QED BY <1>3, <1>4

\* A pack of the engine, or none yet.
LEMMA PacksAreTyped == ASSUME NEW r, Typed(r) PROVE r.pack \in Pack
<1>1. NoPack \in Pack
  <2>1. <<>> \in Seq(Evidence({"code", "test"})) /\ <<>> \in Seq(Evidence({"spec"}))
        /\ <<>> \in Seq({"F"} \X Nat)
      OBVIOUS
  <2> QED BY <2>1 DEF NoPack, Pack
<1> QED BY <1>1, QueryAssumption DEF Typed

\* record_query and record_query_error leave in the audit what the caller was told,
\* for any pack, any words of the model and any length that is kept.
THEOREM AuditIsTrue == Spec => []AuditTellsTruth
<1>1. ASSUME IndInv, Telling, NEW t \in Thread, Done(req[t]), req[t].op \in Rest, ~local,
             req[t].row # [at |-> "lost"]
      PROVE  LET r == req[t] IN
              /\ r.row # NoRow /\ Cardinality(Counted(r.row)) = 1
              /\ Failed(r) <=> Counted(r.row) = {"failed"}
              /\ r.row.text # NoText <=> r.status = "answered"
              /\ \A i \in 1 .. Len(r.row.text) : i <= StoreMax => r.row.text[i] = r.answer[i]
              /\ Len(r.answer) > StoreMax => r.row.text[Len(r.row.text)].kind = "cut"
              /\ r.status = "insufficient_evidence" => Counted(r.row) = {"insufficient"}
              /\ ~Failed(r) => /\ {r.row.evidence[i].id : i \in DOMAIN r.row.evidence}
                                   = AllowedIds(r.pack) \ {r.pack.flows[i] : i \in DOMAIN r.pack.flows}
                               /\ r.row.degraded = r.degraded
              /\ r.row.project => r.code # 404
  <2> DEFINE r == req[t]
  <2>1. Told(r) /\ r.pack \in Pack /\ r.project \in BOOLEAN
      BY <1>1, PacksAreTyped DEF Telling, IndInv, Requests, Sound, Typed
  <2>2. r.row = IF Failed(r) THEN FailureRow(r) ELSE SuccessRow(r)
      BY <1>1 DEF Telling, Recorded, RowOf, Done
  <2>3. \A c : Cardinality({c}) = 1
      BY FS_Singleton
  <2>4. r.answer \in Seq(Lines) /\ (r.answer # NoText <=> r.status = "answered")
    <3>1. <<>> \in Seq(Lines)
        OBVIOUS
    <3>2. CASE r.status = "answered"
        BY <2>1, <3>2 DEF Told, AnswerRests
    <3>3. CASE r.status # "answered"
      <4>1. r.answer = <<>>
          BY <2>1, <3>3 DEF Told, NoText
      <4> HIDE DEF r
      <4> QED BY <3>1, <3>3, <4>1 DEF NoText
    <3> QED BY <3>2, <3>3
  <2>5. AnswerAssumption
      BY AnswerAssumption
  <2> HIDE DEF r
  <2>6. CASE Failed(r)
    <3>1. r.row = FailureRow(r) /\ Counted(r.row) = {"failed"}
        BY <2>2, <2>6, RowsAreCounted
    <3>2. r.row.at = "row" /\ r.row.text = <<>> /\ r.row.project = r.project
        BY <3>1 DEF FailureRow, NoText
    <3>3. r.status \notin {"answered", "insufficient_evidence"} /\ r.answer = <<>>
        BY <2>1, <2>6 DEF Told, Failed, NoText
    <3>4. r.row # NoRow
        BY <3>2 DEF NoRow
    <3>5. ~(Len(r.answer) > StoreMax) /\ 1 .. Len(r.row.text) = {}
        BY <2>5, <3>2, <3>3 DEF AnswerAssumption
    <3>6. r.row.project => r.code # 404
        BY <2>1, <3>2 DEF Told
    <3>7. Cardinality(Counted(r.row)) = 1
        BY <2>3, <3>1
    <3> QED BY <2>6, <3>1, <3>2, <3>3, <3>4, <3>5, <3>6, <3>7 DEF NoText, r
  <2>7. CASE ~Failed(r)
    <3>1. r.row = SuccessRow(r)
        BY <2>2, <2>7
    <3>2. Counted(r.row) = IF r.pack.answerable THEN {"succeeded"} ELSE {"insufficient"}
        BY <3>1, RowsAreCounted
    <3>3. /\ r.row.at = "row" /\ r.row.text = TruncateAnswer(r.answer) /\ r.row.project = r.project
          /\ r.row.degraded = r.degraded /\ r.row.evidence = EvidenceMeta(r.pack)
        BY <3>1 DEF SuccessRow
    <3>4. r.row # NoRow
        BY <3>3 DEF NoRow
    <3>5. Cardinality(Counted(r.row)) = 1 /\ Counted(r.row) # {"failed"}
        BY <2>3, <3>2
    <3>6. PICK text, answer, meta : text = r.row.text /\ answer = r.answer /\ meta = r.row.evidence
        OBVIOUS
    <3>7. /\ text # NoText <=> answer # NoText
          /\ \A i \in 1 .. Len(text) : i <= StoreMax => text[i] = answer[i]
          /\ Len(answer) > StoreMax => text[Len(text)].kind = "cut"
      <4>1. answer \in Seq(Lines) /\ text = TruncateAnswer(answer)
          BY <2>4, <3>3, <3>6
      <4> QED BY <4>1, Truncated
    <3>8. {meta[i].id : i \in DOMAIN meta}
            = AllowedIds(r.pack) \ {r.pack.flows[i] : i \in DOMAIN r.pack.flows}
        BY <2>1, <3>3, <3>6, MetaNamesEvidence
    <3>9. r.status = "insufficient_evidence" => Counted(r.row) = {"insufficient"}
        BY <2>1, <3>2 DEF Told
    <3>10. r.row.project => r.code # 404
        BY <2>1, <3>3 DEF Told
    <3> QED BY <2>4, <2>7, <3>3, <3>4, <3>5, <3>6, <3>7, <3>8, <3>9, <3>10 DEF r
  <2> QED BY <2>6, <2>7
<1>2. IndInv /\ Telling => AuditTellsTruth
    BY <1>1 DEF AuditTellsTruth
<1> QED BY <1>2, TellingIsInvariant, PTL

\* verify_citations and build_evidence_block: an answer cites its own pack and says
\* what was taken out, whatever the pack and whatever the model wrote.
THEOREM AnswersRestOnEvidence == Spec => []AnswersGrounded
<1>1. ASSUME IndInv, Telling, NEW t \in Thread, req[t].posts > 0
      PROVE  /\ req[t].pack.answerable
             /\ ToSet(EvidenceBlock(req[t].pack)) = AllowedIds(req[t].pack)
  <2>1. Told(req[t]) /\ req[t].pack \in Pack
      BY <1>1, PacksAreTyped DEF Telling, IndInv, Requests, Sound
  <2> QED BY <1>1, <2>1, PromptShowsAllowed DEF Told
<1>2. ASSUME Telling, NEW t \in Thread, req[t].status = "answered"
      PROVE  Checked(req[t].draft, req[t].answer, AllowedIds(req[t].pack))
    BY <1>2 DEF Telling, Told, AnswerRests
<1>3. IndInv /\ Telling => AnswersGrounded
    BY <1>1, <1>2 DEF AnswersGrounded, Checked, Removed
<1> QED BY <1>3, TellingIsInvariant, PTL

================================================================================
