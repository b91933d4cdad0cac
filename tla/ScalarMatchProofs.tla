------------------------- MODULE ScalarMatchProofs -------------------------
(***************************************************************************)
(* Proof that the text terms of ScalarMatch hit exactly when the text      *)
(* satisfies them, for every needle, every text and every division of the  *)
(* text into runs and single bytes.                                        *)
(***************************************************************************)
EXTENDS ScalarMatch, SequenceTheorems, InductionLemmas

-----------------------------------------------------------------------------
(* Knuth-Morris-Pratt *)

(* the first k characters of the needle are the last k of the text *)
Fit(needle, k, text) ==
    /\ k <= Len(text)
    /\ \A j \in 1 .. k : needle[j] = text[Len(text) - k + j]

(* p is the longest proper part of the needle that fits *)
Longest(needle, p, text) ==
    /\ p \in 0 .. (Len(needle) - 1)
    /\ Fit(needle, p, text)
    /\ \A k \in 0 .. (Len(needle) - 1) : Fit(needle, k, text) => k <= p

(* the table holds the longest border of the first p characters, for p up to m *)
Borders(needle, failure, m) ==
    \A p \in 1 .. m : failure[p] < p /\ Longest(needle, failure[p], SubSeq(needle, 2, p))

(* Nothing always fits. *)
LEMMA FitNothing ==
    ASSUME NEW needle, NEW text \in Seq(Int)
    PROVE  Fit(needle, 0, text)
BY DEF Fit

(* One more character fits when it is the next of the needle. *)
LEMMA FitAppend ==
    ASSUME NEW needle, NEW text \in Seq(Int), NEW b \in Int, NEW k \in Nat
    PROVE  Fit(needle, k + 1, Append(text, b)) <=> Fit(needle, k, text) /\ needle[k + 1] = b
<1> DEFINE more == Append(text, b)
           n == Len(text)
<1>1. /\ n \in Nat /\ Len(more) = n + 1 /\ more[n + 1] = b
      /\ \A i \in 1 .. n : more[i] = text[i]
  BY AppendProperties
<1> HIDE DEF more
<1>2. ASSUME Fit(needle, k + 1, more) PROVE Fit(needle, k, text) /\ needle[k + 1] = b
  <2>1. k <= n /\ \A j \in 1 .. (k + 1) : needle[j] = more[(n + 1) - (k + 1) + j]
    BY <1>1, <1>2 DEF Fit
  <2>2. needle[k + 1] = b
    BY <1>1, <2>1
  <2>3. ASSUME NEW j \in 1 .. k PROVE needle[j] = text[n - k + j]
    <3>1. j \in 1 .. (k + 1) /\ (n + 1) - (k + 1) + j = n - k + j /\ n - k + j \in 1 .. n
      BY <1>1, <2>1
    <3> QED BY <1>1, <2>1, <3>1
  <2> QED BY <2>1, <2>2, <2>3 DEF Fit
<1>3. ASSUME Fit(needle, k, text), needle[k + 1] = b PROVE Fit(needle, k + 1, more)
  <2>1. k <= n /\ \A j \in 1 .. k : needle[j] = text[n - k + j]
    BY <1>3 DEF Fit
  <2>2. ASSUME NEW j \in 1 .. (k + 1) PROVE needle[j] = more[(n + 1) - (k + 1) + j]
    <3>1. (n + 1) - (k + 1) + j = n - k + j
      BY <1>1
    <3>2. CASE j = k + 1
      BY <1>1, <1>3, <3>1, <3>2
    <3>3. CASE j \in 1 .. k
      <4>1. n - k + j \in 1 .. n
        BY <1>1, <2>1, <3>3
      <4> QED BY <1>1, <2>1, <3>1, <3>3, <4>1
    <3> QED BY <3>2, <3>3
  <2> QED BY <1>1, <2>1, <2>2 DEF Fit
<1> QED BY <1>2, <1>3 DEF more

(* Below a part that fits, a part fits when it is a border of that part. *)
LEMMA FitBelow ==
    ASSUME NEW needle \in Seq(Int), NEW text \in Seq(Int),
           NEW p \in 1 .. Len(needle), NEW g \in 0 .. (p - 1), Fit(needle, p, text)
    PROVE  Fit(needle, g, text) <=> Fit(needle, g, SubSeq(needle, 2, p))
<1> DEFINE n == Len(text)
           part == SubSeq(needle, 2, p)
<1>1. Len(needle) \in Nat /\ n \in Nat
  OBVIOUS
<1>2. Len(part) = p - 1 /\ \A i \in 1 .. (p - 1) : part[i] = needle[i + 1]
  <2>1. \A i \in 2 .. p : needle[i] \in Int
    BY <1>1
  <2>2. /\ Len(part) = IF 2 <= p THEN p - 2 + 1 ELSE 0
        /\ \A i \in 1 .. (p - 2 + 1) : part[i] = needle[2 + i - 1]
    BY <2>1, SubSeqProperties
  <2> QED BY <2>2
<1>3. p <= n /\ \A j \in 1 .. p : needle[j] = text[n - p + j]
  BY DEF Fit
<1>4. ASSUME NEW j \in 1 .. g
      PROVE  text[n - g + j] = part[(p - 1) - g + j]
  <2>1. /\ p - g + j \in 1 .. p /\ n - p + (p - g + j) = n - g + j
        /\ (p - 1) - g + j \in 1 .. (p - 1) /\ (p - 1) - g + j + 1 = p - g + j
    BY <1>1, <1>3
  <2> QED BY <1>2, <1>3, <2>1
<1> HIDE DEF part
<1>5. Fit(needle, g, text) <=> Fit(needle, g, part)
  <2>1. Len(text) - g = n - g /\ Len(part) - g = (p - 1) - g /\ g <= n /\ g <= Len(part)
    BY <1>1, <1>2, <1>3
  <2> QED BY <1>4, <2>1, Zenon DEF Fit
<1> QED BY <1>5 DEF part

(* one unfolding of the chain that Retreat follows *)
Chain(needle, failure, b, f, p) ==
    IF p = 0 \/ b = needle[p + 1] THEN p ELSE f[failure[p]]

Falls(failure, pos) == \A p \in 1 .. pos : failure[p] \in 0 .. (p - 1)

IsChain(needle, failure, pos, b, f) ==
    f = [p \in 0 .. pos |-> Chain(needle, failure, b, f, p)]

(* The chain of borders that Retreat follows has an end. *)
LEMMA ChainExists ==
    ASSUME NEW needle, NEW failure, NEW pos \in Nat, NEW b, Falls(failure, pos)
    PROVE  \E f : IsChain(needle, failure, pos, b, f)
<1> DEFINE T == {m \in 0 .. pos : \E f : \A p \in 0 .. m : f[p] = Chain(needle, failure, b, f, p)}
<1>1. 0 \in T
  <2>1. PICK f : f = [p \in 0 .. 0 |-> 0]
    OBVIOUS
  <2>2. \A p \in 0 .. 0 : f[p] = Chain(needle, failure, b, f, p)
    BY <2>1 DEF Chain
  <2> QED BY <2>2
<1>2. ASSUME NEW m \in 1 .. pos, m - 1 \in T PROVE m \in T
  <2>1. PICK g : \A p \in 0 .. (m - 1) : g[p] = Chain(needle, failure, b, g, p)
    BY <1>2
  <2>2. PICK f : f = [p \in 0 .. m |-> IF p = m THEN Chain(needle, failure, b, g, m) ELSE g[p]]
    OBVIOUS
  <2>3. f[m] = Chain(needle, failure, b, g, m) /\ \A p \in 0 .. (m - 1) : f[p] = g[p]
    BY <2>2
  <2>4. ASSUME NEW p \in 0 .. m PROVE f[p] = Chain(needle, failure, b, f, p)
    <3>1. p # 0 => failure[p] \in 0 .. (m - 1)
      BY DEF Falls
    <3>2. Chain(needle, failure, b, f, p) = Chain(needle, failure, b, g, p)
      BY <2>3, <3>1, Zenon DEF Chain
    <3>3. p = m \/ p \in 0 .. (m - 1)
      OBVIOUS
    <3> QED BY <2>1, <2>3, <3>2, <3>3, Zenon
  <2>5. m \in 0 .. pos
    OBVIOUS
  <2> QED BY <2>4, <2>5, Zenon
<1>3. pos \in T
  <2> HIDE DEF T
  <2> QED BY <1>1, <1>2, IntervalInduction
<1>4. PICK g : \A p \in 0 .. pos : g[p] = Chain(needle, failure, b, g, p)
  BY <1>3
<1>5. PICK f : f = [p \in 0 .. pos |-> g[p]]
  OBVIOUS
<1>6. ASSUME NEW p \in 0 .. pos PROVE f[p] = Chain(needle, failure, b, f, p)
  <2>1. p # 0 => failure[p] \in 0 .. pos
    BY DEF Falls
  <2>2. \A q \in 0 .. pos : f[q] = g[q]
    BY <1>5
  <2> QED BY <1>4, <2>1, <2>2, Zenon DEF Chain
<1>7. f = [p \in 0 .. pos |-> Chain(needle, failure, b, f, p)]
  <2>1. f = [p \in 0 .. pos |-> f[p]]
    BY <1>5, Zenon
  <2> QED BY <1>6, <2>1, Zenon
<1> QED BY <1>7, Zenon DEF IsChain

(* Retreat finds the longest part that fits and that b extends, or nothing. *)
LEMMA RetreatFacts ==
    ASSUME NEW needle \in Seq(Int), NEW text \in Seq(Int), NEW b \in Int,
           NEW failure, NEW pos \in 0 .. (Len(needle) - 1),
           Fit(needle, pos, text), Borders(needle, failure, pos)
    PROVE  \E q \in 0 .. pos :
             /\ q = Retreat(needle, failure, pos, b)
             /\ Fit(needle, q, text)
             /\ q = 0 \/ b = needle[q + 1]
             /\ \A k \in 0 .. pos : Fit(needle, k, text) /\ b = needle[k + 1] => k <= q
<1> DEFINE Good(p, q) == /\ q \in 0 .. p /\ Fit(needle, q, text)
                         /\ q = 0 \/ b = needle[q + 1]
                         /\ \A k \in 0 .. p :
                              Fit(needle, k, text) /\ b = needle[k + 1] => k <= q
<1>0. pos \in Nat /\ Len(needle) \in Nat
  OBVIOUS
<1>1. \A p \in 1 .. pos : failure[p] \in 0 .. (p - 1)
  BY <1>0 DEF Borders, Longest
<1>2. \E f : IsChain(needle, failure, pos, b, f)
  <2>1. Falls(failure, pos)
    BY <1>1, Zenon DEF Falls
  <2> QED BY <1>0, <2>1, ChainExists, Zenon
<1>3. PICK r : r = CHOOSE f : IsChain(needle, failure, pos, b, f)
  OBVIOUS
<1>4. IsChain(needle, failure, pos, b, r)
  BY <1>2, <1>3, Zenon
<1>5. Retreat(needle, failure, pos, b) = r[pos]
  BY <1>3 DEF Retreat, IsChain, Chain
<1>6. \A p \in 0 .. pos : r[p] = IF p = 0 \/ b = needle[p + 1] THEN p ELSE r[failure[p]]
  BY <1>4 DEF IsChain, Chain
<1> DEFINE T == {m \in 0 .. pos : \A p \in 0 .. m : Fit(needle, p, text) => Good(p, r[p])}
<1>7. 0 \in T
  <2>1. r[0] = 0
    BY <1>0, <1>6
  <2>2. Good(0, 0)
    BY FitNothing
  <2> QED BY <1>0, <2>1, <2>2
<1>8. ASSUME NEW m \in 1 .. pos, m - 1 \in T PROVE m \in T
  <2>1. \A p \in 0 .. (m - 1) : Fit(needle, p, text) => Good(p, r[p])
    BY <1>8
  <2>2. ASSUME Fit(needle, m, text) PROVE Good(m, r[m])
    <3>1. CASE b = needle[m + 1]
      <4>1. r[m] = m
        BY <1>6, <3>1
      <4>2. Good(m, m)
        BY <2>2, <3>1
      <4> QED BY <4>1, <4>2
    <3>2. CASE b # needle[m + 1]
      <4>1. PICK g \in 0 .. (m - 1) : g = failure[m]
        BY <1>1
      <4>2. r[m] = r[g]
        BY <1>6, <3>2, <4>1
      <4>3. m \in 1 .. Len(needle)
        BY <1>0
      <4>4. \A k \in 0 .. (m - 1) :
              Fit(needle, k, text) <=> Fit(needle, k, SubSeq(needle, 2, m))
        BY <2>2, <4>3, FitBelow
      <4>5. Longest(needle, g, SubSeq(needle, 2, m))
        BY <4>1 DEF Borders
      <4>6. Fit(needle, g, text)
        BY <4>4, <4>5 DEF Longest
      <4>7. Good(g, r[g])
        BY <2>1, <4>6
      <4>8. ASSUME NEW k \in 0 .. m, Fit(needle, k, text), b = needle[k + 1]
            PROVE  k <= r[g]
        <5>1. k \in 0 .. (m - 1)
          BY <3>2, <4>8
        <5>2. Fit(needle, k, SubSeq(needle, 2, m)) /\ k \in 0 .. (Len(needle) - 1)
          BY <1>0, <4>4, <4>8, <5>1
        <5>3. k <= g
          BY <4>5, <5>2 DEF Longest
        <5> QED BY <4>7, <4>8, <5>1, <5>3
      <4>9. r[g] \in 0 .. m
        BY <4>7
      <4> QED BY <4>2, <4>7, <4>8, <4>9
    <3> QED BY <3>1, <3>2
  <2>3. ASSUME NEW p \in 0 .. m, Fit(needle, p, text) PROVE Good(p, r[p])
    <3>1. p = m \/ p \in 0 .. (m - 1)
      OBVIOUS
    <3> HIDE DEF Good
    <3> QED BY <2>1, <2>2, <2>3, <3>1
  <2>4. m \in 0 .. pos
    OBVIOUS
  <2> HIDE DEF Good
  <2> QED BY <2>3, <2>4
<1>9. pos \in T
  <2>1. pos \in 0 .. pos
    BY <1>0
  <2> HIDE DEF T
  <2>2. 0 .. pos \subseteq T
    BY <1>0, <1>7, <1>8, IntervalInduction, Zenon
  <2> QED BY <2>1, <2>2
<1>10. Good(pos, r[pos])
  BY <1>0, <1>9
<1> QED BY <1>5, <1>10

(* Advance finds the longest part of the needle that fits one byte later. *)
LEMMA AdvanceFacts ==
    ASSUME NEW needle \in Seq(Int), NEW text \in Seq(Int), NEW b \in Int,
           NEW failure, NEW pos, Longest(needle, pos, text),
           Borders(needle, failure, pos)
    PROVE  \E q \in 0 .. (pos + 1) :
             /\ q = Advance(needle, failure, pos, b)
             /\ Fit(needle, q, Append(text, b))
             /\ \A k \in 0 .. Len(needle) : Fit(needle, k, Append(text, b)) => k <= q
<1>0. pos \in 0 .. (Len(needle) - 1) /\ Fit(needle, pos, text) /\ Len(needle) \in Nat
  BY DEF Longest
<1>1. PICK p \in 0 .. pos :
        /\ p = Retreat(needle, failure, pos, b)
        /\ Fit(needle, p, text)
        /\ p = 0 \/ b = needle[p + 1]
        /\ \A k \in 0 .. pos : Fit(needle, k, text) /\ b = needle[k + 1] => k <= p
  BY <1>0, RetreatFacts
<1>2. PICK q : q = IF b = needle[p + 1] THEN p + 1 ELSE p
  OBVIOUS
<1>3. q = Advance(needle, failure, pos, b)
  BY <1>1, <1>2 DEF Advance
<1>4. q \in 0 .. (pos + 1)
  BY <1>0, <1>2
<1>5. Fit(needle, q, Append(text, b))
  <2>1. CASE b = needle[p + 1]
    <3>1. p \in Nat /\ q = p + 1
      BY <1>0, <1>2, <2>1
    <3>2. Fit(needle, p + 1, Append(text, b))
      BY <1>1, <2>1, <3>1, FitAppend
    <3> QED BY <3>1, <3>2
  <2>2. CASE b # needle[p + 1]
    <3>1. q = 0
      BY <1>1, <1>2, <2>2
    <3> QED BY <3>1, FitNothing, AppendProperties
  <2> QED BY <2>1, <2>2
<1>6. ASSUME NEW k \in 0 .. Len(needle), Fit(needle, k, Append(text, b)) PROVE k <= q
  <2>1. CASE k = 0
    BY <1>4, <2>1
  <2>2. CASE k # 0
    <3>1. PICK j \in 0 .. (Len(needle) - 1) : k = j + 1
      BY <1>0, <2>2
    <3>2. j \in Nat
      BY <1>0
    <3>3. Fit(needle, j, text) /\ needle[j + 1] = b
      BY <1>6, <3>1, <3>2, FitAppend
    <3>4. j <= pos
      BY <3>3 DEF Longest
    <3>5. j <= p
      BY <1>0, <1>1, <3>1, <3>3, <3>4
    <3>6. b = needle[p + 1]
      <4>1. CASE p = 0
        BY <1>0, <3>1, <3>3, <3>5, <4>1
      <4> QED BY <1>1, <4>1
    <3> QED BY <1>2, <3>1, <3>5, <3>6
  <2> QED BY <2>1, <2>2
<1> QED BY <1>3, <1>4, <1>5, <1>6

(* one unfolding of ContainsFailure *)
TableStep(needle, f, i) ==
    IF i = 0 THEN << >>
    ELSE Append(f[i - 1],
                IF i = 1 THEN 0
                ELSE Advance(needle, f[i - 1], f[i - 1][i - 1], needle[i]))

IsTable(needle, f) == f = [i \in 0 .. Len(needle) |-> TableStep(needle, f, i)]

(* The table can be filled from the front. *)
LEMMA TableExists ==
    ASSUME NEW needle \in Seq(Int)
    PROVE  \E f : IsTable(needle, f)
<1> DEFINE n == Len(needle)
           T == {m \in 0 .. n : \E f : f = [k \in 0 .. m |-> TableStep(needle, f, k)]}
<1>0. n \in Nat
  OBVIOUS
<1>1. 0 \in T
  <2>1. PICK f : f = [k \in 0 .. 0 |-> << >>]
    OBVIOUS
  <2>2. f = [k \in 0 .. 0 |-> TableStep(needle, f, k)]
    BY <2>1 DEF TableStep
  <2> QED BY <1>0, <2>2
<1>2. ASSUME NEW m \in 1 .. n, m - 1 \in T PROVE m \in T
  <2>1. PICK g : g = [k \in 0 .. (m - 1) |-> TableStep(needle, g, k)]
    BY <1>2
  <2>2. PICK f : f = [k \in 0 .. m |-> IF k = m THEN TableStep(needle, g, m) ELSE g[k]]
    OBVIOUS
  <2>3. f[m] = TableStep(needle, g, m) /\ \A k \in 0 .. (m - 1) : f[k] = g[k]
    BY <2>2
  <2>4. ASSUME NEW k \in 0 .. m PROVE f[k] = TableStep(needle, f, k)
    <3>1. k # 0 => k - 1 \in 0 .. (m - 1)
      OBVIOUS
    <3>2. TableStep(needle, f, k) = TableStep(needle, g, k)
      BY <2>3, <3>1, Zenon DEF TableStep
    <3>3. k = m \/ k \in 0 .. (m - 1)
      OBVIOUS
    <3>4. \A j \in 0 .. (m - 1) : g[j] = TableStep(needle, g, j)
      BY <2>1
    <3> QED BY <2>3, <3>2, <3>3, <3>4, Zenon
  <2>5. f = [k \in 0 .. m |-> TableStep(needle, f, k)]
    <3>1. f = [k \in 0 .. m |-> f[k]]
      BY <2>2, Zenon
    <3> QED BY <2>4, <3>1, Zenon
  <2>6. m \in 0 .. n
    OBVIOUS
  <2> QED BY <2>5, <2>6, Zenon
<1>3. n \in T
  <2>1. n \in 0 .. n
    BY <1>0
  <2> HIDE DEF T, n
  <2>2. 0 .. n \subseteq T
    BY <1>0, <1>1, <1>2, IntervalInduction, Zenon
  <2> QED BY <2>1, <2>2
<1> QED BY <1>3, Zenon DEF IsTable

(* The table is the table of longest borders. *)
LEMMA FailureFacts ==
    ASSUME NEW needle \in Seq(Int)
    PROVE  Borders(needle, ContainsFailure(needle), Len(needle))
<1> DEFINE n == Len(needle)
<1>0. n \in Nat
  OBVIOUS
<1>1. PICK r : r = CHOOSE f : IsTable(needle, f)
  OBVIOUS
<1>2. IsTable(needle, r)
  BY <1>1, TableExists, Zenon
<1>3. ContainsFailure(needle) = r[n]
  BY <1>1 DEF ContainsFailure, IsTable, TableStep
<1>4. \A i \in 0 .. n : r[i] = TableStep(needle, r, i)
  BY <1>2 DEF IsTable
<1> DEFINE T == {i \in 0 .. n : /\ r[i] \in Seq(Int) /\ Len(r[i]) = i
                                /\ Borders(needle, r[i], i)}
<1>5. 0 \in T
  <2>1. 0 \in 0 .. n
    BY <1>0
  <2>2. r[0] = << >>
    BY <1>4, <2>1 DEF TableStep
  <2>3. Borders(needle, << >>, 0)
    BY DEF Borders
  <2>4. << >> \in Seq(Int) /\ Len(<< >>) = 0
    BY EmptySeq
  <2> QED BY <2>1, <2>2, <2>3, <2>4, Zenon
<1>6. ASSUME NEW i \in 1 .. n, i - 1 \in T PROVE i \in T
  <2>1. PICK t \in Seq(Int) : t = r[i - 1] /\ Len(t) = i - 1 /\ Borders(needle, t, i - 1)
    BY <1>6
  <2>2. PICK q : q = IF i = 1 THEN 0 ELSE Advance(needle, t, t[i - 1], needle[i])
    OBVIOUS
  <2>3. i \in 0 .. n /\ i # 0
    BY <1>0
  <2>4. r[i] = Append(t, q)
    BY <1>4, <2>1, <2>2, <2>3, Zenon DEF TableStep
  <2>5. q \in 0 .. (i - 1) /\ Longest(needle, q, SubSeq(needle, 2, i))
    <3>1. CASE i = 1
      <4>1. SubSeq(needle, 2, i) = << >>
        BY <3>1, SubSeqEmpty
      <4>2. q = 0
        BY <2>2, <3>1
      <4>3. Fit(needle, 0, << >>)
        BY FitNothing, EmptySeq
      <4>4. ASSUME NEW k \in 0 .. (Len(needle) - 1), Fit(needle, k, << >>) PROVE k <= 0
        BY <4>4 DEF Fit
      <4>5. Longest(needle, 0, << >>)
        BY <1>0, <4>3, <4>4 DEF Longest
      <4>6. 0 \in 0 .. (i - 1)
        BY <2>3, <3>1
      <4> QED BY <4>1, <4>2, <4>5, <4>6, Zenon
    <3>2. CASE i # 1
      <4> DEFINE part == SubSeq(needle, 2, i - 1)
                 pos == t[i - 1]
      <4>1. i - 1 \in 1 .. (i - 1) /\ i - 1 \in 1 .. n /\ needle[i] \in Int
        BY <1>0, <3>2
      <4>2. part \in Seq(Int)
        <5>1. \A j \in 2 .. (i - 1) : needle[j] \in Int
          BY <1>0
        <5> QED BY <5>1, SubSeqProperties
      <4>3. Append(part, needle[i]) = SubSeq(needle, 2, i)
        <5>1. SubSeq(needle, 2, i) = SubSeq(needle, 2, i - 1) \o <<needle[i]>>
          <6>1. 2 \in 1 .. Len(needle) /\ i \in 2 .. Len(needle)
            BY <1>0, <3>2
          <6> QED BY <6>1, SubSeqRecursiveSecond
        <5> QED BY <4>1, <4>2, <5>1, AppendIsConcat
      <4>4. pos < i - 1 /\ Longest(needle, pos, part)
        BY <2>1, <4>1 DEF Borders
      <4>5. pos \in 0 .. (n - 1) /\ pos \in 0 .. (i - 2)
        BY <1>0, <4>4 DEF Longest
      <4>6. Borders(needle, t, pos)
        <5> HIDE DEF pos
        <5>1. \A k \in 1 .. pos : k \in 1 .. (i - 1)
          BY <1>0, <4>5
        <5> QED BY <2>1, <5>1, Zenon DEF Borders
      <4> HIDE DEF part, pos
      <4>7. PICK p \in 0 .. (pos + 1) :
              /\ p = Advance(needle, t, pos, needle[i])
              /\ Fit(needle, p, Append(part, needle[i]))
              /\ \A k \in 0 .. n : Fit(needle, k, Append(part, needle[i])) => k <= p
        BY <4>1, <4>2, <4>4, <4>6, AdvanceFacts
      <4>8. p = q
        BY <2>2, <3>2, <4>7 DEF pos
      <4>9. p \in 0 .. (i - 1) /\ p \in 0 .. (n - 1)
        BY <1>0, <4>5, <4>7
      <4>10. Longest(needle, p, Append(part, needle[i]))
        BY <1>0, <4>7, <4>9 DEF Longest
      <4> QED BY <4>3, <4>8, <4>9, <4>10
    <3> QED BY <3>1, <3>2
  <2>6. /\ r[i] \in Seq(Int) /\ Len(r[i]) = i /\ r[i][i] = q
        /\ \A p \in 1 .. (i - 1) : r[i][p] = t[p]
    <3>1. q \in Int
      BY <2>5
    <3> QED BY <2>1, <2>4, <3>1, AppendProperties
  <2>7. Borders(needle, r[i], i)
    <3> SUFFICES ASSUME NEW p \in 1 .. i
                 PROVE  r[i][p] < p /\ Longest(needle, r[i][p], SubSeq(needle, 2, p))
      BY DEF Borders
    <3>1. CASE p = i
      BY <2>5, <2>6, <3>1
    <3>2. CASE p \in 1 .. (i - 1)
      BY <2>1, <2>6, <3>2 DEF Borders
    <3> QED BY <3>1, <3>2
  <2> QED BY <2>3, <2>6, <2>7
<1>7. n \in T
  <2>1. n \in 0 .. n
    BY <1>0
  <2> HIDE DEF T, n
  <2>2. 0 .. n \subseteq T
    BY <1>0, <1>5, <1>6, IntervalInduction, Zenon
  <2> QED BY <2>1, <2>2
<1> QED BY <1>3, <1>7

(* One byte of the automaton: where it stands and whether the needle ends. *)
LEMMA StepFacts ==
    ASSUME NEW needle \in Seq(Int), needle # << >>, NEW text \in Seq(Int), NEW b \in Int,
           NEW pos, Longest(needle, pos, text)
    PROVE  \E q, found :
             /\ ContainsStep(needle, pos, b) = [pos |-> q, found |-> found]
             /\ Longest(needle, q, Append(text, b))
             /\ found \in BOOLEAN
             /\ found <=> Fit(needle, Len(needle), Append(text, b))
<1> DEFINE n == Len(needle)
           more == Append(text, b)
           failure == ContainsFailure(needle)
<1>0. n \in Nat \ {0} /\ more \in Seq(Int) /\ pos \in 0 .. (n - 1)
  BY EmptySeq, AppendProperties DEF Longest
<1>1. Borders(needle, failure, n)
  BY FailureFacts
<1>2. Borders(needle, failure, pos)
  BY <1>0, <1>1 DEF Borders
<1> HIDE DEF failure, more
<1>3. PICK q \in 0 .. (pos + 1) :
        /\ q = Advance(needle, failure, pos, b)
        /\ Fit(needle, q, more)
        /\ \A k \in 0 .. n : Fit(needle, k, more) => k <= q
  BY <1>2, AdvanceFacts DEF more
<1>4. CASE q = n
  <2>1. ContainsStep(needle, pos, b) = [pos |-> failure[n], found |-> TRUE]
    BY <1>3, <1>4 DEF ContainsStep, failure
  <2>2. PICK p : p = failure[n] /\ p < n /\ Longest(needle, p, SubSeq(needle, 2, n))
    BY <1>0, <1>1 DEF Borders
  <2>3. p \in 0 .. (n - 1) /\ n \in 1 .. n
    BY <1>0, <2>2 DEF Longest
  <2>4. \A k \in 0 .. (n - 1) : Fit(needle, k, more) <=> Fit(needle, k, SubSeq(needle, 2, n))
    BY <1>0, <1>3, <1>4, <2>3, FitBelow
  <2>5. Longest(needle, p, more)
    BY <2>2, <2>3, <2>4 DEF Longest
  <2>6. TRUE <=> Fit(needle, Len(needle), more)
    BY <1>3, <1>4
  <2> QED BY <2>1, <2>2, <2>5, <2>6 DEF more
<1>5. CASE q # n
  <2>1. ContainsStep(needle, pos, b) = [pos |-> q, found |-> FALSE]
    BY <1>3, <1>5 DEF ContainsStep, failure
  <2>2. q \in 0 .. (n - 1)
    BY <1>0, <1>3, <1>5
  <2>3. Longest(needle, q, more)
    BY <1>0, <1>3, <2>2 DEF Longest
  <2>4. FALSE <=> Fit(needle, Len(needle), more)
    <3>1. n \in 0 .. n
      BY <1>0
    <3>2. ~(n <= q)
      BY <1>0, <2>2
    <3> QED BY <1>3, <3>1, <3>2, Zenon
  <2> QED BY <2>1, <2>3, <2>4 DEF more
<1> QED BY <1>4, <1>5

(* A needle that ends in the text ends in a part of it or with its last byte. *)
LEMMA SubstringAppend ==
    ASSUME NEW needle \in Seq(Int), NEW text \in Seq(Int), NEW b \in Int
    PROVE  Substring(needle, Append(text, b)) <=>
             Substring(needle, text) \/ Fit(needle, Len(needle), Append(text, b))
<1> DEFINE n == Len(needle)
           len == Len(text)
           more == Append(text, b)
           Here(t, k) == \A j \in 1 .. n : t[k + j] = needle[j]
<1>0. n \in Nat /\ len \in Nat /\ more \in Seq(Int) /\ Len(more) = len + 1
  BY AppendProperties
<1>1. ASSUME NEW t \in Seq(Int)
      PROVE  Substring(needle, t) <=> \E k \in 0 .. (Len(t) - n) : Here(t, k)
  <2>1. ASSUME NEW k \in 0 .. (Len(t) - n)
        PROVE  SubSeq(t, k + 1, k + n) = needle <=> Here(t, k)
    <3> DEFINE part == SubSeq(t, k + 1, k + n)
    <3>0. Len(t) \in Nat /\ k \in Nat
      OBVIOUS
    <3>1. \A i \in (k + 1) .. (k + n) : t[i] \in Int
      BY <1>0, <3>0
    <3>2. /\ part \in Seq(Int) /\ Len(part) = n
          /\ \A i \in 1 .. n : part[i] = t[k + i]
      <4>1. /\ part \in Seq(Int)
            /\ Len(part) = IF k + 1 <= k + n THEN (k + n) - (k + 1) + 1 ELSE 0
            /\ \A i \in 1 .. ((k + n) - (k + 1) + 1) : part[i] = t[(k + 1) + i - 1]
        BY <1>0, <3>0, <3>1, SubSeqProperties
      <4> HIDE DEF part
      <4> QED BY <1>0, <3>0, <4>1
    <3> HIDE DEF part
    <3>3. ASSUME Here(t, k) PROVE part = needle
      BY <3>2, <3>3, SeqEqual
    <3>4. ASSUME part = needle PROVE Here(t, k)
      BY <3>2, <3>4
    <3> QED BY <3>3, <3>4 DEF part
  <2> HIDE DEF Here
  <2> QED BY <2>1, Zenon DEF Substring
<1>2. ASSUME NEW k \in 0 .. (len - n) PROVE Here(more, k) <=> Here(text, k)
  <2>1. \A i \in 1 .. len : more[i] = text[i]
    BY AppendProperties
  <2>2. \A j \in 1 .. n : k + j \in 1 .. len
    BY <1>0
  <2> HIDE DEF more, len, n
  <2> QED BY <2>1, <2>2, Zenon
<1>3. Fit(needle, n, more) <=> (len + 1) - n \in 0 .. ((len + 1) - n) /\ Here(more, (len + 1) - n)
  <2> HIDE DEF more
  <2> QED BY <1>0 DEF Fit
<1> HIDE DEF more, Here, len, n
<1>4. /\ \A k \in 0 .. (len - n) : k \in 0 .. ((len + 1) - n)
      /\ \A k \in 0 .. ((len + 1) - n) : k \in 0 .. (len - n) \/ k = (len + 1) - n
  BY <1>0
<1>5. Substring(needle, more) <=> \E k \in 0 .. ((len + 1) - n) : Here(more, k)
  BY <1>0, <1>1
<1>6. Substring(needle, text) <=> \E k \in 0 .. (len - n) : Here(text, k)
  BY <1>0, <1>1 DEF len
<1>7. Substring(needle, more) <=> Substring(needle, text) \/ Fit(needle, n, more)
  BY <1>2, <1>3, <1>4, <1>5, <1>6, Zenon
<1> QED BY <1>7 DEF more, n

-----------------------------------------------------------------------------
(* The state of one term *)

IsState(s) == s \in [pos : Nat, failed : BOOLEAN, found : BOOLEAN]

(* a search: where the automaton stands and what it has found *)
Searching(value, s, text) ==
    /\ IsState(s)
    /\ ~s.failed
    /\ value = << >> => s.pos = 0
    /\ value # << >> => /\ Longest(value, s.pos, text)
                        /\ s.found <=> Substring(value, text)

(* what has come of the text is the value's first part; after an open value  *)
(* anything may follow                                                       *)
Agrees(value, open, text) ==
    /\ \A j \in 1 .. Len(value) : j <= Len(text) => value[j] = text[j]
    /\ open \/ Len(text) <= Len(value)

(* a comparison: it has failed, or stands where the text or the value ends *)
Comparing(value, s, open, text) ==
    /\ IsState(s)
    /\ ~s.found
    /\ ~s.failed <=> Agrees(value, open, text)
    /\ ~s.failed => s.pos = IF Len(text) <= Len(value) THEN Len(text) ELSE Len(value)

(* A record is a state. *)
LEMMA StateRecord ==
    ASSUME NEW p \in Nat, NEW f \in BOOLEAN, NEW g \in BOOLEAN
    PROVE  IsState([pos |-> p, failed |-> f, found |-> g])
BY DEF IsState

(* What a step changes of a state. *)
LEMMA StateExcept ==
    ASSUME NEW s, IsState(s), NEW p \in Nat, NEW f \in BOOLEAN, NEW g \in BOOLEAN
    PROVE  /\ s = [pos |-> s.pos, failed |-> s.failed, found |-> s.found]
           /\ s.pos \in Nat /\ s.failed \in BOOLEAN /\ s.found \in BOOLEAN
           /\ [s EXCEPT !.found = g] = [pos |-> s.pos, failed |-> s.failed, found |-> g]
           /\ [s EXCEPT !.failed = f] = [pos |-> s.pos, failed |-> f, found |-> s.found]
           /\ [s EXCEPT !.pos = p] = [pos |-> p, failed |-> s.failed, found |-> s.found]
<1>1. s \in [pos : Nat, failed : BOOLEAN, found : BOOLEAN]
  BY DEF IsState
<1>2. s = [pos |-> s.pos, failed |-> s.failed, found |-> s.found]
  BY <1>1
<1>3. s.pos \in Nat /\ s.failed \in BOOLEAN /\ s.found \in BOOLEAN
  BY <1>1
<1>4. [s EXCEPT !.found = g] = [pos |-> s.pos, failed |-> s.failed, found |-> g]
  BY <1>1
<1>5. [s EXCEPT !.failed = f] = [pos |-> s.pos, failed |-> f, found |-> s.found]
  BY <1>1
<1>6. [s EXCEPT !.pos = p] = [pos |-> p, failed |-> s.failed, found |-> s.found]
  BY <1>1
<1> QED BY <1>2, <1>3, <1>4, <1>5, <1>6

(* A byte for a search. *)
LEMMA SearchByte ==
    ASSUME NEW value \in Seq(Int), NEW text \in Seq(Int), NEW b \in Int, NEW s,
           Searching(value, s, text)
    PROVE  Searching(value, ContainsByte(value, s, b), Append(text, b))
<1> DEFINE t == ContainsByte(value, s, b)
<1>1. /\ s = [pos |-> s.pos, failed |-> s.failed, found |-> s.found]
      /\ s.failed \in BOOLEAN /\ s.found \in BOOLEAN /\ ~s.failed
  BY StateExcept DEF Searching
<1>2. CASE value = << >>
  <2>1. t = [s EXCEPT !.found = TRUE]
    BY <1>2 DEF ContainsByte
  <2>2. t = [pos |-> s.pos, failed |-> s.failed, found |-> TRUE]
    BY <1>1, <2>1
  <2>3. s.pos = 0
    BY <1>2 DEF Searching
  <2> HIDE DEF t
  <2>4. Searching(value, t, Append(text, b))
    BY <1>1, <1>2, <2>2, <2>3 DEF Searching, IsState
  <2> QED BY <2>4 DEF t
<1>3. CASE value # << >>
  <2>1. Longest(value, s.pos, text) /\ (s.found <=> Substring(value, text))
    BY <1>3 DEF Searching
  <2>2. PICK q, found :
          /\ ContainsStep(value, s.pos, b) = [pos |-> q, found |-> found]
          /\ Longest(value, q, Append(text, b))
          /\ found \in BOOLEAN
          /\ found <=> Fit(value, Len(value), Append(text, b))
    BY <1>3, <2>1, StepFacts
  <2>3. PICK step : step = ContainsStep(value, s.pos, b)
    OBVIOUS
  <2>4. t = [pos |-> step.pos, failed |-> s.failed, found |-> s.found \/ step.found]
    BY <1>3, <2>3, Zenon DEF ContainsByte
  <2>5. step.pos = q /\ step.found = found
    BY <2>2, <2>3
  <2>6. t = [pos |-> q, failed |-> s.failed, found |-> s.found \/ found]
    BY <1>1, <2>4, <2>5
  <2>7. t.pos = q /\ t.failed = s.failed /\ t.found = (s.found \/ found)
    BY <2>6
  <2>8. IsState(t)
    <3>1. q \in Nat
      BY <2>2 DEF Longest
    <3> QED BY <1>1, <2>2, <2>6, <3>1, StateRecord
  <2>9. t.found <=> Substring(value, Append(text, b))
    BY <2>1, <2>2, <2>7, SubstringAppend
  <2> HIDE DEF t
  <2>10. Searching(value, t, Append(text, b))
    BY <1>1, <1>3, <2>2, <2>7, <2>8, <2>9 DEF Searching
  <2> QED BY <2>10 DEF t
<1> QED BY <1>2, <1>3

(* The text so far agrees with the value, and the next byte does. *)
LEMMA AgreesAppend ==
    ASSUME NEW value \in Seq(Int), NEW open \in BOOLEAN, NEW text \in Seq(Int), NEW b \in Int
    PROVE  Agrees(value, open, Append(text, b)) <=>
             /\ Agrees(value, open, text)
             /\ Len(text) < Len(value) => value[Len(text) + 1] = b
             /\ Len(text) >= Len(value) => open
<1> DEFINE more == Append(text, b)
           n == Len(text)
<1>1. /\ Len(value) \in Nat /\ n \in Nat /\ Len(more) = n + 1 /\ more[n + 1] = b
      /\ \A i \in 1 .. n : more[i] = text[i]
  BY AppendProperties
<1> HIDE DEF more
<1>2. Agrees(value, open, more) <=>
             /\ Agrees(value, open, text)
             /\ n < Len(value) => value[n + 1] = b
             /\ n >= Len(value) => open
  <2> DEFINE Same(t, m) == \A j \in 1 .. Len(value) : j <= m => value[j] = t[j]
  <2>1. ASSUME Same(more, n + 1) PROVE Same(text, n) /\ (n < Len(value) => value[n + 1] = b)
    BY <1>1, <2>1
  <2>2. ASSUME Same(text, n), n < Len(value) => value[n + 1] = b,
               NEW j \in 1 .. Len(value), j <= n + 1
        PROVE  value[j] = more[j]
    <3>1. CASE j = n + 1
      BY <1>1, <2>2, <3>1
    <3>2. CASE j \in 1 .. n
      BY <1>1, <2>2, <3>2
    <3> QED BY <1>1, <2>2, <3>1, <3>2
  <2>3. Same(more, n + 1) <=> Same(text, n) /\ (n < Len(value) => value[n + 1] = b)
    BY <2>1, <2>2
  <2>4. /\ Agrees(value, open, more) <=> Same(more, n + 1) /\ (open \/ n + 1 <= Len(value))
        /\ Agrees(value, open, text) <=> Same(text, n) /\ (open \/ n <= Len(value))
    BY <1>1 DEF Agrees
  <2> HIDE DEF Same
  <2> QED BY <1>1, <2>3, <2>4
<1> QED BY <1>2 DEF more

(* A byte for a comparison: it goes on, has reached an open value's end, or  *)
(* fails.                                                                    *)
LEMMA CompareNext ==
    ASSUME NEW value \in Seq(Int), NEW open \in BOOLEAN, NEW text \in Seq(Int), NEW b \in Int,
           NEW s, NEW t, Comparing(value, s, open, text), IsState(t), ~t.found,
           s.failed => t.failed,
           ~s.failed =>
             IF s.pos = Len(value) THEN IF open THEN t = s ELSE t.failed
             ELSE IF value[s.pos + 1] = b THEN ~t.failed /\ t.pos = s.pos + 1 ELSE t.failed
    PROVE  Comparing(value, t, open, Append(text, b))
<1>1. Len(value) \in Nat /\ Len(text) \in Nat /\ Len(Append(text, b)) = Len(text) + 1
  BY AppendProperties
<1>2. ~t.failed <=> Agrees(value, open, Append(text, b))
  BY <1>1, AgreesAppend DEF Comparing
<1>3. ASSUME ~t.failed
      PROVE  t.pos = IF Len(text) + 1 <= Len(value) THEN Len(text) + 1 ELSE Len(value)
  BY <1>1, <1>3 DEF Comparing
<1> QED BY <1>1, <1>2, <1>3 DEF Comparing

(* A byte for a comparison with a value term's text. *)
LEMMA CompareByte ==
    ASSUME NEW term, term.value \in Seq(Int), term.kind # "contains",
           NEW text \in Seq(Int), NEW b \in Int, NEW s, ~s.failed,
           Comparing(term.value, s, term.kind = "prefix", text)
    PROVE  Comparing(term.value, ValueByte(term, s, b), term.kind = "prefix", Append(text, b))
<1> DEFINE t == ValueByte(term, s, b)
           value == term.value
           open == term.kind = "prefix"
<1>1. /\ s = [pos |-> s.pos, failed |-> s.failed, found |-> s.found]
      /\ s.failed \in BOOLEAN /\ s.found \in BOOLEAN /\ ~s.found
      /\ s.pos \in Nat /\ s.pos <= Len(value) /\ Len(value) \in Nat
  BY DEF Comparing, IsState
<1>2. t = IF open /\ s.pos = Len(value) THEN s
          ELSE IF s.pos < Len(value) /\ value[s.pos + 1] = b THEN [s EXCEPT !.pos = @ + 1]
          ELSE [s EXCEPT !.failed = TRUE]
  BY Zenon DEF ValueByte
<1>3. [s EXCEPT !.pos = @ + 1] = [pos |-> s.pos + 1, failed |-> s.failed, found |-> s.found]
  BY <1>1
<1>a. [s EXCEPT !.failed = TRUE] = [pos |-> s.pos, failed |-> TRUE, found |-> s.found]
  BY StateExcept DEF Comparing
<1> HIDE DEF t
<1>b. ASSUME IsState(t), ~t.found,
             IF s.pos = Len(value) THEN IF open THEN t = s ELSE t.failed
             ELSE IF value[s.pos + 1] = b THEN ~t.failed /\ t.pos = s.pos + 1 ELSE t.failed
      PROVE  Comparing(value, t, open, Append(text, b))
  <2>1. PICK o \in BOOLEAN : o = open
    OBVIOUS
  <2> HIDE DEF open, value
  <2>2. value \in Seq(Int) /\ Comparing(value, s, o, text)
    BY <2>1, Zenon DEF value, open
  <2> QED BY <1>b, <2>1, <2>2, CompareNext
<1>4. CASE open /\ s.pos = Len(value)
  <2>1. t = s
    BY <1>2, <1>4, Zenon
  <2>2. IsState(t) /\ ~t.found
    BY <1>1, <2>1, Zenon DEF IsState
  <2> QED BY <1>4, <1>b, <2>1, <2>2, Zenon DEF t
<1>5. CASE s.pos < Len(value) /\ value[s.pos + 1] = b
  <2>1. t = [pos |-> s.pos + 1, failed |-> s.failed, found |-> s.found]
    BY <1>1, <1>2, <1>3, <1>5
  <2>2. IsState(t) /\ ~t.found /\ ~t.failed /\ t.pos = s.pos + 1
    BY <1>1, <2>1 DEF IsState
  <2>3. s.pos # Len(value)
    BY <1>1, <1>5
  <2> QED BY <1>5, <1>b, <2>2, <2>3, Zenon DEF t
<1>6. CASE ~(open /\ s.pos = Len(value)) /\ ~(s.pos < Len(value) /\ value[s.pos + 1] = b)
  <2>1. t = [pos |-> s.pos, failed |-> TRUE, found |-> s.found]
    BY <1>2, <1>a, <1>6, Zenon
  <2>2. IsState(t) /\ ~t.found /\ t.failed
    BY <1>1, <2>1 DEF IsState
  <2>3. s.pos = Len(value) \/ s.pos < Len(value)
    BY <1>1
  <2> QED BY <1>6, <1>b, <2>2, <2>3, Zenon DEF t
<1> QED BY <1>4, <1>5, <1>6

(* the state of a term that is fed byte by byte: a prefix, or a search *)
LowerState(term, s, text) ==
    IF term.kind = "iprefix" THEN Comparing(term.value, s, TRUE, text)
    ELSE Searching(term.value, s, text)

(* A byte for such a term. *)
LEMMA LowerStepKeeps ==
    ASSUME NEW term, term.value \in Seq(Int), NEW text \in Seq(Int), NEW b \in Int, NEW s,
           LowerState(term, s, text)
    PROVE  LowerState(term, LowerStep(term, s, b), Append(text, b))
<1>1. CASE term.kind # "iprefix"
  BY <1>1, SearchByte, Zenon DEF LowerState, LowerStep
<1>2. CASE term.kind = "iprefix"
  <2> DEFINE t == LowerStep(term, s, b)
             value == term.value
  <2>1. Comparing(value, s, TRUE, text)
    BY <1>2, Zenon DEF LowerState
  <2>2. /\ s.failed \in BOOLEAN /\ s.found \in BOOLEAN /\ ~s.found
        /\ Len(value) \in Nat /\ s.pos \in Nat
    BY <2>1 DEF Comparing, IsState
  <2>3. t = IF s.pos = Len(value) THEN s
            ELSE [pos |-> s.pos + 1, failed |-> s.failed \/ b # value[s.pos + 1],
                  found |-> s.found]
    BY <1>2, Zenon DEF LowerStep
  <2> HIDE DEF t
  <2>4. CASE s.pos = Len(value)
    <3>1. t = s
      BY <2>3, <2>4, Zenon
    <3>2. IsState(t) /\ ~t.found
      BY <2>1, <2>2, <3>1, Zenon DEF Comparing
    <3>3. Comparing(value, t, TRUE, Append(text, b))
      BY <2>1, <2>4, <3>1, <3>2, CompareNext
    <3> QED BY <1>2, <3>3, Zenon DEF t, LowerState
  <2>5. CASE s.pos # Len(value)
    <3>0. PICK f \in BOOLEAN : f = (s.failed \/ b # value[s.pos + 1])
      OBVIOUS
    <3>1. t = [pos |-> s.pos + 1, failed |-> f, found |-> s.found]
      BY <2>3, <2>5, <3>0, Zenon
    <3>2. t.pos = s.pos + 1 /\ t.failed = (s.failed \/ b # value[s.pos + 1]) /\ t.found = s.found
      BY <3>0, <3>1
    <3>3. IsState(t) /\ ~t.found
      <4>1. s.pos + 1 \in Nat
        BY <2>2
      <4> QED BY <2>2, <3>1, <3>2, <4>1, StateRecord, Zenon
    <3>4. Comparing(value, t, TRUE, Append(text, b))
      BY <2>1, <2>2, <2>5, <3>2, <3>3, CompareNext
    <3> QED BY <1>2, <3>4, Zenon DEF t, LowerState
  <2> QED BY <2>4, <2>5
<1> QED BY <1>1, <1>2

-----------------------------------------------------------------------------
(* Runs of bytes *)

(* one unfolding of LowerBytes *)
RunStep(term, s, bytes, f, k) == IF k = 0 THEN s ELSE LowerStep(term, f[k - 1], bytes[k])

IsRun(term, s, bytes, f) == f = [k \in 0 .. Len(bytes) |-> RunStep(term, s, bytes, f, k)]

(* The bytes can be fed one after the other. *)
LEMMA RunExists ==
    ASSUME NEW term, NEW s, NEW bytes \in Seq(Int)
    PROVE  \E f : IsRun(term, s, bytes, f)
<1> DEFINE n == Len(bytes)
           T == {m \in 0 .. n : \E f : f = [k \in 0 .. m |-> RunStep(term, s, bytes, f, k)]}
<1>0. n \in Nat
  OBVIOUS
<1>1. 0 \in T
  <2>1. PICK f : f = [k \in 0 .. 0 |-> s]
    OBVIOUS
  <2>2. f = [k \in 0 .. 0 |-> RunStep(term, s, bytes, f, k)]
    BY <2>1 DEF RunStep
  <2> QED BY <1>0, <2>2
<1>2. ASSUME NEW m \in 1 .. n, m - 1 \in T PROVE m \in T
  <2>1. PICK g : g = [k \in 0 .. (m - 1) |-> RunStep(term, s, bytes, g, k)]
    BY <1>2
  <2>2. PICK f : f = [k \in 0 .. m |-> IF k = m THEN RunStep(term, s, bytes, g, m) ELSE g[k]]
    OBVIOUS
  <2>3. f[m] = RunStep(term, s, bytes, g, m) /\ \A k \in 0 .. (m - 1) : f[k] = g[k]
    BY <2>2
  <2>4. ASSUME NEW k \in 0 .. m PROVE f[k] = RunStep(term, s, bytes, f, k)
    <3>1. k # 0 => k - 1 \in 0 .. (m - 1)
      OBVIOUS
    <3>2. RunStep(term, s, bytes, f, k) = RunStep(term, s, bytes, g, k)
      BY <2>3, <3>1, Zenon DEF RunStep
    <3>3. k = m \/ k \in 0 .. (m - 1)
      OBVIOUS
    <3>4. \A j \in 0 .. (m - 1) : g[j] = RunStep(term, s, bytes, g, j)
      BY <2>1
    <3> QED BY <2>3, <3>2, <3>3, <3>4, Zenon
  <2>5. f = [k \in 0 .. m |-> RunStep(term, s, bytes, f, k)]
    <3>1. f = [k \in 0 .. m |-> f[k]]
      BY <2>2, Zenon
    <3> QED BY <2>4, <3>1, Zenon
  <2>6. m \in 0 .. n
    OBVIOUS
  <2> QED BY <2>5, <2>6, Zenon
<1>3. n \in T
  <2>1. n \in 0 .. n
    BY <1>0
  <2> HIDE DEF T, n
  <2>2. 0 .. n \subseteq T
    BY <1>0, <1>1, <1>2, IntervalInduction, Zenon
  <2> QED BY <2>1, <2>2
<1> QED BY <1>3, Zenon DEF IsRun

(* texts put together *)
Joined(x, y, z) == (x \o y) \o z = x \o (y \o z) /\ y \o z \in Seq(Int)

LEMMA ThreeParts ==
    ASSUME NEW x \in Seq(Int), NEW y \in Seq(Int), NEW z \in Seq(Int)
    PROVE  Joined(x, y, z)
<1>1. (x \o y) \o z = x \o (y \o z)
  BY ConcatAssociative
<1>2. y \o z \in Seq(Int)
  BY ConcatProperties
<1> QED BY <1>1, <1>2 DEF Joined

(* A text and the first k of the bytes that follow it. *)
LEMMA TakeFacts ==
    ASSUME NEW text \in Seq(Int), NEW bytes \in Seq(Int)
    PROVE  /\ text \o SubSeq(bytes, 1, 0) = text
           /\ text \o SubSeq(bytes, 1, Len(bytes)) = text \o bytes
           /\ \A k \in 0 .. Len(bytes) : text \o SubSeq(bytes, 1, k) \in Seq(Int)
           /\ \A k \in 1 .. Len(bytes) :
                text \o SubSeq(bytes, 1, k) = Append(text \o SubSeq(bytes, 1, k - 1), bytes[k])
<1>0. Len(bytes) \in Nat
  OBVIOUS
<1>1. SubSeq(bytes, 1, 0) = << >> /\ SubSeq(bytes, 1, Len(bytes)) = bytes
  BY SubSeqEmpty, SubSeqFull
<1>2. text \o << >> = text
  BY ConcatEmptySeq
<1>3. ASSUME NEW k \in 0 .. Len(bytes)
      PROVE  SubSeq(bytes, 1, k) \in Seq(Int) /\ text \o SubSeq(bytes, 1, k) \in Seq(Int)
  <2>1. \A i \in 1 .. k : bytes[i] \in Int
    BY <1>0
  <2>2. SubSeq(bytes, 1, k) \in Seq(Int)
    BY <1>0, <2>1, SubSeqProperties
  <2> QED BY <2>2, ConcatProperties
<1>4. ASSUME NEW k \in 1 .. Len(bytes)
      PROVE  text \o SubSeq(bytes, 1, k) = Append(text \o SubSeq(bytes, 1, k - 1), bytes[k])
  <2>1. 1 \in 1 .. Len(bytes) /\ k - 1 \in 0 .. Len(bytes) /\ bytes[k] \in Int
    BY <1>0
  <2>2. SubSeq(bytes, 1, k) = SubSeq(bytes, 1, k - 1) \o <<bytes[k]>>
    BY <2>1, SubSeqRecursiveSecond
  <2>3. PICK part \in Seq(Int) : part = SubSeq(bytes, 1, k - 1) /\ text \o part \in Seq(Int)
    BY <1>3, <2>1
  <2>4. PICK b \in Int : b = bytes[k]
    BY <2>1
  <2>5. <<b>> \in Seq(Int)
    OBVIOUS
  <2>6. text \o (part \o <<b>>) = (text \o part) \o <<b>>
    <3>1. Joined(text, part, <<b>>)
      BY <2>5, ThreeParts, Zenon
    <3> QED BY <3>1, Zenon DEF Joined
  <2>7. Append(text \o part, b) = (text \o part) \o <<b>>
    BY <2>3, AppendIsConcat
  <2> QED BY <2>2, <2>3, <2>4, <2>6, <2>7
<1> QED BY <1>1, <1>2, <1>3, <1>4

(* Bytes for a term that is fed byte by byte. *)
LEMMA LowerBytesKeeps ==
    ASSUME NEW term, term.value \in Seq(Int), NEW text \in Seq(Int), NEW bytes \in Seq(Int),
           NEW s, LowerState(term, s, text)
    PROVE  LowerState(term, LowerBytes(term, s, bytes), text \o bytes)
<1> DEFINE n == Len(bytes)
           so(k) == text \o SubSeq(bytes, 1, k)
<1>0. n \in Nat
  OBVIOUS
<1>1. PICK r : r = CHOOSE f : IsRun(term, s, bytes, f)
  OBVIOUS
<1>2. IsRun(term, s, bytes, r)
  BY <1>1, RunExists, Zenon
<1>3. LowerBytes(term, s, bytes) = r[n]
  BY <1>1 DEF LowerBytes, IsRun, RunStep
<1>4. \A k \in 0 .. n : r[k] = RunStep(term, s, bytes, r, k)
  BY <1>2 DEF IsRun
<1>5. /\ so(0) = text /\ so(n) = text \o bytes
      /\ \A k \in 0 .. n : so(k) \in Seq(Int)
      /\ \A k \in 1 .. n : so(k) = Append(so(k - 1), bytes[k])
  BY TakeFacts
<1> DEFINE T == {k \in 0 .. n : LowerState(term, r[k], so(k))}
<1> HIDE DEF so
<1>6. 0 \in T
  <2>1. 0 \in 0 .. n
    BY <1>0
  <2>2. r[0] = s
    BY <1>4, <2>1 DEF RunStep
  <2> QED BY <1>5, <2>1, <2>2
<1>7. ASSUME NEW k \in 1 .. n, k - 1 \in T PROVE k \in T
  <2>1. k \in 0 .. n /\ k # 0 /\ k - 1 \in 0 .. n /\ bytes[k] \in Int
    BY <1>0
  <2>2. r[k] = LowerStep(term, r[k - 1], bytes[k])
    BY <1>4, <2>1, Zenon DEF RunStep
  <2>3. LowerState(term, r[k - 1], so(k - 1)) /\ so(k - 1) \in Seq(Int)
    BY <1>5, <1>7, <2>1
  <2>4. LowerState(term, r[k], Append(so(k - 1), bytes[k]))
    BY <2>1, <2>2, <2>3, LowerStepKeeps
  <2> QED BY <1>5, <2>1, <2>4
<1>8. n \in T
  <2>1. n \in 0 .. n
    BY <1>0
  <2> HIDE DEF T, n
  <2>2. 0 .. n \subseteq T
    BY <1>0, <1>6, <1>7, IntervalInduction, Zenon
  <2> QED BY <2>1, <2>2
<1> QED BY <1>3, <1>5, <1>8

LEMMA MinOfTwo ==
    ASSUME NEW a \in Int, NEW b \in Int
    PROVE  Min({a, b}) = IF a <= b THEN a ELSE b
<1>1. \E x \in {a, b} : \A y \in {a, b} : x <= y
  OBVIOUS
<1>2. PICK m : m = Min({a, b})
  OBVIOUS
<1>3. m \in {a, b} /\ \A y \in {a, b} : m <= y
  BY <1>1, <1>2, Zenon DEF Min
<1> QED BY <1>2, <1>3

(* Two blocks of one length are the same when their bytes are. *)
LEMMA SameBlocks ==
    ASSUME NEW u \in Seq(Int), NEW v \in Seq(Int), NEW p \in Nat, NEW n \in Nat,
           p + n <= Len(u), n <= Len(v)
    PROVE  SubSeq(u, p + 1, p + n) = SubSeq(v, 1, n) <=>
             \A i \in 1 .. n : u[p + i] = v[i]
<1> DEFINE x == SubSeq(u, p + 1, p + n)
           y == SubSeq(v, 1, n)
<1>0. Len(u) \in Nat /\ Len(v) \in Nat
  OBVIOUS
<1>1. x \in Seq(Int) /\ Len(x) = n /\ \A i \in 1 .. n : x[i] = u[p + i]
  <2>1. \A i \in (p + 1) .. (p + n) : u[i] \in Int
    BY <1>0
  <2>2. /\ x \in Seq(Int)
        /\ Len(x) = IF p + 1 <= p + n THEN (p + n) - (p + 1) + 1 ELSE 0
        /\ \A i \in 1 .. ((p + n) - (p + 1) + 1) : x[i] = u[(p + 1) + i - 1]
    BY <2>1, SubSeqProperties
  <2> HIDE DEF x
  <2> QED BY <2>2
<1>2. y \in Seq(Int) /\ Len(y) = n /\ \A i \in 1 .. n : y[i] = v[i]
  <2>1. \A i \in 1 .. n : v[i] \in Int
    BY <1>0
  <2>2. /\ y \in Seq(Int)
        /\ Len(y) = IF 1 <= n THEN n - 1 + 1 ELSE 0
        /\ \A i \in 1 .. (n - 1 + 1) : y[i] = v[1 + i - 1]
    BY <2>1, SubSeqProperties
  <2> HIDE DEF y
  <2> QED BY <2>2
<1> HIDE DEF x, y
<1>3. ASSUME \A i \in 1 .. n : u[p + i] = v[i] PROVE x = y
  BY <1>1, <1>2, <1>3, SeqEqual
<1>4. ASSUME x = y, NEW i \in 1 .. n PROVE u[p + i] = v[i]
  BY <1>1, <1>2, <1>4
<1> QED BY <1>3, <1>4 DEF x, y

(* A text that agrees with the value agrees with it in its first part. *)
LEMMA AgreesConcat ==
    ASSUME NEW value \in Seq(Int), NEW open \in BOOLEAN, NEW text \in Seq(Int),
           NEW bytes \in Seq(Int)
    PROVE  Agrees(value, open, text \o bytes) <=>
             /\ Agrees(value, open, text)
             /\ open \/ Len(text) + Len(bytes) <= Len(value)
             /\ \A i \in 1 .. Len(bytes) :
                  Len(text) + i <= Len(value) => value[Len(text) + i] = bytes[i]
<1> DEFINE more == text \o bytes
           n == Len(text)
           m == Len(bytes)
<1>1. /\ Len(value) \in Nat /\ n \in Nat /\ m \in Nat /\ Len(more) = n + m
      /\ \A i \in 1 .. n : more[i] = text[i]
      /\ \A i \in 1 .. m : more[n + i] = bytes[i]
  <2>1. /\ Len(value) \in Nat /\ n \in Nat /\ m \in Nat
    OBVIOUS
  <2>2. /\ Len(more) = n + m
        /\ \A i \in 1 .. n + m : more[i] = IF i <= n THEN text[i] ELSE bytes[i - n]
    BY ConcatProperties
  <2> HIDE DEF more
  <2>3. ASSUME NEW i \in 1 .. m PROVE more[n + i] = bytes[i]
    <3>1. n + i \in 1 .. n + m /\ ~(n + i <= n) /\ (n + i) - n = i
      BY <2>1
    <3> QED BY <2>2, <3>1
  <2> QED BY <2>1, <2>2, <2>3
<1> HIDE DEF more
<1> DEFINE Same(t, k) == \A j \in 1 .. Len(value) : j <= k => value[j] = t[j]
           Rest == \A i \in 1 .. m : n + i <= Len(value) => value[n + i] = bytes[i]
<1>2. ASSUME Same(more, n + m) PROVE Same(text, n) /\ Rest
  <2>1. ASSUME NEW j \in 1 .. Len(value), j <= n PROVE value[j] = text[j]
    <3>1. j <= n + m /\ j \in 1 .. n
      BY <1>1, <2>1
    <3> QED BY <1>1, <1>2, <3>1
  <2>2. ASSUME NEW i \in 1 .. m, n + i <= Len(value) PROVE value[n + i] = bytes[i]
    <3>1. n + i <= n + m /\ n + i \in 1 .. Len(value)
      BY <1>1, <2>2
    <3> QED BY <1>1, <1>2, <3>1
  <2> QED BY <2>1, <2>2
<1>3. ASSUME Same(text, n), Rest, NEW j \in 1 .. Len(value), j <= n + m
      PROVE  value[j] = more[j]
  <2>1. CASE j <= n
    BY <1>1, <1>3, <2>1
  <2>2. CASE j > n
    <3>1. PICK i \in 1 .. m : j = n + i
      <4>1. j - n \in 1 .. m /\ j = n + (j - n)
        BY <1>1, <1>3, <2>2
      <4> QED BY <4>1
    <3> QED BY <1>1, <1>3, <3>1
  <2> QED BY <1>1, <2>1, <2>2
<1>4. Same(more, n + m) <=> Same(text, n) /\ Rest
  BY <1>2, <1>3
<1>5. /\ Agrees(value, open, more) <=> Same(more, n + m) /\ (open \/ n + m <= Len(value))
      /\ Agrees(value, open, text) <=> Same(text, n) /\ (open \/ n <= Len(value))
  BY <1>1 DEF Agrees
<1>6. Agrees(value, open, more) <=>
        Agrees(value, open, text) /\ (open \/ n + m <= Len(value)) /\ Rest
  <2> HIDE DEF Same, Rest
  <2> QED BY <1>1, <1>4, <1>5
<1> QED BY <1>6 DEF more

(* A run for a comparison. *)
LEMMA SpanTermKeeps ==
    ASSUME NEW value \in Seq(Int), NEW open \in BOOLEAN, NEW text \in Seq(Int),
           NEW bytes \in Seq(Int), NEW s, ~s.failed, Comparing(value, s, open, text)
    PROVE  Comparing(value, SpanTerm(value, s, open, bytes), open, text \o bytes)
<1> DEFINE t == SpanTerm(value, s, open, bytes)
           more == text \o bytes
           L == Len(value)
           m == Len(bytes)
<1>0. /\ L \in Nat /\ m \in Nat /\ Len(text) \in Nat /\ more \in Seq(Int)
      /\ Len(more) = Len(text) + m
  BY ConcatProperties
<1>1. /\ IsState(s) /\ ~s.found /\ Agrees(value, open, text)
      /\ s.pos = IF Len(text) <= L THEN Len(text) ELSE L
  BY DEF Comparing
<1>2. PICK n : n = IF L - s.pos <= m THEN L - s.pos ELSE m
  OBVIOUS
<1>a. /\ s.pos \in Nat /\ s.pos <= L
      /\ Len(text) <= L => s.pos = Len(text)
      /\ ~(Len(text) <= L) => s.pos = L
  BY <1>0, <1>1
<1>3. n \in Nat /\ s.pos \in Nat /\ s.pos + n <= L /\ n <= m
  BY <1>0, <1>2, <1>a
<1>4. Min({L - s.pos, m}) = n
  <2>1. L - s.pos \in Int /\ m \in Int
    BY <1>0, <1>3
  <2> QED BY <1>2, <2>1, MinOfTwo
<1> DEFINE Match == \A i \in 1 .. n : value[s.pos + i] = bytes[i]
<1>5. SubSeq(value, s.pos + 1, s.pos + n) = SubSeq(bytes, 1, n) <=> Match
  <2>1. PICK p \in Nat : p = s.pos
    BY <1>3
  <2>2. p + n <= Len(value) /\ n <= Len(bytes) /\ n \in Nat
    BY <1>3, <2>1
  <2>3. SubSeq(value, p + 1, p + n) = SubSeq(bytes, 1, n) <=> \A i \in 1 .. n : value[p + i] = bytes[i]
    BY <2>2, SameBlocks, Zenon
  <2> QED BY <2>1, <2>3, Zenon
<1>6. t = IF ~Match \/ (n # m /\ ~open) THEN [s EXCEPT !.failed = TRUE]
          ELSE [s EXCEPT !.pos = @ + n]
  <2>1. t = IF SubSeq(value, s.pos + 1, s.pos + n) # SubSeq(bytes, 1, n) \/ (n # m /\ ~open)
            THEN [s EXCEPT !.failed = TRUE] ELSE [s EXCEPT !.pos = @ + n]
    BY <1>4 DEF SpanTerm
  <2> HIDE DEF t, Match
  <2> QED BY <1>5, <2>1, Zenon
<1>7. /\ s.failed \in BOOLEAN /\ s.found \in BOOLEAN
      /\ [s EXCEPT !.failed = TRUE] = [pos |-> s.pos, failed |-> TRUE, found |-> s.found]
      /\ [s EXCEPT !.pos = s.pos + n]
           = [pos |-> s.pos + n, failed |-> s.failed, found |-> s.found]
  <2>1. s.pos + n \in Nat
    BY <1>3
  <2> QED BY <1>1, <2>1, StateExcept
<1>8. Agrees(value, open, more) <=> Match /\ (n = m \/ open)
  <2>1. /\ open \/ Len(text) + m <= L <=> n = m \/ open
    BY <1>0, <1>1, <1>2 DEF Agrees
  <2>2. ASSUME open \/ Len(text) + m <= L
        PROVE  Match <=> \A i \in 1 .. m : Len(text) + i <= L => value[Len(text) + i] = bytes[i]
    <3>1. CASE Len(text) <= L
      <4>1. s.pos = Len(text) /\ \A i \in 1 .. m : Len(text) + i <= L <=> i \in 1 .. n
        BY <1>0, <1>1, <1>2, <3>1
      <4>2. \A i \in 1 .. n : i \in 1 .. m
        BY <1>0, <1>3
      <4> QED BY <4>1, <4>2
    <3>2. CASE ~(Len(text) <= L)
      <4>1. n = 0 /\ \A i \in 1 .. m : ~(Len(text) + i <= L)
        BY <1>0, <1>1, <1>2, <3>2
      <4>2. \A i \in 1 .. n : FALSE
        BY <4>1
      <4> QED BY <4>1, <4>2
    <3> QED BY <3>1, <3>2
  <2>3. Agrees(value, open, more) <=>
             /\ Agrees(value, open, text)
             /\ open \/ Len(text) + m <= L
             /\ \A i \in 1 .. m : Len(text) + i <= L => value[Len(text) + i] = bytes[i]
    BY AgreesConcat
  <2> HIDE DEF Match, more
  <2> QED BY <1>1, <2>1, <2>2, <2>3, Zenon
<1>9. CASE Match /\ (n = m \/ open)
  <2>1. t = [pos |-> s.pos + n, failed |-> s.failed, found |-> s.found]
    <3> HIDE DEF t, Match
    <3> QED BY <1>6, <1>7, <1>9, Zenon
  <2>2. t.pos = s.pos + n /\ ~t.failed /\ ~t.found
    BY <1>1, <2>1
  <2>3. IsState(t)
    <3>1. s.pos + n \in Nat
      BY <1>3
    <3> HIDE DEF t
    <3> QED BY <1>7, <2>1, <3>1, StateRecord, Zenon
  <2>4. s.pos + n = IF Len(text) + m <= L THEN Len(text) + m ELSE L
    <3> HIDE DEF t, Match, more, L, m
    <3>1. PICK p \in Nat : p = s.pos
      BY <1>a
    <3>2. CASE Len(text) <= L
      <4>1. s.pos = Len(text) /\ Len(text) \in Nat
        BY <1>0, <1>a, <3>2
      <4>2. CASE L - s.pos <= m
        <5>1. n = L - Len(text)
          BY <1>2, <4>1, <4>2
        <5> QED BY <1>0, <3>2, <4>1, <4>2, <5>1
      <4>3. CASE ~(L - s.pos <= m)
        <5>1. n = m
          BY <1>2, <4>3
        <5> QED BY <1>0, <3>2, <4>1, <4>3, <5>1
      <4> QED BY <4>2, <4>3
    <3>3. CASE ~(Len(text) <= L)
      <4>1. s.pos = L
        BY <1>a, <3>3, Zenon
      <4>2. L - L <= m /\ L - L = 0 /\ L + 0 = L
        BY <1>0
      <4>3. n = 0
        BY <1>2, <4>1, <4>2, Zenon
      <4>4. ~(Len(text) + m <= L)
        BY <1>0, <3>3
      <4> QED BY <4>1, <4>2, <4>3, <4>4, Zenon
    <3> QED BY <3>2, <3>3
  <2> HIDE DEF t, Match, more
  <2>5. Comparing(value, t, open, more)
    BY <1>0, <1>8, <1>9, <2>2, <2>3, <2>4 DEF Comparing
  <2> QED BY <2>5 DEF t, more
<1>10. CASE ~(Match /\ (n = m \/ open))
  <2>1. t = [pos |-> s.pos, failed |-> TRUE, found |-> s.found]
    <3> HIDE DEF t, Match
    <3> QED BY <1>6, <1>7, <1>10, Zenon
  <2>2. t.failed /\ ~t.found
    BY <1>1, <2>1
  <2>3. IsState(t)
    <3> HIDE DEF t
    <3> QED BY <1>3, <1>7, <2>1, StateRecord, Zenon
  <2> HIDE DEF t, Match, more
  <2>4. Comparing(value, t, open, more)
    BY <1>8, <1>10, <2>2, <2>3, Zenon DEF Comparing
  <2> QED BY <2>4 DEF t, more
<1> QED BY <1>9, <1>10

-----------------------------------------------------------------------------
(* Characters in lower case *)

(* An ASCII character is lowered as the runs lower it. *)
LEMMA LowerAscii ==
    ASSUME NEW b \in 0 .. 127
    PROVE  LowerChar(<<b>>) = <<AsciiLower(b)>> /\ AsciiLower(b) \in Int
<1>1. SimpleLower(b) = AsciiLower(b)
  BY LowerTable
<1>2. Utf8Decode(<<b>>) = b
  BY DEF Utf8Decode
<1>3. AsciiLower(b) \in Int /\ AsciiLower(b) < 128
  BY DEF AsciiLower
<1>4. Utf8Encode(AsciiLower(b)) = <<AsciiLower(b)>>
  <2>1. PICK c \in Int : c = AsciiLower(b) /\ c < 128
    BY <1>3
  <2>2. Utf8Encode(c) = <<c>>
    BY <2>1, SMT DEF Utf8Encode
  <2> QED BY <2>1, <2>2
<1> QED BY <1>1, <1>2, <1>3, <1>4 DEF LowerChar

LEMMA LowerIsInt ==
    ASSUME NEW rune \in Int
    PROVE  SimpleLower(rune) \in Int
<1> DEFINE within == {r \in LowerRanges : rune \in r.first .. r.last}
<1>1. CASE rune \in 65 .. 90
  BY <1>1 DEF SimpleLower
<1>2. CASE rune \notin 65 .. 90 /\ within = {}
  BY <1>2 DEF SimpleLower
<1>3. CASE rune \notin 65 .. 90 /\ within # {}
  <2>1. PICK range : range = CHOOSE r \in within : TRUE
    OBVIOUS
  <2>2. range \in within
    BY <1>3, <2>1, Zenon
  <2>3. range \in [first : Nat, last : Nat, delta : Int, alternating : BOOLEAN]
    BY <2>2, LowerTable
  <2>4. range.first \in Nat /\ range.delta \in Int
    BY <2>3
  <2>5. SimpleLower(rune) = IF range.alternating
                            THEN range.first + (((rune - range.first) \div 2) * 2 + 1)
                            ELSE rune + range.delta
    BY <1>3, <2>1, SMT DEF SimpleLower
  <2> QED BY <2>4, <2>5
<1> QED BY <1>1, <1>2, <1>3

LEMMA EncodeIsSeq ==
    ASSUME NEW rune \in Int
    PROVE  Utf8Encode(rune) \in Seq(Int)
<1> DEFINE bits(unit) == 128 + ((rune \div unit) % 64)
<1>1. bits(1) \in Int /\ bits(64) \in Int /\ bits(4096) \in Int
  OBVIOUS
<1>2. /\ 192 + (rune \div 64) \in Int /\ 224 + (rune \div 4096) \in Int
      /\ 240 + (rune \div 262144) \in Int
  OBVIOUS
<1>3. \A i, j, k, l \in Int : /\ <<i>> \in Seq(Int) /\ <<i, j>> \in Seq(Int)
                              /\ <<i, j, k>> \in Seq(Int) /\ <<i, j, k, l>> \in Seq(Int)
  OBVIOUS
<1>4. \/ Utf8Encode(rune) = <<rune>>
      \/ Utf8Encode(rune) = <<192 + (rune \div 64), bits(1)>>
      \/ Utf8Encode(rune) = <<224 + (rune \div 4096), bits(64), bits(1)>>
      \/ Utf8Encode(rune) = <<240 + (rune \div 262144), bits(4096), bits(64), bits(1)>>
  BY SMT DEF Utf8Encode
<1>5. PICK i, j, k, l, m, n \in Int : /\ i = 192 + (rune \div 64) /\ j = 224 + (rune \div 4096)
                                      /\ k = 240 + (rune \div 262144)
                                      /\ l = bits(1) /\ m = bits(64) /\ n = bits(4096)
  BY <1>1, <1>2, SMT
<1>6. \/ Utf8Encode(rune) = <<rune>> \/ Utf8Encode(rune) = <<i, l>>
      \/ Utf8Encode(rune) = <<j, m, l>> \/ Utf8Encode(rune) = <<k, n, m, l>>
  BY <1>4, <1>5, SMT
<1> QED BY <1>3, <1>6, Zenon

(* A character in lower case is a text. *)
LEMMA LowerCharIsSeq ==
    ASSUME NEW bytes \in Seq(Int), bytes # << >>, Whole(bytes)
    PROVE  LowerChar(bytes) \in Seq(Int)
<1>1. Len(bytes) \in 1 .. 4 /\ \A k \in 1 .. Len(bytes) : bytes[k] \in Int
  <2>1. bytes[1] \in Int
    OBVIOUS
  <2>2. Utf8Width(bytes[1]) \in 1 .. 4
    BY <2>1 DEF Utf8Width
  <2> QED BY <2>2 DEF Whole
<1>2. Utf8Decode(bytes) \in Int
  <2> DEFINE next(k, rune) == rune * 64 + (bytes[k] % 64)
  <2>1. ASSUME NEW k \in 1 .. Len(bytes), NEW rune \in Int PROVE next(k, rune) \in Int
    <3>1. PICK b \in Int : b = bytes[k]
      BY <1>1
    <3>2. rune * 64 + (b % 64) \in Int
      OBVIOUS
    <3> QED BY <3>1, <3>2
  <2>2. PICK b \in Int : b = bytes[1]
    BY <1>1
  <2>3. b % 32 \in Int /\ b % 16 \in Int /\ b % 8 \in Int
    OBVIOUS
  <2>4. \/ Len(bytes) = 1 /\ Utf8Decode(bytes) = b
        \/ Len(bytes) = 2 /\ Utf8Decode(bytes) = next(2, b % 32)
        \/ Len(bytes) = 3 /\ Utf8Decode(bytes) = next(3, next(2, b % 16))
        \/ Len(bytes) = 4 /\ Utf8Decode(bytes) = next(4, next(3, next(2, b % 8)))
    BY <1>1, <2>2 DEF Utf8Decode
  <2> HIDE DEF next
  <2>5. PICK p, q, r : p = b % 32 /\ q = b % 16 /\ r = b % 8
    OBVIOUS
  <2>6. p \in Int /\ q \in Int /\ r \in Int
    BY <2>3, <2>5
  <2>7. \/ Utf8Decode(bytes) = b
        \/ 2 \in 1 .. Len(bytes) /\ Utf8Decode(bytes) = next(2, p)
        \/ /\ 2 \in 1 .. Len(bytes) /\ 3 \in 1 .. Len(bytes)
           /\ Utf8Decode(bytes) = next(3, next(2, q))
        \/ /\ 2 \in 1 .. Len(bytes) /\ 3 \in 1 .. Len(bytes) /\ 4 \in 1 .. Len(bytes)
           /\ Utf8Decode(bytes) = next(4, next(3, next(2, r)))
    <3>1. 2 \in 1 .. 2 /\ 2 \in 1 .. 3 /\ 3 \in 1 .. 3 /\ 2 \in 1 .. 4 /\ 3 \in 1 .. 4
          /\ 4 \in 1 .. 4
      OBVIOUS
    <3> QED BY <2>4, <2>5, <3>1, Zenon
  <2> QED BY <2>1, <2>6, <2>7, Zenon
<1> QED BY <1>2, LowerIsInt, EncodeIsSeq DEF LowerChar

-----------------------------------------------------------------------------
(* All terms *)

(* the state of a case-sensitive term *)
ExactState(term, s, text) ==
    IF term.kind = "contains" THEN Searching(term.value, s, text)
    ELSE Comparing(term.value, s, term.kind = "prefix", text)

(* every active term is where the text, or the text in lower case, puts it *)
TermState(term, s, text, low) ==
    IF Insensitive(term) THEN LowerState(term, s, low) ELSE ExactState(term, s, text)

Values(terms, active) == \A i \in active : terms[i].value \in Seq(Int)

MatchState(terms, m, active, text, low) ==
    /\ DOMAIN m.term = active
    /\ \A i \in active : TermState(terms[i], m.term[i], text, low)

(* A term that has failed stays failed. *)
LEMMA FailedStays ==
    ASSUME NEW term, term.value \in Seq(Int), NEW text \in Seq(Int), NEW bytes \in Seq(Int),
           NEW s, s.failed, ExactState(term, s, text)
    PROVE  ExactState(term, s, text \o bytes)
<1>1. term.kind # "contains"
  BY Zenon DEF ExactState, Searching
<1>2. PICK o \in BOOLEAN : o = (term.kind = "prefix")
  OBVIOUS
<1>3. Comparing(term.value, s, o, text)
  BY <1>1, <1>2, Zenon DEF ExactState
<1>4. ~Agrees(term.value, o, text \o bytes)
  BY <1>3, AgreesConcat DEF Comparing
<1>5. Comparing(term.value, s, o, text \o bytes)
  BY <1>3, <1>4, Zenon DEF Comparing
<1> QED BY <1>1, <1>2, <1>5, Zenon DEF ExactState

(* The same for a case-insensitive term. *)
LEMMA LowerFailedStays ==
    ASSUME NEW term, term.value \in Seq(Int), NEW text \in Seq(Int), NEW bytes \in Seq(Int),
           NEW s, s.failed, LowerState(term, s, text)
    PROVE  LowerState(term, s, text \o bytes)
<1>1. term.kind = "iprefix"
  BY Zenon DEF LowerState, Searching
<1>2. Comparing(term.value, s, TRUE, text)
  BY <1>1, Zenon DEF LowerState
<1>3. ~Agrees(term.value, TRUE, text \o bytes)
  BY <1>2, AgreesConcat DEF Comparing
<1>4. Comparing(term.value, s, TRUE, text \o bytes)
  BY <1>2, <1>3, Zenon DEF Comparing
<1> QED BY <1>1, <1>4, Zenon DEF LowerState

(* A byte for a case-sensitive term. *)
LEMMA ValueByteKeeps ==
    ASSUME NEW term, term.value \in Seq(Int), NEW text \in Seq(Int), NEW b \in Int, NEW s,
           ExactState(term, s, text)
    PROVE  ExactState(term, IF s.failed THEN s ELSE ValueByte(term, s, b), Append(text, b))
<1>1. CASE s.failed
  <2>1. <<b>> \in Seq(Int)
    OBVIOUS
  <2>2. Append(text, b) = text \o <<b>>
    BY AppendIsConcat
  <2>3. ExactState(term, s, text \o <<b>>)
    BY <1>1, <2>1, FailedStays
  <2> QED BY <1>1, <2>2, <2>3, Zenon
<1>2. CASE ~s.failed /\ term.kind = "contains"
  <2>1. Searching(term.value, ContainsByte(term.value, s, b), Append(text, b))
    BY <1>2, SearchByte DEF ExactState
  <2>2. ValueByte(term, s, b) = ContainsByte(term.value, s, b)
    BY <1>2, Zenon DEF ValueByte
  <2> QED BY <1>2, <2>1, <2>2, Zenon DEF ExactState
<1>3. CASE ~s.failed /\ term.kind # "contains"
  <2>1. Comparing(term.value, s, term.kind = "prefix", text)
    BY <1>3, Zenon DEF ExactState
  <2>2. Comparing(term.value, ValueByte(term, s, b), term.kind = "prefix", Append(text, b))
    BY <1>3, <2>1, CompareByte, Zenon
  <2> QED BY <1>3, <2>2, Zenon DEF ExactState
<1> QED BY <1>1, <1>2, <1>3

(* A run for any term. *)
LEMMA ValueSpanKeeps ==
    ASSUME NEW term, term.value \in Seq(Int), NEW text \in Seq(Int), NEW low \in Seq(Int),
           NEW bytes \in Seq(Int), NEW lowered \in Seq(Int),
           lowered = [k \in DOMAIN bytes |-> AsciiLower(bytes[k])],
           NEW s, TermState(term, s, text, low)
    PROVE  TermState(term, IF s.failed THEN s ELSE ValueSpan(term, s, bytes),
                     text \o bytes, low \o lowered)
<1>1. CASE s.failed
  BY <1>1, FailedStays, LowerFailedStays, Zenon DEF TermState
<1>2. CASE ~s.failed /\ Insensitive(term)
  <2>1. term.kind # "contains"
    BY <1>2 DEF Insensitive
  <2>2. ValueSpan(term, s, bytes) = LowerBytes(term, s, lowered)
    BY <1>2, <2>1, Zenon DEF ValueSpan
  <2>3. LowerState(term, s, low)
    BY <1>2, Zenon DEF TermState
  <2>4. LowerState(term, LowerBytes(term, s, lowered), low \o lowered)
    BY <2>3, LowerBytesKeeps
  <2> QED BY <1>2, <2>2, <2>4, Zenon DEF TermState
<1>3. CASE ~s.failed /\ term.kind = "contains"
  <2>1. ~Insensitive(term) /\ term.kind # "iprefix"
    BY <1>3 DEF Insensitive
  <2>2. ValueSpan(term, s, bytes) = LowerBytes(term, s, bytes)
    BY <1>3, <2>1, Zenon DEF ValueSpan
  <2>3. LowerState(term, s, text)
    BY <1>3, <2>1, Zenon DEF TermState, ExactState, LowerState
  <2>4. LowerState(term, LowerBytes(term, s, bytes), text \o bytes)
    BY <2>3, LowerBytesKeeps
  <2> QED BY <1>3, <2>1, <2>2, <2>4, Zenon DEF TermState, ExactState, LowerState
<1>4. CASE ~s.failed /\ term.kind # "contains" /\ ~Insensitive(term)
  <2>1. PICK o \in BOOLEAN : o = (term.kind = "prefix")
    OBVIOUS
  <2>2. Comparing(term.value, s, o, text)
    BY <1>4, <2>1, Zenon DEF TermState, ExactState
  <2>3. ValueSpan(term, s, bytes) = SpanTerm(term.value, s, o, bytes)
    BY <1>4, <2>1, Zenon DEF ValueSpan
  <2>4. Comparing(term.value, SpanTerm(term.value, s, o, bytes), o, text \o bytes)
    BY <1>4, <2>2, SpanTermKeeps
  <2> QED BY <1>4, <2>1, <2>3, <2>4, Zenon DEF TermState, ExactState
<1> QED BY <1>1, <1>2, <1>3, <1>4

(* the two fields of a match state *)
HasFields(t, f, w) == t.term = f /\ t.pending = w

LEMMA MatchFields ==
    ASSUME NEW f, NEW w, NEW t, t = [term |-> f, pending |-> w]
    PROVE  HasFields(t, f, w)
BY DEF HasFields

(* between two characters *)
Ready(terms, m, active, text, low) ==
    m.pending = << >> /\ MatchState(terms, m, active, text, low)

(* A run for all terms of a value. *)
LEMMA MatchSpanKeeps ==
    ASSUME NEW terms, NEW active, Values(terms, active),
           NEW text \in Seq(Int), NEW low \in Seq(Int),
           NEW bytes \in Seq(Int), NEW lowered \in Seq(Int),
           lowered = [k \in DOMAIN bytes |-> AsciiLower(bytes[k])],
           NEW m, Ready(terms, m, active, text, low),
           NEW t, t = MatchSpan(terms, m, FALSE, bytes)
    PROVE  Ready(terms, t, active, text \o bytes, low \o lowered)
<1> DEFINE feed(i) == IF m.term[i].failed THEN m.term[i]
                      ELSE ValueSpan(terms[i], m.term[i], bytes)
<1>1. m.pending = << >> /\ MatchState(terms, m, active, text, low)
  BY DEF Ready
<1>2. t = [term |-> [i \in DOMAIN m.term |-> feed(i)], pending |-> m.pending]
  <2>1. EscapedTerms(terms, m, FALSE) = {}
    BY DEF EscapedTerms
  <2> QED BY <2>1, Zenon DEF MatchSpan
<1> HIDE DEF feed
<1>3. t.term = [i \in DOMAIN m.term |-> feed(i)] /\ t.pending = m.pending
  <2>1. PICK f, w : f = [i \in DOMAIN m.term |-> feed(i)] /\ w = m.pending
    OBVIOUS
  <2>2. t = [term |-> f, pending |-> w]
    BY <1>2, <2>1, Zenon
  <2>3. t.term = f /\ t.pending = w
    <3>1. HasFields(t, f, w)
      BY <2>2, MatchFields, Zenon
    <3> QED BY <3>1, Zenon DEF HasFields
  <2> QED BY <2>1, <2>3, Zenon
<1>4. t.term = [i \in active |-> feed(i)]
  BY <1>1, <1>3, Zenon DEF MatchState
<1>5. ASSUME NEW i \in active
      PROVE  TermState(terms[i], t.term[i], text \o bytes, low \o lowered)
  <2>1. t.term[i] = feed(i)
    BY <1>4
  <2>2. TermState(terms[i], m.term[i], text, low) /\ terms[i].value \in Seq(Int)
    BY <1>1 DEF MatchState, Values
  <2>3. TermState(terms[i], feed(i), text \o bytes, low \o lowered)
    BY <2>2, ValueSpanKeeps DEF feed
  <2> QED BY <2>1, <2>3
<1>6. t.pending = << >>
  BY <1>1, <1>3, Zenon
<1>7. MatchState(terms, t, active, text \o bytes, low \o lowered)
  BY <1>4, <1>5 DEF MatchState
<1> QED BY <1>6, <1>7 DEF Ready

(* what a byte does to the terms of a value *)
ByteTaken(terms, m, b, bytes, t) ==
    /\ DOMAIN t.term = DOMAIN m.term
    /\ \A i \in DOMAIN m.term :
         t.term[i] = IF Insensitive(terms[i]) THEN LowerByte(terms[i], m.term[i], bytes)
                     ELSE IF m.term[i].failed THEN m.term[i]
                     ELSE ValueByte(terms[i], m.term[i], b)
    /\ (\A i \in DOMAIN m.term : ~Insensitive(terms[i])) => t.pending = m.pending
    /\ (\E i \in DOMAIN m.term : Insensitive(terms[i])) =>
         t.pending = IF Whole(bytes) THEN << >> ELSE bytes

(* A byte for all terms of a value: the case-sensitive ones take it, the      *)
(* others wait for the character to be whole.                                 *)
LEMMA MatchByteFacts ==
    ASSUME NEW terms, NEW m, NEW b, NEW t, t = MatchByte(terms, m, FALSE, b),
           NEW bytes, bytes = Append(m.pending, b)
    PROVE  ByteTaken(terms, m, b, bytes, t)
<1> DEFINE lower == LowerTerms(terms, m, FALSE)
           feed(i) == IF i \in lower THEN LowerByte(terms[i], m.term[i], bytes)
                      ELSE IF m.term[i].failed THEN m.term[i]
                      ELSE ValueByte(terms[i], m.term[i], b)
           wait == IF lower = {} THEN m.pending ELSE IF Whole(bytes) THEN << >> ELSE bytes
<1>2. t = [term |-> [i \in DOMAIN m.term |-> feed(i)], pending |-> wait]
  BY Zenon DEF MatchByte
<1>3. \A i \in DOMAIN m.term : i \in lower <=> Insensitive(terms[i])
  BY DEF LowerTerms
<1>4. lower \subseteq DOMAIN m.term
  BY DEF LowerTerms
<1> HIDE DEF feed, wait
<1>5. t.term = [i \in DOMAIN m.term |-> feed(i)] /\ t.pending = wait
  <2>1. PICK f, w : f = [i \in DOMAIN m.term |-> feed(i)] /\ w = wait
    OBVIOUS
  <2>2. t = [term |-> f, pending |-> w]
    BY <1>2, <2>1, Zenon
  <2>3. t.term = f /\ t.pending = w
    <3>1. HasFields(t, f, w)
      BY <2>2, MatchFields, Zenon
    <3> QED BY <3>1, Zenon DEF HasFields
  <2> QED BY <2>1, <2>3, Zenon
<1>6. DOMAIN t.term = DOMAIN m.term /\ \A i \in DOMAIN m.term : t.term[i] = feed(i)
  BY <1>5
<1>7. ASSUME NEW i \in DOMAIN m.term
      PROVE  feed(i) = IF Insensitive(terms[i]) THEN LowerByte(terms[i], m.term[i], bytes)
                       ELSE IF m.term[i].failed THEN m.term[i]
                       ELSE ValueByte(terms[i], m.term[i], b)
  BY <1>3, Zenon DEF feed
<1>8. ASSUME \A i \in DOMAIN m.term : ~Insensitive(terms[i]) PROVE wait = m.pending
  <2>1. lower = {}
    BY <1>3, <1>4, <1>8, Zenon
  <2> QED BY <2>1, Zenon DEF wait
<1>9. ASSUME NEW i \in DOMAIN m.term, Insensitive(terms[i])
      PROVE  wait = IF Whole(bytes) THEN << >> ELSE bytes
  <2>1. lower # {}
    BY <1>3, <1>9, Zenon
  <2> QED BY <2>1, Zenon DEF wait
<1> QED BY <1>5, <1>6, <1>7, <1>8, <1>9, Zenon DEF ByteTaken

(* one unfolding of MatchChar *)
CharStep(terms, m, key, bytes, f, k) ==
    IF k = 0 THEN m ELSE MatchByte(terms, f[k - 1], key, bytes[k])

IsCharRun(terms, m, key, bytes, f) ==
    f = [k \in 0 .. Len(bytes) |-> CharStep(terms, m, key, bytes, f, k)]

(* The bytes of a character can be fed one after the other. *)
LEMMA CharExists ==
    ASSUME NEW terms, NEW first, NEW key, NEW bytes \in Seq(Int)
    PROVE  \E f : IsCharRun(terms, first, key, bytes, f)
<1> DEFINE n == Len(bytes)
           T == {m \in 0 .. n : \E f : f = [k \in 0 .. m |-> CharStep(terms, first, key, bytes, f, k)]}
<1>0. n \in Nat
  OBVIOUS
<1>1. 0 \in T
  <2>1. PICK f : f = [k \in 0 .. 0 |-> first]
    OBVIOUS
  <2>2. f = [k \in 0 .. 0 |-> CharStep(terms, first, key, bytes, f, k)]
    BY <2>1 DEF CharStep
  <2> QED BY <1>0, <2>2
<1>2. ASSUME NEW m \in 1 .. n, m - 1 \in T PROVE m \in T
  <2>1. PICK g : g = [k \in 0 .. (m - 1) |-> CharStep(terms, first, key, bytes, g, k)]
    BY <1>2
  <2>2. PICK f : f = [k \in 0 .. m |-> IF k = m THEN CharStep(terms, first, key, bytes, g, m) ELSE g[k]]
    OBVIOUS
  <2>3. f[m] = CharStep(terms, first, key, bytes, g, m) /\ \A k \in 0 .. (m - 1) : f[k] = g[k]
    BY <2>2
  <2>4. ASSUME NEW k \in 0 .. m PROVE f[k] = CharStep(terms, first, key, bytes, f, k)
    <3>1. k # 0 => k - 1 \in 0 .. (m - 1)
      OBVIOUS
    <3>2. CharStep(terms, first, key, bytes, f, k) = CharStep(terms, first, key, bytes, g, k)
      BY <2>3, <3>1, Zenon DEF CharStep
    <3>3. k = m \/ k \in 0 .. (m - 1)
      OBVIOUS
    <3>4. \A j \in 0 .. (m - 1) : g[j] = CharStep(terms, first, key, bytes, g, j)
      BY <2>1
    <3> QED BY <2>3, <3>2, <3>3, <3>4, Zenon
  <2>5. f = [k \in 0 .. m |-> CharStep(terms, first, key, bytes, f, k)]
    <3>1. f = [k \in 0 .. m |-> f[k]]
      BY <2>2, Zenon
    <3> QED BY <2>4, <3>1, Zenon
  <2>6. m \in 0 .. n
    OBVIOUS
  <2> QED BY <2>5, <2>6, Zenon
<1>3. n \in T
  <2>1. n \in 0 .. n
    BY <1>0
  <2> HIDE DEF T, n
  <2>2. 0 .. n \subseteq T
    BY <1>0, <1>1, <1>2, IntervalInduction, Zenon
  <2> QED BY <2>1, <2>2
<1> QED BY <1>3, Zenon DEF IsCharRun

(* after k of the bytes of a character *)
Within(terms, active, m, r, text, low, bytes, k) ==
    /\ DOMAIN r.term = active
    /\ \A i \in active :
         IF Insensitive(terms[i])
         THEN IF k = Len(bytes) THEN LowerState(terms[i], r.term[i], low \o LowerChar(bytes))
              ELSE r.term[i] = m.term[i]
         ELSE ExactState(terms[i], r.term[i], text \o SubSeq(bytes, 1, k))
    /\ r.pending = IF k = Len(bytes) \/ \A i \in active : ~Insensitive(terms[i]) THEN << >>
                   ELSE SubSeq(bytes, 1, k)

(* One more byte of a character. *)
LEMMA WithinStep ==
    ASSUME NEW terms, NEW active, Values(terms, active),
           NEW text \in Seq(Int), NEW low \in Seq(Int),
           NEW bytes \in Seq(Int), Whole(bytes),
           NEW m, MatchState(terms, m, active, text, low),
           NEW k \in 1 .. Len(bytes), NEW r, Within(terms, active, m, r, text, low, bytes, k - 1)
    PROVE  Within(terms, active, m, MatchByte(terms, r, FALSE, bytes[k]), text, low, bytes, k)
<1> DEFINE n == Len(bytes)
           so(j) == text \o SubSeq(bytes, 1, j)
           more == Append(r.pending, bytes[k])
<1>0. /\ n \in Nat /\ k - 1 # n /\ k - 1 \in 0 .. n /\ bytes[k] \in Int /\ bytes # << >>
      /\ k \in 0 .. n
  OBVIOUS
<1>1. so(k - 1) \in Seq(Int) /\ so(k) = Append(so(k - 1), bytes[k])
  BY <1>0, TakeFacts
<1>2. PICK t : t = MatchByte(terms, r, FALSE, bytes[k])
  OBVIOUS
<1>3. /\ DOMAIN t.term = active
      /\ \A i \in active :
           t.term[i] = IF Insensitive(terms[i]) THEN LowerByte(terms[i], r.term[i], more)
                       ELSE IF r.term[i].failed THEN r.term[i]
                       ELSE ValueByte(terms[i], r.term[i], bytes[k])
      /\ (\A i \in active : ~Insensitive(terms[i])) => t.pending = r.pending
      /\ (\E i \in active : Insensitive(terms[i])) =>
           t.pending = IF Whole(more) THEN << >> ELSE more
  <2>1. DOMAIN r.term = active
    BY Zenon DEF Within
  <2>2. /\ DOMAIN t.term = DOMAIN r.term
        /\ \A i \in DOMAIN r.term :
             t.term[i] = IF Insensitive(terms[i]) THEN LowerByte(terms[i], r.term[i], more)
                         ELSE IF r.term[i].failed THEN r.term[i]
                         ELSE ValueByte(terms[i], r.term[i], bytes[k])
        /\ (\A i \in DOMAIN r.term : ~Insensitive(terms[i])) => t.pending = r.pending
        /\ (\E i \in DOMAIN r.term : Insensitive(terms[i])) =>
             t.pending = IF Whole(more) THEN << >> ELSE more
    <3> HIDE DEF more
    <3>1. more = Append(r.pending, bytes[k])
      BY DEF more
    <3>2. ByteTaken(terms, r, bytes[k], more, t)
      BY <1>2, <3>1, MatchByteFacts, Zenon
    <3> QED BY <3>2, Zenon DEF ByteTaken
  <2> QED BY <2>1, <2>2, Zenon
<1>4. ASSUME NEW i \in active, Insensitive(terms[i])
      PROVE  more = SubSeq(bytes, 1, k) /\ (Whole(more) <=> k = n) /\ (k = n => more = bytes)
  <2>1. r.pending = SubSeq(bytes, 1, k - 1)
    BY <1>0, <1>4, Zenon DEF Within
  <2>2. /\ SubSeq(bytes, 1, k - 1) \in Seq(Int)
        /\ SubSeq(bytes, 1, k) = SubSeq(bytes, 1, k - 1) \o <<bytes[k]>>
    <3>1. \A j \in 1 .. (k - 1) : bytes[j] \in Int
      BY <1>0
    <3>2. 1 \in 1 .. Len(bytes) /\ k \in 1 .. Len(bytes)
      BY <1>0
    <3> QED BY <1>0, <3>1, <3>2, SubSeqProperties, SubSeqRecursiveSecond
  <2>3. more = SubSeq(bytes, 1, k)
    BY <1>0, <2>1, <2>2, AppendIsConcat
  <2>4. Len(SubSeq(bytes, 1, k)) = k /\ SubSeq(bytes, 1, k)[1] = bytes[1]
    <3>1. \A j \in 1 .. k : bytes[j] \in Int
      BY <1>0
    <3>2. /\ Len(SubSeq(bytes, 1, k)) = IF 1 <= k THEN k - 1 + 1 ELSE 0
          /\ \A j \in 1 .. (k - 1 + 1) : SubSeq(bytes, 1, k)[j] = bytes[1 + j - 1]
      BY <1>0, <3>1, SubSeqProperties
    <3> QED BY <1>0, <3>2
  <2>5. Whole(more) <=> k = n
    BY <2>3, <2>4 DEF Whole
  <2>6. k = n => SubSeq(bytes, 1, k) = bytes
    BY SubSeqFull
  <2> QED BY <2>3, <2>5, <2>6
<1>5. ASSUME NEW i \in active
      PROVE  IF Insensitive(terms[i])
             THEN IF k = n THEN LowerState(terms[i], t.term[i], low \o LowerChar(bytes))
                  ELSE t.term[i] = m.term[i]
             ELSE ExactState(terms[i], t.term[i], so(k))
  <2>1. terms[i].value \in Seq(Int)
    BY DEF Values
  <2>2. CASE Insensitive(terms[i])
    <3>1. r.term[i] = m.term[i]
      BY <1>0, <2>2, Zenon DEF Within
    <3>2. t.term[i] = IF k = n THEN LowerBytes(terms[i], m.term[i], LowerChar(bytes))
                      ELSE m.term[i]
      BY <1>3, <1>4, <2>2, <3>1, Zenon DEF LowerByte
    <3>3. LowerState(terms[i], m.term[i], low)
      BY <2>2, Zenon DEF MatchState, TermState
    <3>4. LowerChar(bytes) \in Seq(Int)
      BY <1>0, LowerCharIsSeq
    <3>5. LowerState(terms[i], LowerBytes(terms[i], m.term[i], LowerChar(bytes)),
                     low \o LowerChar(bytes))
      BY <2>1, <3>3, <3>4, LowerBytesKeeps
    <3> QED BY <2>2, <3>2, <3>5, Zenon
  <2>3. CASE ~Insensitive(terms[i])
    <3>1. ExactState(terms[i], r.term[i], so(k - 1))
      BY <2>3, Zenon DEF Within
    <3>2. t.term[i] = IF r.term[i].failed THEN r.term[i]
                      ELSE ValueByte(terms[i], r.term[i], bytes[k])
      BY <1>3, <2>3, Zenon
    <3>3. ExactState(terms[i], t.term[i], Append(so(k - 1), bytes[k]))
      <4> HIDE DEF so
      <4> QED BY <1>0, <1>1, <2>1, <3>1, <3>2, ValueByteKeeps
    <3> QED BY <1>1, <2>3, <3>3, Zenon
  <2> QED BY <2>2, <2>3
<1>6. t.pending = IF k = n \/ \A i \in active : ~Insensitive(terms[i]) THEN << >>
                  ELSE SubSeq(bytes, 1, k)
  <2>1. CASE \A i \in active : ~Insensitive(terms[i])
    <3>1. r.pending = << >>
      BY <2>1, Zenon DEF Within
    <3> QED BY <1>3, <2>1, <3>1, Zenon
  <2>2. CASE \E i \in active : Insensitive(terms[i])
    <3> HIDE DEF more
    <3> QED BY <1>3, <1>4, <2>2, Zenon
  <2> QED BY <2>1, <2>2, Zenon
<1>7. Within(terms, active, m, t, text, low, bytes, k)
  BY <1>3, <1>5, <1>6, Zenon DEF Within
<1> QED BY <1>2, <1>7

(* Between characters nothing is pending, and a character is part of the text *)
(* when its last byte has been taken.                                         *)
LEMMA WithinEnds ==
    ASSUME NEW terms, NEW active, NEW text \in Seq(Int), NEW low \in Seq(Int),
           NEW bytes \in Seq(Int), bytes # << >>,
           NEW m, MatchState(terms, m, active, text, low)
    PROVE  /\ m.pending = << >> => Within(terms, active, m, m, text, low, bytes, 0)
           /\ \A t : Within(terms, active, m, t, text, low, bytes, Len(bytes)) =>
                       Ready(terms, t, active, text \o bytes, low \o LowerChar(bytes))
<1>1. /\ text \o SubSeq(bytes, 1, 0) = text
      /\ text \o SubSeq(bytes, 1, Len(bytes)) = text \o bytes
  BY TakeFacts
<1>2. 0 # Len(bytes) /\ SubSeq(bytes, 1, 0) = << >>
  BY EmptySeq, SubSeqEmpty
<1>3. m.pending = << >> => Within(terms, active, m, m, text, low, bytes, 0)
  BY <1>1, <1>2, Zenon DEF Within, MatchState, TermState
<1>4. ASSUME NEW t, Within(terms, active, m, t, text, low, bytes, Len(bytes))
      PROVE  Ready(terms, t, active, text \o bytes, low \o LowerChar(bytes))
  BY <1>1, <1>4, Zenon DEF Within, Ready, MatchState, TermState
<1> QED BY <1>3, <1>4, Zenon

(* A character, byte by byte, for all terms of a value. *)
LEMMA MatchCharKeeps ==
    ASSUME NEW terms, NEW active, Values(terms, active),
           NEW text \in Seq(Int), NEW low \in Seq(Int),
           NEW bytes \in Seq(Int), bytes # << >>, Whole(bytes),
           NEW m, Ready(terms, m, active, text, low),
           NEW t, t = MatchChar(terms, m, FALSE, bytes)
    PROVE  Ready(terms, t, active, text \o bytes, low \o LowerChar(bytes))
<1> DEFINE n == Len(bytes)
<1>9. m.pending = << >> /\ MatchState(terms, m, active, text, low)
  BY DEF Ready
<1>0. n \in Nat
  OBVIOUS
<1>1. PICK r : r = CHOOSE f : IsCharRun(terms, m, FALSE, bytes, f)
  OBVIOUS
<1>2. IsCharRun(terms, m, FALSE, bytes, r)
  BY <1>1, CharExists, Zenon
<1>3. MatchChar(terms, m, FALSE, bytes) = r[n]
  BY <1>1 DEF MatchChar, IsCharRun, CharStep
<1>4. \A k \in 0 .. n : r[k] = CharStep(terms, m, FALSE, bytes, r, k)
  BY <1>2 DEF IsCharRun
<1> DEFINE T == {k \in 0 .. n : Within(terms, active, m, r[k], text, low, bytes, k)}
<1>5. 0 \in T
  <2>1. 0 \in 0 .. n
    BY <1>0
  <2>2. r[0] = m
    BY <1>4, <2>1 DEF CharStep
  <2>3. Within(terms, active, m, m, text, low, bytes, 0)
    BY <1>9, WithinEnds
  <2> QED BY <2>1, <2>2, <2>3
<1>6. ASSUME NEW k \in 1 .. n, k - 1 \in T PROVE k \in T
  <2>1. k \in 0 .. n /\ k # 0 /\ k - 1 \in 0 .. n
    BY <1>0
  <2>2. r[k] = MatchByte(terms, r[k - 1], FALSE, bytes[k])
    BY <1>4, <2>1, Zenon DEF CharStep
  <2>3. Within(terms, active, m, r[k - 1], text, low, bytes, k - 1)
    BY <1>6
  <2>4. Within(terms, active, m, MatchByte(terms, r[k - 1], FALSE, bytes[k]), text, low, bytes, k)
    BY <1>9, <2>3, WithinStep
  <2> QED BY <2>1, <2>2, <2>4
<1>7. n \in T
  <2>1. n \in 0 .. n
    BY <1>0
  <2> HIDE DEF T, n
  <2>2. 0 .. n \subseteq T
    BY <1>0, <1>5, <1>6, IntervalInduction, Zenon
  <2> QED BY <2>1, <2>2
<1>8. Within(terms, active, m, t, text, low, bytes, Len(bytes))
  BY <1>3, <1>7
<1> QED BY <1>8, <1>9, WithinEnds, Zenon

(* A single byte that is a character. *)
LEMMA MatchByteKeeps ==
    ASSUME NEW terms, NEW active, Values(terms, active),
           NEW text \in Seq(Int), NEW low \in Seq(Int), NEW b \in 0 .. 127,
           NEW m, Ready(terms, m, active, text, low),
           NEW t, t = MatchByte(terms, m, FALSE, b)
    PROVE  Ready(terms, t, active, text \o <<b>>, low \o LowerChar(<<b>>))
<1>0. m.pending = << >> /\ MatchState(terms, m, active, text, low)
  BY DEF Ready
<1>1. PICK bytes : bytes = <<b>>
  OBVIOUS
<1>2. bytes \in Seq(Int) /\ bytes # << >> /\ Len(bytes) = 1 /\ bytes[1] = b
  BY <1>1
<1>3. Whole(bytes)
  BY <1>2 DEF Whole, Utf8Width
<1>4. Within(terms, active, m, m, text, low, bytes, 0)
  BY <1>0, <1>2, WithinEnds
<1>5. Within(terms, active, m, MatchByte(terms, m, FALSE, bytes[1]), text, low, bytes, 1)
  <2>1. 1 \in 1 .. Len(bytes) /\ 1 - 1 = 0
    BY <1>2
  <2>2. Within(terms, active, m, m, text, low, bytes, 1 - 1)
    BY <1>4, <2>1
  <2> QED BY <1>0, <1>2, <1>3, <2>1, <2>2, WithinStep
<1>6. Within(terms, active, m, t, text, low, bytes, Len(bytes))
  BY <1>2, <1>5
<1>7. Ready(terms, t, active, text \o bytes, low \o LowerChar(bytes))
  BY <1>0, <1>2, <1>6, WithinEnds, Zenon
<1> QED BY <1>1, <1>7, Zenon

-----------------------------------------------------------------------------
(***************************************************************************)
(* The text of a value and its characters in lower case.                    *)
(***************************************************************************)
(* the items have bytes *)
HasBytes(items) ==
    Len(items) \in Nat /\ \A k \in 1 .. Len(items) : items[k].bytes \in Seq(Int)

(* the items with their characters in lower case *)
LowerItems(items) ==
    [k \in 1 .. Len(items) |->
       [plain |-> items[k].plain,
        bytes |-> IF items[k].bytes = << >> THEN << >> ELSE LowerChar(items[k].bytes)]]

(* one unfolding of Decoded *)
DecodedStep(items, f, k) == IF k = 0 THEN << >> ELSE f[k - 1] \o items[k].bytes

IsDecoded(items, f) == f = [k \in 0 .. Len(items) |-> DecodedStep(items, f, k)]

(* The bytes of the items can be put together one after the other. *)
LEMMA DecodedExists ==
    ASSUME NEW items, Len(items) \in Nat
    PROVE  \E f : IsDecoded(items, f)
<1> DEFINE n == Len(items)
           T == {m \in 0 .. n : \E f : f = [k \in 0 .. m |-> DecodedStep(items, f, k)]}
<1>0. n \in Nat
  OBVIOUS
<1>1. 0 \in T
  <2>1. PICK f : f = [k \in 0 .. 0 |-> << >>]
    OBVIOUS
  <2>2. f = [k \in 0 .. 0 |-> DecodedStep(items, f, k)]
    BY <2>1 DEF DecodedStep
  <2> QED BY <1>0, <2>2
<1>2. ASSUME NEW m \in 1 .. n, m - 1 \in T PROVE m \in T
  <2>1. PICK g : g = [k \in 0 .. (m - 1) |-> DecodedStep(items, g, k)]
    BY <1>2
  <2>2. PICK f : f = [k \in 0 .. m |-> IF k = m THEN DecodedStep(items, g, m) ELSE g[k]]
    OBVIOUS
  <2>3. f[m] = DecodedStep(items, g, m) /\ \A k \in 0 .. (m - 1) : f[k] = g[k]
    BY <2>2
  <2>4. ASSUME NEW k \in 0 .. m PROVE f[k] = DecodedStep(items, f, k)
    <3>1. k # 0 => k - 1 \in 0 .. (m - 1)
      OBVIOUS
    <3>2. DecodedStep(items, f, k) = DecodedStep(items, g, k)
      BY <2>3, <3>1, Zenon DEF DecodedStep
    <3>3. k = m \/ k \in 0 .. (m - 1)
      OBVIOUS
    <3>4. \A j \in 0 .. (m - 1) : g[j] = DecodedStep(items, g, j)
      BY <2>1
    <3> QED BY <2>3, <3>2, <3>3, <3>4, Zenon
  <2>5. f = [k \in 0 .. m |-> DecodedStep(items, f, k)]
    <3>1. f = [k \in 0 .. m |-> f[k]]
      BY <2>2, Zenon
    <3> QED BY <2>4, <3>1, Zenon
  <2>6. m \in 0 .. n
    OBVIOUS
  <2> QED BY <2>5, <2>6, Zenon
<1>3. n \in T
  <2>1. n \in 0 .. n
    BY <1>0
  <2> HIDE DEF T, n
  <2>2. 0 .. n \subseteq T
    BY <1>0, <1>1, <1>2, IntervalInduction, Zenon
  <2> QED BY <2>1, <2>2
<1> QED BY <1>3, Zenon DEF IsDecoded

(* What has been read grows item by item. *)
LEMMA DecodedFacts ==
    ASSUME NEW items, HasBytes(items)
    PROVE  /\ Decoded(items)[0] = << >>
           /\ \A k \in 1 .. Len(items) :
                Decoded(items)[k] = Decoded(items)[k - 1] \o items[k].bytes
           /\ \A k \in 0 .. Len(items) : Decoded(items)[k] \in Seq(Int)
<1> DEFINE n == Len(items)
           D == Decoded(items)
<1>0. n \in Nat
  BY DEF HasBytes
<1>1. PICK r : r = CHOOSE f : IsDecoded(items, f)
  OBVIOUS
<1>2. IsDecoded(items, r)
  BY <1>0, <1>1, DecodedExists, Zenon
<1>3. D = r
  BY <1>1 DEF Decoded, IsDecoded, DecodedStep
<1>4. \A k \in 0 .. n : D[k] = DecodedStep(items, D, k)
  BY <1>2, <1>3 DEF IsDecoded
<1> HIDE DEF D
<1>5. D[0] = << >>
  <2>1. 0 \in 0 .. n
    BY <1>0
  <2> QED BY <1>4, <2>1 DEF DecodedStep
<1>6. ASSUME NEW k \in 1 .. n PROVE D[k] = D[k - 1] \o items[k].bytes
  <2>1. k \in 0 .. n /\ k # 0
    BY <1>0
  <2> QED BY <1>4, <2>1, Zenon DEF DecodedStep
<1> DEFINE T == {k \in 0 .. n : D[k] \in Seq(Int)}
<1>7. 0 \in T
  <2>1. 0 \in 0 .. n /\ << >> \in Seq(Int)
    BY <1>0
  <2> QED BY <1>5, <2>1, Zenon
<1>8. ASSUME NEW k \in 1 .. n, k - 1 \in T PROVE k \in T
  <2>1. k \in 0 .. n
    BY <1>0
  <2>2. items[k].bytes \in Seq(Int)
    BY DEF HasBytes
  <2>3. D[k - 1] \in Seq(Int)
    BY <1>8
  <2>4. D[k - 1] \o items[k].bytes \in Seq(Int)
    BY <2>2, <2>3, ConcatProperties
  <2> QED BY <1>6, <2>1, <2>4
<1>9. 0 .. n \subseteq T
  <2> HIDE DEF T, n
  <2> QED BY <1>0, <1>7, <1>8, IntervalInduction, Zenon
<1>10. D = Decoded(items)
  BY DEF D
<1> QED BY <1>5, <1>6, <1>9, <1>10, Zenon

OneByteEach(items, from, bytes) ==
    /\ from + Len(bytes) <= Len(items)
    /\ \A k \in 1 .. Len(bytes) : items[from + k].bytes = <<bytes[k]>>

(* A run of items of one byte each adds its bytes. *)
LEMMA DecodedRun ==
    ASSUME NEW items, HasBytes(items), NEW from \in Nat, NEW bytes \in Seq(Int),
           OneByteEach(items, from, bytes)
    PROVE  Decoded(items)[from + Len(bytes)] = Decoded(items)[from] \o bytes
<1> DEFINE n == Len(bytes)
           D == Decoded(items)
           so(k) == D[from] \o SubSeq(bytes, 1, k)
<1>0. n \in Nat /\ Len(items) \in Nat /\ from \in 0 .. Len(items) /\ from + n <= Len(items)
  BY DEF HasBytes, OneByteEach
<1>1. /\ \A k \in 1 .. Len(items) : D[k] = D[k - 1] \o items[k].bytes
      /\ \A k \in 0 .. Len(items) : D[k] \in Seq(Int)
  BY DecodedFacts
<1>2. /\ so(0) = D[from] /\ so(n) = D[from] \o bytes
      /\ \A k \in 0 .. n : so(k) \in Seq(Int)
      /\ \A k \in 1 .. n : so(k) = Append(so(k - 1), bytes[k])
  <2>1. D[from] \in Seq(Int)
    BY <1>0, <1>1
  <2> HIDE DEF D
  <2> QED BY <2>1, TakeFacts
<1> DEFINE T == {k \in 0 .. n : D[from + k] = so(k)}
<1> HIDE DEF D, so
<1>3. 0 \in T
  <2>1. 0 \in 0 .. n /\ from + 0 = from
    BY <1>0
  <2> QED BY <1>2, <2>1
<1>4. ASSUME NEW k \in 1 .. n, k - 1 \in T PROVE k \in T
  <2>1. k \in 0 .. n /\ from + k \in 1 .. Len(items) /\ from + k - 1 = from + (k - 1)
        /\ k - 1 \in 0 .. n /\ bytes[k] \in Int
    BY <1>0
  <2>2. D[from + k] = D[from + (k - 1)] \o items[from + k].bytes
    <3>1. PICK j \in 1 .. Len(items) : j = from + k
      BY <2>1
    <3>2. j - 1 = from + (k - 1)
      BY <1>0, <3>1
    <3>3. D[j] = D[j - 1] \o items[j].bytes
      BY <1>1
    <3> QED BY <3>1, <3>2, <3>3, Zenon
  <2>3. D[from + (k - 1)] = so(k - 1) /\ so(k - 1) \in Seq(Int)
    BY <1>2, <1>4, <2>1
  <2>4. items[from + k].bytes = <<bytes[k]>>
    BY DEF OneByteEach
  <2>5. so(k - 1) \o <<bytes[k]>> = Append(so(k - 1), bytes[k])
    BY <2>1, <2>3, AppendIsConcat
  <2> QED BY <1>2, <2>1, <2>2, <2>3, <2>4, <2>5
<1>5. n \in T
  <2>1. n \in 0 .. n
    BY <1>0
  <2> HIDE DEF T, n
  <2>2. 0 .. n \subseteq T
    BY <1>0, <1>3, <1>4, IntervalInduction, Zenon
  <2> QED BY <2>1, <2>2
<1> QED BY <1>2, <1>5 DEF D

(* The lowered items have bytes as well. *)
LEMMA LowerItemsFacts ==
    ASSUME NEW items, HasBytes(items),
           \A k \in 1 .. Len(items) : items[k].bytes # << >> => Whole(items[k].bytes)
    PROVE  /\ HasBytes(LowerItems(items)) /\ Len(LowerItems(items)) = Len(items)
           /\ \A k \in 1 .. Len(items) :
                items[k].bytes # << >> => LowerItems(items)[k].bytes = LowerChar(items[k].bytes)
<1> DEFINE n == Len(items)
           byte(k) == IF items[k].bytes = << >> THEN << >> ELSE LowerChar(items[k].bytes)
           item(k) == [plain |-> items[k].plain, bytes |-> byte(k)]
<1>0. n \in Nat
  BY DEF HasBytes
<1>1. PICK low : low = LowerItems(items)
  OBVIOUS
<1>2. low = [k \in 1 .. n |-> item(k)]
  BY <1>1 DEF LowerItems
<1>3. ASSUME NEW k \in 1 .. n PROVE byte(k) \in Seq(Int)
  <2>1. items[k].bytes \in Seq(Int)
    BY DEF HasBytes
  <2>2. items[k].bytes # << >> => LowerChar(items[k].bytes) \in Seq(Int)
    BY <2>1, LowerCharIsSeq
  <2>3. << >> \in Seq(Int)
    OBVIOUS
  <2> QED BY <2>2, <2>3, Zenon
<1>4. ASSUME NEW k \in 1 .. n PROVE low[k].bytes = byte(k)
  <2> HIDE DEF byte
  <2> QED BY <1>2
<1>5. Len(low) = n
  <2> HIDE DEF item
  <2> QED BY <1>0, <1>2
<1> HIDE DEF byte
<1>6. HasBytes(low)
  BY <1>0, <1>3, <1>4, <1>5 DEF HasBytes
<1>7. \A k \in 1 .. n : items[k].bytes # << >> => low[k].bytes = LowerChar(items[k].bytes)
  BY <1>4, Zenon DEF byte
<1> QED BY <1>1, <1>5, <1>6, <1>7

(* one unfolding of Utf8Lower *)
LowerAt(text, f, i) ==
    IF i > Len(text) THEN << >>
    ELSE LowerChar(SubSeq(text, i, i + Utf8Width(text[i]) - 1)) \o f[i + Utf8Width(text[i])]

IsLower(text, f) == f = [i \in 1 .. (Len(text) + 4) |-> LowerAt(text, f, i)]

(* A text can be lowered from its end on. *)
LEMMA LowerExists ==
    ASSUME NEW text \in Seq(Int)
    PROVE  \E f : IsLower(text, f)
<1> DEFINE n == Len(text) + 3
           last == Len(text) + 4
           T == {k \in 0 .. n : \E f : f = [i \in (last - k) .. last |-> LowerAt(text, f, i)]}
<1>0. n \in Nat /\ last \in Nat /\ Len(text) \in Nat
  OBVIOUS
<1>1. 0 \in T
  <2>1. PICK f : f = [i \in last .. last |-> << >>]
    OBVIOUS
  <2>2. \A i \in last .. last : LowerAt(text, f, i) = << >>
    BY <1>0 DEF LowerAt
  <2>3. f = [i \in (last - 0) .. last |-> LowerAt(text, f, i)]
    BY <1>0, <2>1, <2>2
  <2> QED BY <1>0, <2>3
<1>2. ASSUME NEW k \in 1 .. n, k - 1 \in T PROVE k \in T
  <2> DEFINE c == last - k
             low == (last - (k - 1)) .. last
  <2>0. k \in 0 .. n /\ c \in Int /\ c \in c .. last /\ c \notin low
        /\ low \subseteq c .. last /\ \A i \in c .. last : i = c \/ i \in low
    BY <1>0
  <2>1. PICK g : g = [i \in low |-> LowerAt(text, g, i)]
    BY <1>2
  <2>2. PICK f : f = [i \in c .. last |-> IF i = c THEN LowerAt(text, g, c) ELSE g[i]]
    OBVIOUS
  <2>3. f[c] = LowerAt(text, g, c) /\ \A i \in low : f[i] = g[i]
    <3> HIDE DEF low
    <3> QED BY <2>0, <2>2, Zenon
  <2>4. ASSUME NEW i \in c .. last PROVE LowerAt(text, f, i) = LowerAt(text, g, i)
    <3>1. i <= Len(text) => i + Utf8Width(text[i]) \in low
      <4>1. PICK w \in 1 .. 4 : w = Utf8Width(text[i])
        BY DEF Utf8Width
      <4>2. i <= Len(text) => i + w \in low
        BY <1>0
      <4> QED BY <4>1, <4>2, Zenon
    <3>2. i > Len(text) \/ i <= Len(text)
      BY <1>0
    <3> HIDE DEF low
    <3> QED BY <2>3, <3>1, <3>2, Zenon DEF LowerAt
  <2>5. ASSUME NEW i \in c .. last PROVE f[i] = LowerAt(text, f, i)
    <3>1. i = c \/ i \in low
      BY <2>0, Zenon
    <3>2. \A j \in low : g[j] = LowerAt(text, g, j)
      <4> HIDE DEF low
      <4> QED BY <2>1, Zenon
    <3> HIDE DEF low, c
    <3> QED BY <2>3, <2>4, <3>1, <3>2, Zenon
  <2>6. f = [i \in c .. last |-> LowerAt(text, f, i)]
    <3>1. f = [i \in c .. last |-> f[i]]
      BY <2>2, Zenon
    <3> QED BY <2>5, <3>1, Zenon
  <2> QED BY <2>0, <2>6, Zenon
<1>3. n \in T
  <2>1. n \in 0 .. n
    BY <1>0
  <2> HIDE DEF T, n
  <2>2. 0 .. n \subseteq T
    BY <1>0, <1>1, <1>2, IntervalInduction, Zenon
  <2> QED BY <2>1, <2>2
<1>4. last - n = 1
  BY <1>0
<1>5. \E f : f = [i \in (last - n) .. last |-> LowerAt(text, f, i)]
  BY <1>3
<1> QED BY <1>4, <1>5, Zenon DEF IsLower

(* The characters of the text are the items. *)
LEMMA ItemPlaces ==
    ASSUME NEW items, HasBytes(items), NEW text \in Seq(Int),
           text = Decoded(items)[Len(items)], NEW k \in 1 .. Len(items)
    PROVE  LET from == Len(Decoded(items)[k - 1])
               size == Len(items[k].bytes)
           IN  /\ from \in Nat /\ size \in Nat /\ from + size <= Len(text)
               /\ Len(Decoded(items)[k]) = from + size
               /\ SubSeq(text, from + 1, from + size) = items[k].bytes
               /\ \A i \in 1 .. size : text[from + i] = items[k].bytes[i]
<1> DEFINE n == Len(items)
           D == Decoded(items)
           T == {j \in 0 .. n : \E rest \in Seq(Int) : text = D[n - j] \o rest}
<1>0. n \in Nat
  BY DEF HasBytes
<1>1. /\ \A j \in 1 .. n : D[j] = D[j - 1] \o items[j].bytes
      /\ \A j \in 0 .. n : D[j] \in Seq(Int)
  BY DecodedFacts
<1>2. \A j \in 1 .. n : items[j].bytes \in Seq(Int)
  BY DEF HasBytes
<1>20. text = D[n]
  OBVIOUS
<1> HIDE DEF D
<1>3. 0 \in T
  <2>1. n - 0 = n /\ 0 \in 0 .. n /\ << >> \in Seq(Int)
    BY <1>0
  <2>2. text = text \o << >>
    BY ConcatEmptySeq
  <2>3. text = D[n - 0] \o << >>
    BY <1>20, <2>1, <2>2, Zenon
  <2> QED BY <2>1, <2>3, Zenon
<1>4. ASSUME NEW j \in 1 .. n, j - 1 \in T PROVE j \in T
  <2>1. PICK rest \in Seq(Int) : text = D[n - (j - 1)] \o rest
    BY <1>4, Zenon
  <2> DEFINE c == n - (j - 1)
  <2>2. c \in 1 .. n /\ c - 1 = n - j /\ c - 1 \in 0 .. n /\ j \in 0 .. n
    BY <1>0
  <2>3. D[c] = D[c - 1] \o items[c].bytes /\ D[c - 1] \in Seq(Int) /\ items[c].bytes \in Seq(Int)
    <3> HIDE DEF c
    <3> QED BY <1>1, <1>2, <2>2, Zenon
  <2>4. (D[c - 1] \o items[c].bytes) \o rest = D[c - 1] \o (items[c].bytes \o rest)
    <3>1. PICK x \in Seq(Int), y \in Seq(Int) : x = D[c - 1] /\ y = items[c].bytes
      <4> HIDE DEF c
      <4> QED BY <2>3, Zenon
    <3>2. (x \o y) \o rest = x \o (y \o rest)
      <4>1. Joined(x, y, rest)
        BY ThreeParts, Zenon
      <4> QED BY <4>1, Zenon DEF Joined
    <3> QED BY <3>1, <3>2, Zenon
  <2>5. items[c].bytes \o rest \in Seq(Int)
    BY <2>3, ConcatProperties
  <2>6. text = D[n - j] \o (items[c].bytes \o rest)
    <3>1. text = D[c] \o rest
      BY <2>1, Zenon
    <3> HIDE DEF c
    <3> QED BY <2>2, <2>3, <2>4, <3>1, Zenon
  <2> QED BY <2>2, <2>5, <2>6, Zenon
<1>5. 0 .. n \subseteq T
  <2> HIDE DEF T, n
  <2> QED BY <1>0, <1>3, <1>4, IntervalInduction, Zenon
<1>6. PICK rest \in Seq(Int) : text = D[k] \o rest
  <2>1. n - k \in 0 .. n /\ n - (n - k) = k
    BY <1>0
  <2>2. n - k \in T
    BY <1>5, <2>1, Zenon
  <2> HIDE DEF n
  <2> QED BY <2>1, <2>2, Zenon
<1>7. PICK a, c : a = D[k - 1] /\ c = items[k].bytes
  OBVIOUS
<1>8. a \in Seq(Int) /\ c \in Seq(Int) /\ D[k] = a \o c /\ text = (a \o c) \o rest
  <2>1. k - 1 \in 0 .. n
    BY <1>0
  <2> QED BY <1>1, <1>2, <1>6, <1>7, <2>1, Zenon
<1>9. /\ Len(a) \in Nat /\ Len(c) \in Nat /\ Len(a) + Len(c) <= Len(text)
      /\ Len(a \o c) = Len(a) + Len(c)
      /\ \A i \in 1 .. Len(c) : text[Len(a) + i] = c[i]
  BY <1>8
<1>10. SubSeq(text, Len(a) + 1, Len(a) + Len(c)) = c
  <2>1. PICK s : s = SubSeq(text, Len(a) + 1, Len(a) + Len(c))
    OBVIOUS
  <2> DEFINE from == Len(a) + 1
             to == Len(a) + Len(c)
  <2>2. from \in Int /\ to \in Int /\ to - from + 1 = Len(c) /\ \A i \in from .. to : text[i] \in Int
    <3>1. from \in Int /\ to \in Int /\ to - from + 1 = Len(c) /\ Len(text) \in Nat
      BY <1>9
    <3>2. \A i \in from .. to : i \in 1 .. Len(text)
      BY <1>9, <3>1
    <3> HIDE DEF from, to
    <3> QED BY <3>1, <3>2, ElementOfSeq, Zenon
  <2>3. /\ s \in Seq(Int)
        /\ Len(s) = IF from <= to THEN to - from + 1 ELSE 0
        /\ \A i \in 1 .. (to - from + 1) : s[i] = text[from + i - 1]
    <3> HIDE DEF from, to
    <3>1. /\ SubSeq(text, from, to) \in Seq(Int)
          /\ Len(SubSeq(text, from, to)) = IF from <= to THEN to - from + 1 ELSE 0
          /\ \A i \in 1 .. (to - from + 1) : SubSeq(text, from, to)[i] = text[from + i - 1]
      BY <2>2, SubSeqProperties
    <3>2. s = SubSeq(text, from, to)
      BY <2>1, Zenon DEF from, to
    <3> QED BY <3>1, <3>2, Zenon
  <2>4. Len(s) = Len(c)
    BY <1>9, <2>2, <2>3
  <2>5. ASSUME NEW i \in 1 .. Len(c) PROVE s[i] = c[i]
    <3>1. from + i - 1 = Len(a) + i
      BY <1>9
    <3>2. s[i] = text[from + i - 1]
      BY <2>2, <2>3
    <3> QED BY <1>9, <3>1, <3>2
  <2> QED BY <1>8, <1>9, <2>1, <2>3, <2>4, <2>5, SeqEqual
<1> QED BY <1>7, <1>8, <1>9, <1>10, Zenon DEF D

(* every item is a whole character *)
WholeItems(items) ==
    \A k \in 1 .. Len(items) : items[k].bytes # << >> /\ Whole(items[k].bytes)

(* The text in lower case is its characters in lower case, however the text is *)
(* cut into items.                                                             *)
LEMMA LowerOfDecoded ==
    ASSUME NEW items, HasBytes(items), WholeItems(items)
    PROVE  Utf8Lower(Decoded(items)[Len(items)]) = Decoded(LowerItems(items))[Len(items)]
<1> DEFINE n == Len(items)
           D == Decoded(items)
           L == Decoded(LowerItems(items))
           P(k) == Len(D[k]) + 1
           low(k) == LowerChar(items[k].bytes)
<1>0. n \in Nat
  BY DEF HasBytes
<1>1. /\ D[0] = << >> /\ \A k \in 0 .. n : D[k] \in Seq(Int)
  BY DecodedFacts
<1>2. /\ HasBytes(LowerItems(items)) /\ Len(LowerItems(items)) = n
      /\ \A k \in 1 .. n : LowerItems(items)[k].bytes = low(k)
  BY LowerItemsFacts DEF WholeItems
<1>3. /\ L[0] = << >> /\ \A k \in 0 .. n : L[k] \in Seq(Int)
      /\ \A k \in 1 .. n : L[k] = L[k - 1] \o LowerItems(items)[k].bytes
  BY <1>2, DecodedFacts
<1>4. PICK text \in Seq(Int) : text = D[n]
  BY <1>0, <1>1
<1>5. PICK r : r = CHOOSE f : IsLower(text, f)
  OBVIOUS
<1>6. IsLower(text, r)
  BY <1>5, LowerExists, Zenon
<1>7. Utf8Lower(text) = r[1]
  BY <1>5 DEF Utf8Lower, IsLower, LowerAt
<1>8. \A i \in 1 .. (Len(text) + 4) : r[i] = LowerAt(text, r, i)
  BY <1>6 DEF IsLower
<1>9. ASSUME NEW k \in 1 .. n
      PROVE  r[P(k - 1)] = low(k) \o r[P(k)] /\ low(k) \in Seq(Int)
  <2> DEFINE from == Len(D[k - 1])
             c == items[k].bytes
             size == Len(c)
  <2>1. /\ from \in Nat /\ size \in Nat /\ from + size <= Len(text)
        /\ Len(D[k]) = from + size
        /\ SubSeq(text, from + 1, from + size) = c
        /\ \A i \in 1 .. size : text[from + i] = c[i]
    BY <1>4, ItemPlaces
  <2>2. c \in Seq(Int) /\ c # << >> /\ Whole(c)
    BY DEF HasBytes, WholeItems
  <2>3. low(k) \in Seq(Int)
    BY <2>2, LowerCharIsSeq
  <2>4. size >= 1
    BY <2>2
  <2>5. text[from + 1] = c[1] /\ size = Utf8Width(c[1])
    <3>1. 1 \in 1 .. size
      BY <2>1, <2>4
    <3>2. size = Utf8Width(c[1])
      BY <2>2, Zenon DEF Whole
    <3> HIDE DEF from, size, c
    <3> QED BY <2>1, <3>1, <3>2, Zenon
  <2>6. /\ from + 1 \in 1 .. (Len(text) + 4) /\ ~(from + 1 > Len(text))
        /\ from + 1 + size - 1 = from + size /\ from + 1 + size = from + size + 1
    <3>1. Len(text) \in Nat
      OBVIOUS
    <3>2. PICK a \in Nat, b \in Nat, e \in Nat : a = from /\ b = size /\ e = Len(text)
      <4> HIDE DEF from, size
      <4> QED BY <2>1, <3>1, Zenon
    <3>3. a + b <= e /\ b >= 1
      <4> HIDE DEF from, size
      <4> QED BY <2>1, <2>4, <3>2, Zenon
    <3>4. a + 1 \in 1 .. (e + 4) /\ ~(a + 1 > e) /\ a + 1 + b - 1 = a + b /\ a + 1 + b = a + b + 1
      BY <3>3
    <3> HIDE DEF from, size
    <3> QED BY <3>2, <3>4, Zenon
  <2>7. r[from + 1] = LowerChar(SubSeq(text, from + 1, from + 1 + size - 1)) \o r[from + 1 + size]
    <3> HIDE DEF from, size, c
    <3>1. r[from + 1] = LowerAt(text, r, from + 1)
      BY <1>8, <2>6, Zenon
    <3> QED BY <2>5, <2>6, <3>1, Zenon DEF LowerAt
  <2>8. r[from + 1] = low(k) \o r[from + size + 1]
    <3>1. low(k) = LowerChar(c)
      OBVIOUS
    <3> HIDE DEF from, size, c, low
    <3> QED BY <2>1, <2>6, <2>7, <3>1, Zenon
  <2>9. P(k - 1) = from + 1 /\ P(k) = from + size + 1
    <3>1. P(k) = Len(D[k]) + 1 /\ P(k - 1) = from + 1
      OBVIOUS
    <3> HIDE DEF from, size, P, D
    <3> QED BY <2>1, <3>1, Zenon
  <2> HIDE DEF P, from, size, low
  <2> QED BY <2>3, <2>8, <2>9, Zenon
<1>10. r[P(n)] = << >> /\ P(0) = 1
  <2>1. P(n) \in 1 .. (Len(text) + 4) /\ P(n) > Len(text)
    BY <1>4
  <2>2. r[P(n)] = LowerAt(text, r, P(n))
    <3> HIDE DEF P
    <3> QED BY <1>8, <2>1, Zenon
  <2>3. r[P(n)] = << >>
    <3> HIDE DEF P
    <3> QED BY <2>1, <2>2, Zenon DEF LowerAt
  <2>4. P(0) = 1
    <3>1. Len(<< >>) + 1 = 1
      OBVIOUS
    <3> HIDE DEF D
    <3> QED BY <1>1, <3>1, Zenon DEF P
  <2> QED BY <2>3, <2>4, Zenon
<1> HIDE DEF P, D
<1>11. \A k \in 1 .. n : L[k] = L[k - 1] \o low(k)
  <2> HIDE DEF L, low, n
  <2> QED BY <1>2, <1>3, Zenon
<1> HIDE DEF L, low
<1> DEFINE T == {j \in 0 .. n : r[P(n - j)] \in Seq(Int) /\ L[n] = L[n - j] \o r[P(n - j)]}
<1>12. 0 \in T
  <2>1. n - 0 = n /\ 0 \in 0 .. n /\ n \in 0 .. n /\ << >> \in Seq(Int)
    BY <1>0
  <2>2. L[n] = L[n] \o << >>
    BY <1>3, <2>1, ConcatEmptySeq
  <2> QED BY <1>10, <2>1, <2>2, Zenon
<1>13. ASSUME NEW j \in 1 .. n, j - 1 \in T PROVE j \in T
  <2>1. PICK k \in 1 .. n : k = n - (j - 1)
    <3>1. n - (j - 1) \in 1 .. n
      BY <1>0
    <3> QED BY <3>1, Zenon
  <2>2. k - 1 = n - j /\ j \in 0 .. n /\ k - 1 \in 0 .. n
    BY <1>0, <2>1
  <2>3. r[P(k)] \in Seq(Int) /\ L[n] = L[k] \o r[P(k)]
    BY <1>13, <2>1, Zenon
  <2>4. PICK x \in Seq(Int), y \in Seq(Int), z \in Seq(Int) :
           x = L[k - 1] /\ y = low(k) /\ z = r[P(k)]
    BY <1>3, <1>9, <2>2, <2>3, Zenon
  <2>5. L[k] = x \o y /\ r[P(k - 1)] = y \o z
    BY <1>9, <1>11, <2>4, Zenon
  <2>6. (x \o y) \o z = x \o (y \o z) /\ y \o z \in Seq(Int)
    <3>1. Joined(x, y, z)
      BY ThreeParts, Zenon
    <3> QED BY <3>1, Zenon DEF Joined
  <2>7. r[P(k - 1)] \in Seq(Int) /\ L[n] = L[k - 1] \o r[P(k - 1)]
    BY <2>3, <2>4, <2>5, <2>6, Zenon
  <2> QED BY <2>2, <2>7, Zenon
<1>14. n \in T
  <2>1. n \in 0 .. n
    BY <1>0
  <2> HIDE DEF T, n
  <2>2. 0 .. n \subseteq T
    BY <1>0, <1>12, <1>13, IntervalInduction, Zenon
  <2> QED BY <2>1, <2>2
<1>15. n - n = 0
  BY <1>0
<1>16. r[P(0)] \in Seq(Int) /\ L[n] = L[0] \o r[P(0)]
  BY <1>14, <1>15, Zenon
<1>17. << >> \o r[P(0)] = r[P(0)]
  BY <1>16, ConcatEmptySeq
<1>18. Utf8Lower(text) = L[n]
  BY <1>3, <1>7, <1>10, <1>16, <1>17, Zenon
<1> QED BY <1>4, <1>18, Zenon DEF D, L

-----------------------------------------------------------------------------
(***************************************************************************)
(* The end of a value.                                                      *)
(***************************************************************************)
(* the term is hit by what its state has become *)
Hit(term, s) == ~s.failed /\ (s.found \/ s.pos = Len(term.value))

(* A search ends with a hit when the needle is in the text. *)
LEMMA SearchEnds ==
    ASSUME NEW value \in Seq(Int), NEW text \in Seq(Int), NEW s, Searching(value, s, text)
    PROVE  (~s.failed /\ (s.found \/ s.pos = Len(value))) <=> Substring(value, text)
<1>1. CASE value = << >>
  <2>1. SubSeq(text, 0 + 1, 0 + Len(value)) = value /\ 0 \in 0 .. (Len(text) - Len(value))
    <3>1. Len(value) = 0 /\ Len(text) \in Nat
      BY <1>1
    <3>2. SubSeq(text, 1, 0) = << >>
      BY SubSeqEmpty
    <3> QED BY <1>1, <3>1, <3>2
  <2>2. Substring(value, text)
    BY <2>1, Zenon DEF Substring
  <2>3. s.pos = Len(value) /\ ~s.failed
    BY <1>1 DEF Searching
  <2> QED BY <2>2, <2>3, Zenon
<1>2. CASE value # << >>
  <2>1. s.pos \in 0 .. (Len(value) - 1) /\ Len(value) \in Nat
    BY <1>2 DEF Searching, Longest
  <2>2. s.pos # Len(value)
    BY <2>1
  <2> QED BY <1>2, <2>2, Zenon DEF Searching
<1> QED BY <1>1, <1>2

(* A prefix is the beginning of the text. *)
LEMMA PrefixMeans ==
    ASSUME NEW value \in Seq(Int), NEW text \in Seq(Int)
    PROVE  IsPrefix(value, text) <=>
             Len(value) <= Len(text) /\ \A j \in 1 .. Len(value) : value[j] = text[j]
<1>0. Len(value) \in Nat /\ Len(text) \in Nat
  OBVIOUS
<1>1. CASE Len(value) <= Len(text)
  <2>1. PICK s : s = SubSeq(text, 1, Len(value))
    OBVIOUS
  <2>2. /\ s \in Seq(Int) /\ Len(s) = Len(value)
        /\ \A j \in 1 .. Len(value) : s[j] = text[j]
    BY <1>0, <1>1, <2>1
  <2>3. s = value <=> \A j \in 1 .. Len(value) : value[j] = text[j]
    BY <2>2, SeqEqual
  <2>4. IsPrefix(value, text) <=> value = s
    BY <1>1, <2>1 DEF IsPrefix
  <2> QED BY <1>1, <2>3, <2>4
<1>2. CASE ~(Len(value) <= Len(text))
  BY <1>2, Zenon DEF IsPrefix
<1> QED BY <1>1, <1>2

(* A comparison ends with a hit when the text is, or begins with, the value. *)
LEMMA CompareEnds ==
    ASSUME NEW value \in Seq(Int), NEW text \in Seq(Int), NEW s, NEW open \in BOOLEAN,
           Comparing(value, s, open, text)
    PROVE  (~s.failed /\ (s.found \/ s.pos = Len(value))) <=>
             IF open THEN IsPrefix(value, text) ELSE text = value
<1> DEFINE hit == ~s.failed /\ (s.found \/ s.pos = Len(value))
           same == \A j \in 1 .. Len(value) : value[j] = text[j]
<1>0. Len(value) \in Nat /\ Len(text) \in Nat
  OBVIOUS
<1>1. hit <=> ~s.failed /\ s.pos = Len(value)
  BY Zenon DEF Comparing
<1>2. hit <=> Agrees(value, open, text) /\ Len(value) <= Len(text)
  <2>1. ~s.failed <=> Agrees(value, open, text)
    BY Zenon DEF Comparing
  <2>2. ~s.failed => (s.pos = Len(value) <=> Len(value) <= Len(text))
    <3>1. ~s.failed => s.pos = IF Len(text) <= Len(value) THEN Len(text) ELSE Len(value)
      BY Zenon DEF Comparing
    <3> QED BY <1>0, <3>1
  <2> HIDE DEF hit
  <2> QED BY <1>1, <2>1, <2>2, Zenon
<1>3. Len(value) <= Len(text) => (Agrees(value, open, text) <=>
                                    same /\ (open \/ Len(text) <= Len(value)))
  <2>1. ASSUME Len(value) <= Len(text), NEW j \in 1 .. Len(value) PROVE j <= Len(text)
    BY <1>0, <2>1
  <2> QED BY <2>1, Zenon DEF Agrees
<1>4. hit <=> Len(value) <= Len(text) /\ same /\ (open \/ Len(text) <= Len(value))
  <2> HIDE DEF hit, same
  <2> QED BY <1>2, <1>3, Zenon
<1>5. IsPrefix(value, text) <=> Len(value) <= Len(text) /\ same
  BY PrefixMeans, Zenon
<1>6. text = value <=> Len(value) <= Len(text) /\ same /\ Len(text) <= Len(value)
  <2>1. Len(value) <= Len(text) /\ Len(text) <= Len(value) => Len(text) = Len(value)
    BY <1>0
  <2>2. ASSUME Len(text) = Len(value), same PROVE text = value
    BY <2>2, SeqEqual
  <2>3. text = value => Len(value) <= Len(text) /\ Len(text) <= Len(value)
    BY <1>0
  <2>4. text = value => same
    OBVIOUS
  <2> HIDE DEF same
  <2> QED BY <2>1, <2>2, <2>3, <2>4, Zenon
<1> HIDE DEF hit, same
<1>7. hit <=> IF open THEN IsPrefix(value, text) ELSE text = value
  BY <1>4, <1>5, <1>6, Zenon
<1> QED BY <1>7, Zenon DEF hit

(* What a term's state says at the end is what the text says. *)
LEMMA HitMeans ==
    ASSUME NEW term, term.value \in Seq(Int), NEW text \in Seq(Int), NEW low \in Seq(Int),
           low = Utf8Lower(text), NEW s, TermState(term, s, text, low),
           term.kind \in {"eq", "text_eq"} \cup TextKinds
    PROVE  Hit(term, s) <=> TextHolds(term, text)
<1>0. TRUE \in BOOLEAN /\ FALSE \in BOOLEAN
  OBVIOUS
<1>1. CASE term.kind = "contains"
  <2>1. ~Insensitive(term) /\ (TextHolds(term, text) <=> Substring(term.value, text))
    BY <1>1 DEF Insensitive, TextHolds
  <2>2. Searching(term.value, s, text)
    BY <1>1, <2>1, Zenon DEF TermState, ExactState
  <2> QED BY <2>1, <2>2, SearchEnds, Zenon DEF Hit
<1>2. CASE term.kind = "icontains"
  <2>1. Insensitive(term) /\ (TextHolds(term, text) <=> Substring(term.value, low))
    BY <1>2 DEF Insensitive, TextHolds
  <2>2. Searching(term.value, s, low)
    BY <1>2, <2>1 DEF TermState, LowerState
  <2> QED BY <2>1, <2>2, SearchEnds, Zenon DEF Hit
<1>3. CASE term.kind = "iprefix"
  <2>1. Insensitive(term) /\ (TextHolds(term, text) <=> IsPrefix(term.value, low))
    BY <1>3 DEF Insensitive, TextHolds
  <2>2. Comparing(term.value, s, TRUE, low)
    BY <1>3, <2>1, Zenon DEF TermState, LowerState
  <2>3. (~s.failed /\ (s.found \/ s.pos = Len(term.value))) <=> IsPrefix(term.value, low)
    BY <1>0, <2>2, CompareEnds
  <2> QED BY <2>1, <2>3, Zenon DEF Hit
<1>4. CASE term.kind = "prefix"
  <2>1. /\ ~Insensitive(term) /\ term.kind # "contains"
        /\ TextHolds(term, text) <=> IsPrefix(term.value, text)
    BY <1>4 DEF Insensitive, TextHolds
  <2>2. Comparing(term.value, s, TRUE, text)
    BY <1>4, <2>1, Zenon DEF TermState, ExactState
  <2>3. (~s.failed /\ (s.found \/ s.pos = Len(term.value))) <=> IsPrefix(term.value, text)
    BY <1>0, <2>2, CompareEnds
  <2> QED BY <2>1, <2>3, Zenon DEF Hit
<1>5. CASE term.kind \in {"eq", "text_eq"}
  <2>1. /\ ~Insensitive(term) /\ term.kind # "contains" /\ term.kind # "prefix"
        /\ TextHolds(term, text) <=> text = term.value
    BY <1>5 DEF Insensitive, TextHolds
  <2>2. Comparing(term.value, s, FALSE, text)
    BY <2>1, Zenon DEF TermState, ExactState
  <2>3. (~s.failed /\ (s.found \/ s.pos = Len(term.value))) <=> text = term.value
    BY <1>0, <2>2, CompareEnds
  <2> QED BY <2>1, <2>3, Zenon DEF Hit
<1> QED BY <1>1, <1>2, <1>3, <1>4, <1>5 DEF TextKinds

-----------------------------------------------------------------------------
(***************************************************************************)
(* The invariant.                                                           *)
(***************************************************************************)
Lows(items) == Decoded(LowerItems(items))

Reads(items, from, m, terms, active) ==
    Ready(terms, m, active, Decoded(items)[from], Lows(items)[from])

(* what each term's state says of the part of the value read so far *)
ScalarInv ==
    /\ job \in Jobs
    /\ at \in 0 .. Len(job.items)
    /\ \A k \in 1 .. at : job.items[k].bytes # << >>
    /\ job.kind # "key" => Reads(job.items, at, match, job.terms, MatchedTerms(job))
    /\ TextHitsDependOnTextOnly

(* What is assumed of the jobs, as the lemmas need it. *)
LEMMA JobFacts ==
    ASSUME NEW j \in Jobs
    PROVE  /\ HasBytes(j.items) /\ j.items \in Seq([plain : BOOLEAN, bytes : Seq(0 .. 255)])
           /\ \A k \in 1 .. Len(j.items) :
                /\ j.items[k].bytes # << >> => Whole(j.items[k].bytes)
                /\ j.items[k].plain => /\ Len(j.items[k].bytes) = 1
                                       /\ j.items[k].bytes[1] \in 0 .. 127
                /\ j.kind \notin {"string", "key"} => j.items[k].plain
           /\ j.kind # "key" => \A i \in MatchedTerms(j) :
                /\ i \in DOMAIN j.terms /\ j.terms[i].value \in Seq(Int)
                /\ j.terms[i].kind \in {"eq", "text_eq"} \cup TextKinds
<1> DEFINE I == [plain : BOOLEAN, bytes : Seq(0 .. 255)]
<1>1. /\ j.items \in Seq(I)
      /\ \A k \in DOMAIN j.items :
           /\ j.items[k].plain => Len(j.items[k].bytes) = 1 /\ j.items[k].bytes[1] < 128
           /\ j.items[k].bytes # << >> => Whole(j.items[k].bytes)
           /\ j.kind \notin {"string", "key"} => j.items[k].plain
      /\ \A i \in DOMAIN j.terms : j.terms[i].value \in Seq(0 .. 255)
  BY JobsAssumption, Zenon DEF JobsAssumption, Items
<1>2. DOMAIN j.items = 1 .. Len(j.items) /\ Len(j.items) \in Nat
  BY <1>1, LenProperties
<1>3. 0 .. 255 \subseteq Int
  OBVIOUS
<1>4. ASSUME NEW k \in 1 .. Len(j.items)
      PROVE  j.items[k].bytes \in Seq(0 .. 255) /\ j.items[k].bytes \in Seq(Int)
  <2>1. j.items[k] \in I
    <3> HIDE DEF I
    <3> QED BY <1>1, ElementOfSeq, Zenon
  <2>2. j.items[k].bytes \in Seq(0 .. 255)
    BY <2>1
  <2> QED BY <1>3, <2>2, SeqMonotonic
<1>5. HasBytes(j.items)
  BY <1>2, <1>4 DEF HasBytes
<1>6. ASSUME NEW k \in 1 .. Len(j.items)
      PROVE  /\ j.items[k].bytes # << >> => Whole(j.items[k].bytes)
             /\ j.items[k].plain => /\ Len(j.items[k].bytes) = 1
                                    /\ j.items[k].bytes[1] \in 0 .. 127
             /\ j.kind \notin {"string", "key"} => j.items[k].plain
  <2>1. ASSUME j.items[k].plain PROVE j.items[k].bytes[1] \in 0 .. 127
    <3>1. PICK c \in Seq(0 .. 255) : c = j.items[k].bytes
      BY <1>4
    <3>2. Len(c) = 1 /\ c[1] < 128
      BY <1>1, <1>2, <2>1, <3>1
    <3>3. 1 \in 1 .. Len(c)
      BY <3>2
    <3>4. PICK b \in 0 .. 255 : b = c[1]
      BY <3>3, ElementOfSeq, Zenon
    <3>5. b < 128
      BY <3>2, <3>4, Zenon
    <3>6. b \in 0 .. 127
      BY <3>5
    <3> QED BY <3>1, <3>4, <3>6, Zenon
  <2> QED BY <1>1, <1>2, <2>1, Zenon
<1>7. ASSUME j.kind # "key", NEW i \in MatchedTerms(j)
      PROVE  /\ i \in DOMAIN j.terms /\ j.terms[i].value \in Seq(Int)
             /\ j.terms[i].kind \in {"eq", "text_eq"} \cup TextKinds
  <2>1. /\ i \in DOMAIN j.terms
        /\ j.terms[i].kind \in {"eq", "text_eq"} \cup TextKinds
    BY <1>7 DEF MatchedTerms, TermsOfKind
  <2>2. PICK v \in Seq(0 .. 255) : v = j.terms[i].value
    BY <1>1, <2>1, Zenon
  <2>3. v \in Seq(Int)
    BY <1>3, SeqMonotonic, Zenon
  <2> QED BY <2>1, <2>2, <2>3, Zenon
<1> QED BY <1>1, <1>5, <1>6, <1>7

(* Nothing has been read at the start. *)
LEMMA StartState ==
    ASSUME NEW value \in Seq(Int), NEW s, s = [pos |-> 0, failed |-> FALSE, found |-> FALSE]
    PROVE  /\ Searching(value, s, << >>)
           /\ \A open \in BOOLEAN : Comparing(value, s, open, << >>)
<1>0. Len(value) \in Nat /\ Len(<< >>) = 0
  OBVIOUS
<1>1. s.pos = 0 /\ s.failed = FALSE /\ s.found = FALSE /\ IsState(s)
  BY DEF IsState
<1>2. ASSUME value # << >>
      PROVE  Longest(value, s.pos, << >>) /\ ~Substring(value, << >>)
  <2>1. Len(value) \in Nat \ {0}
    BY <1>2, EmptySeq
  <2>2. Fit(value, 0, << >>) /\ \A k \in 0 .. (Len(value) - 1) : Fit(value, k, << >>) => k <= 0
    BY <1>0, <2>1 DEF Fit
  <2>3. Longest(value, 0, << >>)
    BY <2>1, <2>2 DEF Longest
  <2>4. 0 .. (Len(<< >>) - Len(value)) = {}
    BY <1>0, <2>1
  <2>5. ~Substring(value, << >>)
    BY <2>4, Zenon DEF Substring
  <2> QED BY <1>1, <2>3, <2>5, Zenon
<1>3. Searching(value, s, << >>)
  BY <1>1, <1>2, Zenon DEF Searching
<1>4. ASSUME NEW open \in BOOLEAN PROVE Comparing(value, s, open, << >>)
  <2>1. Agrees(value, open, << >>)
    BY <1>0 DEF Agrees
  <2>2. s.pos = IF Len(<< >>) <= Len(value) THEN Len(<< >>) ELSE Len(value)
    BY <1>0, <1>1
  <2> QED BY <1>1, <2>1, <2>2, Zenon DEF Comparing
<1> QED BY <1>3, <1>4

(* The initial match state has read nothing. *)
LEMMA StartReads ==
    ASSUME NEW j \in Jobs, j.kind # "key"
    PROVE  Reads(j.items, 0, MatchStart(MatchedTerms(j)), j.terms, MatchedTerms(j))
<1> DEFINE active == MatchedTerms(j)
           start == [pos |-> 0, failed |-> FALSE, found |-> FALSE]
<1>1. PICK m : m = MatchStart(active)
  OBVIOUS
<1>2. m.pending = << >> /\ m.term = [i \in active |-> start]
  BY <1>1 DEF MatchStart
<1>3. /\ HasBytes(j.items)
      /\ \A k \in 1 .. Len(j.items) : j.items[k].bytes # << >> => Whole(j.items[k].bytes)
  BY JobFacts
<1>4. Decoded(j.items)[0] = << >>
  BY <1>3, DecodedFacts
<1>5. Lows(j.items)[0] = << >>
  <2>1. HasBytes(LowerItems(j.items))
    BY <1>3, LowerItemsFacts
  <2> QED BY <2>1, DecodedFacts DEF Lows
<1>6. ASSUME NEW i \in active PROVE TermState(j.terms[i], m.term[i], << >>, << >>)
  <2>1. j.terms[i].value \in Seq(Int)
    BY JobFacts
  <2>2. m.term[i] = start
    BY <1>2
  <2>3. PICK o \in BOOLEAN : o = (j.terms[i].kind = "prefix")
    OBVIOUS
  <2>4. TRUE \in BOOLEAN
    OBVIOUS
  <2>5. /\ Searching(j.terms[i].value, m.term[i], << >>)
        /\ \A open \in BOOLEAN : Comparing(j.terms[i].value, m.term[i], open, << >>)
    BY <2>1, <2>2, StartState, Zenon
  <2> QED BY <2>3, <2>4, <2>5, Zenon DEF TermState, ExactState, LowerState
<1>7. MatchState(j.terms, m, active, << >>, << >>)
  BY <1>2, <1>6 DEF MatchState
<1> QED BY <1>1, <1>2, <1>4, <1>5, <1>7, Zenon DEF Reads, Ready

(* What follows the first items of a value. *)
LEMMA ReadsItem ==
    ASSUME NEW items, HasBytes(items), NEW k \in 1 .. Len(items),
           \A i \in 1 .. Len(items) : items[i].bytes # << >> => Whole(items[i].bytes),
           items[k].bytes # << >>
    PROVE  /\ Decoded(items)[k] = Decoded(items)[k - 1] \o items[k].bytes
           /\ Lows(items)[k] = Lows(items)[k - 1] \o LowerChar(items[k].bytes)
           /\ Decoded(items)[k - 1] \in Seq(Int) /\ Lows(items)[k - 1] \in Seq(Int)
<1>0. Len(items) \in Nat /\ k - 1 \in 0 .. Len(items)
  BY DEF HasBytes
<1>1. /\ Decoded(items)[k] = Decoded(items)[k - 1] \o items[k].bytes
      /\ Decoded(items)[k - 1] \in Seq(Int)
  BY <1>0, DecodedFacts, Zenon
<1>2. PICK l : l = LowerItems(items)
  OBVIOUS
<1>3. HasBytes(l) /\ Len(l) = Len(items) /\ l[k].bytes = LowerChar(items[k].bytes)
  BY <1>2, LowerItemsFacts
<1>4. /\ Decoded(l)[k] = Decoded(l)[k - 1] \o l[k].bytes
      /\ Decoded(l)[k - 1] \in Seq(Int)
  <2>1. k \in 1 .. Len(l) /\ k - 1 \in 0 .. Len(l)
    BY <1>0, <1>3, Zenon
  <2> QED BY <1>3, <2>1, DecodedFacts, Zenon
<1> QED BY <1>1, <1>2, <1>3, <1>4, Zenon DEF Lows

(* a function on 1 .. n is a sequence *)
LEMMA SeqByElements ==
    ASSUME NEW n \in Nat, NEW s, s = [k \in 1 .. n |-> s[k]], \A k \in 1 .. n : s[k] \in Int
    PROVE  s \in Seq(Int) /\ Len(s) = n
<1>1. s \in [1 .. n -> Int]
  BY Zenon
<1> QED BY <1>1

(* n plain bytes follow *)
PlainRun(items, from, n) ==
    \A k \in 1 .. n : Len(items[from + k].bytes) = 1 /\ items[from + k].bytes[1] \in 0 .. 127

WholeOrMalformed(items) ==
    \A k \in 1 .. Len(items) : items[k].bytes # << >> => Whole(items[k].bytes)

(* what the run adds *)
RunAdds(items, from, n, bytes, lowered) ==
    /\ bytes \in Seq(Int) /\ lowered \in Seq(Int)
    /\ Decoded(items)[from] \in Seq(Int) /\ Lows(items)[from] \in Seq(Int)
    /\ Decoded(items)[from + n] = Decoded(items)[from] \o bytes
    /\ Lows(items)[from + n] = Lows(items)[from] \o lowered
    /\ \A k \in 1 .. n : items[from + k].bytes # << >>

(* A run of plain items. *)
LEMMA ReadsRun ==
    ASSUME NEW items, HasBytes(items), NEW from \in Nat, NEW n \in Nat, from + n <= Len(items),
           WholeOrMalformed(items), PlainRun(items, from, n),
           NEW bytes, bytes = [k \in 1 .. n |-> items[from + k].bytes[1]],
           NEW lowered, lowered = [k \in DOMAIN bytes |-> AsciiLower(bytes[k])]
    PROVE  RunAdds(items, from, n, bytes, lowered)
<1> DEFINE L == LowerItems(items)
<1>0. Len(items) \in Nat /\ from \in 0 .. Len(items)
  BY DEF HasBytes
<1>1. ASSUME NEW k \in 1 .. n
      PROVE  /\ from + k \in 1 .. Len(items) /\ bytes[k] \in 0 .. 127
             /\ items[from + k].bytes = <<bytes[k]>>
  <2>1. from + k \in 1 .. Len(items)
    BY <1>0
  <2>2. bytes[k] = items[from + k].bytes[1]
    OBVIOUS
  <2>3. PICK c \in Seq(Int) : c = items[from + k].bytes
    BY <2>1 DEF HasBytes
  <2>4. Len(c) = 1 /\ c[1] = bytes[k] /\ bytes[k] \in 0 .. 127
    BY <2>2, <2>3 DEF PlainRun
  <2>5. c = <<bytes[k]>>
    BY <2>4
  <2> QED BY <2>1, <2>3, <2>4, <2>5, Zenon
<1>2. DOMAIN bytes = 1 .. n /\ bytes \in Seq(Int) /\ Len(bytes) = n
  <2>1. DOMAIN bytes = 1 .. n /\ bytes = [k \in 1 .. n |-> bytes[k]]
    BY Zenon
  <2>2. 0 .. 127 \subseteq Int
    OBVIOUS
  <2>3. \A k \in 1 .. n : bytes[k] \in Int
    BY <1>1, <2>2, Zenon
  <2> QED BY <2>1, <2>3, SeqByElements, Zenon
<1>3. ASSUME NEW k \in 1 .. n
      PROVE  lowered[k] = AsciiLower(bytes[k]) /\ lowered[k] \in Int
             /\ LowerChar(<<bytes[k]>>) = <<lowered[k]>>
  <2>1. lowered[k] = AsciiLower(bytes[k])
    BY <1>2
  <2> QED BY <1>1, <2>1, LowerAscii
<1>4. lowered \in Seq(Int) /\ Len(lowered) = n
  <2>1. lowered = [k \in 1 .. n |-> lowered[k]]
    BY <1>2, Zenon
  <2>2. \A k \in 1 .. n : lowered[k] \in Int
    BY <1>3, Zenon
  <2> QED BY <2>1, <2>2, SeqByElements, Zenon
<1>5. ASSUME NEW k \in 1 .. n PROVE items[from + k].bytes # << >>
  <2>1. <<bytes[k]>> # << >>
    OBVIOUS
  <2> QED BY <1>1, <2>1, Zenon
<1>6. HasBytes(L) /\ Len(L) = Len(items)
  BY LowerItemsFacts DEF WholeOrMalformed
<1>7. ASSUME NEW k \in 1 .. n PROVE L[from + k].bytes = <<lowered[k]>>
  <2>1. L[from + k].bytes = LowerChar(items[from + k].bytes)
    BY <1>1, <1>5, LowerItemsFacts, Zenon DEF WholeOrMalformed
  <2> QED BY <1>1, <1>3, <2>1, Zenon
<1>8. Decoded(items)[from] \in Seq(Int) /\ Decoded(L)[from] \in Seq(Int)
  <2>1. Decoded(items)[from] \in Seq(Int)
    BY <1>0, DecodedFacts, Zenon
  <2>2. from \in 0 .. Len(L)
    BY <1>0, <1>6, Zenon
  <2> HIDE DEF L
  <2>3. Decoded(L)[from] \in Seq(Int)
    BY <1>6, <2>2, DecodedFacts, Zenon
  <2> QED BY <2>1, <2>3
<1>9. Decoded(items)[from + n] = Decoded(items)[from] \o bytes
  <2>1. \A k \in 1 .. Len(bytes) : items[from + k].bytes = <<bytes[k]>>
    BY <1>1, <1>2, Zenon
  <2>2. from + Len(bytes) <= Len(items)
    BY <1>2, Zenon
  <2>3. Decoded(items)[from + Len(bytes)] = Decoded(items)[from] \o bytes
    <3>1. OneByteEach(items, from, bytes)
      BY <2>1, <2>2, Zenon DEF OneByteEach
    <3> QED BY <1>2, <3>1, DecodedRun, Zenon
  <2> QED BY <1>2, <2>3, Zenon
<1>10. Decoded(L)[from + n] = Decoded(L)[from] \o lowered
  <2> HIDE DEF L
  <2>1. \A k \in 1 .. Len(lowered) : L[from + k].bytes = <<lowered[k]>>
    BY <1>4, <1>7, Zenon
  <2>2. from + Len(lowered) <= Len(L)
    BY <1>4, <1>6, Zenon
  <2>3. Decoded(L)[from + Len(lowered)] = Decoded(L)[from] \o lowered
    <3>1. OneByteEach(L, from, lowered)
      BY <2>1, <2>2, Zenon DEF OneByteEach
    <3> QED BY <1>4, <1>6, <3>1, DecodedRun, Zenon
  <2> QED BY <1>4, <2>3, Zenon
<1> QED BY <1>2, <1>4, <1>5, <1>8, <1>9, <1>10, Zenon DEF Lows, RunAdds

(* A run of plain bytes. *)
LEMMA SpanKeeps ==
    ASSUME ScalarInv, Span
    PROVE  ScalarInv'
<1>1. PICK n \in 1 .. (Len(job.items) - at) :
        /\ \A k \in 1 .. n : job.items[at + k].plain
        /\ at' = at + n
        /\ match' = MatchSpan(job.terms, match, job.kind = "key",
                              [k \in 1 .. n |-> job.items[at + k].bytes[1]])
  BY Zenon DEF Span
<1>2. status = "scan" /\ UNCHANGED <<job, hits, status>>
  BY DEF Span, Streaming
<1>3. /\ job \in Jobs /\ at \in 0 .. Len(job.items)
      /\ \A k \in 1 .. at : job.items[k].bytes # << >>
  BY DEF ScalarInv
<1>4. PICK items : items = job.items
  OBVIOUS
<1>5. /\ HasBytes(items) /\ Len(items) \in Nat
      /\ \A k \in 1 .. Len(items) :
           /\ items[k].bytes # << >> => Whole(items[k].bytes)
           /\ items[k].plain => Len(items[k].bytes) = 1 /\ items[k].bytes[1] \in 0 .. 127
  <2>1. /\ HasBytes(job.items)
        /\ \A k \in 1 .. Len(job.items) :
             /\ job.items[k].bytes # << >> => Whole(job.items[k].bytes)
             /\ job.items[k].plain => /\ Len(job.items[k].bytes) = 1
                                      /\ job.items[k].bytes[1] \in 0 .. 127
    BY <1>3, JobFacts, Zenon
  <2> QED BY <1>4, <2>1, Zenon DEF HasBytes
<1>6. /\ at \in Nat /\ n \in Nat /\ at + n \in 0 .. Len(items) /\ at + n <= Len(items)
      /\ \A k \in 1 .. n : at + k \in 1 .. Len(items)
      /\ \A k \in 1 .. (at + n) : k \in 1 .. at \/ \E i \in 1 .. n : k = at + i
  <2>1. at \in 0 .. Len(items) /\ n \in 1 .. (Len(items) - at)
    BY <1>3, <1>4
  <2>2. /\ at \in Nat /\ n \in Nat /\ at + n \in 0 .. Len(items) /\ at + n <= Len(items)
        /\ \A k \in 1 .. n : at + k \in 1 .. Len(items)
    BY <1>5, <2>1
  <2>3. ASSUME NEW k \in 1 .. (at + n), k \notin 1 .. at PROVE \E i \in 1 .. n : k = at + i
    <3>1. k - at \in 1 .. n /\ k = at + (k - at)
      BY <2>2, <2>3
    <3> QED BY <3>1, Zenon
  <2> QED BY <2>2, <2>3
<1>7. PICK bytes : bytes = [k \in 1 .. n |-> items[at + k].bytes[1]]
  OBVIOUS
<1>8. PICK lowered : lowered = [k \in DOMAIN bytes |-> AsciiLower(bytes[k])]
  OBVIOUS
<1>9. /\ bytes \in Seq(Int) /\ lowered \in Seq(Int)
      /\ Decoded(items)[at] \in Seq(Int) /\ Lows(items)[at] \in Seq(Int)
      /\ Decoded(items)[at + n] = Decoded(items)[at] \o bytes
      /\ Lows(items)[at + n] = Lows(items)[at] \o lowered
      /\ \A k \in 1 .. n : items[at + k].bytes # << >>
  <2>1. PlainRun(items, at, n)
    BY <1>1, <1>4, <1>5, <1>6, Zenon DEF PlainRun
  <2>2. WholeOrMalformed(items)
    BY <1>5, Zenon DEF WholeOrMalformed
  <2>3. RunAdds(items, at, n, bytes, lowered)
    BY <1>5, <1>6, <1>7, <1>8, <2>1, <2>2, ReadsRun, Zenon
  <2> QED BY <2>3, Zenon DEF RunAdds
<1>10. \A k \in 1 .. (at + n) : items[k].bytes # << >>
  BY <1>3, <1>4, <1>6, <1>9, Zenon
<1>11. ASSUME job.kind # "key"
       PROVE  Reads(items, at + n, match', job.terms, MatchedTerms(job))
  <2> DEFINE active == MatchedTerms(job)
  <2>1. match' = MatchSpan(job.terms, match, FALSE, bytes)
    BY <1>1, <1>4, <1>7, <1>11
  <2>2. Ready(job.terms, match, active, Decoded(items)[at], Lows(items)[at])
    BY <1>4, <1>11, Zenon DEF ScalarInv, Reads
  <2>3. Values(job.terms, active)
    BY <1>3, <1>11, JobFacts, Zenon DEF Values
  <2>4. PICK text \in Seq(Int), low \in Seq(Int) :
          text = Decoded(items)[at] /\ low = Lows(items)[at]
    BY <1>9, Zenon
  <2> HIDE DEF active
  <2>5. PICK t : t = MatchSpan(job.terms, match, FALSE, bytes)
    OBVIOUS
  <2>6. Ready(job.terms, t, active, text \o bytes, low \o lowered)
    BY <1>8, <1>9, <2>2, <2>3, <2>4, <2>5, MatchSpanKeeps, Zenon
  <2> QED BY <1>9, <2>1, <2>4, <2>5, <2>6, Zenon DEF Reads, active
<1>12. TextHitsDependOnTextOnly'
  BY <1>2 DEF TextHitsDependOnTextOnly
<1>13. MatchedTerms(job)' = MatchedTerms(job)
  BY <1>2
<1> QED BY <1>1, <1>2, <1>3, <1>4, <1>6, <1>10, <1>11, <1>12, <1>13 DEF ScalarInv

(* A character that is escaped or not ASCII. *)
LEMMA EscapedKeeps ==
    ASSUME ScalarInv, Escaped
    PROVE  ScalarInv'
<1>1. /\ at' = at + 1 /\ status = "scan" /\ UNCHANGED <<job, hits, status>>
      /\ at < Len(job.items) /\ job.items[at + 1].bytes # << >>
      /\ match' = MatchChar(job.terms, match, job.kind = "key", job.items[at + 1].bytes)
  BY DEF Escaped, Streaming
<1>2. /\ job \in Jobs /\ at \in 0 .. Len(job.items)
      /\ \A k \in 1 .. at : job.items[k].bytes # << >>
  BY DEF ScalarInv
<1>3. PICK items, k : items = job.items /\ k = at + 1
  OBVIOUS
<1>4. /\ HasBytes(items) /\ Len(items) \in Nat
      /\ \A i \in 1 .. Len(items) : items[i].bytes # << >> => Whole(items[i].bytes)
  BY <1>2, <1>3, JobFacts DEF HasBytes
<1>5. k \in 1 .. Len(items) /\ k - 1 = at /\ k \in 0 .. Len(items)
      /\ \A i \in 1 .. k : i \in 1 .. at \/ i = k
  BY <1>1, <1>2, <1>3, <1>4
<1>6. PICK bytes : bytes = items[k].bytes
  OBVIOUS
<1>7. bytes # << >> /\ Whole(bytes) /\ bytes \in Seq(Int)
  BY <1>1, <1>3, <1>4, <1>5, <1>6 DEF HasBytes
<1>8. /\ Decoded(items)[k] = Decoded(items)[at] \o bytes
      /\ Lows(items)[k] = Lows(items)[at] \o LowerChar(bytes)
      /\ Decoded(items)[at] \in Seq(Int) /\ Lows(items)[at] \in Seq(Int)
  <2>1. /\ Decoded(items)[k] = Decoded(items)[k - 1] \o items[k].bytes
        /\ Lows(items)[k] = Lows(items)[k - 1] \o LowerChar(items[k].bytes)
        /\ Decoded(items)[k - 1] \in Seq(Int) /\ Lows(items)[k - 1] \in Seq(Int)
    BY <1>4, <1>5, <1>6, <1>7, ReadsItem
  <2> QED BY <1>5, <1>6, <2>1, Zenon
<1>9. \A i \in 1 .. k : items[i].bytes # << >>
  BY <1>2, <1>3, <1>5, <1>6, <1>7, Zenon
<1>10. ASSUME job.kind # "key"
       PROVE  Reads(items, k, match', job.terms, MatchedTerms(job))
  <2> DEFINE active == MatchedTerms(job)
  <2>1. match' = MatchChar(job.terms, match, FALSE, bytes)
    BY <1>1, <1>3, <1>6, <1>10
  <2>2. Ready(job.terms, match, active, Decoded(items)[at], Lows(items)[at])
    BY <1>3, <1>10, Zenon DEF ScalarInv, Reads
  <2>3. Values(job.terms, active)
    BY <1>2, <1>10, JobFacts, Zenon DEF Values
  <2>4. PICK text \in Seq(Int), low \in Seq(Int) :
          text = Decoded(items)[at] /\ low = Lows(items)[at]
    BY <1>8, Zenon
  <2> HIDE DEF active
  <2>5. PICK t : t = MatchChar(job.terms, match, FALSE, bytes)
    OBVIOUS
  <2>6. Ready(job.terms, t, active, text \o bytes, low \o LowerChar(bytes))
    BY <1>7, <2>2, <2>3, <2>4, <2>5, MatchCharKeeps, Zenon
  <2> QED BY <1>8, <2>1, <2>4, <2>5, <2>6, Zenon DEF Reads, active
<1>11. TextHitsDependOnTextOnly'
  BY <1>1 DEF TextHitsDependOnTextOnly
<1>12. MatchedTerms(job)' = MatchedTerms(job)
  BY <1>1
<1> QED BY <1>1, <1>2, <1>3, <1>5, <1>9, <1>10, <1>11, <1>12 DEF ScalarInv

(* A byte of a number or a literal. *)
LEMMA TokenKeeps ==
    ASSUME ScalarInv, TokenByte
    PROVE  ScalarInv'
<1>1. /\ at' = at + 1 /\ status = "scan" /\ UNCHANGED <<job, hits, status>>
      /\ at < Len(job.items) /\ job.kind \notin {"string", "key"}
      /\ match' = MatchByte(job.terms, match, FALSE, job.items[at + 1].bytes[1])
  BY DEF TokenByte, Streaming
<1>2. /\ job \in Jobs /\ at \in 0 .. Len(job.items)
      /\ \A k \in 1 .. at : job.items[k].bytes # << >>
  BY DEF ScalarInv
<1>3. PICK items, k : items = job.items /\ k = at + 1
  OBVIOUS
<1>4. /\ HasBytes(items) /\ Len(items) \in Nat
      /\ \A i \in 1 .. Len(items) : items[i].bytes # << >> => Whole(items[i].bytes)
  BY <1>2, <1>3, JobFacts DEF HasBytes
<1>5. k \in 1 .. Len(items) /\ k - 1 = at /\ k \in 0 .. Len(items)
      /\ \A i \in 1 .. k : i \in 1 .. at \/ i = k
  BY <1>1, <1>2, <1>3, <1>4
<1>6. PICK bytes, b : bytes = items[k].bytes /\ b = bytes[1]
  OBVIOUS
<1>7. bytes \in Seq(Int) /\ Len(bytes) = 1 /\ b \in 0 .. 127
  <2>1. bytes \in Seq(Int)
    BY <1>4, <1>5, <1>6 DEF HasBytes
  <2>2. items[k].plain
    BY <1>1, <1>2, <1>3, <1>5, JobFacts, Zenon
  <2>3. Len(bytes) = 1 /\ b \in 0 .. 127
    BY <1>2, <1>3, <1>5, <1>6, <2>2, JobFacts, Zenon
  <2> QED BY <2>1, <2>3
<1>8. bytes = <<b>> /\ bytes # << >>
  BY <1>6, <1>7
<1>9. /\ Decoded(items)[k] = Decoded(items)[at] \o <<b>>
      /\ Lows(items)[k] = Lows(items)[at] \o LowerChar(<<b>>)
      /\ Decoded(items)[at] \in Seq(Int) /\ Lows(items)[at] \in Seq(Int)
  <2>1. /\ Decoded(items)[k] = Decoded(items)[k - 1] \o items[k].bytes
        /\ Lows(items)[k] = Lows(items)[k - 1] \o LowerChar(items[k].bytes)
        /\ Decoded(items)[k - 1] \in Seq(Int) /\ Lows(items)[k - 1] \in Seq(Int)
    BY <1>4, <1>5, <1>6, <1>8, ReadsItem
  <2> QED BY <1>5, <1>6, <1>8, <2>1, Zenon
<1>10. \A i \in 1 .. k : items[i].bytes # << >>
  BY <1>2, <1>3, <1>5, <1>6, <1>8, Zenon
<1>11. Reads(items, k, match', job.terms, MatchedTerms(job))
  <2> DEFINE active == MatchedTerms(job)
  <2>0. job.kind # "key"
    BY <1>1
  <2>1. match' = MatchByte(job.terms, match, FALSE, b)
    BY <1>1, <1>3, <1>6
  <2>2. Ready(job.terms, match, active, Decoded(items)[at], Lows(items)[at])
    BY <1>3, <2>0, Zenon DEF ScalarInv, Reads
  <2>3. Values(job.terms, active)
    BY <1>2, <2>0, JobFacts, Zenon DEF Values
  <2>4. PICK text \in Seq(Int), low \in Seq(Int) :
          text = Decoded(items)[at] /\ low = Lows(items)[at]
    BY <1>9, Zenon
  <2> HIDE DEF active
  <2>5. PICK t : t = MatchByte(job.terms, match, FALSE, b)
    OBVIOUS
  <2>6. Ready(job.terms, t, active, text \o <<b>>, low \o LowerChar(<<b>>))
    BY <1>7, <2>2, <2>3, <2>4, <2>5, MatchByteKeeps, Zenon
  <2> QED BY <1>9, <2>1, <2>4, <2>5, <2>6, Zenon DEF Reads, active
<1>12. TextHitsDependOnTextOnly'
  BY <1>1 DEF TextHitsDependOnTextOnly
<1>13. MatchedTerms(job)' = MatchedTerms(job)
  BY <1>1
<1> QED BY <1>1, <1>2, <1>3, <1>5, <1>10, <1>11, <1>12, <1>13 DEF ScalarInv

(* No other kind of hit concerns a text term. *)
LEMMA TextTermsOnly ==
    ASSUME NEW j \in Jobs, j.kind # "key", NEW i \in MatchedTerms(j), NEW n, NEW s, NEW value
    PROVE  i \notin LiteralHits(j) /\ i \notin NumberHits(j, n) /\ i \notin TemporalHits(j, s, value)
<1>1. j.terms[i].kind \in {"eq", "text_eq"} \cup TextKinds
  BY JobFacts
<1>2. j.terms[i].kind \notin {"bool_eq", "null_eq", "exists", "valueless_present",
                              "number_eq", "number_range", "temporal_range"}
  BY <1>1 DEF TextKinds
<1>3. i \notin LiteralHits(j)
  <2>1. /\ j.terms[i].kind # "bool_eq" /\ j.terms[i].kind # "null_eq"
        /\ j.terms[i].kind # "exists" /\ j.terms[i].kind # "valueless_present"
    BY <1>2
  <2> QED BY <2>1, Zenon DEF LiteralHits
<1>4. i \notin NumberTerms(j)
  BY <1>2 DEF NumberTerms, TermsOfKind
<1>5. i \notin TemporalTerms(j)
  BY <1>2 DEF TemporalTerms, TermsOfKind
<1>6. i \notin NumberHits(j, n)
  BY <1>4, Zenon DEF NumberHits
<1>7. i \notin TemporalHits(j, s, value)
  BY <1>5, Zenon DEF TemporalHits
<1> QED BY <1>3, <1>6, <1>7

(* The end of a value. *)
LEMMA CompleteKeeps ==
    ASSUME ScalarInv, Complete
    PROVE  ScalarInv'
<1>1. /\ at = Len(job.items) /\ status' = "done" /\ UNCHANGED <<job, at, match>>
      /\ hits' = MatchComplete(job.terms, match, job.kind = "key") \cup LiteralHits(job)
                 \cup NumberHits(job, number)
                 \cup TemporalHits(job, stamp, ParseTemporalLiteral(stamp.text))
  BY DEF Complete
<1>2. /\ job \in Jobs /\ at \in 0 .. Len(job.items)
      /\ \A k \in 1 .. at : job.items[k].bytes # << >>
  BY DEF ScalarInv
<1>3. ASSUME job.kind # "key", NEW i \in MatchedTerms(job)
      PROVE  i \in hits' <=> TextHolds(job.terms[i], JobText)
  <2>1. PICK items, text, low : /\ items = job.items /\ text = Decoded(items)[Len(items)]
                                /\ low = Lows(items)[Len(items)]
    OBVIOUS
  <2>2. HasBytes(items) /\ WholeItems(items) /\ Len(items) \in Nat
    <3>1. /\ HasBytes(items)
          /\ \A k \in 1 .. Len(items) : items[k].bytes # << >> => Whole(items[k].bytes)
      BY <1>2, <2>1, JobFacts, Zenon
    <3> QED BY <1>1, <1>2, <2>1, <3>1, Zenon DEF WholeItems, HasBytes
  <2>3. low = Utf8Lower(text)
    BY <2>1, <2>2, LowerOfDecoded, Zenon DEF Lows
  <2>4. text \in Seq(Int) /\ low \in Seq(Int)
    <3>1. Len(items) \in 0 .. Len(items)
      BY <2>2
    <3>2. \A k \in 1 .. Len(items) : items[k].bytes # << >> => Whole(items[k].bytes)
      BY <2>2, Zenon DEF WholeItems
    <3>3. HasBytes(LowerItems(items)) /\ Len(LowerItems(items)) = Len(items)
      BY <2>2, <3>2, LowerItemsFacts
    <3>4. text \in Seq(Int)
      BY <2>1, <2>2, <3>1, DecodedFacts, Zenon
    <3>5. PICK l : l = LowerItems(items)
      OBVIOUS
    <3>6. Decoded(l)[Len(items)] \in Seq(Int)
      <4>1. Len(items) \in 0 .. Len(l) /\ HasBytes(l)
        BY <3>1, <3>3, <3>5, Zenon
      <4> QED BY <4>1, DecodedFacts, Zenon
    <3> QED BY <2>1, <3>4, <3>5, <3>6, Zenon DEF Lows
  <2>5. /\ DOMAIN match.term = MatchedTerms(job)
        /\ TermState(job.terms[i], match.term[i], text, low)
    BY <1>1, <1>3, <2>1, Zenon DEF ScalarInv, Reads, Ready, MatchState
  <2>6. Hit(job.terms[i], match.term[i]) <=> TextHolds(job.terms[i], text)
    <3>1. /\ job.terms[i].value \in Seq(Int)
          /\ job.terms[i].kind \in {"eq", "text_eq"} \cup TextKinds
      BY <1>2, <1>3, JobFacts, Zenon
    <3> QED BY <2>3, <2>4, <2>5, <3>1, HitMeans, Zenon
  <2>7. i \in MatchComplete(job.terms, match, FALSE) <=> Hit(job.terms[i], match.term[i])
    BY <2>5, Zenon DEF MatchComplete, Hit
  <2>8. i \in hits' <=> i \in MatchComplete(job.terms, match, FALSE)
    <3>1. (job.kind = "key") = FALSE
      BY <1>3
    <3>2. /\ i \notin LiteralHits(job) /\ i \notin NumberHits(job, number)
          /\ i \notin TemporalHits(job, stamp, ParseTemporalLiteral(stamp.text))
      BY <1>2, <1>3, TextTermsOnly
    <3> QED BY <1>1, <3>1, <3>2, Zenon
  <2>9. JobText = text
    BY <2>1, Zenon DEF JobText, WholeText
  <2> QED BY <2>6, <2>7, <2>8, <2>9, Zenon
<1>4. TextHitsDependOnTextOnly'
  <2>1. JobText' = JobText /\ MatchedTerms(job)' = MatchedTerms(job)
    BY <1>1 DEF JobText
  <2>2. ASSUME job.kind # "key", NEW i \in MatchedTerms(job)
        PROVE  (i \in hits') = TextHolds(job.terms[i], JobText)
    <3>1. TextHolds(job.terms[i], JobText) \in BOOLEAN
      BY Zenon DEF TextHolds, IsPrefix, Substring
    <3>2. i \in hits' <=> TextHolds(job.terms[i], JobText)
      BY <1>3, <2>2, Zenon
    <3>3. PICK h \in BOOLEAN : h = TextHolds(job.terms[i], JobText)
      BY <3>1, Zenon
    <3>4. i \in hits' <=> h
      BY <3>2, <3>3, Zenon
    <3>5. (i \in hits') = h
      BY <3>4
    <3> QED BY <3>3, <3>5, Zenon
  <2> QED BY <1>1, <2>1, <2>2 DEF TextHitsDependOnTextOnly
<1> QED BY <1>1, <1>4 DEF ScalarInv

(* The errors end the value before it is complete. *)
LEMMA ErrorsKeep ==
    ASSUME ScalarInv, Malformed \/ GrowFails
    PROVE  ScalarInv'
<1>1. status' # "done" /\ UNCHANGED <<job, at, match, hits>>
  BY DEF Malformed, GrowFails
<1> QED BY <1>1 DEF ScalarInv, TextHitsDependOnTextOnly

LEMMA ScalarInit == Init => ScalarInv
<1> SUFFICES ASSUME Init PROVE ScalarInv
  OBVIOUS
<1>1. job \in Jobs /\ at = 0 /\ status = "scan" /\ match = MatchStart(MatchedTerms(job))
  BY DEF Init
<1>2. at \in 0 .. Len(job.items) /\ 1 .. at = {}
  <2>1. Len(job.items) \in Nat
    BY <1>1, JobFacts DEF HasBytes
  <2> QED BY <1>1, <2>1
<1>3. job.kind # "key" => Reads(job.items, at, match, job.terms, MatchedTerms(job))
  BY <1>1, StartReads, Zenon
<1>4. TextHitsDependOnTextOnly
  BY <1>1 DEF TextHitsDependOnTextOnly
<1> QED BY <1>1, <1>2, <1>3, <1>4, Zenon DEF ScalarInv

(* However a string, a number or a literal reaches the matchers - whole runs   *)
(* of plain bytes cut where the read buffer ends, escapes and characters byte  *)
(* by byte, case-insensitive terms a character later - at its end exactly the  *)
(* text terms are hit that the decoded text satisfies (lql_json_match_span,    *)
(* lql_json_match_byte, lql_json_match_complete).                              *)
THEOREM TextHitsAreRight == Spec => []TextHitsDependOnTextOnly
<1>1. ScalarInv /\ [Next]_vars => ScalarInv'
  <2> SUFFICES ASSUME ScalarInv, [Next]_vars PROVE ScalarInv'
    OBVIOUS
  <2>1. CASE Next
    BY <2>1, SpanKeeps, EscapedKeeps, TokenKeeps, CompleteKeeps, ErrorsKeep, Zenon DEF Next
  <2>2. CASE UNCHANGED vars
    BY <2>2 DEF ScalarInv, TextHitsDependOnTextOnly, vars, JobText
  <2> QED BY <2>1, <2>2
<1>2. ScalarInv => TextHitsDependOnTextOnly
  BY DEF ScalarInv
<1> QED BY <1>1, <1>2, ScalarInit, PTL DEF Spec

-----------------------------------------------------------------------------
(* Keys: the text of a key as a JSON Pointer writes it *)

(* one unfolding of PointerText *)
PointerStep(key, f, k) == IF k = 0 THEN << >> ELSE f[k - 1] \o PointerEscape(key[k])

IsPointer(key, f) == f = [k \in 0 .. Len(key) |-> PointerStep(key, f, k)]

(* The bytes of a key can be escaped one after the other. *)
LEMMA PointerExists ==
    ASSUME NEW key \in Seq(Int)
    PROVE  \E f : IsPointer(key, f)
<1> DEFINE n == Len(key)
           T == {m \in 0 .. n : \E f : f = [k \in 0 .. m |-> PointerStep(key, f, k)]}
<1>0. n \in Nat
  OBVIOUS
<1>1. 0 \in T
  <2>1. PICK f : f = [k \in 0 .. 0 |-> << >>]
    OBVIOUS
  <2>2. f = [k \in 0 .. 0 |-> PointerStep(key, f, k)]
    BY <2>1 DEF PointerStep
  <2> QED BY <1>0, <2>2
<1>2. ASSUME NEW m \in 1 .. n, m - 1 \in T PROVE m \in T
  <2>1. PICK g : g = [k \in 0 .. (m - 1) |-> PointerStep(key, g, k)]
    BY <1>2
  <2>2. PICK f : f = [k \in 0 .. m |-> IF k = m THEN PointerStep(key, g, m) ELSE g[k]]
    OBVIOUS
  <2>3. f[m] = PointerStep(key, g, m) /\ \A k \in 0 .. (m - 1) : f[k] = g[k]
    BY <2>2
  <2>4. ASSUME NEW k \in 0 .. m PROVE f[k] = PointerStep(key, f, k)
    <3>1. k # 0 => k - 1 \in 0 .. (m - 1)
      OBVIOUS
    <3>2. PointerStep(key, f, k) = PointerStep(key, g, k)
      BY <2>3, <3>1, Zenon DEF PointerStep
    <3>3. k = m \/ k \in 0 .. (m - 1)
      OBVIOUS
    <3>4. \A j \in 0 .. (m - 1) : g[j] = PointerStep(key, g, j)
      BY <2>1
    <3> QED BY <2>3, <3>2, <3>3, <3>4, Zenon
  <2>5. f = [k \in 0 .. m |-> PointerStep(key, f, k)]
    <3>1. f = [k \in 0 .. m |-> f[k]]
      BY <2>2, Zenon
    <3> QED BY <2>4, <3>1, Zenon
  <2>6. m \in 0 .. n
    OBVIOUS
  <2> QED BY <2>5, <2>6, Zenon
<1>3. n \in T
  <2>1. n \in 0 .. n
    BY <1>0
  <2> HIDE DEF T, n
  <2>2. 0 .. n \subseteq T
    BY <1>0, <1>1, <1>2, IntervalInduction, Zenon
  <2> QED BY <2>1, <2>2
<1> QED BY <1>3, Zenon DEF IsPointer

LEMMA EscapeIsSeq ==
    ASSUME NEW b \in Int
    PROVE  PointerEscape(b) \in Seq(Int)
BY DEF PointerEscape

(* the escaped beginnings of a key *)
Pointers(key, f) ==
    /\ f[0] = << >> /\ f[Len(key)] = PointerText(key)
    /\ \A k \in 1 .. Len(key) : f[k] = f[k - 1] \o PointerEscape(key[k])
    /\ \A k \in 0 .. Len(key) : f[k] \in Seq(Int)

LEMMA PointerFacts ==
    ASSUME NEW key \in Seq(Int)
    PROVE  \E f : Pointers(key, f)
<1> DEFINE n == Len(key)
<1>0. n \in Nat
  OBVIOUS
<1>1. PICK f : f = CHOOSE g : IsPointer(key, g)
  OBVIOUS
<1>2. IsPointer(key, f)
  BY <1>1, PointerExists, Zenon
<1>3. PointerText(key) = f[n]
  BY <1>1 DEF PointerText, IsPointer, PointerStep
<1>4. \A k \in 0 .. n : f[k] = PointerStep(key, f, k)
  BY <1>2 DEF IsPointer
<1>5. f[0] = << >>
  <2>1. 0 \in 0 .. n
    BY <1>0
  <2> QED BY <1>4, <2>1 DEF PointerStep
<1>6. ASSUME NEW k \in 1 .. n PROVE f[k] = f[k - 1] \o PointerEscape(key[k])
  <2>1. k \in 0 .. n /\ k # 0
    BY <1>0
  <2> QED BY <1>4, <2>1, Zenon DEF PointerStep
<1> DEFINE T == {k \in 0 .. n : f[k] \in Seq(Int)}
<1>7. 0 \in T
  <2>1. 0 \in 0 .. n /\ << >> \in Seq(Int)
    BY <1>0
  <2> QED BY <1>5, <2>1, Zenon
<1>8. ASSUME NEW k \in 1 .. n, k - 1 \in T PROVE k \in T
  <2>1. k \in 0 .. n /\ key[k] \in Int
    BY <1>0
  <2>2. f[k - 1] \in Seq(Int) /\ PointerEscape(key[k]) \in Seq(Int)
    BY <1>8, <2>1, EscapeIsSeq
  <2>3. f[k - 1] \o PointerEscape(key[k]) \in Seq(Int)
    BY <2>2, ConcatProperties
  <2> QED BY <1>6, <2>1, <2>3
<1>9. 0 .. n \subseteq T
  <2> HIDE DEF T, n
  <2> QED BY <1>0, <1>7, <1>8, IntervalInduction, Zenon
<1>10. Pointers(key, f)
  BY <1>3, <1>5, <1>6, <1>9, Zenon DEF Pointers
<1> QED BY <1>10, Zenon

LEMMA PointerIsSeq ==
    ASSUME NEW key \in Seq(Int)
    PROVE  PointerText(key) \in Seq(Int)
<1>1. PICK f : Pointers(key, f)
  BY PointerFacts, Zenon
<1>2. Len(key) \in 0 .. Len(key)
  OBVIOUS
<1> QED BY <1>1, <1>2, Zenon DEF Pointers

(* One more byte of the key. *)
LEMMA PointerAppend ==
    ASSUME NEW key \in Seq(Int), NEW b \in Int
    PROVE  PointerText(Append(key, b)) = PointerText(key) \o PointerEscape(b)
<1> DEFINE n == Len(key)
<1>1. PICK more \in Seq(Int) : more = Append(key, b)
  <2>1. Append(key, b) \in Seq(Int)
    BY AppendProperties
  <2> QED BY <2>1, Zenon
<1>2. n \in Nat /\ Len(more) = n + 1 /\ more[n + 1] = b /\ \A k \in 1 .. n : more[k] = key[k]
  BY <1>1, AppendProperties
<1>3. PICK f : Pointers(key, f)
  BY PointerFacts, Zenon
<1>4. PICK g : Pointers(more, g)
  BY PointerFacts, Zenon
<1>5. /\ f[0] = << >> /\ f[n] = PointerText(key) /\ f[n] \in Seq(Int)
      /\ \A k \in 1 .. n : f[k] = f[k - 1] \o PointerEscape(key[k])
  <2>1. n \in 0 .. n
    BY <1>2
  <2> QED BY <1>3, <2>1, Zenon DEF Pointers
<1>6. /\ g[0] = << >> /\ g[n + 1] = PointerText(more)
      /\ \A k \in 1 .. (n + 1) : g[k] = g[k - 1] \o PointerEscape(more[k])
  BY <1>2, <1>4, Zenon DEF Pointers
<1> DEFINE T == {k \in 0 .. n : g[k] = f[k]}
<1>7. 0 \in T
  BY <1>2, <1>5, <1>6
<1>8. ASSUME NEW k \in 1 .. n, k - 1 \in T PROVE k \in T
  <2>1. k \in 0 .. n /\ k \in 1 .. (n + 1)
    BY <1>2
  <2>2. g[k - 1] = f[k - 1] /\ more[k] = key[k]
    BY <1>2, <1>8
  <2>3. g[k] = f[k]
    BY <1>5, <1>6, <2>1, <2>2, Zenon
  <2> QED BY <2>1, <2>3
<1>9. g[n] = f[n]
  <2>1. n \in 0 .. n
    BY <1>2
  <2> HIDE DEF T, n
  <2>2. 0 .. n \subseteq T
    BY <1>2, <1>7, <1>8, IntervalInduction, Zenon
  <2>3. n \in T
    BY <2>1, <2>2
  <2> QED BY <2>3 DEF T
<1>10. g[n + 1] = g[n] \o PointerEscape(b)
  <2>1. PICK k \in 1 .. (n + 1) : k = n + 1
    BY <1>2
  <2>2. k - 1 = n /\ more[k] = b
    BY <1>2, <2>1
  <2> QED BY <1>6, <2>1, <2>2, Zenon
<1> QED BY <1>1, <1>5, <1>6, <1>9, <1>10, Zenon

(* Nothing read yet. *)
LEMMA PointerOfNothing == PointerText(<< >>) = << >>
<1>1. PICK key \in Seq(Int) : key = << >>
  <2>1. << >> \in Seq(Int)
    OBVIOUS
  <2> QED BY <2>1, Zenon
<1>2. PICK f : Pointers(key, f)
  BY PointerFacts, Zenon
<1>3. Len(key) = 0
  BY <1>1
<1> QED BY <1>1, <1>2, <1>3, Zenon DEF Pointers

(* A segment is a text of bytes. *)
LEMMA SegmentIsSeq ==
    ASSUME NEW segment, PointerSegment(segment)
    PROVE  segment \in Seq(Int)
<1>1. segment \in Seq(0 .. 255) /\ 0 .. 255 \subseteq Int
  BY DEF PointerSegment
<1> QED BY <1>1, SeqMonotonic

(* the segment goes on at n with the byte b of a key *)
GoesOn(segment, n, b) == n < Len(segment) /\ PointerByte(segment, n) = b

(* A key's next byte agrees with the segment as the matcher reads it exactly *)
(* when its escape agrees with the segment as it is written.                 *)
LEMMA KeyAgrees ==
    ASSUME NEW segment, PointerSegment(segment), NEW text \in Seq(Int), NEW b \in Int
    PROVE  /\ Agrees(segment, FALSE, text \o PointerEscape(b)) <=>
                Agrees(segment, FALSE, text) /\ GoesOn(segment, Len(text), b)
           /\ GoesOn(segment, Len(text), b) =>
                Len(PointerEscape(b)) = IF EscapeAt(segment, Len(text)) THEN 2 ELSE 1
<1>0. segment \in Seq(Int)
  BY SegmentIsSeq
<1>1. PICK n \in Nat, L \in Nat : n = Len(text) /\ L = Len(segment)
  BY <1>0
<1>2. PICK e \in Seq(Int) : e = PointerEscape(b)
  BY EscapeIsSeq, Zenon
<1>3. PICK m \in Nat : m = Len(e)
  OBVIOUS
<1>4. Agrees(segment, FALSE, text \o e) <=>
         /\ Agrees(segment, FALSE, text)
         /\ n + m <= L
         /\ \A i \in 1 .. m : n + i <= L => segment[n + i] = e[i]
  BY <1>0, <1>1, <1>3, AgreesConcat
<1>5. n < L => segment[n + 1] # 47 /\ (segment[n + 1] = 126 => EscapeAt(segment, n))
  <2>1. n < L => n \in 0 .. (L - 1)
    OBVIOUS
  <2> QED BY <1>1, <2>1, Zenon DEF PointerSegment
<1>6. EscapeAt(segment, n) <=>
        n + 2 <= L /\ segment[n + 1] = 126 /\ (segment[n + 2] = 48 \/ segment[n + 2] = 49)
  BY <1>1 DEF EscapeAt
<1>7. GoesOn(segment, n, b) <=>
        n < L /\ (IF EscapeAt(segment, n) THEN (IF segment[n + 2] = 48 THEN 126 ELSE 47)
                  ELSE segment[n + 1]) = b
  BY <1>1 DEF GoesOn, PointerByte
<1>8. CASE b = 126 \/ b = 47
  <2>1. PICK c \in Int : c = IF b = 126 THEN 48 ELSE 49
    OBVIOUS
  <2>2. m = 2 /\ e[1] = 126 /\ e[2] = c
    BY <1>2, <1>3, <1>8, <2>1 DEF PointerEscape
  <2>3. Agrees(segment, FALSE, text \o e) <=>
          /\ Agrees(segment, FALSE, text)
          /\ n + 2 <= L /\ segment[n + 1] = 126 /\ segment[n + 2] = c
    <3>1. (\A i \in 1 .. 2 : n + i <= L => segment[n + i] = e[i]) /\ n + 2 <= L <=>
            n + 2 <= L /\ segment[n + 1] = e[1] /\ segment[n + 2] = e[2]
      <4>1. \A i \in 1 .. 2 : i = 1 \/ i = 2
        OBVIOUS
      <4> QED BY <4>1
    <3> QED BY <1>4, <2>2, <3>1, Zenon
  <2>4. GoesOn(segment, n, b) <=> n + 2 <= L /\ segment[n + 1] = 126 /\ segment[n + 2] = c
    BY <1>5, <1>6, <1>7, <1>8, <2>1
  <2>5. GoesOn(segment, n, b) => EscapeAt(segment, n)
    BY <1>6, <2>1, <2>4
  <2> QED BY <1>1, <1>2, <1>3, <2>2, <2>3, <2>4, <2>5, Zenon
<1>9. CASE b # 126 /\ b # 47
  <2>1. m = 1 /\ e[1] = b
    BY <1>2, <1>3, <1>9 DEF PointerEscape
  <2>2. Agrees(segment, FALSE, text \o e) <=>
          /\ Agrees(segment, FALSE, text)
          /\ n + 1 <= L /\ segment[n + 1] = b
    <3>1. (\A i \in 1 .. 1 : n + i <= L => segment[n + i] = e[i]) /\ n + 1 <= L <=>
            n + 1 <= L /\ segment[n + 1] = e[1]
      OBVIOUS
    <3> QED BY <1>4, <2>1, <3>1, Zenon
  <2>3. GoesOn(segment, n, b) => ~EscapeAt(segment, n)
    BY <1>6, <1>7, <1>9
  <2>4. GoesOn(segment, n, b) <=> n + 1 <= L /\ segment[n + 1] = b
    BY <1>5, <1>6, <1>7, <1>9
  <2> QED BY <1>1, <1>2, <1>3, <2>1, <2>2, <2>3, <2>4, Zenon
<1> QED BY <1>8, <1>9

(* the state of a term that watches a key *)
KeyState(segment, s, text) == Comparing(segment, s, FALSE, PointerText(text))

(* a byte for one term *)
KeyFeed(term, s, b) == IF s.failed THEN s ELSE KeyByte(term, s, b)

LEMMA KeyByteKeeps ==
    ASSUME NEW term, PointerSegment(term.segment), NEW text \in Seq(Int), NEW b \in Int,
           NEW s, KeyState(term.segment, s, text)
    PROVE  KeyState(term.segment, KeyFeed(term, s, b), Append(text, b))
<1>1. PICK segment \in Seq(Int) : segment = term.segment
  BY SegmentIsSeq
<1>2. PICK read \in Seq(Int) : read = PointerText(text)
  BY PointerIsSeq, Zenon
<1>3. PICK e \in Seq(Int) : e = PointerEscape(b)
  BY EscapeIsSeq, Zenon
<1>4. PICK more \in Seq(Int) : more = read \o e
  <2>1. read \o e \in Seq(Int)
    BY ConcatProperties
  <2> QED BY <2>1, Zenon
<1>5. PointerText(Append(text, b)) = more
  BY <1>2, <1>3, <1>4, PointerAppend, Zenon
<1>6. PICK n \in Nat, L \in Nat, m \in Nat : n = Len(read) /\ L = Len(segment) /\ m = Len(e)
  OBVIOUS
<1>7. Len(more) = n + m
  BY <1>4, <1>6, ConcatProperties
<1>8. /\ Agrees(segment, FALSE, more) <=> Agrees(segment, FALSE, read) /\ GoesOn(segment, n, b)
      /\ GoesOn(segment, n, b) => m = IF EscapeAt(segment, n) THEN 2 ELSE 1
  BY <1>1, <1>3, <1>4, <1>6, KeyAgrees
<1>9. Comparing(segment, s, FALSE, read)
  BY <1>1, <1>2, Zenon DEF KeyState
<1>10. /\ s = [pos |-> s.pos, failed |-> s.failed, found |-> s.found]
       /\ s.pos \in Nat /\ s.failed \in BOOLEAN /\ s.found \in BOOLEAN
       /\ ~s.found /\ (~s.failed <=> Agrees(segment, FALSE, read))
       /\ ~s.failed => s.pos = IF n <= L THEN n ELSE L
  <2>1. IsState(s)
    BY <1>9, Zenon DEF Comparing
  <2> QED BY <1>6, <1>9, <2>1, StateExcept, Zenon DEF Comparing
<1>11. Agrees(segment, FALSE, read) => n <= L
  BY <1>6 DEF Agrees
<1>12. Agrees(segment, FALSE, more) => n + m <= L
  BY <1>6, <1>7 DEF Agrees
<1>13. PICK t : t = KeyFeed(term, s, b)
  OBVIOUS
<1>14. CASE s.failed
  <2>1. t = s
    BY <1>13, <1>14 DEF KeyFeed
  <2>2. Comparing(segment, t, FALSE, more)
    BY <1>8, <1>9, <1>10, <1>14, <2>1, Zenon DEF Comparing
  <2> QED BY <1>1, <1>5, <1>13, <2>2, Zenon DEF KeyState
<1>15. CASE ~s.failed /\ GoesOn(segment, n, b)
  <2>1. s.pos = n
    BY <1>10, <1>11, <1>15
  <2>2. t = [s EXCEPT !.pos = s.pos + (IF EscapeAt(segment, n) THEN 2 ELSE 1)]
    BY <1>1, <1>13, <1>15, <2>1 DEF KeyFeed, KeyByte, GoesOn
  <2>3. t = [s EXCEPT !.pos = n + m]
    BY <1>8, <1>15, <2>1, <2>2
  <2>4. t = [pos |-> n + m, failed |-> s.failed, found |-> s.found]
    BY <1>10, <2>3
  <2>5. IsState(t) /\ t.pos = n + m /\ ~t.failed /\ ~t.found
    BY <1>10, <1>15, <2>4 DEF IsState
  <2>6. Agrees(segment, FALSE, more) /\ n + m <= L
    BY <1>8, <1>10, <1>12, <1>15, Zenon
  <2>7. Comparing(segment, t, FALSE, more)
    BY <1>6, <1>7, <2>5, <2>6, Zenon DEF Comparing
  <2> QED BY <1>1, <1>5, <1>13, <2>7, Zenon DEF KeyState
<1>16. CASE ~s.failed /\ ~GoesOn(segment, n, b)
  <2>1. s.pos = n
    BY <1>10, <1>11, <1>16
  <2>2. t = [s EXCEPT !.failed = TRUE]
    BY <1>1, <1>13, <1>16, <2>1, Zenon DEF KeyFeed, KeyByte, GoesOn
  <2>3. t = [pos |-> s.pos, failed |-> TRUE, found |-> s.found]
    BY <1>10, <2>2
  <2>4. IsState(t) /\ t.failed /\ ~t.found
    BY <1>10, <2>3 DEF IsState
  <2>5. Comparing(segment, t, FALSE, more)
    BY <1>8, <1>16, <2>4, Zenon DEF Comparing
  <2> QED BY <1>1, <1>5, <1>13, <2>5, Zenon DEF KeyState
<1> QED BY <1>14, <1>15, <1>16

(* a segment without escapes is compared as it is written *)
SameRead(segment, text) ==
    /\ Agrees(segment, FALSE, text) <=> Agrees(segment, FALSE, PointerText(text))
    /\ Agrees(segment, FALSE, text) => Len(PointerText(text)) = Len(text)

PlainSegment(segment) == PointerSegment(segment) /\ ~HasEscape(segment)

LEMMA SameReadStep ==
    ASSUME NEW segment, PlainSegment(segment), NEW text \in Seq(Int), NEW b \in Int,
           SameRead(segment, text)
    PROVE  SameRead(segment, Append(text, b))
<1>0. segment \in Seq(Int) /\ PointerSegment(segment) /\ ~HasEscape(segment)
  BY SegmentIsSeq DEF PlainSegment
<1>1. PICK read \in Seq(Int), e \in Seq(Int) : read = PointerText(text) /\ e = PointerEscape(b)
  BY PointerIsSeq, EscapeIsSeq, Zenon
<1>2. PICK n \in Nat, L \in Nat, m \in Nat, k \in Nat :
        n = Len(text) /\ L = Len(segment) /\ m = Len(e) /\ k = Len(read)
  BY <1>0
<1>3. PICK more \in Seq(Int), long \in Seq(Int) : more = read \o e /\ long = Append(text, b)
  <2>1. read \o e \in Seq(Int) /\ Append(text, b) \in Seq(Int)
    BY ConcatProperties, AppendProperties
  <2> QED BY <2>1, Zenon
<1>4. PointerText(long) = more
  BY <1>1, <1>3, PointerAppend, Zenon
<1>5. Len(more) = k + m /\ Len(long) = n + 1
  BY <1>2, <1>3, ConcatProperties, AppendProperties
<1>6. /\ Agrees(segment, FALSE, more) <=> Agrees(segment, FALSE, read) /\ GoesOn(segment, k, b)
      /\ GoesOn(segment, k, b) => m = IF EscapeAt(segment, k) THEN 2 ELSE 1
  BY <1>0, <1>1, <1>2, <1>3, KeyAgrees
<1>7. Agrees(segment, FALSE, long) <=>
        /\ Agrees(segment, FALSE, text) /\ n < L /\ segment[n + 1] = b
  <2>1. FALSE \in BOOLEAN
    OBVIOUS
  <2>2. Agrees(segment, FALSE, Append(text, b)) <=>
          /\ Agrees(segment, FALSE, text)
          /\ Len(text) < Len(segment) => segment[Len(text) + 1] = b
          /\ Len(text) >= Len(segment) => FALSE
    BY <1>0, <2>1, AgreesAppend, Zenon
  <2>3. Agrees(segment, FALSE, long) <=>
          /\ Agrees(segment, FALSE, text)
          /\ n < L => segment[n + 1] = b
          /\ n >= L => FALSE
    BY <1>2, <1>3, <2>2, Zenon
  <2>4. n >= L <=> ~(n < L)
    OBVIOUS
  <2> QED BY <2>3, <2>4, Zenon
<1>8. n < L => ~EscapeAt(segment, n)
  <2>1. n < L => n \in 0 .. L
    OBVIOUS
  <2> QED BY <1>0, <1>2, <2>1, Zenon DEF HasEscape
<1>9. GoesOn(segment, n, b) <=> n < L /\ segment[n + 1] = b
  BY <1>2, <1>8, Zenon DEF GoesOn, PointerByte
<1>10. /\ Agrees(segment, FALSE, text) <=> Agrees(segment, FALSE, read)
       /\ Agrees(segment, FALSE, text) => k = n
  BY <1>1, <1>2, Zenon DEF SameRead
<1>11. Agrees(segment, FALSE, long) <=> Agrees(segment, FALSE, more)
  BY <1>6, <1>7, <1>9, <1>10, Zenon
<1>12. ASSUME Agrees(segment, FALSE, long) PROVE k = n /\ m = 1
  BY <1>6, <1>7, <1>8, <1>9, <1>10, <1>12, Zenon
<1>13. Agrees(segment, FALSE, long) => Len(more) = Len(long)
  BY <1>5, <1>12
<1> QED BY <1>3, <1>4, <1>11, <1>13, Zenon DEF SameRead

LEMMA SameReadAll ==
    ASSUME NEW segment, PlainSegment(segment), NEW text \in Seq(Int)
    PROVE  SameRead(segment, text)
<1> DEFINE n == Len(text)
           so(k) == << >> \o SubSeq(text, 1, k)
           T == {k \in 0 .. n : SameRead(segment, so(k))}
<1>0. n \in Nat
  OBVIOUS
<1>1. << >> \in Seq(Int) /\ << >> \o text = text
  BY ConcatEmptySeq
<1>2. /\ so(0) = << >> /\ so(n) = text
      /\ \A k \in 0 .. n : so(k) \in Seq(Int)
      /\ \A k \in 1 .. n : so(k) = Append(so(k - 1), text[k])
  BY <1>1, TakeFacts
<1> HIDE DEF so
<1>3. 0 \in T
  <2>1. SameRead(segment, << >>)
    BY PointerOfNothing DEF SameRead
  <2>2. 0 \in 0 .. n
    BY <1>0
  <2> QED BY <1>2, <2>1, <2>2, Zenon
<1>4. ASSUME NEW k \in 1 .. n, k - 1 \in T PROVE k \in T
  <2>1. k \in 0 .. n /\ k - 1 \in 0 .. n /\ text[k] \in Int
    BY <1>0
  <2>2. SameRead(segment, so(k - 1)) /\ so(k - 1) \in Seq(Int)
    BY <1>2, <1>4, <2>1, Zenon
  <2>3. SameRead(segment, Append(so(k - 1), text[k]))
    BY <2>1, <2>2, SameReadStep, Zenon
  <2> QED BY <1>2, <2>1, <2>3, Zenon
<1>5. n \in T
  <2>1. n \in 0 .. n
    BY <1>0
  <2> HIDE DEF T, n
  <2>2. 0 .. n \subseteq T
    BY <1>0, <1>3, <1>4, IntervalInduction, Zenon
  <2> QED BY <2>1, <2>2
<1> QED BY <1>2, <1>5, Zenon

(* For such a segment it is the same to compare the key's bytes. *)
LEMMA PlainState ==
    ASSUME NEW segment, PlainSegment(segment), NEW text \in Seq(Int), NEW s
    PROVE  KeyState(segment, s, text) <=> Comparing(segment, s, FALSE, text)
<1>0. segment \in Seq(Int)
  BY SegmentIsSeq DEF PlainSegment
<1>1. PICK read \in Seq(Int) : read = PointerText(text)
  BY PointerIsSeq, Zenon
<1>2. /\ Agrees(segment, FALSE, text) <=> Agrees(segment, FALSE, read)
      /\ Agrees(segment, FALSE, text) => Len(read) = Len(text)
  BY <1>1, SameReadAll, Zenon DEF SameRead
<1> QED BY <1>1, <1>2, Zenon DEF KeyState, Comparing

(* a run for one such term *)
KeySpan(term, s, bytes) ==
    IF s.failed THEN s ELSE SpanTerm(term.segment, s, FALSE, bytes)

LEMMA KeySpanKeeps ==
    ASSUME NEW term, PlainSegment(term.segment), NEW text \in Seq(Int), NEW bytes \in Seq(Int),
           NEW s, KeyState(term.segment, s, text)
    PROVE  KeyState(term.segment, KeySpan(term, s, bytes), text \o bytes)
<1>1. PICK segment \in Seq(Int) : segment = term.segment
  BY SegmentIsSeq DEF PlainSegment
<1>2. Comparing(segment, s, FALSE, text)
  BY <1>1, PlainState, Zenon
<1>3. PICK more \in Seq(Int) : more = text \o bytes
  <2>1. text \o bytes \in Seq(Int)
    BY ConcatProperties
  <2> QED BY <2>1, Zenon
<1>4. PICK t : t = KeySpan(term, s, bytes)
  OBVIOUS
<1>5. CASE s.failed
  <2>1. t = s
    BY <1>4, <1>5, Zenon DEF KeySpan
  <2>2. Agrees(segment, FALSE, more) => Agrees(segment, FALSE, text)
    BY <1>3, AgreesConcat
  <2>3. Comparing(segment, t, FALSE, more)
    BY <1>2, <1>5, <2>1, <2>2, Zenon DEF Comparing
  <2> QED BY <1>1, <1>3, <1>4, <2>3, PlainState, Zenon
<1>6. CASE ~s.failed
  <2>1. t = SpanTerm(segment, s, FALSE, bytes)
    BY <1>1, <1>4, <1>6, Zenon DEF KeySpan
  <2>2. Comparing(segment, t, FALSE, more)
    BY <1>2, <1>3, <1>6, <2>1, SpanTermKeeps
  <2> QED BY <1>1, <1>3, <1>4, <2>2, PlainState, Zenon
<1> QED BY <1>5, <1>6

(* what the terms that watch a key have read of it *)
KeyReads(terms, m, text) ==
    /\ DOMAIN m.term = DOMAIN terms
    /\ \A i \in DOMAIN terms : KeyState(terms[i].segment, m.term[i], text)

Segments(terms) == \A i \in DOMAIN terms : PointerSegment(terms[i].segment)

(* A byte for all terms. *)
LEMMA KeysTakeByte ==
    ASSUME NEW terms, Segments(terms), NEW text \in Seq(Int), NEW b \in Int,
           NEW m, KeyReads(terms, m, text)
    PROVE  KeyReads(terms, MatchByte(terms, m, TRUE, b), Append(text, b))
<1> DEFINE feed(i) == KeyFeed(terms[i], m.term[i], b)
<1>1. PICK t : t = MatchByte(terms, m, TRUE, b)
  OBVIOUS
<1>2. LowerTerms(terms, m, TRUE) = {}
  BY DEF LowerTerms
<1>3. t = [term |-> [i \in DOMAIN m.term |-> feed(i)], pending |-> m.pending]
  BY <1>1, <1>2, Zenon DEF MatchByte, KeyFeed
<1> HIDE DEF feed
<1>4. t.term = [i \in DOMAIN m.term |-> feed(i)]
  <2>1. PICK f, w : f = [i \in DOMAIN m.term |-> feed(i)] /\ w = m.pending
    OBVIOUS
  <2>2. t = [term |-> f, pending |-> w]
    BY <1>3, <2>1, Zenon
  <2>3. HasFields(t, f, w)
    BY <2>2, MatchFields, Zenon
  <2> QED BY <2>1, <2>3, Zenon DEF HasFields
<1>5. t.term = [i \in DOMAIN terms |-> feed(i)]
  BY <1>4, Zenon DEF KeyReads
<1>6. ASSUME NEW i \in DOMAIN terms
      PROVE  KeyState(terms[i].segment, t.term[i], Append(text, b))
  <2>1. t.term[i] = feed(i)
    BY <1>5, Zenon
  <2>2. KeyState(terms[i].segment, m.term[i], text) /\ PointerSegment(terms[i].segment)
    BY Zenon DEF KeyReads, Segments
  <2>3. KeyState(terms[i].segment, feed(i), Append(text, b))
    BY <2>2, KeyByteKeeps, Zenon DEF feed
  <2> QED BY <2>1, <2>3, Zenon
<1>7. DOMAIN t.term = DOMAIN terms
  BY <1>5, Zenon
<1> QED BY <1>1, <1>6, <1>7, Zenon DEF KeyReads

(* A state that keeps up with a text byte by byte has read all of it. *)
LEMMA KeysKeepUp ==
    ASSUME NEW terms, NEW text \in Seq(Int), NEW bytes \in Seq(Int), NEW r,
           KeyReads(terms, r[0], text),
           \A k \in 1 .. Len(bytes) : \A so \in Seq(Int) :
             KeyReads(terms, r[k - 1], so) => KeyReads(terms, r[k], Append(so, bytes[k]))
    PROVE  KeyReads(terms, r[Len(bytes)], text \o bytes)
<1> DEFINE n == Len(bytes)
           so(k) == text \o SubSeq(bytes, 1, k)
           T == {k \in 0 .. n : KeyReads(terms, r[k], so(k))}
<1>0. n \in Nat
  OBVIOUS
<1>1. /\ so(0) = text /\ so(n) = text \o bytes
      /\ \A k \in 0 .. n : so(k) \in Seq(Int)
      /\ \A k \in 1 .. n : so(k) = Append(so(k - 1), bytes[k])
  BY TakeFacts
<1> HIDE DEF so
<1>2. 0 \in T
  <2>1. 0 \in 0 .. n
    BY <1>0
  <2> QED BY <1>1, <2>1, Zenon
<1>3. ASSUME NEW k \in 1 .. n, k - 1 \in T PROVE k \in T
  <2>1. k \in 0 .. n /\ k - 1 \in 0 .. n
    BY <1>0
  <2>2. KeyReads(terms, r[k - 1], so(k - 1)) /\ so(k - 1) \in Seq(Int)
    BY <1>1, <1>3, <2>1, Zenon
  <2>3. KeyReads(terms, r[k], Append(so(k - 1), bytes[k]))
    BY <2>2, Zenon
  <2> QED BY <1>1, <2>1, <2>3, Zenon
<1>4. n \in T
  <2>1. n \in 0 .. n
    BY <1>0
  <2> HIDE DEF T, n
  <2>2. 0 .. n \subseteq T
    BY <1>0, <1>2, <1>3, IntervalInduction, Zenon
  <2> QED BY <2>1, <2>2
<1> QED BY <1>1, <1>4, Zenon

(* A character, byte by byte. *)
LEMMA KeysTakeChar ==
    ASSUME NEW terms, Segments(terms), NEW text \in Seq(Int), NEW bytes \in Seq(Int),
           NEW m, KeyReads(terms, m, text)
    PROVE  KeyReads(terms, MatchChar(terms, m, TRUE, bytes), text \o bytes)
<1> DEFINE n == Len(bytes)
<1>0. n \in Nat
  OBVIOUS
<1>1. PICK r : r = CHOOSE f : IsCharRun(terms, m, TRUE, bytes, f)
  OBVIOUS
<1>2. IsCharRun(terms, m, TRUE, bytes, r)
  BY <1>1, CharExists, Zenon
<1>3. MatchChar(terms, m, TRUE, bytes) = r[n]
  BY <1>1 DEF MatchChar, IsCharRun, CharStep
<1>4. \A k \in 0 .. n : r[k] = CharStep(terms, m, TRUE, bytes, r, k)
  BY <1>2 DEF IsCharRun
<1>5. KeyReads(terms, r[0], text)
  <2>1. 0 \in 0 .. n
    BY <1>0
  <2>2. r[0] = m
    BY <1>4, <2>1 DEF CharStep
  <2> QED BY <2>2, Zenon
<1>6. ASSUME NEW k \in 1 .. n, NEW so \in Seq(Int), KeyReads(terms, r[k - 1], so)
      PROVE  KeyReads(terms, r[k], Append(so, bytes[k]))
  <2>1. k \in 0 .. n /\ k # 0 /\ bytes[k] \in Int
    BY <1>0
  <2>2. r[k] = MatchByte(terms, r[k - 1], TRUE, bytes[k])
    BY <1>4, <2>1, Zenon DEF CharStep
  <2>3. KeyReads(terms, MatchByte(terms, r[k - 1], TRUE, bytes[k]), Append(so, bytes[k]))
    BY <1>6, <2>1, KeysTakeByte, Zenon
  <2> QED BY <2>2, <2>3, Zenon
<1>7. KeyReads(terms, r[n], text \o bytes)
  BY <1>5, <1>6, KeysKeepUp, Zenon
<1> QED BY <1>3, <1>7, Zenon

(* Once a term has failed, nothing that follows makes the key match. *)
LEMMA KeyFailedStays ==
    ASSUME NEW segment, PointerSegment(segment), NEW text \in Seq(Int), NEW bytes \in Seq(Int),
           NEW s, s.failed, KeyState(segment, s, text)
    PROVE  KeyState(segment, s, text \o bytes)
<1> DEFINE n == Len(bytes)
           so(k) == text \o SubSeq(bytes, 1, k)
           T == {k \in 0 .. n : KeyState(segment, s, so(k))}
<1>0. n \in Nat
  OBVIOUS
<1>1. /\ so(0) = text /\ so(n) = text \o bytes
      /\ \A k \in 0 .. n : so(k) \in Seq(Int)
      /\ \A k \in 1 .. n : so(k) = Append(so(k - 1), bytes[k])
  BY TakeFacts
<1> HIDE DEF so
<1>2. 0 \in T
  <2>1. 0 \in 0 .. n
    BY <1>0
  <2> QED BY <1>1, <2>1, Zenon
<1>3. ASSUME NEW k \in 1 .. n, k - 1 \in T PROVE k \in T
  <2>1. k \in 0 .. n /\ k - 1 \in 0 .. n /\ bytes[k] \in Int
    BY <1>0
  <2>2. KeyState(segment, s, so(k - 1)) /\ so(k - 1) \in Seq(Int)
    BY <1>1, <1>3, <2>1, Zenon
  <2>3. PICK term : term = [segment |-> segment]
    OBVIOUS
  <2>4. term.segment = segment
    BY <2>3
  <2>5. KeyFeed(term, s, bytes[k]) = s
    BY Zenon DEF KeyFeed
  <2>6. KeyState(segment, s, Append(so(k - 1), bytes[k]))
    BY <2>1, <2>2, <2>4, <2>5, KeyByteKeeps, Zenon
  <2> QED BY <1>1, <2>1, <2>6, Zenon
<1>4. n \in T
  <2>1. n \in 0 .. n
    BY <1>0
  <2> HIDE DEF T, n
  <2>2. 0 .. n \subseteq T
    BY <1>0, <1>2, <1>3, IntervalInduction, Zenon
  <2> QED BY <2>1, <2>2
<1> QED BY <1>1, <1>4, Zenon

(* one unfolding of ByteLoop *)
LoopStep(terms, m, stop, bytes, f, k) ==
    IF k = 0 THEN m
    ELSE IF f[k - 1].term[stop].failed THEN f[k - 1]
    ELSE MatchByte(terms, f[k - 1], TRUE, bytes[k])

IsLoop(terms, m, stop, bytes, f) ==
    f = [k \in 0 .. Len(bytes) |-> LoopStep(terms, m, stop, bytes, f, k)]

(* The byte loop has a next state for every byte. *)
LEMMA LoopExists ==
    ASSUME NEW terms, NEW first, NEW stop, NEW bytes \in Seq(Int)
    PROVE  \E f : IsLoop(terms, first, stop, bytes, f)
<1> DEFINE n == Len(bytes)
           T == {m \in 0 .. n : \E f : f = [k \in 0 .. m |-> LoopStep(terms, first, stop, bytes, f, k)]}
<1>0. n \in Nat
  OBVIOUS
<1>1. 0 \in T
  <2>1. PICK f : f = [k \in 0 .. 0 |-> first]
    OBVIOUS
  <2>2. f = [k \in 0 .. 0 |-> LoopStep(terms, first, stop, bytes, f, k)]
    BY <2>1 DEF LoopStep
  <2> QED BY <1>0, <2>2
<1>2. ASSUME NEW m \in 1 .. n, m - 1 \in T PROVE m \in T
  <2>1. PICK g : g = [k \in 0 .. (m - 1) |-> LoopStep(terms, first, stop, bytes, g, k)]
    BY <1>2
  <2>2. PICK f : f = [k \in 0 .. m |-> IF k = m THEN LoopStep(terms, first, stop, bytes, g, m) ELSE g[k]]
    OBVIOUS
  <2>3. f[m] = LoopStep(terms, first, stop, bytes, g, m) /\ \A k \in 0 .. (m - 1) : f[k] = g[k]
    BY <2>2
  <2>4. ASSUME NEW k \in 0 .. m PROVE f[k] = LoopStep(terms, first, stop, bytes, f, k)
    <3>1. k # 0 => k - 1 \in 0 .. (m - 1)
      OBVIOUS
    <3>2. LoopStep(terms, first, stop, bytes, f, k) = LoopStep(terms, first, stop, bytes, g, k)
      BY <2>3, <3>1, Zenon DEF LoopStep
    <3>3. k = m \/ k \in 0 .. (m - 1)
      OBVIOUS
    <3>4. \A j \in 0 .. (m - 1) : g[j] = LoopStep(terms, first, stop, bytes, g, j)
      BY <2>1
    <3> QED BY <2>3, <3>2, <3>3, <3>4, Zenon
  <2>5. f = [k \in 0 .. m |-> LoopStep(terms, first, stop, bytes, f, k)]
    <3>1. f = [k \in 0 .. m |-> f[k]]
      BY <2>2, Zenon
    <3> QED BY <2>4, <3>1, Zenon
  <2>6. m \in 0 .. n
    OBVIOUS
  <2> QED BY <2>5, <2>6, Zenon
<1>3. n \in T
  <2>1. n \in 0 .. n
    BY <1>0
  <2> HIDE DEF T, n
  <2>2. 0 .. n \subseteq T
    BY <1>0, <1>1, <1>2, IntervalInduction, Zenon
  <2> QED BY <2>1, <2>2
<1> QED BY <1>3, Zenon DEF IsLoop

(* The byte loop for the only term: after it has failed nothing can follow   *)
(* that would make it match.                                                 *)
LEMMA KeyLoopKeeps ==
    ASSUME NEW terms, Segments(terms), DOMAIN terms = {1},
           NEW text \in Seq(Int), NEW bytes \in Seq(Int), NEW m, KeyReads(terms, m, text)
    PROVE  KeyReads(terms, ByteLoop(terms, m, TRUE, 1, bytes), text \o bytes)
<1> DEFINE n == Len(bytes)
<1>0. n \in Nat
  OBVIOUS
<1>1. PICK r : r = CHOOSE f : IsLoop(terms, m, 1, bytes, f)
  OBVIOUS
<1>2. IsLoop(terms, m, 1, bytes, r)
  BY <1>1, LoopExists, Zenon
<1>3. ByteLoop(terms, m, TRUE, 1, bytes) = r[n]
  BY <1>1 DEF ByteLoop, IsLoop, LoopStep
<1>4. \A k \in 0 .. n : r[k] = LoopStep(terms, m, 1, bytes, r, k)
  BY <1>2 DEF IsLoop
<1>5. KeyReads(terms, r[0], text)
  <2>1. 0 \in 0 .. n
    BY <1>0
  <2>2. r[0] = m
    BY <1>4, <2>1 DEF LoopStep
  <2> QED BY <2>2, Zenon
<1>6. ASSUME NEW k \in 1 .. n, NEW so \in Seq(Int), KeyReads(terms, r[k - 1], so)
      PROVE  KeyReads(terms, r[k], Append(so, bytes[k]))
  <2>1. k \in 0 .. n /\ k # 0 /\ bytes[k] \in Int
    BY <1>0
  <2>2. PICK q : q = r[k - 1]
    OBVIOUS
  <2>3. r[k] = IF q.term[1].failed THEN q ELSE MatchByte(terms, q, TRUE, bytes[k])
    BY <1>4, <2>1, <2>2, Zenon DEF LoopStep
  <2>4. CASE q.term[1].failed
    <3>1. KeyState(terms[1].segment, q.term[1], so) /\ PointerSegment(terms[1].segment)
      BY <1>6, <2>2, Zenon DEF KeyReads, Segments
    <3>2. KeyFeed(terms[1], q.term[1], bytes[k]) = q.term[1]
      BY <2>4, Zenon DEF KeyFeed
    <3>3. KeyState(terms[1].segment, q.term[1], Append(so, bytes[k]))
      BY <2>1, <3>1, <3>2, KeyByteKeeps, Zenon
    <3>4. KeyReads(terms, q, Append(so, bytes[k]))
      BY <1>6, <2>2, <3>3, Zenon DEF KeyReads
    <3> QED BY <2>3, <2>4, <3>4, Zenon
  <2>5. CASE ~q.term[1].failed
    <3>1. KeyReads(terms, MatchByte(terms, q, TRUE, bytes[k]), Append(so, bytes[k]))
      BY <1>6, <2>1, <2>2, KeysTakeByte, Zenon
    <3> QED BY <2>3, <2>5, <3>1, Zenon
  <2> QED BY <2>4, <2>5
<1>7. KeyReads(terms, r[n], text \o bytes)
  BY <1>5, <1>6, KeysKeepUp, Zenon
<1> QED BY <1>3, <1>7, Zenon

PlainTerms(terms) == \A i \in DOMAIN terms : ~HasEscape(terms[i].segment)

(* A run for all terms: as blocks, or in the byte loop for a single term. *)
LEMMA KeysTakeRun ==
    ASSUME NEW terms, Segments(terms), PlainTerms(terms) \/ DOMAIN terms = {1},
           NEW text \in Seq(Int), NEW bytes \in Seq(Int), NEW m, KeyReads(terms, m, text)
    PROVE  KeyReads(terms, MatchSpan(terms, m, TRUE, bytes), text \o bytes)
<1> DEFINE escaped == {i \in DOMAIN m.term : ~m.term[i].failed /\ HasEscape(terms[i].segment)}
           feed(i) == IF m.term[i].failed \/ \E e \in escaped : e <= i THEN m.term[i]
                      ELSE SpanTerm(terms[i].segment, m.term[i], FALSE, bytes)
<1>1. PICK fed : fed = [term |-> [i \in DOMAIN m.term |-> feed(i)], pending |-> m.pending]
  OBVIOUS
<1>2. MatchSpan(terms, m, TRUE, bytes) =
        IF escaped = {} THEN fed ELSE ByteLoop(terms, fed, TRUE, Min(escaped), bytes)
  <2>1. EscapedTerms(terms, m, TRUE) = escaped
    BY DEF EscapedTerms
  <2> QED BY <1>1, <2>1, Zenon DEF MatchSpan
<1> HIDE DEF feed
<1>3. fed.term = [i \in DOMAIN terms |-> feed(i)]
  <2>1. PICK f, w : f = [i \in DOMAIN m.term |-> feed(i)] /\ w = m.pending
    OBVIOUS
  <2>2. fed = [term |-> f, pending |-> w]
    BY <1>1, <2>1, Zenon
  <2>3. HasFields(fed, f, w)
    BY <2>2, MatchFields, Zenon
  <2> QED BY <2>1, <2>3, Zenon DEF HasFields, KeyReads
<1>4. DOMAIN fed.term = DOMAIN terms /\ \A i \in DOMAIN terms : fed.term[i] = feed(i)
  BY <1>3, Zenon
<1>5. DOMAIN m.term = DOMAIN terms
  BY Zenon DEF KeyReads
<1>6. CASE escaped = {}
  <2>1. ASSUME NEW i \in DOMAIN terms
        PROVE  KeyState(terms[i].segment, fed.term[i], text \o bytes)
    <3>1. feed(i) = KeySpan(terms[i], m.term[i], bytes)
      BY <1>6, Zenon DEF feed, KeySpan
    <3>2. KeyState(terms[i].segment, m.term[i], text) /\ PointerSegment(terms[i].segment)
      BY Zenon DEF KeyReads, Segments
    <3>3. CASE ~HasEscape(terms[i].segment)
      <4>1. PlainSegment(terms[i].segment)
        BY <3>2, <3>3, Zenon DEF PlainSegment
      <4>2. KeyState(terms[i].segment, KeySpan(terms[i], m.term[i], bytes), text \o bytes)
        BY <3>2, <4>1, KeySpanKeeps, Zenon
      <4> QED BY <1>4, <3>1, <4>2, Zenon
    <3>4. CASE HasEscape(terms[i].segment)
      <4>1. m.term[i].failed
        BY <1>5, <1>6, <3>4, Zenon
      <4>2. feed(i) = m.term[i]
        BY <3>1, <4>1, Zenon DEF KeySpan
      <4>3. KeyState(terms[i].segment, m.term[i], text \o bytes)
        BY <3>2, <4>1, KeyFailedStays, Zenon
      <4> QED BY <1>4, <4>2, <4>3, Zenon
    <3> QED BY <3>3, <3>4
  <2>2. KeyReads(terms, fed, text \o bytes)
    BY <1>4, <2>1, Zenon DEF KeyReads
  <2> QED BY <1>2, <1>6, <2>2, Zenon
<1>7. CASE escaped # {}
  <2>1. DOMAIN terms = {1}
    BY <1>5, <1>7, Zenon DEF PlainTerms
  <2>2. escaped = {1}
    BY <1>5, <1>7, <2>1
  <2>3. Min(escaped) = 1
    BY <2>2 DEF Min
  <2>4. feed(1) = m.term[1]
    <3>1. 1 <= 1
      OBVIOUS
    <3>2. \E e \in escaped : e <= 1
      <4> HIDE DEF escaped
      <4> QED BY <2>2, <3>1
    <3> QED BY <3>2, Zenon DEF feed
  <2>5. KeyReads(terms, fed, text)
    BY <1>4, <2>1, <2>4, Zenon DEF KeyReads
  <2>6. KeyReads(terms, ByteLoop(terms, fed, TRUE, 1, bytes), text \o bytes)
    BY <2>1, <2>5, KeyLoopKeeps, Zenon
  <2> QED BY <1>2, <1>7, <2>3, <2>6, Zenon
<1> QED BY <1>6, <1>7

-----------------------------------------------------------------------------
(* Captures *)

(* a capture has failed, or stands where the text that has come ends *)
CaptureState(segment, s, text) ==
    /\ s \in [pos : Nat, failed : BOOLEAN]
    /\ ~s.failed <=> Agrees(segment, FALSE, text)
    /\ ~s.failed => s.pos = Len(text)

(* A byte for a capture. *)
LEMMA CaptureByteKeeps ==
    ASSUME NEW segment \in Seq(Int), NEW text \in Seq(Int), NEW b \in Int,
           NEW s, CaptureState(segment, s, text)
    PROVE  CaptureState(segment, CaptureByte(segment, s, b), Append(text, b))
<1>1. PICK t : t = CaptureByte(segment, s, b)
  OBVIOUS
<1>2. s \in [pos : Nat, failed : BOOLEAN]
  BY DEF CaptureState
<1>3. /\ Len(segment) \in Nat /\ Len(text) \in Nat /\ Len(Append(text, b)) = Len(text) + 1
  BY AppendProperties
<1>4. Agrees(segment, FALSE, Append(text, b)) <=>
        /\ Agrees(segment, FALSE, text)
        /\ Len(text) < Len(segment) /\ segment[Len(text) + 1] = b
  <2>1. PICK open \in BOOLEAN : open = FALSE
    OBVIOUS
  <2>2. Agrees(segment, open, Append(text, b)) <=>
             /\ Agrees(segment, open, text)
             /\ Len(text) < Len(segment) => segment[Len(text) + 1] = b
             /\ Len(text) >= Len(segment) => open
    BY AgreesAppend
  <2>3. Agrees(segment, FALSE, Append(text, b)) <=>
             /\ Agrees(segment, FALSE, text)
             /\ Len(text) < Len(segment) => segment[Len(text) + 1] = b
             /\ ~(Len(text) >= Len(segment))
    BY <2>1, <2>2, Zenon
  <2>4. Len(text) >= Len(segment) <=> ~(Len(text) < Len(segment))
    BY <1>3
  <2> QED BY <2>3, <2>4, Zenon
<1>5. CASE s.failed
  <2>1. t = s
    BY <1>1, <1>5, Zenon DEF CaptureByte
  <2>2. ~Agrees(segment, FALSE, Append(text, b))
    BY <1>4, <1>5 DEF CaptureState
  <2> QED BY <1>1, <1>2, <1>5, <2>1, <2>2, Zenon DEF CaptureState
<1>6. CASE ~s.failed /\ s.pos < Len(segment) /\ segment[s.pos + 1] = b
  <2>1. t = [s EXCEPT !.pos = @ + 1]
    BY <1>1, <1>6, Zenon DEF CaptureByte
  <2>a. PICK p \in Nat, f \in BOOLEAN : p = s.pos /\ f = s.failed /\ p + 1 \in Nat
    BY <1>2
  <2>b. t = [pos |-> p + 1, failed |-> f]
    BY <1>2, <2>1, <2>a
  <2>2. t \in [pos : Nat, failed : BOOLEAN] /\ ~t.failed /\ t.pos = s.pos + 1
    BY <1>6, <2>a, <2>b
  <2>3. Agrees(segment, FALSE, text) /\ s.pos = Len(text)
    BY <1>6, Zenon DEF CaptureState
  <2>4. Agrees(segment, FALSE, Append(text, b))
    BY <1>4, <1>6, <2>3
  <2>5. t.pos = Len(Append(text, b))
    BY <1>3, <2>2, <2>3
  <2> QED BY <1>1, <2>2, <2>4, <2>5, Zenon DEF CaptureState
<1>7. CASE ~s.failed /\ ~(s.pos < Len(segment) /\ segment[s.pos + 1] = b)
  <2>1. t = [s EXCEPT !.failed = TRUE]
    BY <1>1, <1>7, Zenon DEF CaptureByte
  <2>2. t \in [pos : Nat, failed : BOOLEAN] /\ t.failed
    BY <1>2, <2>1
  <2>3. s.pos = Len(text)
    BY <1>7, Zenon DEF CaptureState
  <2>4. ~Agrees(segment, FALSE, Append(text, b))
    BY <1>4, <1>7, <2>3
  <2> QED BY <1>1, <2>2, <2>4, Zenon DEF CaptureState
<1> QED BY <1>5, <1>6, <1>7

CaptureStep(segment, s, bytes, f, k) ==
    IF k = 0 THEN s ELSE CaptureByte(segment, f[k - 1], bytes[k])

IsCaptureRun(segment, s, bytes, f) ==
    f = [k \in 0 .. Len(bytes) |-> CaptureStep(segment, s, bytes, f, k)]

(* The bytes can be fed to a capture one after the other. *)
LEMMA CaptureRunExists ==
    ASSUME NEW segment, NEW s, NEW bytes \in Seq(Int)
    PROVE  \E f : IsCaptureRun(segment, s, bytes, f)
<1> DEFINE n == Len(bytes)
           T == {m \in 0 .. n : \E f : f = [k \in 0 .. m |-> CaptureStep(segment, s, bytes, f, k)]}
<1>0. n \in Nat
  OBVIOUS
<1>1. 0 \in T
  <2>1. PICK f : f = [k \in 0 .. 0 |-> s]
    OBVIOUS
  <2>2. f = [k \in 0 .. 0 |-> CaptureStep(segment, s, bytes, f, k)]
    BY <2>1 DEF CaptureStep
  <2> QED BY <1>0, <2>2
<1>2. ASSUME NEW m \in 1 .. n, m - 1 \in T PROVE m \in T
  <2>1. PICK g : g = [k \in 0 .. (m - 1) |-> CaptureStep(segment, s, bytes, g, k)]
    BY <1>2
  <2>2. PICK f : f = [k \in 0 .. m |-> IF k = m THEN CaptureStep(segment, s, bytes, g, m) ELSE g[k]]
    OBVIOUS
  <2>3. f[m] = CaptureStep(segment, s, bytes, g, m) /\ \A k \in 0 .. (m - 1) : f[k] = g[k]
    BY <2>2
  <2>4. ASSUME NEW k \in 0 .. m PROVE f[k] = CaptureStep(segment, s, bytes, f, k)
    <3>1. k # 0 => k - 1 \in 0 .. (m - 1)
      OBVIOUS
    <3>2. CaptureStep(segment, s, bytes, f, k) = CaptureStep(segment, s, bytes, g, k)
      BY <2>3, <3>1, Zenon DEF CaptureStep
    <3>3. k = m \/ k \in 0 .. (m - 1)
      OBVIOUS
    <3>4. \A j \in 0 .. (m - 1) : g[j] = CaptureStep(segment, s, bytes, g, j)
      BY <2>1
    <3> QED BY <2>3, <3>2, <3>3, <3>4, Zenon
  <2>5. f = [k \in 0 .. m |-> CaptureStep(segment, s, bytes, f, k)]
    <3>1. f = [k \in 0 .. m |-> f[k]]
      BY <2>2, Zenon
    <3> QED BY <2>4, <3>1, Zenon
  <2>6. m \in 0 .. n
    OBVIOUS
  <2> QED BY <2>5, <2>6, Zenon
<1>3. n \in T
  <2>1. n \in 0 .. n
    BY <1>0
  <2> HIDE DEF T, n
  <2>2. 0 .. n \subseteq T
    BY <1>0, <1>1, <1>2, IntervalInduction, Zenon
  <2> QED BY <2>1, <2>2
<1> QED BY <1>3, Zenon DEF IsCaptureRun

(* The bytes of a run or of a character for a capture. *)
LEMMA CaptureBytesKeeps ==
    ASSUME NEW segment \in Seq(Int), NEW text \in Seq(Int), NEW bytes \in Seq(Int),
           NEW s, CaptureState(segment, s, text)
    PROVE  CaptureState(segment, CaptureBytes(segment, s, bytes), text \o bytes)
<1> DEFINE n == Len(bytes)
           so(k) == text \o SubSeq(bytes, 1, k)
<1>0. n \in Nat
  OBVIOUS
<1>1. PICK r : r = CHOOSE f : IsCaptureRun(segment, s, bytes, f)
  OBVIOUS
<1>2. IsCaptureRun(segment, s, bytes, r)
  BY <1>1, CaptureRunExists, Zenon
<1>3. CaptureBytes(segment, s, bytes) = r[n]
  BY <1>1 DEF CaptureBytes, IsCaptureRun, CaptureStep
<1>4. \A k \in 0 .. n : r[k] = CaptureStep(segment, s, bytes, r, k)
  BY <1>2 DEF IsCaptureRun
<1>5. /\ so(0) = text /\ so(n) = text \o bytes
      /\ \A k \in 0 .. n : so(k) \in Seq(Int)
      /\ \A k \in 1 .. n : so(k) = Append(so(k - 1), bytes[k])
  BY TakeFacts
<1> DEFINE T == {k \in 0 .. n : CaptureState(segment, r[k], so(k))}
<1> HIDE DEF so
<1>6. 0 \in T
  <2>1. 0 \in 0 .. n
    BY <1>0
  <2>2. r[0] = s
    BY <1>4, <2>1 DEF CaptureStep
  <2> QED BY <1>5, <2>1, <2>2
<1>7. ASSUME NEW k \in 1 .. n, k - 1 \in T PROVE k \in T
  <2>1. k \in 0 .. n /\ k # 0 /\ k - 1 \in 0 .. n /\ bytes[k] \in Int
    BY <1>0
  <2>2. r[k] = CaptureByte(segment, r[k - 1], bytes[k])
    BY <1>4, <2>1, Zenon DEF CaptureStep
  <2>3. CaptureState(segment, r[k - 1], so(k - 1)) /\ so(k - 1) \in Seq(Int)
    BY <1>5, <1>7, <2>1
  <2>4. CaptureState(segment, r[k], Append(so(k - 1), bytes[k]))
    BY <2>1, <2>2, <2>3, CaptureByteKeeps
  <2> QED BY <1>5, <2>1, <2>4
<1>8. n \in T
  <2>1. n \in 0 .. n
    BY <1>0
  <2> HIDE DEF T, n
  <2>2. 0 .. n \subseteq T
    BY <1>0, <1>6, <1>7, IntervalInduction, Zenon
  <2> QED BY <2>1, <2>2
<1> QED BY <1>3, <1>5, <1>8

(* what the captures that watch a key have read of it *)
CaptureReads(segments, captures, text) ==
    /\ DOMAIN captures = DOMAIN segments
    /\ \A p \in DOMAIN segments : CaptureState(segments[p], captures[p], text)

Texts(segments) == \A p \in DOMAIN segments : segments[p] \in Seq(Int)

LEMMA CapturesTakeBytes ==
    ASSUME NEW segments, Texts(segments), NEW text \in Seq(Int), NEW bytes \in Seq(Int),
           NEW captures, CaptureReads(segments, captures, text)
    PROVE  CaptureReads(segments, CaptureChar(segments, captures, bytes), text \o bytes)
<1>1. PICK t : t = CaptureChar(segments, captures, bytes)
  OBVIOUS
<1>2. t = [p \in DOMAIN segments |-> CaptureBytes(segments[p], captures[p], bytes)]
  BY <1>1, Zenon DEF CaptureChar, CaptureReads
<1>3. ASSUME NEW p \in DOMAIN segments PROVE CaptureState(segments[p], t[p], text \o bytes)
  <2>1. t[p] = CaptureBytes(segments[p], captures[p], bytes)
    BY <1>2, Zenon
  <2>2. segments[p] \in Seq(Int) /\ CaptureState(segments[p], captures[p], text)
    BY Zenon DEF Texts, CaptureReads
  <2>3. CaptureState(segments[p], CaptureBytes(segments[p], captures[p], bytes), text \o bytes)
    BY <2>2, CaptureBytesKeeps, Zenon
  <2> QED BY <2>1, <2>3, Zenon
<1>4. DOMAIN t = DOMAIN segments
  BY <1>2, Zenon
<1> QED BY <1>1, <1>3, <1>4, Zenon DEF CaptureReads

(* All of a run reaches the captures where the terms are plain. *)
LEMMA CapturesTakeRun ==
    ASSUME NEW segments, Texts(segments), NEW text \in Seq(Int), NEW bytes \in Seq(Int),
           NEW captures, CaptureReads(segments, captures, text),
           NEW terms, NEW m, DOMAIN m.term = DOMAIN terms,
           PlainTerms(terms) \/ segments = << >>
    PROVE  CaptureReads(segments, CaptureSpan(segments, captures, terms, m, bytes), text \o bytes)
<1>1. CASE segments = << >>
  <2>1. DOMAIN segments = {} /\ DOMAIN captures = {}
    <3>1. DOMAIN segments = {}
      BY <1>1
    <3> QED BY <3>1, Zenon DEF CaptureReads
  <2>2. PICK t : t = CaptureSpan(segments, captures, terms, m, bytes)
    OBVIOUS
  <2>3. DOMAIN t = DOMAIN captures
    BY <2>2, Zenon DEF CaptureSpan, CaptureChar
  <2> QED BY <2>1, <2>2, <2>3, Zenon DEF CaptureReads
<1>2. CASE PlainTerms(terms)
  <2>1. EscapedTerms(terms, m, TRUE) = {}
    BY <1>2, Zenon DEF EscapedTerms, PlainTerms
  <2>2. RunFed(terms, m, bytes) = bytes
    BY <2>1, Zenon DEF RunFed
  <2>3. CaptureSpan(segments, captures, terms, m, bytes) = CaptureChar(segments, captures, bytes)
    BY <2>2, Zenon DEF CaptureSpan
  <2>4. CaptureReads(segments, CaptureChar(segments, captures, bytes), text \o bytes)
    BY CapturesTakeBytes, Zenon
  <2> QED BY <2>3, <2>4, Zenon
<1> QED BY <1>1, <1>2

(* A capture that has read a key is complete when it is the key. *)
LEMMA CaptureEnds ==
    ASSUME NEW segment \in Seq(Int), NEW text \in Seq(Int), NEW s,
           CaptureState(segment, s, text)
    PROVE  (~s.failed /\ s.pos = Len(segment)) <=> segment = text
<1>1. Len(segment) \in Nat /\ Len(text) \in Nat
  OBVIOUS
<1>2. ASSUME ~s.failed, s.pos = Len(segment) PROVE segment = text
  <2>1. Agrees(segment, FALSE, text) /\ Len(text) = Len(segment)
    BY <1>2, Zenon DEF CaptureState
  <2>2. \A j \in 1 .. Len(segment) : segment[j] = text[j]
    BY <1>1, <2>1 DEF Agrees
  <2> QED BY <2>1, <2>2, SeqEqual
<1>3. ASSUME segment = text PROVE ~s.failed /\ s.pos = Len(segment)
  <2>1. Agrees(segment, FALSE, text)
    BY <1>1, <1>3 DEF Agrees
  <2> QED BY <1>3, <2>1 DEF CaptureState
<1> QED BY <1>2, <1>3

(* what the terms and the captures have read of a key that is being scanned *)
KeyInv ==
    /\ job \in Jobs
    /\ at \in 0 .. Len(job.items)
    /\ job.kind = "key" => KeyReads(job.terms, match, Decoded(job.items)[at])
    /\ job.kind = "key" => CaptureReads(job.captures, capture, Decoded(job.items)[at])
    /\ KeysMatchPointerText

(* what may watch a key together *)
Watchable(terms, captures) ==
    /\ Segments(terms)
    /\ PlainTerms(terms) \/ DOMAIN terms = {1}
    /\ Texts(captures)
    /\ PlainTerms(terms) \/ captures = << >>

LEMMA KeysWatchable ==
    ASSUME Unmixed, NEW j \in Jobs, j.kind = "key"
    PROVE  Watchable(j.terms, j.captures)
<1>1. Segments(j.terms)
  BY Zenon DEF Unmixed, Segments
<1>2. PlainTerms(j.terms) \/ (DOMAIN j.terms = {1} /\ j.captures = << >>)
  BY Zenon DEF Unmixed, PlainTerms
<1>3. Texts(j.captures)
  <2>1. j.captures \in Seq(Seq(Int))
    BY CapturesAssumption
  <2> QED BY <2>1 DEF Texts
<1> QED BY <1>1, <1>2, <1>3, Zenon DEF Watchable

LEMMA KeyInit == ASSUME Unmixed, Init PROVE KeyInv
<1>1. job \in Jobs /\ at = 0 /\ status = "scan" /\ match = MatchStart(MatchedTerms(job))
  BY DEF Init
<1>a. capture = CaptureStart(CapturedKeys(job))
  BY DEF Init
<1>2. HasBytes(job.items) /\ Len(job.items) \in Nat
  BY <1>1, JobFacts DEF HasBytes
<1>3. at \in 0 .. Len(job.items)
  BY <1>1, <1>2
<1>4. Decoded(job.items)[at] = << >>
  BY <1>1, <1>2, DecodedFacts, Zenon
<1>b. ASSUME job.kind = "key" PROVE CaptureReads(job.captures, capture, << >>)
  <2> DEFINE start == [pos |-> 0, failed |-> FALSE]
  <2>1. CapturedKeys(job) = DOMAIN job.captures
    BY <1>b DEF CapturedKeys
  <2>2. capture = [p \in DOMAIN job.captures |-> start]
    BY <1>a, <2>1 DEF CaptureStart
  <2>3. ASSUME NEW p \in DOMAIN job.captures
        PROVE  CaptureState(job.captures[p], capture[p], << >>)
    <3>1. PICK segment \in Seq(Int) : segment = job.captures[p]
      BY <1>1, <1>b, KeysWatchable, Zenon DEF Watchable, Texts
    <3>2. Agrees(segment, FALSE, << >>)
      BY DEF Agrees
    <3>3. capture[p] = start
      BY <2>2
    <3>4. CaptureState(segment, start, << >>)
      BY <3>2 DEF CaptureState
    <3> QED BY <3>1, <3>3, <3>4, Zenon
  <2> QED BY <2>2, <2>3 DEF CaptureReads
<1>5. ASSUME job.kind = "key" PROVE KeyReads(job.terms, match, << >>)
  <2> DEFINE start == [pos |-> 0, failed |-> FALSE, found |-> FALSE]
  <2>1. MatchedTerms(job) = DOMAIN job.terms
    BY <1>5 DEF MatchedTerms
  <2>2. match.term = [i \in DOMAIN job.terms |-> start]
    BY <1>1, <2>1 DEF MatchStart
  <2>3. ASSUME NEW i \in DOMAIN job.terms
        PROVE  KeyState(job.terms[i].segment, match.term[i], << >>)
    <3>1. match.term[i] = start
      BY <2>2
    <3>2. PointerSegment(job.terms[i].segment)
      BY <1>1, <1>5, KeysWatchable, Zenon DEF Watchable, Segments
    <3>3. PICK segment \in Seq(Int) : segment = job.terms[i].segment
      BY <3>2, SegmentIsSeq, Zenon
    <3>4. FALSE \in BOOLEAN
      OBVIOUS
    <3>5. \A open \in BOOLEAN : Comparing(segment, match.term[i], open, << >>)
      BY <3>1, StartState, Zenon
    <3> QED BY <3>3, <3>4, <3>5, PointerOfNothing, Zenon DEF KeyState
  <2> QED BY <2>2, <2>3 DEF KeyReads
<1>6. KeysMatchPointerText
  BY <1>1 DEF KeysMatchPointerText
<1> QED BY <1>1, <1>3, <1>4, <1>5, <1>6, <1>b, Zenon DEF KeyInv

(* A run of plain bytes of a key. *)
LEMMA KeySpanStep ==
    ASSUME Unmixed, KeyInv, Span
    PROVE  KeyInv'
<1>1. PICK n \in 1 .. (Len(job.items) - at) :
        /\ \A k \in 1 .. n : job.items[at + k].plain
        /\ at' = at + n
        /\ match' = MatchSpan(job.terms, match, job.kind = "key",
                              [k \in 1 .. n |-> job.items[at + k].bytes[1]])
        /\ capture' = CaptureSpan(job.captures, capture, job.terms, match,
                                  [k \in 1 .. n |-> job.items[at + k].bytes[1]])
  BY Zenon DEF Span
<1>2. status = "scan" /\ UNCHANGED <<job, hits, status>>
  BY DEF Span, Streaming
<1>3. job \in Jobs /\ at \in 0 .. Len(job.items)
  BY DEF KeyInv
<1>4. PICK items : items = job.items
  OBVIOUS
<1>5. /\ HasBytes(items) /\ Len(items) \in Nat
      /\ \A k \in 1 .. Len(items) :
           /\ items[k].bytes # << >> => Whole(items[k].bytes)
           /\ items[k].plain => Len(items[k].bytes) = 1 /\ items[k].bytes[1] \in 0 .. 127
  <2>1. /\ HasBytes(job.items)
        /\ \A k \in 1 .. Len(job.items) :
             /\ job.items[k].bytes # << >> => Whole(job.items[k].bytes)
             /\ job.items[k].plain => /\ Len(job.items[k].bytes) = 1
                                      /\ job.items[k].bytes[1] \in 0 .. 127
    BY <1>3, JobFacts, Zenon
  <2> QED BY <1>4, <2>1, Zenon DEF HasBytes
<1>6. /\ at \in Nat /\ n \in Nat /\ at + n \in 0 .. Len(items) /\ at + n <= Len(items)
      /\ \A k \in 1 .. n : at + k \in 1 .. Len(items)
  <2>1. at \in 0 .. Len(items) /\ n \in 1 .. (Len(items) - at)
    BY <1>3, <1>4
  <2> QED BY <1>5, <2>1
<1>7. PICK bytes : bytes = [k \in 1 .. n |-> items[at + k].bytes[1]]
  OBVIOUS
<1>8. PICK lowered : lowered = [k \in DOMAIN bytes |-> AsciiLower(bytes[k])]
  OBVIOUS
<1>9. /\ bytes \in Seq(Int) /\ Decoded(items)[at] \in Seq(Int)
      /\ Decoded(items)[at + n] = Decoded(items)[at] \o bytes
  <2>1. PlainRun(items, at, n)
    BY <1>1, <1>4, <1>5, <1>6, Zenon DEF PlainRun
  <2>2. WholeOrMalformed(items)
    BY <1>5, Zenon DEF WholeOrMalformed
  <2>3. RunAdds(items, at, n, bytes, lowered)
    BY <1>5, <1>6, <1>7, <1>8, <2>1, <2>2, ReadsRun, Zenon
  <2> QED BY <2>3, Zenon DEF RunAdds
<1>10. ASSUME job.kind = "key" PROVE KeyReads(job.terms, match', Decoded(items)[at + n])
  <2>1. match' = MatchSpan(job.terms, match, TRUE, bytes)
    BY <1>1, <1>4, <1>7, <1>10
  <2>2. KeyReads(job.terms, match, Decoded(items)[at])
    BY <1>4, <1>10, Zenon DEF KeyInv
  <2>3. Segments(job.terms) /\ (PlainTerms(job.terms) \/ DOMAIN job.terms = {1})
    BY <1>3, <1>10, KeysWatchable, Zenon DEF Watchable
  <2>4. KeyReads(job.terms, MatchSpan(job.terms, match, TRUE, bytes), Decoded(items)[at] \o bytes)
    BY <1>9, <2>2, <2>3, KeysTakeRun, Zenon
  <2> QED BY <1>9, <2>1, <2>4, Zenon
<1>11. ASSUME job.kind = "key" PROVE CaptureReads(job.captures, capture', Decoded(items)[at + n])
  <2>1. capture' = CaptureSpan(job.captures, capture, job.terms, match, bytes)
    BY <1>1, <1>4, <1>7
  <2>2. CaptureReads(job.captures, capture, Decoded(items)[at]) /\ DOMAIN match.term = DOMAIN job.terms
    BY <1>4, <1>11, Zenon DEF KeyInv, KeyReads
  <2>3. Texts(job.captures) /\ (PlainTerms(job.terms) \/ job.captures = << >>)
    BY <1>3, <1>11, KeysWatchable, Zenon DEF Watchable
  <2>4. CaptureReads(job.captures, CaptureSpan(job.captures, capture, job.terms, match, bytes),
                     Decoded(items)[at] \o bytes)
    BY <1>9, <2>2, <2>3, CapturesTakeRun, Zenon
  <2> QED BY <1>9, <2>1, <2>4, Zenon
<1>12. KeysMatchPointerText'
  BY <1>2 DEF KeysMatchPointerText
<1> QED BY <1>1, <1>2, <1>3, <1>4, <1>6, <1>10, <1>11, <1>12 DEF KeyInv

(* An escaped character of a key. *)
LEMMA KeyEscapedStep ==
    ASSUME Unmixed, KeyInv, Escaped
    PROVE  KeyInv'
<1>1. /\ at' = at + 1 /\ status = "scan" /\ UNCHANGED <<job, hits, status>>
      /\ at < Len(job.items)
      /\ match' = MatchChar(job.terms, match, job.kind = "key", job.items[at + 1].bytes)
      /\ capture' = CaptureChar(job.captures, capture, job.items[at + 1].bytes)
  BY DEF Escaped, Streaming
<1>2. job \in Jobs /\ at \in 0 .. Len(job.items)
  BY DEF KeyInv
<1>3. PICK items, k : items = job.items /\ k = at + 1
  OBVIOUS
<1>4. HasBytes(items) /\ Len(items) \in Nat
  BY <1>2, <1>3, JobFacts DEF HasBytes
<1>5. k \in 1 .. Len(items) /\ k - 1 = at /\ k \in 0 .. Len(items)
  BY <1>1, <1>2, <1>3, <1>4
<1>6. PICK bytes \in Seq(Int) : bytes = items[k].bytes
  BY <1>4, <1>5 DEF HasBytes
<1>7. Decoded(items)[k] = Decoded(items)[at] \o bytes /\ Decoded(items)[at] \in Seq(Int)
  <2>1. at \in 0 .. Len(items)
    BY <1>2, <1>3
  <2>2. Decoded(items)[k] = Decoded(items)[k - 1] \o items[k].bytes
    BY <1>4, <1>5, DecodedFacts, Zenon
  <2>3. Decoded(items)[at] \in Seq(Int)
    BY <1>4, <2>1, DecodedFacts, Zenon
  <2> QED BY <1>5, <1>6, <2>2, <2>3, Zenon
<1>8. ASSUME job.kind = "key" PROVE KeyReads(job.terms, match', Decoded(items)[k])
  <2>1. match' = MatchChar(job.terms, match, TRUE, bytes)
    BY <1>1, <1>3, <1>6, <1>8
  <2>2. KeyReads(job.terms, match, Decoded(items)[at]) /\ Segments(job.terms)
    BY <1>2, <1>3, <1>8, KeysWatchable, Zenon DEF KeyInv, Watchable
  <2>3. KeyReads(job.terms, MatchChar(job.terms, match, TRUE, bytes), Decoded(items)[at] \o bytes)
    BY <1>7, <2>2, KeysTakeChar, Zenon
  <2> QED BY <1>7, <2>1, <2>3, Zenon
<1>9. ASSUME job.kind = "key" PROVE CaptureReads(job.captures, capture', Decoded(items)[k])
  <2>1. capture' = CaptureChar(job.captures, capture, bytes)
    BY <1>1, <1>3, <1>6
  <2>2. CaptureReads(job.captures, capture, Decoded(items)[at]) /\ Texts(job.captures)
    BY <1>2, <1>3, <1>9, KeysWatchable, Zenon DEF KeyInv, Watchable
  <2>3. CaptureReads(job.captures, CaptureChar(job.captures, capture, bytes),
                     Decoded(items)[at] \o bytes)
    BY <1>7, <2>2, CapturesTakeBytes, Zenon
  <2> QED BY <1>7, <2>1, <2>3, Zenon
<1>10. KeysMatchPointerText'
  BY <1>1 DEF KeysMatchPointerText
<1> QED BY <1>1, <1>2, <1>3, <1>5, <1>8, <1>9, <1>10 DEF KeyInv

(* The end of a key. *)
LEMMA KeyCompleteStep ==
    ASSUME Unmixed, KeyInv, Complete
    PROVE  KeyInv'
<1>1. /\ at = Len(job.items) /\ status' = "done" /\ UNCHANGED <<job, at, match, capture>>
      /\ hits' = MatchComplete(job.terms, match, job.kind = "key") \cup LiteralHits(job)
                 \cup NumberHits(job, number)
                 \cup TemporalHits(job, stamp, ParseTemporalLiteral(stamp.text))
  BY DEF Complete
<1>2. job \in Jobs /\ at \in 0 .. Len(job.items)
  BY DEF KeyInv
<1>a. ASSUME job.kind = "key", NEW p \in DOMAIN job.captures
      PROVE  p \in CaptureComplete(job.captures, capture) <=> job.captures[p] = JobText
  <2>1. PICK items, text : items = job.items /\ text = Decoded(items)[Len(items)]
    OBVIOUS
  <2>2. text \in Seq(Int)
    <3>1. HasBytes(items) /\ Len(items) \in Nat
      BY <1>2, <2>1, JobFacts DEF HasBytes
    <3>2. Len(items) \in 0 .. Len(items)
      BY <3>1
    <3> QED BY <2>1, <3>1, <3>2, DecodedFacts, Zenon
  <2>3. PICK segment \in Seq(Int) : segment = job.captures[p]
    BY <1>2, <1>a, KeysWatchable, Zenon DEF Watchable, Texts
  <2>4. PICK s : s = capture[p]
    OBVIOUS
  <2>5. DOMAIN capture = DOMAIN job.captures /\ CaptureState(segment, s, text)
    BY <1>1, <1>a, <2>1, <2>3, <2>4, Zenon DEF KeyInv, CaptureReads
  <2>6. (~s.failed /\ s.pos = Len(segment)) <=> segment = text
    BY <2>2, <2>5, CaptureEnds, Zenon
  <2>7. p \in CaptureComplete(job.captures, capture) <=> ~s.failed /\ s.pos = Len(segment)
    BY <1>a, <2>3, <2>4, <2>5, Zenon DEF CaptureComplete
  <2>8. JobText = text
    BY <2>1, Zenon DEF JobText, WholeText
  <2> QED BY <2>3, <2>6, <2>7, <2>8, Zenon
<1>3. ASSUME job.kind = "key", NEW i \in DOMAIN job.terms
      PROVE  i \in hits' <=> job.terms[i].segment = PointerText(JobText)
  <2>1. PICK items, text : items = job.items /\ text = Decoded(items)[Len(items)]
    OBVIOUS
  <2>2. text \in Seq(Int)
    <3>1. HasBytes(items) /\ Len(items) \in Nat
      BY <1>2, <2>1, JobFacts DEF HasBytes
    <3>2. Len(items) \in 0 .. Len(items)
      BY <3>1
    <3> QED BY <2>1, <3>1, <3>2, DecodedFacts, Zenon
  <2>3. PICK segment \in Seq(Int) : segment = job.terms[i].segment
    <3>1. PointerSegment(job.terms[i].segment)
      BY <1>2, <1>3, KeysWatchable, Zenon DEF Watchable, Segments
    <3> QED BY <3>1, SegmentIsSeq, Zenon
  <2>4. PICK read \in Seq(Int) : read = PointerText(text)
    BY <2>2, PointerIsSeq, Zenon
  <2>5. PICK s : s = match.term[i]
    OBVIOUS
  <2>6. DOMAIN match.term = DOMAIN job.terms /\ Comparing(segment, s, FALSE, read)
    BY <1>1, <1>3, <2>1, <2>3, <2>4, <2>5, Zenon DEF KeyInv, KeyReads, KeyState
  <2>7. (~s.failed /\ (s.found \/ s.pos = Len(segment))) <=> read = segment
    <3>1. FALSE \in BOOLEAN
      OBVIOUS
    <3>2. (~s.failed /\ (s.found \/ s.pos = Len(segment))) <=>
            IF FALSE THEN IsPrefix(segment, read) ELSE read = segment
      BY <2>6, <3>1, CompareEnds, Zenon
    <3> QED BY <3>2, Zenon
  <2>8. i \in MatchComplete(job.terms, match, TRUE) <=> ~s.failed /\ s.pos = Len(segment)
    BY <1>3, <2>3, <2>6, <2>5, Zenon DEF MatchComplete
  <2>9. ~s.found
    BY <2>6, Zenon DEF Comparing
  <2>10. i \in hits' <=> i \in MatchComplete(job.terms, match, TRUE)
    <3>1. (job.kind = "key") = TRUE
      BY <1>3
    <3>2. NumberTerms(job) = {} /\ TemporalTerms(job) = {}
      BY <1>3 DEF NumberTerms, TemporalTerms
    <3>3. /\ i \notin NumberHits(job, number)
          /\ i \notin TemporalHits(job, stamp, ParseTemporalLiteral(stamp.text))
      BY <3>2, Zenon DEF NumberHits, TemporalHits
    <3>4. job.kind \notin {"true", "false"} /\ job.kind # "null"
      BY <1>3
    <3>5. i \notin LiteralHits(job)
      BY <1>3, <3>4, Zenon DEF LiteralHits
    <3> QED BY <1>1, <3>1, <3>3, <3>5, Zenon
  <2>11. JobText = text
    BY <2>1, Zenon DEF JobText, WholeText
  <2> QED BY <2>3, <2>7, <2>8, <2>9, <2>10, <2>11, <2>4, Zenon
<1>4. KeysMatchPointerText'
  <2>1. JobText' = JobText
    BY <1>1 DEF JobText
  <2>2. ASSUME job.kind = "key", NEW i \in DOMAIN job.terms
        PROVE  (i \in hits') = (job.terms[i].segment = PointerText(JobText))
    <3>1. PICK x, y : x = job.terms[i].segment /\ y = PointerText(JobText)
      OBVIOUS
    <3>2. i \in hits' <=> x = y
      BY <1>3, <2>2, <3>1, Zenon
    <3>3. (i \in hits') = (x = y)
      BY <3>2
    <3> QED BY <3>1, <3>3, Zenon
  <2>3. ASSUME job.kind = "key", NEW p \in DOMAIN job.captures
        PROVE  (p \in CaptureComplete(job.captures, capture)) = (job.captures[p] = JobText)
    <3>1. PICK x, y, c : x = job.captures[p] /\ y = JobText
                         /\ c = CaptureComplete(job.captures, capture)
      OBVIOUS
    <3>2. p \in c <=> x = y
      BY <1>a, <2>3, <3>1, Zenon
    <3>3. (p \in c) = (x = y)
      BY <3>2
    <3> QED BY <3>1, <3>3, Zenon
  <2>4. PICK c : c = CaptureComplete(job.captures, capture)
    OBVIOUS
  <2>5. CaptureComplete(job.captures, capture)' = c
    BY <1>1, <2>4
  <2> QED BY <1>1, <2>1, <2>2, <2>3, <2>4, <2>5 DEF KeysMatchPointerText
<1>5. /\ job.kind = "key" => KeyReads(job.terms, match, Decoded(job.items)[at])
      /\ job.kind = "key" => CaptureReads(job.captures, capture, Decoded(job.items)[at])
  BY Zenon DEF KeyInv
<1> QED BY <1>1, <1>2, <1>4, <1>5 DEF KeyInv

(* No other step concerns a key that can still be matched. *)
LEMMA KeyOtherSteps ==
    ASSUME KeyInv, Malformed \/ GrowFails \/ TokenByte
    PROVE  KeyInv'
<1>1. CASE Malformed \/ GrowFails
  <2>1. status' # "done" /\ UNCHANGED <<job, at, match, capture, hits>>
    BY <1>1 DEF Malformed, GrowFails
  <2> QED BY <2>1 DEF KeyInv, KeysMatchPointerText
<1>2. CASE TokenByte
  <2>1. /\ at' = at + 1 /\ at < Len(job.items) /\ job' = job
        /\ job.kind # "key" /\ job \in Jobs /\ at \in 0 .. Len(job.items)
    BY <1>2 DEF TokenByte, Streaming, KeyInv
  <2>2. Len(job.items) \in Nat
    BY <2>1, JobFacts DEF HasBytes
  <2>3. at' \in 0 .. Len(job.items)
    BY <2>1, <2>2
  <2> QED BY <2>1, <2>3 DEF KeyInv, KeysMatchPointerText
<1> QED BY <1>1, <1>2

(* Where plain segments and captures watch the keys, or one escaped segment   *)
(* alone, a key matches exactly the segments that are the key written as JSON *)
(* Pointer text, and the captures that are the key, however it is cut into    *)
(* runs and single bytes and although the loop over an escaped segment ends   *)
(* as soon as that one has failed (lql_json_match_start_key,                  *)
(* lql_json_match_span, lql_json_match_byte, lql_json_capture_complete).      *)
THEOREM KeysMatch ==
    ASSUME Unmixed
    PROVE  Spec => []KeysMatchPointerText
<1>1. Init => KeyInv
  BY KeyInit
<1>2. KeyInv /\ [Next]_vars => KeyInv'
  <2> SUFFICES ASSUME KeyInv, [Next]_vars PROVE KeyInv'
    OBVIOUS
  <2>1. CASE Next
    BY <2>1, KeySpanStep, KeyEscapedStep, KeyCompleteStep, KeyOtherSteps, Zenon DEF Next
  <2>2. CASE UNCHANGED vars
    BY <2>2 DEF KeyInv, KeysMatchPointerText, vars, JobText
  <2> QED BY <2>1, <2>2
<1>3. KeyInv => KeysMatchPointerText
  BY DEF KeyInv
<1> QED BY <1>1, <1>2, <1>3, PTL DEF Spec

=============================================================================
