-------------------------- MODULE UrlPatternProofs --------------------------
(***************************************************************************)
(* Proofs about UrlPattern and PatternText: the walk decides what the      *)
(* pattern means, and the parse keeps what its text means.                 *)
(***************************************************************************)
EXTENDS PatternText, FiniteSetTheorems, SequenceTheorems, WellFoundedInduction, TLAPS

\* The parts from i on lie behind one another, from p or later to the end.
RestDenotes(parts, s, i, p) ==
  \E f \in Places(Len(parts), s) :
    /\ p <= f[i] /\ f[Len(parts)] + Len(parts[Len(parts)]) = Len(s)
    /\ \A n \in i..Len(parts) : OccursAt(parts[n], s, f[n])
    /\ \A n \in i..(Len(parts) - 1) : f[n] + Len(parts[n]) <= f[n + 1]

-----------------------------------------------------------------------------
(* One lemma per step of the walk. *)

\* A path pattern without a star is the path itself.
LEMMA ExactPath ==
  ASSUME NEW parts \in Seq(Seq(Chars)), NEW s \in Seq(Chars), Len(parts) = 1
  PROVE  PathDenotes(parts, s) <=> parts[1] = s
<1>1. parts[1] \in Seq(Chars) /\ 1 \in DOMAIN parts /\ DOMAIN parts = 1..1
  OBVIOUS
<1>2. ASSUME PathDenotes(parts, s) PROVE parts[1] = s
  <2>1. Len(parts[1]) = Len(s) /\ OccursAt(parts[1], s, 0)
    BY <1>1, <1>2 DEF PathDenotes, Places
  <2>2. \A j \in 1..Len(s) : parts[1][j] = s[j]
    BY <2>1, <1>1 DEF OccursAt
  <2> QED
    BY <2>1, <2>2, <1>1, SeqEqual
<1>3. ASSUME parts[1] = s PROVE PathDenotes(parts, s)
  <2> DEFINE f == [n \in 1..1 |-> 0]
  <2>1. f \in Places(Len(parts), s)
    BY DEF Places
  <2>2. OccursAt(parts[1], s, 0)
    BY <1>3 DEF OccursAt
  <2>3. f[1] = 0 /\ \A n \in DOMAIN parts : OccursAt(parts[n], s, f[n])
    BY <2>2, <1>1
  <2>4. f[Len(parts)] + Len(parts[Len(parts)]) = Len(s)
    BY <1>3
  <2> QED
    BY <2>1, <2>3, <2>4 DEF PathDenotes
<1> QED
  BY <1>2, <1>3

\* The first part can only be found at the start.
LEMMA FirstPart ==
  ASSUME NEW parts \in Seq(Seq(Chars)), NEW s \in Seq(Chars), Len(parts) > 1
  PROVE  PathDenotes(parts, s)
           <=> StartsWith(s, parts[1]) /\ RestDenotes(parts, s, 2, Len(parts[1]))
<1> DEFINE n == Len(parts)
<1>1. n \in Nat /\ n > 1 /\ DOMAIN parts = 1..n /\ parts[1] \in Seq(Chars)
  OBVIOUS
<1>2. ASSUME PathDenotes(parts, s)
      PROVE  StartsWith(s, parts[1]) /\ RestDenotes(parts, s, 2, Len(parts[1]))
  <2>1. PICK f \in Places(n, s) :
          /\ f[1] = 0 /\ f[n] + Len(parts[n]) = Len(s)
          /\ \A m \in DOMAIN parts : OccursAt(parts[m], s, f[m])
          /\ \A m \in 1..(n - 1) : f[m] + Len(parts[m]) <= f[m + 1]
    BY <1>2 DEF PathDenotes
  <2>2. Len(parts[1]) <= f[2]
    BY <2>1, <1>1
  <2>3. \A m \in 2..n : OccursAt(parts[m], s, f[m])
    <3> TAKE m \in 2..n
    <3>1. m \in DOMAIN parts
      BY <1>1
    <3> QED
      BY <2>1, <3>1
  <2>4. \A m \in 2..(n - 1) : f[m] + Len(parts[m]) <= f[m + 1]
    BY <2>1, <1>1
  <2>5. RestDenotes(parts, s, 2, Len(parts[1]))
    BY <2>1, <2>2, <2>3, <2>4 DEF RestDenotes
  <2> QED
    BY <2>1, <2>5, <1>1 DEF StartsWith
<1>3. ASSUME StartsWith(s, parts[1]), RestDenotes(parts, s, 2, Len(parts[1]))
      PROVE  PathDenotes(parts, s)
  <2>1. PICK f \in Places(n, s) :
          /\ Len(parts[1]) <= f[2] /\ f[n] + Len(parts[n]) = Len(s)
          /\ \A m \in 2..n : OccursAt(parts[m], s, f[m])
          /\ \A m \in 2..(n - 1) : f[m] + Len(parts[m]) <= f[m + 1]
    BY <1>3 DEF RestDenotes
  <2> DEFINE g == [f EXCEPT ![1] = 0]
  <2>2. g \in Places(n, s) /\ g[1] = 0 /\ \A m \in 2..n : g[m] = f[m]
    BY <1>1, <2>1 DEF Places
  <2> HIDE DEF g, n
  <2>3. \A m \in DOMAIN parts : OccursAt(parts[m], s, g[m])
    <3> TAKE m \in DOMAIN parts
    <3>1. CASE m = 1
      BY <3>1, <2>2, <1>3 DEF StartsWith
    <3>2. CASE m # 1
      <4>1. m \in 2..n
        BY <3>2, <1>1
      <4>2. g[m] = f[m] /\ OccursAt(parts[m], s, f[m])
        BY <4>1, <2>1, <2>2
      <4> QED
        BY <4>2
    <3> QED
      BY <3>1, <3>2
  <2>4. \A m \in 1..(n - 1) : g[m] + Len(parts[m]) <= g[m + 1]
    <3> TAKE m \in 1..(n - 1)
    <3>1. CASE m = 1
      <4>1. g[1] = 0 /\ g[2] = f[2] /\ Len(parts[1]) \in Nat
        BY <2>2, <1>1
      <4> QED
        BY <3>1, <4>1, <2>1
    <3>2. CASE m # 1
      <4>1. m \in 2..(n - 1) /\ m + 1 \in 2..n /\ m \in 2..n
        BY <3>2, <1>1
      <4> QED
        BY <4>1, <2>1, <2>2
    <3> QED
      BY <3>1, <3>2
  <2>5. g[n] = f[n]
    BY <2>2, <1>1
  <2> QED
    BY <2>1, <2>2, <2>3, <2>4, <2>5 DEF PathDenotes, n
<1> QED
  BY <1>2, <1>3

\* No place for a part is worse than its leftmost one.
LEMMA NextPart ==
  ASSUME NEW parts \in Seq(Seq(Chars)), NEW s \in Seq(Chars),
         NEW i \in 1..(Len(parts) - 1), NEW p \in Nat, NEW k \in 0..Len(s),
         p <= k, OccursAt(parts[i], s, k),
         \A j \in 0..(k - 1) : ~(j >= p /\ OccursAt(parts[i], s, j))
  PROVE  RestDenotes(parts, s, i, p) <=> RestDenotes(parts, s, i + 1, k + Len(parts[i]))
<1> DEFINE n == Len(parts)
<1>1. /\ n \in Nat /\ i \in 1..n /\ i + 1 \in 1..n /\ i < n /\ k \in Nat /\ Len(s) \in Nat
      /\ parts[i] \in Seq(Chars) /\ Len(parts[i]) \in Nat
  OBVIOUS
<1>2. ASSUME RestDenotes(parts, s, i, p)
      PROVE  RestDenotes(parts, s, i + 1, k + Len(parts[i]))
  <2>1. PICK f \in Places(n, s) :
          /\ p <= f[i] /\ f[n] + Len(parts[n]) = Len(s)
          /\ \A m \in i..n : OccursAt(parts[m], s, f[m])
          /\ \A m \in i..(n - 1) : f[m] + Len(parts[m]) <= f[m + 1]
    BY <1>2 DEF RestDenotes
  <2>2. f[i] \in Nat /\ f[i + 1] \in Nat
    <3>1. f \in [1..n -> 0..Len(s)]
      BY DEF Places
    <3>2. f[i] \in 0..Len(s) /\ f[i + 1] \in 0..Len(s)
      BY <3>1, <1>1
    <3> QED
      BY <3>2, <1>1
  <2>3. OccursAt(parts[i], s, f[i]) /\ f[i] + Len(parts[i]) <= f[i + 1]
    BY <2>1, <1>1
  <2>4. k <= f[i]
    BY <2>1, <2>2, <2>3, <1>1
  <2>5. k + Len(parts[i]) <= f[i + 1]
    BY <2>2, <2>3, <2>4, <1>1
  <2>6. /\ \A m \in (i + 1)..n : OccursAt(parts[m], s, f[m])
        /\ \A m \in (i + 1)..(n - 1) : f[m] + Len(parts[m]) <= f[m + 1]
    BY <2>1, <1>1
  <2> QED
    BY <2>1, <2>5, <2>6 DEF RestDenotes
<1>3. ASSUME RestDenotes(parts, s, i + 1, k + Len(parts[i]))
      PROVE  RestDenotes(parts, s, i, p)
  <2>1. PICK f \in Places(n, s) :
          /\ k + Len(parts[i]) <= f[i + 1] /\ f[n] + Len(parts[n]) = Len(s)
          /\ \A m \in (i + 1)..n : OccursAt(parts[m], s, f[m])
          /\ \A m \in (i + 1)..(n - 1) : f[m] + Len(parts[m]) <= f[m + 1]
    BY <1>3 DEF RestDenotes
  <2> DEFINE g == [f EXCEPT ![i] = k]
  <2>2. g \in Places(n, s) /\ g[i] = k /\ \A m \in (i + 1)..n : g[m] = f[m]
    BY <1>1, <2>1 DEF Places
  <2>3. \A m \in i..n : OccursAt(parts[m], s, g[m])
    <3> TAKE m \in i..n
    <3>1. CASE m = i
      BY <3>1, <2>2
    <3>2. CASE m # i
      BY <3>2, <2>1, <2>2, <1>1
    <3> QED
      BY <3>1, <3>2
  <2>4. \A m \in i..(n - 1) : g[m] + Len(parts[m]) <= g[m + 1]
    <3> TAKE m \in i..(n - 1)
    <3>1. CASE m = i
      <4>1. g[i] = k /\ g[i + 1] = f[i + 1]
        BY <2>2, <1>1
      <4> QED
        BY <3>1, <4>1, <2>1
    <3>2. CASE m # i
      <4>1. m \in (i + 1)..(n - 1) /\ m + 1 \in (i + 1)..n /\ m \in (i + 1)..n
        BY <3>2, <1>1
      <4> QED
        BY <4>1, <2>1, <2>2
    <3> QED
      BY <3>1, <3>2
  <2>5. g[n] = f[n]
    BY <2>2, <1>1
  <2> QED
    BY <2>1, <2>2, <2>3, <2>4, <2>5 DEF RestDenotes
<1> QED
  BY <1>2, <1>3

\* A part that is nowhere to be found leaves no rest.
LEMMA NoPart ==
  ASSUME NEW parts \in Seq(Seq(Chars)), NEW s \in Seq(Chars),
         NEW i \in 1..Len(parts), NEW p \in Nat,
         \A k \in 0..Len(s) : ~(k >= p /\ OccursAt(parts[i], s, k))
  PROVE  ~RestDenotes(parts, s, i, p)
<1> SUFFICES ASSUME RestDenotes(parts, s, i, p) PROVE FALSE
  OBVIOUS
<1>1. PICK f \in Places(Len(parts), s) : p <= f[i] /\ OccursAt(parts[i], s, f[i])
  BY DEF RestDenotes
<1>2. f[i] \in 0..Len(s)
  BY <1>1 DEF Places
<1> QED
  BY <1>1, <1>2

\* A suffix of what is left is an occurrence at the end that does not look back.
LEMMA SuffixOfRest ==
  ASSUME NEW q \in Seq(Chars), NEW s \in Seq(Chars), NEW p \in 0..Len(s)
  PROVE  EndsWith(SubSeq(s, p + 1, Len(s)), q)
           <=> p <= Len(s) - Len(q) /\ OccursAt(q, s, Len(s) - Len(q))
<1> DEFINE t == SubSeq(s, p + 1, Len(s))
<1>1. Len(s) \in Nat /\ Len(q) \in Nat /\ p \in Nat
  OBVIOUS
<1>2. Len(t) = Len(s) - p /\ \A j \in 1..(Len(s) - p) : t[j] = s[p + j]
  OBVIOUS
<1>3. ASSUME NEW j \in 1..Len(q), Len(t) - Len(q) \in 0..Len(t)
      PROVE  t[Len(t) - Len(q) + j] = s[Len(s) - Len(q) + j]
  <2>1. Len(t) - Len(q) + j \in 1..(Len(s) - p)
    BY <1>1, <1>2, <1>3
  <2>2. p + (Len(t) - Len(q) + j) = Len(s) - Len(q) + j
    BY <1>1, <1>2
  <2> QED
    BY <2>1, <2>2, <1>2
<1>4. /\ Len(t) - Len(q) \in 0..Len(t) <=> p <= Len(s) - Len(q)
      /\ Len(t) - Len(q) \in 0..(Len(t) - Len(q)) <=> p <= Len(s) - Len(q)
      /\ p <= Len(s) - Len(q) => Len(s) - Len(q) \in 0..(Len(s) - Len(q))
  BY <1>1, <1>2
<1> HIDE DEF t
<1>5. CASE p <= Len(s) - Len(q)
  <2>1. \A j \in 1..Len(q) : t[Len(t) - Len(q) + j] = s[Len(s) - Len(q) + j]
    BY <1>3, <1>4, <1>5
  <2>2. OccursAt(q, t, Len(t) - Len(q))
           <=> \A j \in 1..Len(q) : t[Len(t) - Len(q) + j] = q[j]
    BY <1>4, <1>5 DEF OccursAt
  <2>3. OccursAt(q, s, Len(s) - Len(q))
           <=> \A j \in 1..Len(q) : s[Len(s) - Len(q) + j] = q[j]
    BY <1>4, <1>5 DEF OccursAt
  <2>4. EndsWith(t, q) <=> OccursAt(q, t, Len(t) - Len(q))
    BY DEF EndsWith
  <2> QED
    BY <2>1, <2>2, <2>3, <2>4, <1>5 DEF t
<1>6. CASE ~(p <= Len(s) - Len(q))
  BY <1>4, <1>6 DEF EndsWith, OccursAt, t
<1> QED
  BY <1>5, <1>6

\* The last part must end the path, behind what was found before it.
LEMMA LastPart ==
  ASSUME NEW parts \in Seq(Seq(Chars)), NEW s \in Seq(Chars),
         Len(parts) > 0, NEW p \in 0..Len(s)
  PROVE  RestDenotes(parts, s, Len(parts), p)
           <=> EndsWith(SubSeq(s, p + 1, Len(s)), parts[Len(parts)])
<1> DEFINE n == Len(parts)
           q == parts[n]
           k == Len(s) - Len(q)
<1>1. n \in Nat /\ n \in 1..n /\ q \in Seq(Chars) /\ Len(q) \in Nat /\ Len(s) \in Nat
  OBVIOUS
<1>2. EndsWith(SubSeq(s, p + 1, Len(s)), q) <=> p <= k /\ OccursAt(q, s, k)
  BY <1>1, SuffixOfRest
<1>3. ASSUME RestDenotes(parts, s, n, p) PROVE p <= k /\ OccursAt(q, s, k)
  <2>1. PICK f \in Places(n, s) : p <= f[n] /\ f[n] + Len(q) = Len(s) /\ OccursAt(q, s, f[n])
    BY <1>1, <1>3 DEF RestDenotes
  <2>2. f[n] \in Nat
    <3>1. f \in [1..n -> 0..Len(s)]
      BY DEF Places
    <3>2. f[n] \in 0..Len(s)
      BY <3>1, <1>1
    <3> QED
      BY <3>2, <1>1
  <2>3. \A x, l, m \in Nat : x + l = m => x = m - l
    OBVIOUS
  <2> HIDE DEF n, q
  <2>4. f[n] = k
    BY <1>1, <2>1, <2>2, <2>3
  <2> QED
    BY <2>1, <2>4
<1>4. ASSUME p <= k, OccursAt(q, s, k) PROVE RestDenotes(parts, s, n, p)
  <2> DEFINE f == [m \in 1..n |-> k]
  <2>1. k \in 0..Len(s)
    BY <1>1, <1>4 DEF OccursAt
  <2>2. f \in Places(n, s) /\ f[n] = k
    BY <2>1, <1>1 DEF Places
  <2>3. k + Len(q) = Len(s)
    BY <1>1
  <2>4. \A m \in n..n : OccursAt(parts[m], s, f[m])
    BY <1>1, <1>4, <2>2
  <2>5. \A m \in n..(n - 1) : f[m] + Len(parts[m]) <= f[m + 1]
    BY <1>1
  <2>6. p <= f[n] /\ f[n] + Len(parts[n]) = Len(s)
    BY <2>2, <2>3, <1>4
  <2> HIDE DEF f, k, q
  <2> QED
    BY <2>2, <2>4, <2>5, <2>6 DEF RestDenotes
<1> QED
  BY <1>2, <1>3, <1>4

\* What ends in a dot and the domain has the domain behind a dot.
LEMMA DomainMeaning ==
  ASSUME NEW d \in Seq(Chars), NEW h \in Seq(Chars)
  PROVE  h = d \/ EndsWith(h, <<Dot>> \o d) <=> UnderDomain(h, d)
<1> DEFINE q == <<Dot>> \o d
           k == Len(h) - Len(d)
<1>1. Dot \in Chars /\ Len(h) \in Nat /\ Len(d) \in Nat /\ k \in Int
  BY PatternAssumption
<1>2. /\ Len(q) = Len(d) + 1 /\ q[1] = Dot
      /\ \A j \in 1..Len(d) : q[j + 1] = d[j]
  BY <1>1
<1>3. h = d <=> k = 0 /\ OccursAt(d, h, 0)
  <2>1. ASSUME k = 0, OccursAt(d, h, 0) PROVE h = d
    <3>1. Len(h) = Len(d) /\ \A j \in 1..Len(h) : h[j] = d[j]
      BY <1>1, <2>1 DEF OccursAt
    <3> QED
      BY <3>1, <1>1, SeqEqual
  <2>2. ASSUME h = d PROVE k = 0 /\ OccursAt(d, h, 0)
    BY <1>1, <2>2 DEF OccursAt
  <2> QED
    BY <2>1, <2>2
<1>4. EndsWith(h, q) <=> k > 0 /\ OccursAt(d, h, k) /\ h[k] = Dot
  <2>1. ASSUME EndsWith(h, q) PROVE k > 0 /\ OccursAt(d, h, k) /\ h[k] = Dot
    <3>1. k > 0 /\ \A j \in 1..(Len(d) + 1) : h[k - 1 + j] = q[j]
      BY <1>1, <1>2, <2>1 DEF EndsWith, OccursAt
    <3>2. h[k] = Dot
      BY <3>1, <1>1, <1>2
    <3>3. ASSUME NEW j \in 1..Len(d) PROVE h[k + j] = d[j]
      <4>1. j + 1 \in 1..(Len(d) + 1) /\ k - 1 + (j + 1) = k + j
        BY <1>1
      <4> QED
        BY <3>1, <4>1, <1>2
    <3> QED
      BY <3>1, <3>2, <3>3, <1>1 DEF OccursAt
  <2>2. ASSUME k > 0, OccursAt(d, h, k), h[k] = Dot PROVE EndsWith(h, q)
    <3>1. Len(h) - Len(q) = k - 1 /\ k - 1 \in 0..(Len(h) - Len(q))
      BY <1>1, <1>2, <2>2
    <3>2. ASSUME NEW j \in 1..Len(q) PROVE h[k - 1 + j] = q[j]
      <4>1. CASE j = 1
        BY <4>1, <1>1, <1>2, <2>2
      <4>2. CASE j # 1
        <5>1. j - 1 \in 1..Len(d) /\ k + (j - 1) = k - 1 + j /\ (j - 1) + 1 = j
          BY <4>2, <1>1, <1>2
        <5>2. h[k + (j - 1)] = d[j - 1] /\ q[(j - 1) + 1] = d[j - 1]
          BY <5>1, <1>2, <2>2 DEF OccursAt
        <5> QED
          BY <5>1, <5>2
      <4> QED
        BY <4>1, <4>2
    <3> QED
      BY <3>1, <3>2 DEF EndsWith, OccursAt
  <2> QED
    BY <2>1, <2>2
<1>5. UnderDomain(h, d) <=> k \in 0..Len(h) /\ OccursAt(d, h, k) /\ (k = 0 \/ h[k] = Dot)
  <2>1. \A x \in 0..Len(h) : x + Len(d) = Len(h) <=> x = k
    BY <1>1
  <2> HIDE DEF k
  <2> QED
    BY <2>1 DEF UnderDomain
<1>6. OccursAt(d, h, k) => k \in 0..Len(h)
  BY <1>1 DEF OccursAt
<1>7. h = d \/ EndsWith(h, q) <=> UnderDomain(h, d)
  BY <1>1, <1>3, <1>4, <1>5, <1>6
<1> QED
  BY <1>7

\* Lowering keeps a name's length, letter by letter.
LEMMA LoweredName ==
  ASSUME NEW s \in Seq(Chars)
  PROVE  /\ Lowered(s) \in Seq(Chars) /\ Len(Lowered(s)) = Len(s)
         /\ \A k \in 1..Len(s) : Lowered(s)[k] = Lower[s[k]]
<1>1. Len(s) \in Nat /\ DOMAIN s = 1..Len(s) /\ \A k \in 1..Len(s) : s[k] \in Chars
  OBVIOUS
<1>2. Lowered(s) = [k \in 1..Len(s) |-> Lower[s[k]]]
  BY <1>1 DEF Lowered
<1>3. \A k \in 1..Len(s) : Lower[s[k]] \in Chars
  BY <1>1, PatternAssumption
<1>4. Lowered(s) \in Seq(Chars) /\ Len(Lowered(s)) = Len(s)
  BY <1>1, <1>2, <1>3
<1> QED
  BY <1>2, <1>4

\* Names that are lowered to the same letters differ in case at most.
LEMMA SameWhenLowered ==
  ASSUME NEW g \in Seq(Chars), NEW h \in Seq(Chars)
  PROVE  Lowered(g) = Lowered(h) <=> SameName(g, h)
<1> DEFINE x == Lowered(g)
           y == Lowered(h)
<1>1. /\ x \in Seq(Chars) /\ Len(x) = Len(g) /\ \A k \in 1..Len(g) : x[k] = Lower[g[k]]
      /\ y \in Seq(Chars) /\ Len(y) = Len(h) /\ \A k \in 1..Len(h) : y[k] = Lower[h[k]]
  BY LoweredName
<1> HIDE DEF x, y
<1>2. ASSUME x = y PROVE SameName(g, h)
  BY <1>1, <1>2 DEF SameName
<1>3. ASSUME SameName(g, h) PROVE x = y
  <2>1. Len(x) = Len(y) /\ \A k \in 1..Len(x) : x[k] = y[k]
    BY <1>1, <1>3 DEF SameName
  <2> QED
    BY <1>1, <2>1, SeqEqual
<1> QED
  BY <1>2, <1>3 DEF x, y

\* The comparison with a lowered host decides what the pattern's host denotes.
LEMMA HostMeaning ==
  ASSUME NEW m \in [kind : {"none", "any", "subdomains", "literal"}, name : Seq(Chars)],
         NEW h \in Seq(Chars) \cup {NoHost}
  PROVE  HostMatches(m, h) <=> HostDenotes(m, h)
<1>1. CASE h # NoHost
  <2>1. h \in Seq(Chars) /\ Lowered(h) \in Seq(Chars) /\ m.name \in Seq(Chars)
    BY <1>1, LoweredName
  <2>2. Lowered(h) = m.name \/ EndsWith(Lowered(h), <<Dot>> \o m.name)
          <=> UnderDomain(Lowered(h), m.name)
    BY <2>1, DomainMeaning
  <2>3. Lowered(h) = Lowered(m.name) <=> SameName(h, m.name)
    BY <2>1, SameWhenLowered
  <2> QED
    BY <1>1, <2>2, <2>3 DEF HostMatches, HostDenotes
<1>2. CASE h = NoHost
  BY <1>2 DEF HostMatches, HostDenotes
<1> QED
  BY <1>1, <1>2

-----------------------------------------------------------------------------
(* The invariant. *)

SchemeDenotes(p, u) == IF p.scheme = "*" THEN u.scheme \in StarSchemes ELSE u.scheme = p.scheme

\* What earlier steps have found, and what is left to find.
Standard   == pattern.scheme # "<all_urls>" /\ SchemeDenotes(pattern, url)
SoFar      == Standard /\ HostDenotes(pattern.host, url.host)
Progress ==
  /\ at = "host" => Standard
  /\ at = "path" => SoFar
  /\ at = "walk" => SoFar /\ (PathDenotes(Parts, url.path) <=> RestDenotes(Parts, url.path, part, pos))

Inv == TypeOK /\ Progress /\ Verdict

LEMMA Types ==
  ASSUME TypeOK
  PROVE  /\ pattern \in PatternType /\ url \in UrlType
         /\ Parts \in Seq(Seq(Chars)) /\ Len(Parts) \in Nat /\ Len(Parts) > 0
         /\ url.path \in Seq(Chars)
<1>1. pattern \in PatternType /\ url \in UrlType
  BY PatternAssumption DEF TypeOK
<1>2. Parts \in Seq(Seq(Chars)) /\ Parts # <<>> /\ url.path \in Seq(Chars)
  BY <1>1 DEF PatternType, UrlType, Parts
<1> QED
  BY <1>1, <1>2

LEMMA InitInv == Init => Inv
<1> SUFFICES ASSUME Init PROVE Inv
  OBVIOUS
<1>1. pattern \in PatternType /\ url \in UrlType
  BY PatternAssumption DEF Init
<1>2. Parts \in Seq(Seq(Chars)) /\ Parts # <<>> /\ url.path \in Seq(Chars)
  BY <1>1 DEF PatternType, UrlType, Parts
<1>3. 1 \in 1..Len(Parts) /\ 0 \in 0..Len(url.path)
  BY <1>2
<1> QED
  BY <1>3 DEF Init, Inv, TypeOK, Progress, Verdict

\* Each step keeps what is left to find equivalent to the whole.
LEMMA NextInv == Inv /\ [Next]_vars => Inv'
<1> SUFFICES ASSUME Inv, [Next]_vars PROVE Inv'
  OBVIOUS
<1>1. /\ TypeOK /\ Progress /\ Verdict
      /\ pattern \in PatternType /\ url \in UrlType
      /\ Parts \in Seq(Seq(Chars)) /\ Len(Parts) \in Nat /\ Len(Parts) > 0
      /\ url.path \in Seq(Chars) /\ part \in 1..Len(Parts) /\ pos \in 0..Len(url.path)
  BY Types DEF Inv, TypeOK
<1>2. CASE UNCHANGED vars
  BY <1>1, <1>2 DEF Inv, TypeOK, Progress, Verdict, vars, Standard, SoFar, Parts
<1>3. CASE MatchAllUrls
  BY <1>1, <1>3 DEF MatchAllUrls, Decide, Inv, TypeOK, Progress, Verdict, Denotes, Parts
<1>4. CASE MatchScheme
  <2>1. SchemeMatches(pattern.scheme, url.scheme) <=> SchemeDenotes(pattern, url)
    BY DEF SchemeMatches, SchemeDenotes
  <2> QED
    BY <1>1, <1>4, <2>1 DEF MatchScheme, GoOn, Inv, TypeOK, Progress, Verdict, Denotes,
       Standard, SchemeDenotes, Parts
<1>5. CASE MatchHost
  <2>1. HostMatches(pattern.host, url.host) <=> HostDenotes(pattern.host, url.host)
    BY <1>1, HostMeaning DEF PatternType, UrlType
  <2> QED
    BY <1>1, <1>5, <2>1 DEF MatchHost, GoOn, Inv, TypeOK, Progress, Verdict, Denotes,
       Standard, SoFar, SchemeDenotes, Parts
<1>6. CASE MatchExact
  <2>1. PathDenotes(Parts, url.path) <=> Parts[1] = url.path
    BY <1>1, <1>6, ExactPath DEF MatchExact
  <2> QED
    BY <1>1, <1>6, <2>1 DEF MatchExact, Decide, Inv, TypeOK, Progress, Verdict, Denotes,
       Standard, SoFar, SchemeDenotes, Parts
<1>7. CASE MatchFirst
  <2>1. PathDenotes(Parts, url.path)
          <=> StartsWith(url.path, Parts[1]) /\ RestDenotes(Parts, url.path, 2, Len(Parts[1]))
    BY <1>1, <1>7, FirstPart DEF MatchFirst
  <2>2. CASE StartsWith(url.path, Parts[1])
    <3>1. Len(Parts[1]) \in 0..Len(url.path) /\ 2 \in 1..Len(Parts)
      <4>1. Parts[1] \in Seq(Chars) /\ Len(Parts[1]) \in Nat /\ Len(url.path) \in Nat
        BY <1>1
      <4>2. 0 \in 0..(Len(url.path) - Len(Parts[1]))
        BY <2>2 DEF StartsWith, OccursAt
      <4> QED
        BY <1>1, <1>7, <4>1, <4>2 DEF MatchFirst
    <3> QED
      BY <1>1, <1>7, <2>1, <2>2, <3>1 DEF MatchFirst, Inv, TypeOK, Progress, Verdict,
         Standard, SoFar, Parts
  <2>3. CASE ~StartsWith(url.path, Parts[1])
    BY <1>1, <1>7, <2>1, <2>3 DEF MatchFirst, Inv, TypeOK, Progress, Verdict, Denotes,
       Standard, SoFar, SchemeDenotes, Parts
  <2> QED
    BY <2>2, <2>3
<1>8. CASE FindNext
  <2>1. part \in 1..(Len(Parts) - 1) /\ pos \in Nat
    BY <1>1, <1>8 DEF FindNext
  <2>2. ASSUME NEW k \in 0..Len(url.path), Finds(k), \A j \in 0..(k - 1) : ~Finds(j),
               pos' = k + Len(Parts[part]), part' = part + 1, UNCHANGED <<at, pattern, url>>
        PROVE  Inv'
    <3>1. /\ pos <= k /\ OccursAt(Parts[part], url.path, k)
          /\ \A j \in 0..(k - 1) : ~(j >= pos /\ OccursAt(Parts[part], url.path, j))
      BY <2>1, <2>2 DEF Finds
    <3>2. RestDenotes(Parts, url.path, part, pos)
            <=> RestDenotes(Parts, url.path, part + 1, k + Len(Parts[part]))
      BY <1>1, <2>1, <3>1, NextPart
    <3>3. k + Len(Parts[part]) \in 0..Len(url.path) /\ part + 1 \in 1..Len(Parts)
      <4>1. Parts[part] \in Seq(Chars) /\ Len(Parts[part]) \in Nat /\ Len(url.path) \in Nat
        BY <1>1
      <4>2. k \in 0..(Len(url.path) - Len(Parts[part]))
        BY <3>1 DEF OccursAt
      <4> QED
        BY <4>1, <4>2, <2>1, <1>1
    <3> QED
      BY <1>1, <1>8, <2>2, <3>2, <3>3 DEF FindNext, Inv, TypeOK, Progress, Verdict,
         Standard, SoFar, Parts
  <2>3. ASSUME \A k \in 0..Len(url.path) : ~Finds(k),
               at' = "no", UNCHANGED <<part, pos, pattern, url>>
        PROVE  Inv'
    <3>1. ~RestDenotes(Parts, url.path, part, pos)
      BY <1>1, <2>1, <2>3, NoPart DEF Finds
    <3> QED
      BY <1>1, <1>8, <2>3, <3>1 DEF FindNext, Inv, TypeOK, Progress, Verdict, Denotes,
         Standard, SoFar, SchemeDenotes, Parts
  <2> QED
    BY <1>8, <2>2, <2>3 DEF FindNext
<1>9. CASE MatchLast
  <2>1. RestDenotes(Parts, url.path, part, pos)
          <=> EndsWith(SubSeq(url.path, pos + 1, Len(url.path)), Parts[part])
    BY <1>1, <1>9, LastPart DEF MatchLast
  <2> QED
    BY <1>1, <1>9, <2>1 DEF MatchLast, Decide, Inv, TypeOK, Progress, Verdict, Denotes,
       Standard, SoFar, SchemeDenotes, Parts
<1> QED
  BY <1>2, <1>3, <1>4, <1>5, <1>6, <1>7, <1>8, <1>9 DEF Next

\* The invariant of the walk.
THEOREM Invariance == Spec => []Inv
<1> QED
  BY InitInv, NextInv, PTL DEF Spec

\* Every variable keeps its type (UrlPattern!TypeOK).
THEOREM TypeCorrect == Spec => []TypeOK
<1>1. Inv => TypeOK
  BY DEF Inv
<1> QED
  BY <1>1, Invariance, PTL

\* For any pattern and any URL, over any characters, MatchPattern::matches
\* answers whether the pattern denotes the URL.
THEOREM VerdictIsRight == Spec => []Verdict
<1>1. Inv => Verdict
  BY DEF Inv
<1> QED
  BY <1>1, Invariance, PTL

-----------------------------------------------------------------------------
(* The text of a pattern: first the glob, as far as its stars.               *)

\* Induction over numbers, from the well-foundedness of <.
LEMMA Induction ==
  ASSUME NEW S, 0 \in S, \A n \in Nat : n \in S => n + 1 \in S
  PROVE  Nat \subseteq S
<1> DEFINE R == OpToRel(<, Nat)
<1>1. IsWellFoundedOn(R, Nat) BY NatLessThanWellFounded, Zenon
<1>2. \A m, n \in Nat : m < n => <<m, n>> \in R BY DEF R, OpToRel
<1> HIDE DEF R
<1> SUFFICES ASSUME Nat \ S # {} PROVE FALSE OBVIOUS
<1>3. PICK n \in Nat \ S : \A m \in Nat \ S : ~(<<m, n>> \in R) BY <1>1, WFMin
<1>4. n # 0 /\ n \in Nat BY <1>3
<1>5. n - 1 \in Nat /\ n - 1 < n /\ (n - 1) + 1 = n BY <1>4
<1>6. n - 1 \in Nat \ S BY <1>5, <1>3
<1> QED BY <1>2, <1>3, <1>5, <1>6

\* One step of the glob, given the ones before it.
StandsStep(f, p, s, i) ==
  IF i = 0 THEN {0}
  ELSE {j \in 0..Len(s) : IF p[i] = Star THEN \E k \in f[i - 1] : k <= j
                         ELSE j > 0 /\ s[j] = p[i] /\ j - 1 \in f[i - 1]}

\* The recursion has a solution,
LEMMA StandsExists ==
  ASSUME NEW p, NEW s, NEW n \in Nat
  PROVE  \E f : f = [i \in 0..n |-> StandsStep(f, p, s, i)]
<1> DEFINE D == {j \in Nat : \E f : f = [i \in 0..j |-> StandsStep(f, p, s, i)]}
<1>1. 0 \in D
  <2> DEFINE f == [i \in 0..0 |-> {0}]
  <2>1. f = [i \in 0..0 |-> StandsStep(f, p, s, i)] BY DEF StandsStep
  <2> HIDE DEF f
  <2> QED BY <2>1
<1>2. ASSUME NEW j \in Nat, j \in D PROVE j + 1 \in D
  <2>1. PICK f : f = [i \in 0..j |-> StandsStep(f, p, s, i)] BY <1>2
  <2> DEFINE g == [i \in 0..(j + 1) |-> IF i = j + 1 THEN StandsStep(f, p, s, i) ELSE f[i]]
  <2>2. \A i \in 0..(j + 1) : g[i] = StandsStep(g, p, s, i)
    <3> TAKE i \in 0..(j + 1)
    <3>1. i # 0 => g[i - 1] = f[i - 1] OBVIOUS
    <3>2. StandsStep(g, p, s, i) = StandsStep(f, p, s, i) BY <3>1 DEF StandsStep
    <3>3. i \in 0..j => f[i] = StandsStep(f, p, s, i) BY <2>1
    <3> QED BY <3>2, <3>3
  <2>3. g = [i \in 0..(j + 1) |-> g[i]] OBVIOUS
  <2> HIDE DEF g
  <2>4. g = [i \in 0..(j + 1) |-> StandsStep(g, p, s, i)] BY <2>2, <2>3
  <2> QED BY <2>4
<1> HIDE DEF D
<1>3. n \in D BY <1>1, <1>2, Induction
<1> QED BY <1>3 DEF D

\* ... which Stands is.
LEMMA StandsIs ==
  ASSUME NEW p, NEW s, Len(p) \in Nat
  PROVE  \A i \in 0..Len(p) : Stands(p, s)[i] = StandsStep(Stands(p, s), p, s, i)
<1>1. \E f : f = [i \in 0..Len(p) |-> StandsStep(f, p, s, i)] BY StandsExists
<1>2. Stands(p, s) = CHOOSE f : f = [i \in 0..Len(p) |-> StandsStep(f, p, s, i)]
  BY DEF Stands, StandsStep
<1>3. Stands(p, s) = [i \in 0..Len(p) |-> StandsStep(Stands(p, s), p, s, i)] BY <1>1, <1>2
<1> QED BY <1>3

\* The empty pattern stands for nothing, and a star for what was behind it and
\* any more.
LEMMA StarStands ==
  ASSUME NEW p \in Seq(Chars), NEW s \in Seq(Chars)
  PROVE  /\ Stands(p, s)[0] = {0}
         /\ \A i \in 0..Len(p) : Stands(p, s)[i] \subseteq 0..Len(s)
         /\ \A i \in 1..Len(p) : p[i] = Star =>
              \A j \in 0..Len(s) : j \in Stands(p, s)[i] <=> \E k \in Stands(p, s)[i - 1] : k <= j
<1>1. \A i \in 0..Len(p) : Stands(p, s)[i] = StandsStep(Stands(p, s), p, s, i) BY StandsIs
<1>2. Len(s) \in Nat /\ Len(p) \in Nat OBVIOUS
<1> DEFINE S == Stands(p, s)
<1> HIDE DEF S
<1>3. S[0] = {0}
  <2>1. 0 \in 0..Len(p) BY <1>2
  <2>2. S[0] = StandsStep(S, p, s, 0) BY <1>1, <2>1 DEF S
  <2> QED BY <2>2 DEF StandsStep
<1>4. ASSUME NEW i \in 0..Len(p) PROVE S[i] \subseteq 0..Len(s)
  <2>1. S[i] = StandsStep(S, p, s, i) BY <1>1 DEF S
  <2>2. CASE i = 0 BY <1>2, <1>3, <2>2
  <2>3. CASE i # 0 BY <2>1, <2>3 DEF StandsStep
  <2> QED BY <2>2, <2>3
<1>5. ASSUME NEW i \in 1..Len(p), p[i] = Star, NEW j \in 0..Len(s)
      PROVE  j \in S[i] <=> \E k \in S[i - 1] : k <= j
  <2>1. i \in 0..Len(p) /\ i # 0 BY <1>2
  <2>2. S[i] = StandsStep(S, p, s, i) BY <1>1, <2>1 DEF S
  <2> QED BY <1>5, <2>1, <2>2 DEF StandsStep
<1> QED BY <1>3, <1>4, <1>5 DEF S

\* Between stars, characters stand for themselves.
LEMMA RunStands ==
  ASSUME NEW p \in Seq(Chars), NEW s \in Seq(Chars), NEW a \in 0..Len(p), NEW n \in Nat,
         a + n <= Len(p), \A m \in 1..n : p[a + m] # Star
  PROVE  \A j \in 0..Len(s) :
           j \in Stands(p, s)[a + n]
             <=> /\ j - n \in Stands(p, s)[a]
                 /\ \A m \in 1..n : s[(j - n) + m] = p[a + m]
<1> DEFINE S == Stands(p, s)
           Run(l) == \A j \in 0..Len(s) :
             j \in S[a + l] <=> j - l \in S[a] /\ \A m \in 1..l : s[(j - l) + m] = p[a + m]
           G == {l \in Nat : l <= n => Run(l)}
<1>1. \A i \in 0..Len(p) : S[i] = StandsStep(S, p, s, i) BY StandsIs
<1>2. \A i \in 0..Len(p) : S[i] \subseteq 0..Len(s) BY StarStands
<1> HIDE DEF S, Run
<1>3. Len(s) \in Nat /\ Len(p) \in Nat /\ a \in Nat OBVIOUS
<1>4. 0 \in G
  <2>1. a + 0 = a /\ \A j \in 0..Len(s) : j - 0 = j BY <1>3
  <2>2. Run(0) BY <2>1 DEF Run
  <2> QED BY <2>2
<1>5. ASSUME NEW l \in Nat, l \in G PROVE l + 1 \in G
  <2> SUFFICES ASSUME l + 1 <= n PROVE Run(l + 1) OBVIOUS
  <2>1. Run(l) BY <1>5
  <2> SUFFICES ASSUME NEW j \in 0..Len(s)
               PROVE  j \in S[a + (l + 1)]
                        <=> /\ j - (l + 1) \in S[a]
                            /\ \A m \in 1..(l + 1) : s[(j - (l + 1)) + m] = p[a + m]
    BY DEF Run
  <2>2. /\ a + (l + 1) \in 0..Len(p) /\ a + (l + 1) # 0 /\ (a + (l + 1)) - 1 = a + l
        /\ a + l \in 0..Len(p) /\ l + 1 \in 1..n /\ j \in Nat /\ a \in 0..Len(p)
    BY <1>3
  <2>3. j \in S[a + (l + 1)] <=> j > 0 /\ s[j] = p[a + (l + 1)] /\ j - 1 \in S[a + l]
    BY <1>1, <2>2 DEF StandsStep
  <2>4. CASE j = 0
    <3>1. j - (l + 1) \notin 0..Len(s) BY <2>4
    <3>2. j - (l + 1) \notin S[a] BY <1>2, <2>2, <3>1
    <3> QED BY <2>3, <2>4, <3>2
  <2>5. CASE j > 0
    <3>1. j - 1 \in 0..Len(s) /\ (j - 1) - l = j - (l + 1) BY <1>3, <2>2, <2>5
    <3>2. j - 1 \in S[a + l]
            <=> j - (l + 1) \in S[a] /\ \A m \in 1..l : s[(j - (l + 1)) + m] = p[a + m]
      BY <2>1, <3>1 DEF Run
    <3>3. (j - (l + 1)) + (l + 1) = j BY <2>2
    <3>4. (\A m \in 1..(l + 1) : s[(j - (l + 1)) + m] = p[a + m])
            <=> s[j] = p[a + (l + 1)] /\ \A m \in 1..l : s[(j - (l + 1)) + m] = p[a + m]
      <4>1. 1..(l + 1) = 1..l \cup {l + 1} OBVIOUS
      <4> QED BY <4>1, <3>3
    <3> QED BY <2>3, <2>5, <3>2, <3>4
  <2> QED BY <2>2, <2>4, <2>5
<1> HIDE DEF G
<1>6. n \in G BY <1>4, <1>5, Induction
<1>7. Run(n) BY <1>6 DEF G
<1> QED BY <1>7 DEF Run, S

-----------------------------------------------------------------------------
(* ... then the stars of a text, and what lies between them.                 *)

\* How many stars there are up to a character grows by one with each star.
LEMMA StarsCount ==
  ASSUME NEW p \in Seq(Chars)
  PROVE  /\ StarsUpTo(p, 0) = 0
         /\ \A k \in 0..Len(p) : StarsUpTo(p, k) \in Nat
         /\ \A k \in 1..Len(p) :
              StarsUpTo(p, k) = IF p[k] = Star THEN StarsUpTo(p, k - 1) + 1 ELSE StarsUpTo(p, k - 1)
<1> DEFINE W(k) == {j \in 1..k : p[j] = Star}
<1>1. ASSUME NEW k \in Nat PROVE IsFiniteSet(W(k))
  <2>1. IsFiniteSet(1..k) BY FS_Interval
  <2>2. W(k) \in SUBSET (1..k) OBVIOUS
  <2> HIDE DEF W
  <2> QED BY <2>1, <2>2, FS_Subset
<1>2. StarsUpTo(p, 0) = 0
  <2>1. W(0) = {} OBVIOUS
  <2> QED BY <2>1, FS_EmptySet DEF StarsUpTo
<1>3. \A k \in Nat : StarsUpTo(p, k) \in Nat
  BY <1>1, FS_CardinalityType DEF StarsUpTo
<1>4. ASSUME NEW k \in 1..Len(p)
      PROVE  StarsUpTo(p, k) = IF p[k] = Star THEN StarsUpTo(p, k - 1) + 1
                               ELSE StarsUpTo(p, k - 1)
  <2>1. k \in Nat /\ k - 1 \in Nat /\ 1..k = 1..(k - 1) \cup {k} /\ k \notin 1..(k - 1) OBVIOUS
  <2>2. CASE p[k] = Star
    <3>1. W(k) = W(k - 1) \cup {k} /\ k \notin W(k - 1) BY <2>1, <2>2
    <3> HIDE DEF W
    <3>2. Cardinality(W(k)) = Cardinality(W(k - 1)) + 1 BY <1>1, <2>1, <3>1, FS_AddElement
    <3> QED BY <2>2, <3>2 DEF StarsUpTo, W
  <2>3. CASE p[k] # Star
    <3>1. W(k) = W(k - 1) BY <2>1, <2>3
    <3> QED BY <2>3, <3>1 DEF StarsUpTo
  <2> QED BY <2>2, <2>3
<1> QED BY <1>2, <1>3, <1>4

\* So it never falls.
LEMMA StarsGrow ==
  ASSUME NEW p \in Seq(Chars), NEW j \in 0..Len(p), NEW k \in j..Len(p)
  PROVE  StarsUpTo(p, j) <= StarsUpTo(p, k)
<1> DEFINE c(i) == StarsUpTo(p, i)
           G == {n \in Nat : j + n <= Len(p) => c(j) <= c(j + n)}
<1>1. \A i \in 0..Len(p) : c(i) \in Nat BY StarsCount
<1>2. \A i \in 1..Len(p) : c(i) = c(i - 1) \/ c(i) = c(i - 1) + 1 BY StarsCount
<1>3. Len(p) \in Nat /\ j \in Nat /\ k \in Nat /\ j <= k /\ k <= Len(p) OBVIOUS
<1> HIDE DEF c
<1>4. 0 \in G
  <2>1. j + 0 = j BY <1>3
  <2> QED BY <1>1, <2>1
<1>5. ASSUME NEW n \in Nat, n \in G PROVE n + 1 \in G
  <2> SUFFICES ASSUME j + (n + 1) <= Len(p) PROVE c(j) <= c(j + (n + 1)) OBVIOUS
  <2>1. /\ j + n \in 0..Len(p) /\ j + (n + 1) \in 1..Len(p) /\ (j + (n + 1)) - 1 = j + n
        /\ j + n <= Len(p)
    BY <1>3
  <2>2. c(j) <= c(j + n) BY <1>5, <2>1
  <2>3. c(j + (n + 1)) = c(j + n) \/ c(j + (n + 1)) = c(j + n) + 1 BY <1>2, <2>1
  <2>4. c(j) \in Nat /\ c(j + n) \in Nat BY <1>1, <1>3, <2>1
  <2> QED BY <2>2, <2>3, <2>4
<1>6. k - j \in G
  <2> HIDE DEF G
  <2> QED BY <1>3, <1>4, <1>5, Induction
<1>7. j + (k - j) = k BY <1>3
<1> QED BY <1>3, <1>6, <1>7 DEF c

\* Each number up to the last is some star's.
LEMMA StarFound ==
  ASSUME NEW p \in Seq(Chars), NEW n \in 1..StarsUpTo(p, Len(p))
  PROVE  \E k \in 1..Len(p) : p[k] = Star /\ StarsUpTo(p, k) = n
<1> DEFINE c(i) == StarsUpTo(p, i)
           G == {l \in Nat : l <= Len(p) /\ n <= c(l) =>
                               \E k \in 1..Len(p) : p[k] = Star /\ c(k) = n}
<1>1. /\ c(0) = 0 /\ \A i \in 0..Len(p) : c(i) \in Nat
      /\ \A i \in 1..Len(p) : c(i) = IF p[i] = Star THEN c(i - 1) + 1 ELSE c(i - 1)
  BY StarsCount
<1>2. Len(p) \in Nat /\ Len(p) \in 0..Len(p) OBVIOUS
<1>3. n \in Nat /\ n >= 1 /\ n <= c(Len(p)) BY <1>1, <1>2
<1> HIDE DEF c
<1>4. 0 \in G BY <1>1, <1>3
<1>5. ASSUME NEW l \in Nat, l \in G PROVE l + 1 \in G
  <2> SUFFICES ASSUME l + 1 <= Len(p), n <= c(l + 1)
               PROVE  \E k \in 1..Len(p) : p[k] = Star /\ c(k) = n
    OBVIOUS
  <2>1. l + 1 \in 1..Len(p) /\ (l + 1) - 1 = l /\ l \in 0..Len(p) /\ l <= Len(p) BY <1>2
  <2>2. c(l + 1) = IF p[l + 1] = Star THEN c(l) + 1 ELSE c(l) BY <1>1, <2>1
  <2>3. CASE n <= c(l) BY <1>5, <2>1, <2>3
  <2>4. CASE ~(n <= c(l))
    <3>1. c(l) \in Nat BY <1>1, <2>1
    <3>2. p[l + 1] = Star /\ c(l + 1) = n BY <1>3, <2>2, <2>4, <3>1
    <3> QED BY <2>1, <3>2
  <2> QED BY <2>3, <2>4
<1>6. Len(p) \in G
  <2> HIDE DEF G
  <2> QED BY <1>2, <1>4, <1>5, Induction
<1> QED BY <1>2, <1>3, <1>6 DEF c

\* What StarAt finds: the stars in order, and nothing but characters between
\* one and the next.
LEMMA StarsAt ==
  ASSUME NEW p \in Seq(Chars)
  PROVE  LET N == StarsUpTo(p, Len(p)) IN
         /\ N \in Nat /\ StarAt(p, 0) = 0 /\ StarAt(p, N + 1) = Len(p) + 1
         /\ \A n \in 1..N : StarAt(p, n) \in 1..Len(p) /\ p[StarAt(p, n)] = Star
         /\ \A n \in 0..N :
              /\ StarAt(p, n) \in 0..Len(p) /\ StarAt(p, n + 1) \in 1..(Len(p) + 1)
              /\ StarAt(p, n) < StarAt(p, n + 1)
              /\ \A k \in (StarAt(p, n) + 1)..(StarAt(p, n + 1) - 1) : p[k] # Star
<1> DEFINE c(i) == StarsUpTo(p, i)
           N == c(Len(p))
           a(n) == StarAt(p, n)
<1>1. /\ c(0) = 0 /\ \A i \in 0..Len(p) : c(i) \in Nat
      /\ \A i \in 1..Len(p) : p[i] = Star => c(i) = c(i - 1) + 1
  BY StarsCount
<1>2. Len(p) \in Nat /\ Len(p) \in 0..Len(p) /\ DOMAIN p = 1..Len(p) OBVIOUS
<1>3. N \in Nat BY <1>1, <1>2
<1>4. a(0) = 0 BY DEF StarAt
<1>5. a(N + 1) = Len(p) + 1
  <2>1. N + 1 # 0 /\ N + 1 > N BY <1>3
  <2> QED BY <2>1 DEF StarAt
<1>6. ASSUME NEW n \in 1..N PROVE a(n) \in 1..Len(p) /\ p[a(n)] = Star /\ c(a(n)) = n
  <2>1. n # 0 /\ ~(n > N) BY <1>3
  <2>2. a(n) = CHOOSE k \in DOMAIN p : p[k] = Star /\ c(k) = n BY <2>1 DEF StarAt
  <2>3. \E k \in DOMAIN p : p[k] = Star /\ c(k) = n BY <1>2, StarFound
  <2> HIDE DEF a, c
  <2> QED BY <1>2, <2>2, <2>3
<1>7. \A i \in 0..Len(p) : \A k \in i..Len(p) : c(i) <= c(k) BY StarsGrow
<1> HIDE DEF a, c, N
<1>8. ASSUME NEW n \in 0..N
      PROVE  /\ a(n) \in 0..Len(p) /\ a(n + 1) \in 1..(Len(p) + 1) /\ a(n) < a(n + 1)
             /\ \A k \in (a(n) + 1)..(a(n + 1) - 1) : p[k] # Star
  <2>1. a(n) \in 0..Len(p) /\ c(a(n)) = n
    <3>1. CASE n = 0 BY <1>1, <1>2, <1>4, <3>1
    <3>2. CASE n # 0
      <4>1. n \in 1..N BY <1>3, <3>2
      <4> QED BY <1>2, <1>6, <4>1
    <3> QED BY <3>1, <3>2
  <2>2. CASE n = N
    <3>1. a(n + 1) = Len(p) + 1 BY <1>5, <2>2
    <3>2. ASSUME NEW k \in (a(n) + 1)..(a(n + 1) - 1), p[k] = Star PROVE FALSE
      <4>1. k \in 1..Len(p) /\ k - 1 \in a(n)..Len(p) /\ Len(p) \in k..Len(p) /\ k \in 0..Len(p)
            /\ k - 1 \in 0..Len(p)
        BY <1>2, <2>1, <3>1, <3>2
      <4>2. c(k) = c(k - 1) + 1 /\ c(k - 1) >= n /\ c(k) <= c(Len(p)) BY <1>1, <1>7, <2>1, <3>2, <4>1
      <4>3. c(Len(p)) = N BY DEF N
      <4> QED BY <1>1, <1>3, <2>2, <4>1, <4>2, <4>3
    <3> QED BY <1>2, <2>1, <3>1, <3>2
  <2>3. CASE n # N
    <3>1. n + 1 \in 1..N /\ n \in Nat BY <1>3, <2>3
    <3>2. a(n + 1) \in 1..Len(p) /\ p[a(n + 1)] = Star /\ c(a(n + 1)) = n + 1 BY <1>6, <3>1
    <3>3. a(n) < a(n + 1)
      <4> SUFFICES ASSUME a(n + 1) <= a(n) PROVE FALSE BY <1>2, <2>1, <3>2
      <4>1. a(n + 1) \in 0..Len(p) /\ a(n) \in a(n + 1)..Len(p) BY <1>2, <2>1, <3>2
      <4>2. n + 1 <= n BY <1>7, <2>1, <3>2, <4>1
      <4> QED BY <3>1, <4>2
    <3>4. ASSUME NEW k \in (a(n) + 1)..(a(n + 1) - 1), p[k] = Star PROVE FALSE
      <4>1. /\ k \in 1..Len(p) /\ k - 1 \in a(n)..Len(p) /\ k \in 0..((a(n + 1)) - 1)
            /\ k \in 0..Len(p) /\ k - 1 \in 0..Len(p)
            /\ a(n + 1) - 1 \in k..Len(p) /\ a(n + 1) - 1 \in 0..Len(p)
        BY <1>2, <2>1, <3>2, <3>4
      <4>2. c(k) = c(k - 1) + 1 /\ c(k - 1) >= n BY <1>1, <1>7, <2>1, <3>4, <4>1
      <4>3. c(k) <= c(a(n + 1) - 1) BY <1>7, <4>1
      <4>4. c(a(n + 1)) = c(a(n + 1) - 1) + 1 BY <1>1, <3>2
      <4>5. c(k) \in Nat /\ c(k - 1) \in Nat /\ c(a(n + 1) - 1) \in Nat BY <1>1, <4>1
      <4>6. c(a(n + 1) - 1) = n BY <3>1, <3>2, <4>4, <4>5
      <4>7. c(k) <= n BY <4>3, <4>6
      <4>8. c(k) >= n + 1 BY <3>1, <4>2, <4>5
      <4> QED BY <3>1, <4>5, <4>7, <4>8
    <3> QED BY <1>2, <2>1, <3>2, <3>3, <3>4
  <2> QED BY <2>2, <2>3
<1> QED BY <1>3, <1>4, <1>5, <1>6, <1>8 DEF a, N, c

\* The parts of a path, as sequences.
LEMMA PartsAre ==
  ASSUME NEW p \in Seq(Chars)
  PROVE  LET P == ParsePath(p)
             N == StarsUpTo(p, Len(p)) + 1
         IN /\ N \in Nat /\ N >= 1 /\ Len(P) = N /\ DOMAIN P = 1..N
            /\ \A n \in 1..N :
                 /\ P[n] \in Seq(Chars)
                 /\ Len(P[n]) = (StarAt(p, n) - 1) - StarAt(p, n - 1)
                 /\ \A m \in 1..Len(P[n]) : P[n][m] = p[StarAt(p, n - 1) + m]
<1> DEFINE P == ParsePath(p)
           N == StarsUpTo(p, Len(p)) + 1
<1>1. StarsUpTo(p, Len(p)) \in Nat /\ N \in Nat /\ N >= 1 BY StarsAt
<1>2. P = [n \in 1..N |-> Piece(p, n - 1)] BY DEF ParsePath
<1> HIDE DEF P
<1>3. Len(P) = N /\ DOMAIN P = 1..N
  <2> HIDE DEF N
  <2> QED BY <1>1, <1>2
<1>4. ASSUME NEW n \in 1..N
      PROVE  /\ P[n] \in Seq(Chars)
             /\ Len(P[n]) = (StarAt(p, n) - 1) - StarAt(p, n - 1)
             /\ \A m \in 1..Len(P[n]) : P[n][m] = p[StarAt(p, n - 1) + m]
  <2> DEFINE a == StarAt(p, n - 1)
             b == StarAt(p, n)
  <2>1. n - 1 \in 0..StarsUpTo(p, Len(p)) /\ (n - 1) + 1 = n BY <1>1
  <2>2. a \in 0..Len(p) /\ b \in 1..(Len(p) + 1) /\ a < b BY <2>1, StarsAt
  <2>3. P[n] = SubSeq(p, a + 1, b - 1) BY <1>2, <2>1 DEF Piece
  <2> HIDE DEF a, b
  <2>4. a + 1 \in 1..(Len(p) + 1) /\ b - 1 \in (a + 1 - 1)..Len(p) /\ Len(p) \in Nat BY <2>2
  <2>5. /\ P[n] \in Seq(Chars) /\ Len(P[n]) = (b - 1) - a
        /\ \A m \in 1..((b - 1) - a) : P[n][m] = p[a + m]
    <3>1. (b - 1) - (a + 1) + 1 = (b - 1) - a /\ \A m \in Nat : (a + 1) + m - 1 = a + m BY <2>2, <2>4
    <3>2. \A i \in (a + 1)..(b - 1) : p[i] \in Chars BY <2>2, <2>4
    <3>3. a + 1 \in Int /\ b - 1 \in Int BY <2>2, <2>4
    <3> QED BY <2>2, <2>3, <2>4, <3>1, <3>2, <3>3, SubSeqProperties
  <2> QED BY <2>5 DEF a, b
<1> QED BY <1>1, <1>3, <1>4 DEF P

\* A part behind a star: the text up to its end stands for j characters exactly if
\* the part lies at the end of them, and the text up to its start stands for the rest.
LEMMA PartStands ==
  ASSUME NEW p \in Seq(Chars), NEW s \in Seq(Chars),
         NEW n \in 1..(StarsUpTo(p, Len(p)) + 1), NEW j \in 0..Len(s)
  PROVE  j \in Stands(p, s)[StarAt(p, n) - 1]
           <=> \E k \in 0..Len(s) : /\ k + Len(ParsePath(p)[n]) = j
                                    /\ OccursAt(ParsePath(p)[n], s, k)
                                    /\ k \in Stands(p, s)[StarAt(p, n - 1)]
<1> DEFINE q == ParsePath(p)[n]
           a == StarAt(p, n - 1)
           b == StarAt(p, n)
           l == Len(q)
           S == Stands(p, s)
<1>1. StarsUpTo(p, Len(p)) \in Nat BY StarsAt
<1>2. n - 1 \in 0..StarsUpTo(p, Len(p)) /\ (n - 1) + 1 = n BY <1>1
<1>3. a \in 0..Len(p) /\ b \in 1..(Len(p) + 1) /\ a < b /\ \A k \in (a + 1)..(b - 1) : p[k] # Star
  BY <1>2, StarsAt
<1>4. q \in Seq(Chars) /\ l = (b - 1) - a /\ \A m \in 1..l : q[m] = p[a + m] BY PartsAre
<1>5. S[a] \subseteq 0..Len(s) BY <1>3, StarStands
<1>6. Len(s) \in Nat /\ Len(p) \in Nat OBVIOUS
<1> HIDE DEF a, b, q, S
<1>7. l \in Nat /\ a + l = b - 1 /\ a + l <= Len(p) BY <1>3, <1>4, <1>6
<1> HIDE DEF l
<1>8. \A m \in 1..l : p[a + m] # Star
  <2> TAKE m \in 1..l
  <2>1. a \in Nat /\ b \in Nat BY <1>3, <1>6
  <2>2. a + m \in (a + 1)..(b - 1) BY <1>7, <2>1
  <2> QED BY <1>3, <2>2
<1>9. j \in S[b - 1] <=> j - l \in S[a] /\ \A m \in 1..l : s[(j - l) + m] = p[a + m]
  <2>1. j \in S[a + l] <=> j - l \in S[a] /\ \A m \in 1..l : s[(j - l) + m] = p[a + m]
    BY <1>3, <1>7, <1>8, RunStands DEF S
  <2> QED BY <1>7, <2>1
<1>10. ASSUME j \in S[b - 1]
       PROVE  \E k \in 0..Len(s) : k + l = j /\ OccursAt(q, s, k) /\ k \in S[a]
  <2>1. j - l \in S[a] /\ j - l \in 0..Len(s) /\ (j - l) + l = j BY <1>5, <1>7, <1>9, <1>10
  <2>2. j - l \in 0..(Len(s) - l) BY <1>6, <1>7, <2>1
  <2>3. OccursAt(q, s, j - l) BY <1>4, <1>9, <1>10, <2>2 DEF OccursAt, l
  <2> QED BY <2>1, <2>3
<1>11. ASSUME NEW k \in 0..Len(s), k + l = j, OccursAt(q, s, k), k \in S[a] PROVE j \in S[b - 1]
  <2>1. k = j - l BY <1>7, <1>11
  <2>2. \A m \in 1..l : s[k + m] = p[a + m] BY <1>4, <1>11 DEF OccursAt, l
  <2> QED BY <1>9, <1>11, <2>1, <2>2
<1> QED BY <1>10, <1>11 DEF a, b, q, l, S

\* The glob of a path, and the places of its parts, are the same thing.
LEMMA PathMeaning ==
  ASSUME NEW p \in Seq(Chars), NEW s \in Seq(Chars)
  PROVE  Glob(p, s) <=> PathDenotes(ParsePath(p), s)
<1> DEFINE P == ParsePath(p)
           N == StarsUpTo(p, Len(p)) + 1
           S == Stands(p, s)
           e(n) == StarAt(p, n) - 1
           Placed(n, j) ==
             \E f \in Places(N, s) :
               /\ f[1] = 0 /\ f[n] + Len(P[n]) = j
               /\ \A m \in 1..n : OccursAt(P[m], s, f[m])
               /\ \A m \in 1..(n - 1) : f[m] + Len(P[m]) <= f[m + 1]
           G == {i \in Nat : i + 1 <= N =>
                   \A j \in 0..Len(s) : j \in S[e(i + 1)] <=> Placed(i + 1, j)}
<1>1. /\ N \in Nat /\ N >= 1 /\ Len(P) = N /\ DOMAIN P = 1..N
      /\ \A n \in 1..N : P[n] \in Seq(Chars)
  BY PartsAre
<1>2. Len(s) \in Nat OBVIOUS
<1>3. \A n \in 1..N : Len(P[n]) \in Nat BY <1>1
<1>4. S[0] = {0} /\ StarAt(p, 0) = 0 /\ e(N) = Len(p) BY StarStands, StarsAt
<1>5. ASSUME NEW n \in 1..N, NEW j \in 0..Len(s)
      PROVE  j \in S[e(n)] <=> \E k \in 0..Len(s) : /\ k + Len(P[n]) = j /\ OccursAt(P[n], s, k)
                                                    /\ k \in S[StarAt(p, n - 1)]
  BY PartStands
<1>6. ASSUME NEW n \in 1..(N - 1), NEW k \in 0..Len(s)
      PROVE  k \in S[StarAt(p, n)] <=> \E i \in S[e(n)] : i <= k
  <2>1. StarsUpTo(p, Len(p)) \in Nat BY StarsAt
  <2>2. n \in 1..StarsUpTo(p, Len(p)) BY <2>1
  <2>3. StarAt(p, n) \in 1..Len(p) /\ p[StarAt(p, n)] = Star BY <2>2, StarsAt
  <2> QED BY <2>3, StarStands
<1>7. ASSUME NEW n \in 1..(N - 1) PROVE S[e(n)] \subseteq 0..Len(s)
  <2>1. StarsUpTo(p, Len(p)) \in Nat BY StarsAt
  <2>2. n \in 1..StarsUpTo(p, Len(p)) BY <2>1
  <2>3. StarAt(p, n) \in 1..Len(p) BY <2>2, StarsAt
  <2>4. e(n) \in 0..Len(p) BY <2>3
  <2> QED BY <2>4, StarStands
<1> HIDE DEF P, N, S, e, Placed
<1>8. 0 \in G
  <2>1. 1 \in 1..N /\ 0 + 1 = 1 /\ 1 - 1 = 0 /\ Len(P[1]) \in Nat BY <1>1, <1>3
  <2>2. ASSUME NEW j \in 0..Len(s) PROVE j \in S[e(1)] <=> Placed(1, j)
    <3>1. j \in S[e(1)] <=> \E k \in 0..Len(s) : k + Len(P[1]) = j /\ OccursAt(P[1], s, k) /\ k = 0
      BY <1>4, <1>5, <2>1
    <3>2. ASSUME Placed(1, j) PROVE j \in S[e(1)]
      <4>1. PICK f \in Places(N, s) :
              f[1] = 0 /\ f[1] + Len(P[1]) = j /\ \A m \in 1..1 : OccursAt(P[m], s, f[m])
        BY <3>2 DEF Placed
      <4>2. OccursAt(P[1], s, f[1]) BY <4>1
      <4> QED BY <1>2, <3>1, <4>1, <4>2
    <3>3. ASSUME j \in S[e(1)] PROVE Placed(1, j)
      <4>1. 0 + Len(P[1]) = j /\ OccursAt(P[1], s, 0) BY <3>1, <3>3
      <4> DEFINE f == [m \in 1..N |-> 0]
      <4>2. f \in Places(N, s) /\ f[1] = 0 BY <1>2, <2>1 DEF Places
      <4>3. \A m \in 1..1 : OccursAt(P[m], s, f[m]) BY <4>1, <4>2
      <4>4. \A m \in 1..(1 - 1) : f[m] + Len(P[m]) <= f[m + 1] OBVIOUS
      <4> HIDE DEF f
      <4> QED BY <4>1, <4>2, <4>3, <4>4 DEF Placed
    <3> QED BY <3>2, <3>3
  <2> QED BY <2>1, <2>2
<1>9. ASSUME NEW i \in Nat, i \in G PROVE i + 1 \in G
  <2> DEFINE n == i + 1
  <2> SUFFICES ASSUME n + 1 <= N
               PROVE  \A j \in 0..Len(s) : j \in S[e(n + 1)] <=> Placed(n + 1, j)
    OBVIOUS
  <2>1. /\ n \in 1..(N - 1) /\ n \in 1..N /\ n + 1 \in 1..N /\ (n + 1) - 1 = n /\ n <= N
        /\ n \in Nat /\ n >= 1
    BY <1>1
  <2>2. \A j \in 0..Len(s) : j \in S[e(n)] <=> Placed(n, j) BY <1>9, <2>1
  <2> HIDE DEF n
  <2>3. ASSUME NEW j \in 0..Len(s), j \in S[e(n + 1)] PROVE Placed(n + 1, j)
    <3>1. PICK k \in 0..Len(s) : /\ k + Len(P[n + 1]) = j /\ OccursAt(P[n + 1], s, k)
                                 /\ k \in S[StarAt(p, n)]
      BY <1>5, <2>1, <2>3
    <3>2. PICK x \in S[e(n)] : x <= k BY <1>6, <2>1, <3>1
    <3>3. x \in 0..Len(s) BY <1>7, <2>1
    <3>4. Placed(n, x) BY <2>2, <3>3
    <3>5. PICK f \in Places(N, s) :
            /\ f[1] = 0 /\ f[n] + Len(P[n]) = x
            /\ \A m \in 1..n : OccursAt(P[m], s, f[m])
            /\ \A m \in 1..(n - 1) : f[m] + Len(P[m]) <= f[m + 1]
      BY <3>4 DEF Placed
    <3> DEFINE g == [f EXCEPT ![n + 1] = k]
    <3>6. g \in Places(N, s) /\ g[n + 1] = k /\ \A m \in 1..n : g[m] = f[m]
      BY <2>1 DEF Places
    <3> HIDE DEF g
    <3>7. ASSUME NEW m \in 1..(n + 1) PROVE OccursAt(P[m], s, g[m])
      <4>1. m \in 1..n \/ m = n + 1 BY <2>1
      <4> QED BY <3>1, <3>5, <3>6, <4>1
    <3>8. ASSUME NEW m \in 1..((n + 1) - 1) PROVE g[m] + Len(P[m]) <= g[m + 1]
      <4>1. n \in Nat /\ m \in 1..n BY <2>1
      <4>2. m \in Nat /\ m >= 1 /\ m <= n BY <4>1
      <4>3. CASE m = n BY <2>1, <3>2, <3>5, <3>6, <4>3
      <4>4. CASE m # n
        <5>1. m < n BY <4>1, <4>2, <4>4
        <5>2. m \in 1..(n - 1) /\ m + 1 \in 1..n BY <4>1, <4>2, <5>1
        <5> QED BY <3>5, <3>6, <4>1, <5>2
      <4> QED BY <4>3, <4>4
    <3>9. g[1] = 0 /\ g[n + 1] + Len(P[n + 1]) = j BY <2>1, <3>1, <3>5, <3>6
    <3> QED BY <3>6, <3>7, <3>8, <3>9 DEF Placed
  <2>4. ASSUME NEW j \in 0..Len(s), Placed(n + 1, j) PROVE j \in S[e(n + 1)]
    <3>1. PICK f \in Places(N, s) :
            /\ f[1] = 0 /\ f[n + 1] + Len(P[n + 1]) = j
            /\ \A m \in 1..(n + 1) : OccursAt(P[m], s, f[m])
            /\ \A m \in 1..((n + 1) - 1) : f[m] + Len(P[m]) <= f[m + 1]
      BY <2>4 DEF Placed
    <3>2. f[n] \in 0..Len(s) /\ f[n + 1] \in 0..Len(s) /\ Len(P[n]) \in Nat
      BY <1>3, <2>1, <3>1 DEF Places
    <3> DEFINE x == f[n] + Len(P[n])
    <3>3. x <= f[n + 1] BY <2>1, <3>1
    <3>4. x \in 0..Len(s)
      <4>1. x \in Nat BY <3>2
      <4> HIDE DEF x
      <4> QED BY <1>2, <3>2, <3>3, <4>1
    <3>5. Placed(n, x)
      <4>1. /\ \A m \in 1..n : OccursAt(P[m], s, f[m])
            /\ \A m \in 1..(n - 1) : f[m] + Len(P[m]) <= f[m + 1]
        BY <2>1, <3>1
      <4> QED BY <3>1, <4>1 DEF Placed
    <3>6. x \in S[e(n)] BY <2>2, <3>4, <3>5
    <3>7. f[n + 1] \in S[StarAt(p, n)] BY <1>6, <2>1, <3>2, <3>3, <3>6
    <3>8. OccursAt(P[n + 1], s, f[n + 1]) BY <2>1, <3>1
    <3> QED BY <1>5, <2>1, <3>1, <3>2, <3>7, <3>8
  <2> QED BY <2>3, <2>4
<1> HIDE DEF G
<1>10. N - 1 \in G
  <2>1. N - 1 \in Nat BY <1>1
  <2>2. \A i \in Nat : i \in G => i + 1 \in G BY <1>9
  <2>3. Nat \subseteq G BY <1>8, <2>2, Induction
  <2> QED BY <2>1, <2>3
<1>11. Len(s) \in S[e(N)] <=> Placed(N, Len(s))
  <2>1. (N - 1) + 1 = N /\ Len(s) \in 0..Len(s) BY <1>1, <1>2
  <2> QED BY <1>10, <2>1 DEF G
<1>12. Glob(p, s) <=> Len(s) \in S[e(N)] BY <1>4 DEF Glob, S
<1>13. PathDenotes(P, s) <=> Placed(N, Len(s)) BY <1>1 DEF PathDenotes, Placed
<1> QED BY <1>11, <1>12, <1>13 DEF P

-----------------------------------------------------------------------------
(* ... and the host of a text.                                               *)

\* A glob without a star is what it stands for,
LEMMA LiteralGlob ==
  ASSUME NEW p \in Seq(Chars), NEW s \in Seq(Chars), ~In(Star, p)
  PROVE  Glob(p, s) <=> s = p
<1> DEFINE S == Stands(p, s)
<1>1. Len(p) \in Nat /\ Len(s) \in Nat /\ DOMAIN p = 1..Len(p) OBVIOUS
<1>2. \A m \in 1..Len(p) : p[0 + m] # Star BY <1>1 DEF In
<1>3. S[0] = {0} BY StarStands
<1>4. 0 + Len(p) = Len(p) /\ 0 \in 0..Len(p) /\ Len(s) \in 0..Len(s) BY <1>1
<1>5. Len(s) \in S[0 + Len(p)]
        <=> Len(s) - Len(p) \in S[0] /\ \A m \in 1..Len(p) : s[(Len(s) - Len(p)) + m] = p[0 + m]
  <2> DEFINE l == Len(p)
  <2>1. l \in Nat /\ 0 + l <= Len(p) /\ \A m \in 1..l : p[0 + m] # Star BY <1>1, <1>2
  <2> HIDE DEF l, S
  <2>2. \A j \in 0..Len(s) : j \in S[0 + l] <=> j - l \in S[0] /\ \A m \in 1..l : s[(j - l) + m] = p[0 + m]
    BY <1>4, <2>1, RunStands DEF S
  <2> QED BY <1>4, <2>2 DEF l
<1>6. Glob(p, s) <=> Len(s) \in S[Len(p)] BY DEF Glob
<1> HIDE DEF S
<1>7. Glob(p, s)
        <=> Len(s) - Len(p) = 0 /\ \A m \in 1..Len(p) : s[(Len(s) - Len(p)) + m] = p[0 + m]
  BY <1>3, <1>4, <1>5, <1>6
<1>8. ASSUME Glob(p, s) PROVE s = p
  <2>1. Len(s) = Len(p) /\ \A m \in 1..Len(s) : s[m] = p[m] BY <1>1, <1>7, <1>8
  <2> QED BY <2>1, SeqEqual
<1>9. ASSUME s = p PROVE Glob(p, s)
  BY <1>1, <1>7, <1>9
<1> QED BY <1>8, <1>9

\* ... and one that begins with its only star is the end of it.
LEMMA SuffixGlob ==
  ASSUME NEW p \in Seq(Chars), NEW s \in Seq(Chars), Len(p) > 0, p[1] = Star,
         ~In(Star, Tail(p))
  PROVE  Glob(p, s) <=> /\ Len(s) >= Len(p) - 1
                        /\ \A m \in 1..(Len(p) - 1) : s[(Len(s) - (Len(p) - 1)) + m] = p[1 + m]
<1> DEFINE S == Stands(p, s)
           n == Len(p) - 1
<1>1. Len(s) \in Nat /\ n \in Nat /\ 1 + n = Len(p) /\ 1 \in 0..Len(p) /\ 1 \in 1..Len(p)
      /\ Len(s) \in 0..Len(s) /\ 1 - 1 = 0
  OBVIOUS
<1>2. S[0] = {0} /\ S[1] \subseteq 0..Len(s) BY <1>1, StarStands
<1>3. \A j \in 0..Len(s) : j \in S[1] <=> \E k \in S[1 - 1] : k <= j BY <1>1, StarStands
<1>4. \A m \in 1..n : p[1 + m] # Star
  <2> TAKE m \in 1..n
  <2>1. m \in 1..Len(Tail(p)) /\ Tail(p)[m] = p[m + 1] /\ Tail(p) \in Seq(Chars) BY <1>1
  <2>2. m \in DOMAIN Tail(p) /\ 1 + m = m + 1 BY <2>1
  <2> QED BY <2>1, <2>2 DEF In
<1>5. Len(s) \in S[1 + n] <=> Len(s) - n \in S[1] /\ \A m \in 1..n : s[(Len(s) - n) + m] = p[1 + m]
  <2> DEFINE one == 1
  <2>1. /\ one \in 0..Len(p) /\ n \in Nat /\ one + n <= Len(p)
        /\ \A m \in 1..n : p[one + m] # Star
    BY <1>1, <1>4
  <2> HIDE DEF n, S, one
  <2>2. \A j \in 0..Len(s) :
          j \in S[one + n] <=> j - n \in S[one] /\ \A m \in 1..n : s[(j - n) + m] = p[one + m]
    BY <2>1, RunStands DEF S
  <2> QED BY <1>1, <2>2 DEF one
<1>6. Glob(p, s) <=> Len(s) \in S[1 + n] BY <1>1 DEF Glob
<1> HIDE DEF S, n
<1>7. \A j \in 0..Len(s) : j \in S[1] BY <1>1, <1>2, <1>3
<1>8. Len(s) - n \in S[1] <=> Len(s) >= n BY <1>1, <1>2, <1>7
<1> QED BY <1>5, <1>6, <1>8 DEF n

\* Lowering keeps the stars of a text.
LEMMA LoweredText ==
  ASSUME NEW p \in Seq(Chars)
  PROVE  /\ Lowered(p) \in Seq(Chars) /\ Len(Lowered(p)) = Len(p)
         /\ \A k \in 1..Len(p) : /\ Lowered(p)[k] = Lower[p[k]]
                                 /\ Lowered(p)[k] = Star <=> p[k] = Star
<1>1. \A k \in 1..Len(p) : p[k] \in Chars OBVIOUS
<1>2. \A k \in 1..Len(p) : Lower[p[k]] = Star <=> p[k] = Star BY <1>1, TextAssumption
<1> QED BY <1>2, LoweredName

\* To lower a text twice is to lower it once.
LEMMA LoweredTwice ==
  ASSUME NEW p \in Seq(Chars)
  PROVE  Lowered(Lowered(p)) = Lowered(p)
<1> DEFINE q == Lowered(p)
           r == Lowered(q)
<1>1. /\ q \in Seq(Chars) /\ Len(q) = Len(p) /\ \A k \in 1..Len(p) : q[k] = Lower[p[k]]
      /\ r \in Seq(Chars) /\ Len(r) = Len(q) /\ \A k \in 1..Len(q) : r[k] = Lower[q[k]]
  BY LoweredName
<1>2. \A k \in 1..Len(p) : p[k] \in Chars /\ Lower[Lower[p[k]]] = Lower[p[k]]
  BY PatternAssumption
<1> HIDE DEF q, r
<1>3. Len(r) = Len(q) /\ \A k \in 1..Len(r) : r[k] = q[k] BY <1>1, <1>2
<1> QED BY <1>1, <1>3, SeqEqual DEF q, r

\* Whether a host is one of those a parsed host names, both of them lowered.
Names(m, h) ==
  CASE m.kind = "none" -> h = NoHost \/ h = <<>>
    [] m.kind = "any" -> h # NoHost
    [] m.kind = "subdomains" -> h # NoHost /\ UnderDomain(h, m.name)
    [] m.kind = "literal" -> h = m.name

\* The prefix of a host of subdomains.
LEMMA StarAndDot ==
  ASSUME NEW raw \in Seq(Chars)
  PROVE  StartsWith(raw, <<Star, Dot>>) <=> Len(raw) >= 2 /\ raw[1] = Star /\ raw[2] = Dot
<1> DEFINE q == <<Star, Dot>>
<1>1. Len(q) = 2 /\ q[1] = Star /\ q[2] = Dot /\ 1..2 = {1, 2} /\ Len(raw) \in Nat OBVIOUS
<1> HIDE DEF q
<1>2. StartsWith(raw, q) <=> 0 \in 0..(Len(raw) - 2) /\ raw[0 + 1] = Star /\ raw[0 + 2] = Dot
  BY <1>1 DEF StartsWith, OccursAt
<1>3. 0 \in 0..(Len(raw) - 2) <=> Len(raw) >= 2 BY <1>1
<1> QED BY <1>2, <1>3 DEF q

\* A host that is taken, and what its text stands for.
LEMMA NameMeaning ==
  ASSUME NEW raw \in Seq(Chars), NEW h \in Seq(Chars) \cup {NoHost}, ParseHost(raw) # BadHost
  PROVE  Names(ParseHost(raw), h) <=> h # NoHost /\ HostGlob(raw, h)
<1>1. Len(raw) \in Nat /\ DOMAIN raw = 1..Len(raw) /\ NoHost \notin Seq(Chars)
      /\ Star \in Chars /\ Dot \in Chars /\ Star # Dot
  BY PatternAssumption, TextAssumption
<1>2. StartsWith(raw, <<Star, Dot>>) <=> Len(raw) >= 2 /\ raw[1] = Star /\ raw[2] = Dot BY StarAndDot
<1>9. ~(raw = <<>> \/ In(Colon, raw)) BY DEF ParseHost
<1>3. CASE raw = <<Star>>
  <2>1. Len(raw) = 1 /\ raw[1] = Star BY <1>3
  <2>2. ~StartsWith(raw, <<Star, Dot>>) BY <1>2, <2>1
  <2>4. ParseHost(raw) = Host("any", <<>>) BY <1>9, <1>3, <2>2 DEF ParseHost
  <2>5. ASSUME h # NoHost PROVE Glob(Lowered(raw), h)
    <3>1. Lowered(raw) \in Seq(Chars) /\ Len(Lowered(raw)) = 1 /\ Lowered(raw)[1] = Star
      BY <2>1, LoweredText
    <3>2. h \in Seq(Chars) /\ Len(h) >= 1 - 1 /\ \A m \in 1..(1 - 1) : FALSE BY <2>5
    <3> DEFINE p == Lowered(raw)
    <3> HIDE DEF p
    <3>3. Len(p) > 0 /\ ~In(Star, Tail(p))
      <4>1. p \in Seq(Chars) /\ Len(p) = 1 BY <3>1 DEF p
      <4>2. Tail(p) \in Seq(Chars) /\ Len(Tail(p)) = 0 BY <4>1, HeadTailProperties
      <4>3. DOMAIN Tail(p) = 1..0 BY <4>2, LenProperties
      <4> QED BY <4>1, <4>3 DEF In
    <3>4. Glob(p, h) <=> /\ Len(h) >= Len(p) - 1
                         /\ \A m \in 1..(Len(p) - 1) : h[(Len(h) - (Len(p) - 1)) + m] = p[1 + m]
      BY <3>1, <3>2, <3>3, SuffixGlob DEF p
    <3> QED BY <3>1, <3>2, <3>4 DEF p
  <2> QED BY <2>4, <2>5 DEF Names, HostGlob, Host
<1>4. CASE raw # <<Star>> /\ ~StartsWith(raw, <<Star, Dot>>)
  <2>1. ~In(Star, raw) BY <1>9, <1>4 DEF ParseHost
  <2>2. ParseHost(raw) = Host("literal", Lowered(raw)) BY <1>9, <1>4, <2>1 DEF ParseHost
  <2>3. Lowered(raw) \in Seq(Chars) /\ ~In(Star, Lowered(raw))
    BY <1>1, <2>1, LoweredText DEF In
  <2>4. h # NoHost => (Glob(Lowered(raw), h) <=> h = Lowered(raw)) BY <2>3, LiteralGlob
  <2>5. Names(ParseHost(raw), h) <=> h = Lowered(raw) BY <2>2 DEF Names, Host
  <2> QED BY <1>1, <1>4, <2>3, <2>4, <2>5 DEF HostGlob
<1>5. CASE raw # <<Star>> /\ StartsWith(raw, <<Star, Dot>>)
  <2> DEFINE suffix == SubSeq(raw, 3, Len(raw))
             d == Lowered(suffix)
             k == Len(h) - Len(d)
             p == Lowered(raw)
  <2>1. Len(raw) >= 2 /\ raw[1] = Star /\ raw[2] = Dot BY <1>2, <1>5
  <2>2. ~(suffix = <<>> \/ In(Star, suffix)) /\ ParseHost(raw) = Host("subdomains", d)
    BY <1>9, <1>5 DEF ParseHost
  <2>3. /\ suffix \in Seq(Chars) /\ Len(suffix) = Len(raw) - 2
        /\ \A m \in 1..Len(suffix) : suffix[m] = raw[m + 2]
    BY <1>1, <2>1
  <2>4. \A m \in 1..Len(suffix) : suffix[m] # Star
    <3>1. DOMAIN suffix = 1..Len(suffix) BY <2>3
    <3> HIDE DEF suffix
    <3> QED BY <2>2, <3>1 DEF In
  <2> HIDE DEF suffix
  <2>5. d \in Seq(Chars) /\ Len(d) = Len(suffix) /\ \A m \in 1..Len(d) : d[m] = Lower[suffix[m]]
        /\ d[m] # Star
    BY <2>3, <2>4, LoweredText
  <2>6. p \in Seq(Chars) /\ Len(p) = Len(d) + 2 /\ p[1] = Star /\ p[2] = Dot
    <3>1. Lower[Star] = Star /\ Lower[Dot] = Dot BY <1>1, PatternAssumption, TextAssumption
    <3>2. p \in Seq(Chars) /\ Len(p) = Len(raw) /\ \A i \in 1..Len(raw) : p[i] = Lower[raw[i]]
      BY LoweredText
    <3> HIDE DEF p, d
    <3> QED BY <1>1, <2>1, <2>3, <2>5, <3>1, <3>2
  <2>7. \A m \in 1..Len(d) : p[m + 2] = d[m]
    <3> TAKE m \in 1..Len(d)
    <3>1. m + 2 \in 1..Len(raw) /\ m \in 1..Len(suffix) BY <1>1, <2>1, <2>3, <2>5
    <3>2. p[m + 2] = Lower[raw[m + 2]]
      <4> DEFINE i == m + 2
      <4> HIDE DEF i
      <4>1. i \in 1..Len(raw) BY <3>1 DEF i
      <4>2. p[i] = Lower[raw[i]] BY <4>1, LoweredText
      <4> QED BY <4>2 DEF i
    <3>3. d[m] = Lower[suffix[m]] BY <2>5
    <3> HIDE DEF d, p
    <3> QED BY <2>3, <3>1, <3>2, <3>3
  <2>8. ASSUME h # NoHost PROVE HostGlob(raw, h) <=> UnderDomain(h, d)
    <3>1. h \in Seq(Chars) /\ Len(h) \in Nat /\ Len(d) \in Nat BY <2>5, <2>8
    <3>2. HostGlob(raw, h) <=> Glob(p, h) \/ Glob(d, h) BY <1>5 DEF HostGlob, suffix
    <3> HIDE DEF p, d
    <3>3. Glob(d, h) <=> h = d
      <4>1. ~In(Star, d)
        <5>1. DOMAIN d = 1..Len(d) BY <2>5
        <5> QED BY <2>5, <5>1 DEF In
      <4> QED BY <2>5, <3>1, <4>1, LiteralGlob
    <3>4. ~In(Star, Tail(p))
      <4>1. DOMAIN Tail(p) = 1..(Len(d) + 1) /\ \A m \in 1..(Len(d) + 1) : Tail(p)[m] = p[m + 1]
        BY <2>6, <3>1
      <4>2. ASSUME NEW m \in 1..(Len(d) + 1) PROVE p[m + 1] # Star
        <5>1. CASE m = 1
          <6>1. m + 1 = 2 BY <5>1
          <6> QED BY <1>1, <2>6, <6>1
        <5>2. CASE m # 1
          <6>1. m - 1 \in 1..Len(d) /\ (m - 1) + 2 = m + 1 BY <3>1, <5>2
          <6>2. p[(m - 1) + 2] = d[m - 1] /\ d[m - 1] # Star BY <2>5, <2>7, <6>1
          <6> QED BY <6>1, <6>2
        <5> QED BY <5>1, <5>2
      <4> QED BY <4>1, <4>2 DEF In
    <3> DEFINE n == Len(d) + 1
    <3>5. n \in Nat /\ Len(p) - 1 = n /\ Len(p) > 0 BY <2>6, <3>1
    <3>6. Glob(p, h) <=> Len(h) >= n /\ \A m \in 1..n : h[(Len(h) - n) + m] = p[1 + m]
      <4>1. Glob(p, h) <=> /\ Len(h) >= Len(p) - 1
                           /\ \A m \in 1..(Len(p) - 1) : h[(Len(h) - (Len(p) - 1)) + m] = p[1 + m]
        BY <2>6, <3>1, <3>4, <3>5, SuffixGlob
      <4> HIDE DEF n
      <4> QED BY <3>5, <4>1
    <3>7. ASSUME Glob(p, h) PROVE k > 0 /\ OccursAt(d, h, k) /\ h[k] = Dot
      <4>1. k > 0 /\ k \in 0..(Len(h) - Len(d)) /\ (Len(h) - n) + 1 = k /\ 1 \in 1..n /\ 1 + 1 = 2
        BY <3>1, <3>5, <3>6, <3>7
      <4>2. h[k] = Dot BY <2>6, <3>6, <3>7, <4>1
      <4>3. ASSUME NEW m \in 1..Len(d) PROVE h[k + m] = d[m]
        <5>1. m + 1 \in 1..n /\ (Len(h) - n) + (m + 1) = k + m /\ 1 + (m + 1) = m + 2 BY <3>1, <3>5
        <5> HIDE DEF n, k
        <5>2. h[(Len(h) - n) + (m + 1)] = p[1 + (m + 1)] BY <3>6, <3>7, <5>1
        <5> QED BY <2>7, <5>1, <5>2
      <4> QED BY <4>1, <4>2, <4>3 DEF OccursAt
    <3>8. ASSUME k > 0, OccursAt(d, h, k), h[k] = Dot PROVE Glob(p, h)
      <4>1. Len(h) >= n /\ (Len(h) - n) + 1 = k BY <3>1, <3>5, <3>8
      <4>2. ASSUME NEW m \in 1..n PROVE h[(Len(h) - n) + m] = p[1 + m]
        <5>1. CASE m = 1 BY <2>6, <3>8, <4>1, <5>1
        <5>2. CASE m # 1
          <6>1. m - 1 \in 1..Len(d) /\ k + (m - 1) = (Len(h) - n) + m /\ (m - 1) + 2 = 1 + m
            BY <3>1, <3>5, <5>2
          <6> HIDE DEF n, k
          <6>2. h[k + (m - 1)] = d[m - 1] /\ p[(m - 1) + 2] = d[m - 1]
            BY <2>7, <3>8, <6>1 DEF OccursAt
          <6> QED BY <6>1, <6>2
        <5> QED BY <5>1, <5>2
      <4> QED BY <3>6, <4>1, <4>2
    <3>9. h = d <=> k = 0 /\ OccursAt(d, h, 0)
      <4>1. ASSUME k = 0, OccursAt(d, h, 0) PROVE h = d
        <5>1. Len(h) = Len(d) /\ \A j \in 1..Len(h) : h[j] = d[j] BY <3>1, <4>1 DEF OccursAt
        <5> QED BY <2>5, <3>1, <5>1, SeqEqual
      <4>2. ASSUME h = d PROVE k = 0 /\ OccursAt(d, h, 0) BY <3>1, <4>2 DEF OccursAt
      <4> QED BY <4>1, <4>2
    <3>10. UnderDomain(h, d) <=> k \in 0..Len(h) /\ OccursAt(d, h, k) /\ (k = 0 \/ h[k] = Dot)
      <4>1. \A x \in 0..Len(h) : x + Len(d) = Len(h) <=> x = k BY <3>1
      <4> HIDE DEF k
      <4> QED BY <4>1 DEF UnderDomain
    <3>11. OccursAt(d, h, k) => k \in 0..Len(h) BY <3>1 DEF OccursAt
    <3>12. k \in 0..Len(h) => k = 0 \/ k > 0 OBVIOUS
    <3> HIDE DEF k
    <3> QED BY <3>2, <3>3, <3>6, <3>7, <3>8, <3>9, <3>10, <3>11, <3>12
  <2> HIDE DEF p, d
  <2> QED BY <2>2, <2>8 DEF Names, Host
<1> QED BY <1>3, <1>4, <1>5

\* ... whatever the case of the letters of the URL's host.
LEMMA HostTextMeaning ==
  ASSUME NEW raw \in Seq(Chars), NEW h \in Seq(Chars) \cup {NoHost}, ParseHost(raw) # BadHost
  PROVE  HostDenotes(ParseHost(raw), h) <=> h # NoHost /\ HostGlob(raw, Lowered(h))
<1> DEFINE m == ParseHost(raw)
<1>1. \/ m = Host("any", <<>>) \/ m = Host("literal", Lowered(raw))
      \/ m = Host("subdomains", Lowered(SubSeq(raw, 3, Len(raw))))
  BY DEF ParseHost
<1>2. CASE h # NoHost
  <2>1. /\ h \in Seq(Chars) /\ Lowered(h) \in Seq(Chars) /\ Lowered(h) # NoHost
        /\ Lowered(raw) \in Seq(Chars)
    BY <1>2, LoweredName, PatternAssumption
  <2>2. Names(m, Lowered(h)) <=> HostGlob(raw, Lowered(h)) BY <2>1, NameMeaning
  <2>3. m.kind = "literal" => (SameName(h, m.name) <=> Lowered(h) = m.name)
    <3> SUFFICES ASSUME m.kind = "literal" PROVE SameName(h, m.name) <=> Lowered(h) = m.name
      OBVIOUS
    <3>1. m.name = Lowered(raw) BY <1>1 DEF Host
    <3>2. SameName(h, m.name) <=> Lowered(h) = Lowered(Lowered(raw))
      BY <2>1, <3>1, SameWhenLowered
    <3> QED BY <3>1, <3>2, LoweredTwice
  <2> HIDE DEF m
  <2>4. HostDenotes(m, h) <=> Names(m, Lowered(h))
    <3>1. m.kind \in {"any", "literal", "subdomains"} BY <1>1 DEF Host
    <3>2. CASE m.kind = "any" BY <1>2, <2>1, <3>2 DEF HostDenotes, Names
    <3>3. CASE m.kind = "literal" BY <1>2, <2>3, <3>3 DEF HostDenotes, Names
    <3>4. CASE m.kind = "subdomains" BY <1>2, <2>1, <3>4 DEF HostDenotes, Names
    <3> QED BY <3>1, <3>2, <3>3, <3>4
  <2> QED BY <1>2, <2>2, <2>4 DEF m
<1>3. CASE h = NoHost
  <2> SUFFICES ASSUME HostDenotes(m, h) PROVE FALSE BY <1>3
  <2> HIDE DEF m
  <2>1. m.kind \in {"literal", "subdomains", "any"} BY <1>1 DEF Host
  <2>2. CASE m.kind = "any" BY <1>3, <2>2 DEF HostDenotes
  <2>3. CASE m.kind = "literal" BY <1>3, <2>3 DEF HostDenotes
  <2>4. CASE m.kind = "subdomains" BY <1>3, <2>4 DEF HostDenotes
  <2> QED BY <2>1, <2>2, <2>3, <2>4
<1> QED BY <1>2, <1>3

-----------------------------------------------------------------------------
(* The whole text.                                                           *)

\* A text with a slash has a first one, and is split there.
LEMMA Split ==
  ASSUME NEW t \in TextType, In(Slash, t.rest)
  PROVE  HostText(t) \in Seq(Chars) /\ PathText(t) \in Seq(Chars)
<1> DEFINE s == t.rest
           T == {k \in 1..Len(s) : s[k] = Slash}
           R == OpToRel(<, Nat)
<1>1. s \in Seq(Chars) /\ DOMAIN s = 1..Len(s) /\ Len(s) \in Nat BY DEF TextType
<1>2. T # {} /\ T \subseteq Nat BY <1>1 DEF In
<1>3. IsWellFoundedOn(R, Nat) BY NatLessThanWellFounded, Zenon
<1>4. \A m, n \in Nat : m < n => <<m, n>> \in R BY DEF R, OpToRel
<1> HIDE DEF R
<1>5. PICK k \in T : \A j \in T : ~(<<j, k>> \in R) BY <1>2, <1>3, WFMin
<1>6. \A j \in 1..(k - 1) : s[j] # Slash
  <2> SUFFICES ASSUME NEW j \in 1..(k - 1), s[j] = Slash PROVE FALSE OBVIOUS
  <2>1. j \in T /\ j \in Nat /\ k \in Nat /\ j < k BY <1>1
  <2> QED BY <1>4, <1>5, <2>1
<1> HIDE DEF s
<1>7. \E x \in DOMAIN s : s[x] = Slash /\ \A j \in 1..(x - 1) : s[j] # Slash BY <1>1, <1>5, <1>6
<1>8. SlashAt(s) \in 1..Len(s) BY <1>1, <1>7 DEF SlashAt
<1>9. \A i \in 1..Len(s) : s[i] \in Chars BY <1>1
<1> DEFINE a == SlashAt(s)
<1> HIDE DEF a
<1>10. a - 1 \in Int /\ a \in Int /\ Len(s) \in Int BY <1>1, <1>8 DEF a
<1>11. (\A i \in 1..(a - 1) : s[i] \in Chars) /\ (\A i \in a..Len(s) : s[i] \in Chars)
  BY <1>1, <1>8, <1>9 DEF a
<1>12. SubSeq(s, 1, a - 1) \in Seq(Chars) /\ SubSeq(s, a, Len(s)) \in Seq(Chars)
  BY <1>10, <1>11, SubSeqProperties
<1> QED BY <1>12 DEF HostText, PathText, a, s

\* A pattern that was parsed denotes the URLs its text means.
LEMMA TextMeaning ==
  ASSUME NEW t \in TextType, NEW u \in UrlType, Parse(t) \in PatternType
  PROVE  Denotes(Parse(t), u) <=> Means(t, u)
<1>1. CASE t = AllUrls BY <1>1 DEF Parse, Means, Denotes
<1>2. CASE t # AllUrls
  <2> DEFINE w    == LowerWord(t.scheme)
             host == IF w \in {"file", "data", "urn"} THEN EmptyHost(HostText(t))
                     ELSE ParseHost(HostText(t))
  <2>1. Refused \notin PatternType BY DEF Refused, PatternType, Schemes
  <2>2. SchemeAccepted(t.scheme) /\ In(Slash, t.rest) /\ host # BadHost
    BY <1>2, <2>1 DEF Parse
  <2>3. Parse(t) = [scheme |-> w, host |-> host, parts |-> ParsePath(PathText(t))]
    BY <1>2, <2>1 DEF Parse
  <2>4. /\ HostText(t) \in Seq(Chars) /\ PathText(t) \in Seq(Chars)
        /\ u.host \in Seq(Chars) \cup {NoHost} /\ u.path \in Seq(Chars)
    BY <2>2, Split DEF UrlType
  <2>5. /\ w # "<all_urls>" /\ (w = "*" <=> t.scheme = "*")
        /\ w \in {"file", "data", "urn"} <=> t.scheme \in {"file", "data", "urn"}
    BY <2>2 DEF SchemeAccepted, Schemes, LowerWord
  <2>6. PathDenotes(ParsePath(PathText(t)), u.path) <=> Glob(PathText(t), u.path)
    BY <2>4, PathMeaning
  <2>7. HostDenotes(host, u.host)
          <=> IF t.scheme \in {"file", "data", "urn"} THEN u.host \in {NoHost, <<>>}
              ELSE u.host # NoHost /\ HostGlob(HostText(t), Lowered(u.host))
    <3>1. CASE w \in {"file", "data", "urn"}
      <4>1. host = NoName BY <2>2, <3>1 DEF EmptyHost
      <4> HIDE DEF host
      <4>2. HostDenotes(host, u.host) <=> u.host \in {NoHost, <<>>}
        BY <4>1 DEF HostDenotes, NoName, Host
      <4> QED BY <2>5, <3>1, <4>2
    <3>2. CASE w \notin {"file", "data", "urn"}
      <4>1. host = ParseHost(HostText(t)) /\ ParseHost(HostText(t)) # BadHost BY <2>2, <3>2
      <4> HIDE DEF host
      <4>2. HostDenotes(host, u.host) <=> u.host # NoHost /\ HostGlob(HostText(t), Lowered(u.host))
        BY <2>4, <4>1, HostTextMeaning
      <4> QED BY <2>5, <3>2, <4>2
    <3> QED BY <3>1, <3>2
  <2> HIDE DEF w, host
  <2>8. Denotes(Parse(t), u)
          <=> /\ IF w = "*" THEN u.scheme \in StarSchemes ELSE u.scheme = w
              /\ HostDenotes(host, u.host) /\ PathDenotes(ParsePath(PathText(t)), u.path)
    BY <2>3, <2>5 DEF Denotes
  <2> QED BY <1>2, <2>5, <2>6, <2>7, <2>8 DEF Means, w
<1> QED BY <1>1, <1>2

\* A path has one part more than stars.
LEMMA PartsType ==
  ASSUME NEW raw \in Seq(Chars)
  PROVE  ParsePath(raw) \in Seq(Seq(Chars)) \ {<<>>}
<1> DEFINE N == StarsUpTo(raw, Len(raw)) + 1
           P == ParsePath(raw)
<1>1. /\ N \in Nat /\ N >= 1 /\ Len(P) = N
      /\ \A n \in 1..N : P[n] \in Seq(Chars)
  BY PartsAre
<1>2. P = [n \in 1..N |-> Piece(raw, n - 1)] BY DEF ParsePath
<1> HIDE DEF N, P
<1>3. P = [n \in 1..N |-> P[n]] BY <1>2
<1>4. P \in [1..N -> Seq(Chars)] BY <1>1, <1>3
<1>5. P \in Seq(Seq(Chars)) BY <1>1, <1>4
<1> QED BY <1>1, <1>5 DEF P

\* A text that is not refused gives a pattern,
LEMMA ParseType ==
  ASSUME NEW t \in TextType, Parse(t) # Refused
  PROVE  Parse(t) \in PatternType
<1>1. CASE t = AllUrls
  BY <1>1 DEF Parse, PatternType, NoName, Host, Schemes
<1>2. CASE t # AllUrls
  <2> DEFINE w    == LowerWord(t.scheme)
             host == IF w \in {"file", "data", "urn"} THEN EmptyHost(HostText(t))
                     ELSE ParseHost(HostText(t))
  <2>1. w \in Schemes \cup {"*"} /\ In(Slash, t.rest) /\ host # BadHost
    BY <1>2 DEF Parse, SchemeAccepted
  <2>2. Parse(t) = [scheme |-> w, host |-> host, parts |-> ParsePath(PathText(t))]
    BY <1>2 DEF Parse
  <2>3. HostText(t) \in Seq(Chars) /\ PathText(t) \in Seq(Chars) BY <2>1, Split
  <2>4. host \in [kind : {"none", "any", "subdomains", "literal"}, name : Seq(Chars)]
    <3>1. CASE w \in {"file", "data", "urn"}
      BY <2>1, <3>1 DEF EmptyHost, NoName, Host
    <3>2. CASE w \notin {"file", "data", "urn"}
      <4> DEFINE raw == HostText(t)
                 suffix == SubSeq(raw, 3, Len(raw))
      <4>1. host = ParseHost(raw) /\ ParseHost(raw) # BadHost BY <2>1, <3>2
      <4>2. Lowered(raw) \in Seq(Chars) /\ Lowered(suffix) \in Seq(Chars)
        <5>1. raw \in Seq(Chars) BY <2>3
        <5> HIDE DEF raw
        <5>2. suffix \in Seq(Chars) BY <5>1
        <5> QED BY <5>1, <5>2, LoweredName
      <4> HIDE DEF host, raw, suffix
      <4>3. \/ ParseHost(raw) = Host("any", <<>>) \/ ParseHost(raw) = Host("literal", Lowered(raw))
            \/ ParseHost(raw) = Host("subdomains", Lowered(suffix))
        BY <4>1 DEF ParseHost, suffix
      <4>4. host = ParseHost(raw) BY <4>1
      <4>5. CASE ParseHost(raw) = Host("any", <<>>)
        BY <4>4, <4>5 DEF Host
      <4>6. CASE ParseHost(raw) = Host("literal", Lowered(raw))
        BY <4>2, <4>4, <4>6 DEF Host
      <4>7. CASE ParseHost(raw) = Host("subdomains", Lowered(suffix))
        BY <4>2, <4>4, <4>7 DEF Host
      <4> QED BY <4>3, <4>5, <4>6, <4>7
    <3> QED BY <3>1, <3>2
  <2> HIDE DEF w, host
  <2> QED BY <2>1, <2>2, <2>3, <2>4, PartsType DEF PatternType
<1> QED BY <1>1, <1>2

\* ... a host is refused for a port, or for a star that is neither all of it nor in
\* front of a dot and a name,
LEMMA RefusedHost ==
  ASSUME NEW raw \in Seq(Chars)
  PROVE  ParseHost(raw) = BadHost
           <=> ~ /\ raw # <<>> /\ ~In(Colon, raw)
                 /\ \A k \in 1..Len(raw) :
                      raw[k] = Star => k = 1 /\ (Len(raw) = 1 \/ (Len(raw) > 2 /\ raw[2] = Dot))
<1> DEFINE Right(k) == k = 1 /\ (Len(raw) = 1 \/ (Len(raw) > 2 /\ raw[2] = Dot))
           suffix == SubSeq(raw, 3, Len(raw))
<1>1. Len(raw) \in Nat /\ DOMAIN raw = 1..Len(raw) /\ Star # Dot BY TextAssumption
<1>2. \A name : /\ Host("any", name) # BadHost /\ Host("literal", name) # BadHost
                /\ Host("subdomains", name) # BadHost
  BY DEF Host, BadHost
<1>3. CASE raw = <<>> \/ In(Colon, raw)
  BY <1>3 DEF ParseHost
<1>4. CASE ~(raw = <<>> \/ In(Colon, raw)) /\ raw = <<Star>>
  <2>1. Len(raw) = 1 /\ ~StartsWith(raw, <<Star, Dot>>) BY <1>4, StarAndDot
  <2>2. ParseHost(raw) = Host("any", <<>>) BY <1>4, <2>1 DEF ParseHost
  <2>3. \A k \in 1..Len(raw) : Right(k) BY <2>1
  <2> QED BY <1>2, <1>4, <2>2, <2>3
<1>5. CASE /\ ~(raw = <<>> \/ In(Colon, raw)) /\ raw # <<Star>>
           /\ StartsWith(raw, <<Star, Dot>>)
  <2>1. Len(raw) >= 2 /\ raw[1] = Star /\ raw[2] = Dot BY <1>5, StarAndDot
  <2>2. /\ suffix \in Seq(Chars) /\ Len(suffix) = Len(raw) - 2 /\ DOMAIN suffix = 1..Len(suffix)
        /\ \A m \in 1..Len(suffix) : suffix[m] = raw[m + 2]
    BY <1>1, <2>1
  <2>3. ParseHost(raw) = BadHost <=> suffix = <<>> \/ In(Star, suffix)
    BY <1>2, <1>5 DEF ParseHost
  <2> HIDE DEF suffix
  <2>4. suffix = <<>> <=> Len(raw) = 2 BY <1>1, <2>1, <2>2
  <2>5. In(Star, suffix) <=> \E k \in 3..Len(raw) : raw[k] = Star
    <3>1. ASSUME In(Star, suffix) PROVE \E k \in 3..Len(raw) : raw[k] = Star
      <4>1. PICK m \in 1..Len(suffix) : suffix[m] = Star BY <2>2, <3>1 DEF In
      <4>2. m + 2 \in 3..Len(raw) /\ raw[m + 2] = Star BY <1>1, <2>2, <4>1
      <4> QED BY <4>2
    <3>2. ASSUME NEW k \in 3..Len(raw), raw[k] = Star PROVE In(Star, suffix)
      <4>1. k - 2 \in 1..Len(suffix) /\ (k - 2) + 2 = k BY <1>1, <2>2
      <4>2. suffix[k - 2] = raw[(k - 2) + 2] BY <2>2, <4>1
      <4> QED BY <2>2, <3>2, <4>1, <4>2 DEF In
    <3> QED BY <3>1, <3>2
  <2>6. (\A k \in 1..Len(raw) : raw[k] = Star => Right(k))
          <=> Len(raw) > 2 /\ \A k \in 3..Len(raw) : raw[k] # Star
    BY <1>1, <2>1
  <2> QED BY <1>1, <1>5, <2>1, <2>3, <2>4, <2>5, <2>6
<1>6. CASE /\ ~(raw = <<>> \/ In(Colon, raw)) /\ raw # <<Star>>
           /\ ~StartsWith(raw, <<Star, Dot>>)
  <2>1. ParseHost(raw) = BadHost <=> In(Star, raw) BY <1>2, <1>6 DEF ParseHost
  <2>2. ASSUME NEW k \in 1..Len(raw), raw[k] = Star PROVE ~Right(k)
    <3> SUFFICES ASSUME Right(k) PROVE FALSE OBVIOUS
    <3>1. k = 1 /\ raw[1] = Star BY <2>2
    <3>2. CASE Len(raw) = 1
      <4>1. Len(<<Star>>) = 1 /\ \A i \in 1..1 : <<Star>>[i] = raw[i] BY <3>1
      <4>2. <<Star>> \in Seq(Chars) BY TextAssumption
      <4> QED BY <1>6, <3>2, <4>1, <4>2, SeqEqual
    <3>3. CASE Len(raw) > 2 /\ raw[2] = Dot
      BY <1>1, <1>6, <3>1, <3>3, StarAndDot
    <3> QED BY <3>2, <3>3
  <2>3. In(Star, raw) <=> \E k \in 1..Len(raw) : raw[k] = Star BY <1>1 DEF In
  <2> QED BY <1>6, <2>1, <2>2, <2>3
<1> QED BY <1>3, <1>4, <1>5, <1>6

\* ... and those that are refused are not in the grammar.
LEMMA RefusedText ==
  ASSUME NEW t \in TextType
  PROVE  Parse(t) = Refused <=> ~WellFormed(t)
<1>1. CASE t = AllUrls
  BY <1>1 DEF Parse, WellFormed, Refused
<1>2. CASE t # AllUrls /\ ~(t.sep /\ SchemeAccepted(t.scheme) /\ In(Slash, t.rest))
  BY <1>2 DEF Parse, WellFormed, SchemeAccepted
<1>3. CASE t # AllUrls /\ t.sep /\ SchemeAccepted(t.scheme) /\ In(Slash, t.rest)
  <2> DEFINE w    == LowerWord(t.scheme)
             raw  == HostText(t)
             host == IF w \in {"file", "data", "urn"} THEN EmptyHost(raw) ELSE ParseHost(raw)
  <2>1. raw \in Seq(Chars) BY <1>3, Split
  <2>2. Parse(t) = Refused <=> host = BadHost
    <3>1. w # "malformed" BY <1>3 DEF SchemeAccepted, Schemes
    <3>2. Parse(t) = IF host = BadHost THEN Refused
                     ELSE [scheme |-> w, host |-> host, parts |-> ParsePath(PathText(t))]
      BY <1>3 DEF Parse
    <3> HIDE DEF w, host
    <3> QED BY <3>1, <3>2 DEF Refused
  <2>3. CASE w \in {"file", "data", "urn"}
    BY <1>3, <2>2, <2>3 DEF EmptyHost, NoName, BadHost, Host, WellFormed, SchemeAccepted
  <2>4. CASE w \notin {"file", "data", "urn"}
    <3>1. ParseHost(raw) = BadHost
            <=> ~ /\ raw # <<>> /\ ~In(Colon, raw)
                  /\ \A k \in 1..Len(raw) :
                       raw[k] = Star => k = 1 /\ (Len(raw) = 1 \/ (Len(raw) > 2 /\ raw[2] = Dot))
      BY <2>1, RefusedHost
    <3> QED BY <1>3, <2>2, <2>4, <3>1 DEF WellFormed, SchemeAccepted
  <2> QED BY <2>3, <2>4
<1> QED BY <1>1, <1>2, <1>3

\* For any texts over any characters, parse refuses those the grammar does not have,
\* and on any URL matches answers what the text of every other one means: stars,
\* case and the pieces of the path included.
THEOREM TextIsDecided == TextSpec => []TextVerdict
<1> DEFINE TextInv == /\ text \in Texts /\ pattern = Parse(text)
                      /\ \/ pattern = Refused /\ at = "refused"
                         \/ pattern # Refused /\ Inv
<1>1. TextInit => TextInv
  <2> SUFFICES ASSUME TextInit PROVE TextInv OBVIOUS
  <2>1. CASE pattern = Refused BY <2>1 DEF TextInit
  <2>2. CASE pattern # Refused
    <3>1. pattern \in PatternType BY <2>2, ParseType, TextAssumption DEF TextInit
    <3>2. Init BY <2>2, <3>1 DEF TextInit, Init
    <3> QED BY <2>2, <3>2, InitInv DEF TextInit
  <2> QED BY <2>1, <2>2
<1>2. TextInv /\ [Next /\ UNCHANGED text]_<<vars, text>> => TextInv'
  <2> SUFFICES ASSUME TextInv, [Next /\ UNCHANGED text]_<<vars, text>> PROVE TextInv'
    OBVIOUS
  <2>1. [Next]_vars /\ text' = text BY DEF vars
  <2>2. pattern' = pattern
    BY <2>1 DEF vars, Next, MatchAllUrls, MatchScheme, MatchHost, MatchExact, MatchFirst,
       FindNext, MatchLast, Decide, GoOn
  <2>3. CASE pattern = Refused
    <3>1. at = "refused" BY <2>3
    <3>2. at' = at
      BY <2>1, <3>1 DEF vars, Next, MatchAllUrls, MatchScheme, MatchHost, MatchExact, MatchFirst,
         FindNext, MatchLast, Decide, GoOn
    <3> QED BY <2>1, <2>2, <2>3, <3>1, <3>2
  <2>4. CASE pattern # Refused
    <3>1. Inv' BY <2>1, <2>4, NextInv
    <3> QED BY <2>1, <2>2, <2>4, <3>1
  <2> QED BY <2>3, <2>4
<1>3. TextInv => TextVerdict
  <2> SUFFICES ASSUME TextInv PROVE TextVerdict OBVIOUS
  <2>1. text \in TextType /\ (pattern = Refused <=> ~WellFormed(text))
    BY TextAssumption, RefusedText
  <2>2. CASE pattern = Refused BY <2>1, <2>2 DEF TextVerdict
  <2>3. CASE pattern # Refused
    <3>1. /\ url \in UrlType /\ Parse(text) \in PatternType /\ at # "refused"
          /\ (at \in {"yes", "no"} => (at = "yes" <=> Denotes(Parse(text), url)))
      BY <2>3, PatternAssumption DEF Inv, TypeOK, Verdict
    <3>2. Denotes(Parse(text), url) <=> Means(text, url) BY <2>1, <3>1, TextMeaning
    <3> QED BY <2>1, <2>3, <3>1, <3>2 DEF TextVerdict
  <2> QED BY <2>2, <2>3
<1> QED BY <1>1, <1>2, <1>3, PTL DEF TextSpec
=============================================================================
