-------------------------- MODULE ResourcesProofs --------------------------
(***************************************************************************)
(* The resource scheme, for any extensions, packages, references and       *)
(* windows: what a worker is served, what a web page is served, and that   *)
(* onInstalled is heard.                                                   *)
(***************************************************************************)
EXTENDS Resources, SequenceTheorems, WellFoundedInduction, TLAPS

-----------------------------------------------------------------------------
(* Induction, and what the URL parser does to paths. *)

\* A set of numbers with 0 and every successor is all of them.
LEMMA Induction ==
  ASSUME NEW S, 0 \in S, \A n \in Nat : n \in S => n + 1 \in S
  PROVE  Nat \subseteq S
<1> DEFINE R == OpToRel(<, Nat)
<1>1. IsWellFoundedOn(R, Nat) BY NatLessThanWellFounded
<1>2. \A m, n \in Nat : m < n => <<m, n>> \in R BY DEF R, OpToRel
<1> HIDE DEF R
<1> SUFFICES ASSUME Nat \ S # {} PROVE FALSE OBVIOUS
<1>3. PICK n \in Nat \ S : \A m \in Nat \ S : ~(<<m, n>> \in R) BY <1>1, WFMin
<1>4. n # 0 /\ n \in Nat BY <1>3
<1>5. n - 1 \in Nat /\ n - 1 < n /\ (n - 1) + 1 = n BY <1>4
<1>6. n - 1 \in Nat \ S BY <1>5, <1>3
<1> QED BY <1>2, <1>3, <1>5, <1>6

\* What the first n segments come to, from what those before them come to.
WalkStep(walked, p, n) == IF n = 0 THEN <<>> ELSE Step(walked[n - 1], p[n])

\* There is a function that satisfies Walked's recursion.
LEMMA WalkExists ==
  ASSUME NEW p, NEW k \in Nat
  PROVE  \E walked : walked = [n \in 0 .. k |-> WalkStep(walked, p, n)]
<1> DEFINE D == {j \in Nat : \E f : f = [n \in 0 .. j |-> WalkStep(f, p, n)]}
<1>1. 0 \in D
  <2> DEFINE f == [n \in 0 .. 0 |-> <<>>]
  <2>1. f = [n \in 0 .. 0 |-> WalkStep(f, p, n)] BY DEF WalkStep
  <2> HIDE DEF f
  <2> QED BY <2>1
<1>2. ASSUME NEW j \in Nat, j \in D PROVE j + 1 \in D
  <2>1. PICK f : f = [n \in 0 .. j |-> WalkStep(f, p, n)] BY <1>2
  <2> DEFINE g == [n \in 0 .. (j + 1) |-> IF n = j + 1 THEN WalkStep(f, p, n) ELSE f[n]]
  <2>2. \A n \in 0 .. (j + 1) : g[n] = WalkStep(g, p, n)
    <3> TAKE n \in 0 .. (j + 1)
    <3>1. n # 0 => g[n - 1] = f[n - 1] OBVIOUS
    <3>2. WalkStep(g, p, n) = WalkStep(f, p, n) BY <3>1 DEF WalkStep
    <3>3. n \in 0 .. j => f[n] = WalkStep(f, p, n) BY <2>1
    <3> QED BY <3>2, <3>3
  <2>3. g = [n \in 0 .. (j + 1) |-> g[n]] OBVIOUS
  <2> HIDE DEF g
  <2>4. g = [n \in 0 .. (j + 1) |-> WalkStep(g, p, n)] BY <2>2, <2>3
  <2> QED BY <2>4
<1> HIDE DEF D
<1>3. k \in D BY <1>1, <1>2, Induction
<1> QED BY <1>3 DEF D

\* So Walked satisfies its recursion.
LEMMA WalkedIs ==
  ASSUME NEW p, Len(p) \in Nat
  PROVE  \A n \in 0 .. Len(p) : Walked(p)[n] = WalkStep(Walked(p), p, n)
<1>1. \E walked : walked = [n \in 0 .. Len(p) |-> WalkStep(walked, p, n)] BY WalkExists
<1>2. Walked(p) = CHOOSE walked : walked = [n \in 0 .. Len(p) |-> WalkStep(walked, p, n)]
  BY DEF Walked, WalkStep
<1>3. Walked(p) = [n \in 0 .. Len(p) |-> WalkStep(Walked(p), p, n)] BY <1>1, <1>2
<1> QED BY <1>3

\* One step keeps a path a path, of segments the parser leaves alone.
LEMMA StepType ==
  ASSUME NEW S, NEW p \in Seq(S \ {Up, Dot}), NEW s \in S
  PROVE  Step(p, s) \in Seq(S \ {Up, Dot})
<1>1. CASE p = <<>>
  <2>1. s \notin {Up, Dot} => Append(p, s) \in Seq(S \ {Up, Dot}) BY AppendProperties
  <2> QED BY <1>1, <2>1 DEF Step
<1>2. CASE p # <<>>
  <2>1. Len(p) - 1 \in 0 .. Len(p) BY <1>2, LenProperties, EmptySeq
  <2>2. Front(p) \in Seq(S \ {Up, Dot}) BY <2>1, <1>2 DEF Front
  <2>3. s \notin {Up, Dot} => Append(p, s) \in Seq(S \ {Up, Dot}) BY AppendProperties
  <2> QED BY <1>2, <2>2, <2>3 DEF Step
<1> QED BY <1>1, <1>2

\* A cleaned path has no ".." and no "." in it.
LEMMA CleanedType ==
  ASSUME NEW S, NEW p \in Seq(S)
  PROVE  Cleaned(p) \in Seq(S \ {Up, Dot})
<1> DEFINE W == Walked(p)
           D == {n \in Nat : n <= Len(p) => W[n] \in Seq(S \ {Up, Dot})}
<1>1. Len(p) \in Nat BY LenProperties
<1>2. \A n \in 0 .. Len(p) : W[n] = WalkStep(W, p, n) BY <1>1, WalkedIs
<1> HIDE DEF W
<1>3. 0 \in D
  <2>1. W[0] = <<>> BY <1>1, <1>2 DEF WalkStep
  <2>2. <<>> \in Seq(S \ {Up, Dot}) OBVIOUS
  <2> QED BY <2>1, <2>2
<1>4. ASSUME NEW n \in Nat, n \in D PROVE n + 1 \in D
  <2> SUFFICES ASSUME n + 1 <= Len(p) PROVE W[n + 1] \in Seq(S \ {Up, Dot}) OBVIOUS
  <2>1. W[n] \in Seq(S \ {Up, Dot}) BY <1>1, <1>4
  <2>2. n + 1 \in 0 .. Len(p) /\ n + 1 # 0 /\ n + 1 \in 1 .. Len(p) /\ (n + 1) - 1 = n BY <1>1
  <2>3. W[n + 1] = Step(W[n], p[n + 1]) BY <1>2, <2>2 DEF WalkStep
  <2>4. p[n + 1] \in S BY <2>2, ElementOfSeq
  <2> QED BY <2>1, <2>3, <2>4, StepType
<1> HIDE DEF D
<1>5. Len(p) \in D BY <1>1, <1>3, <1>4, Induction
<1> QED BY <1>1, <1>5 DEF D, W, Cleaned

\* What a step makes of a path makes it of the path behind a name, unless it
\* climbs over the name.
LEMMA StepBehind ==
  ASSUME NEW T, NEW i \in T, NEW p \in Seq(T), NEW s \in T \cup {Up, Dot},
         NEW v \in {<<i>> \o p, p}
  PROVE  Step(v, s) \in {<<i>> \o Step(p, s), Step(p, s)}
<1> SUFFICES ASSUME v = <<i>> \o p PROVE Step(v, s) \in {<<i>> \o Step(p, s), Step(p, s)}
  OBVIOUS
<1> DEFINE ip == <<i>> \o p
<1>1. /\ ip \in Seq(T) /\ Len(ip) = Len(p) + 1 /\ Len(p) \in Nat /\ ip # <<>>
      /\ \A n \in 1 .. Len(ip) : ip[n] = IF n = 1 THEN i ELSE p[n - 1]
  OBVIOUS
<1>2. CASE s = Up /\ p = <<>>
  <2>1. Front(ip) = <<>> BY <1>1, <1>2 DEF Front
  <2> QED BY <1>1, <1>2, <2>1 DEF Step
<1>3. CASE s = Up /\ p # <<>>
  <2>1. Len(p) - 1 \in 0 .. Len(p) /\ Len(ip) - 1 \in 0 .. Len(ip) BY <1>1, <1>3, EmptySeq
  <2>2. /\ Front(p) \in Seq(T) /\ Len(Front(p)) = Len(p) - 1
        /\ \A n \in 1 .. (Len(p) - 1) : Front(p)[n] = p[n]
    BY <2>1, <1>1 DEF Front
  <2>3. /\ Front(ip) \in Seq(T) /\ Len(Front(ip)) = Len(p)
        /\ \A n \in 1 .. Len(p) : Front(ip)[n] = ip[n]
    BY <2>1, <1>1 DEF Front
  <2> DEFINE iq == <<i>> \o Front(p)
  <2>4. /\ iq \in Seq(T) /\ Len(iq) = Len(p)
        /\ \A n \in 1 .. Len(p) : iq[n] = IF n = 1 THEN i ELSE Front(p)[n - 1]
    BY <2>2, <2>1, <1>1
  <2> HIDE DEF iq, ip
  <2>5. ASSUME NEW n \in 1 .. Len(p) PROVE Front(ip)[n] = iq[n]
    <3>1. n \in 1 .. Len(ip) /\ (n # 1 => n - 1 \in 1 .. (Len(p) - 1)) BY <1>1
    <3>2. ip[n] = IF n = 1 THEN i ELSE p[n - 1] BY <1>1, <3>1
    <3> QED BY <2>2, <2>3, <2>4, <3>1, <3>2
  <2>6. Front(ip) = iq BY <2>3, <2>4, <2>5, SeqEqual
  <2> QED BY <1>1, <1>3, <2>6 DEF Step, iq, ip
<1>4. CASE s = Dot /\ s # Up BY <1>4 DEF Step
<1>5. CASE s # Up /\ s # Dot
  <2>1. Append(<<i>> \o p, s) = <<i>> \o Append(p, s)
    <3>1. /\ Append(ip, s) \in Seq(T) /\ Len(Append(ip, s)) = Len(p) + 2
          /\ \A n \in 1 .. (Len(p) + 2) : Append(ip, s)[n] = IF n = Len(p) + 2 THEN s ELSE ip[n]
      BY <1>1, <1>5
    <3>2. /\ Append(p, s) \in Seq(T) /\ Len(Append(p, s)) = Len(p) + 1
          /\ \A n \in 1 .. (Len(p) + 1) : Append(p, s)[n] = IF n = Len(p) + 1 THEN s ELSE p[n]
      BY <1>1, <1>5
    <3> DEFINE iq == <<i>> \o Append(p, s)
    <3>3. /\ iq \in Seq(T) /\ Len(iq) = Len(p) + 2
          /\ \A n \in 1 .. (Len(p) + 2) : iq[n] = IF n = 1 THEN i ELSE Append(p, s)[n - 1]
      BY <3>2, <1>1
    <3> HIDE DEF iq, ip
    <3>4. ASSUME NEW n \in 1 .. (Len(p) + 2) PROVE Append(ip, s)[n] = iq[n]
      <4>1. n # 1 => n - 1 \in 1 .. (Len(p) + 1) BY <1>1
      <4>2. n # Len(p) + 2 => n \in 1 .. Len(ip) BY <1>1
      <4>3. n # Len(p) + 2 => ip[n] = IF n = 1 THEN i ELSE p[n - 1] BY <1>1, <4>2
      <4>4. n # 1 => iq[n] = IF n - 1 = Len(p) + 1 THEN s ELSE p[n - 1] BY <3>2, <3>3, <4>1
      <4> QED BY <3>1, <3>3, <4>3, <4>4, <1>1
    <3> QED BY <3>1, <3>3, <3>4, SeqEqual DEF iq, ip
  <2> QED BY <1>5, <2>1 DEF Step
<1> QED BY <1>2, <1>3, <1>4, <1>5

\* A name in front of a path stays in front of what the path comes to, or is
\* climbed over and gone.
LEMMA CleanedBehind ==
  ASSUME NEW S, NEW i \in S \ {Up, Dot}, NEW q \in Seq(S)
  PROVE  Cleaned(<<i>> \o q) \in {<<i>> \o Cleaned(q), Cleaned(q)}
<1> DEFINE iq == <<i>> \o q
           W == Walked(q)
           V == Walked(iq)
           D == {n \in Nat : n <= Len(q) => /\ W[n] \in Seq(S \ {Up, Dot})
                                            /\ V[n + 1] \in {<<i>> \o W[n], W[n]}}
<1>1. /\ iq \in Seq(S) /\ Len(iq) = Len(q) + 1 /\ Len(q) \in Nat
      /\ iq[1] = i /\ \A n \in 1 .. Len(q) : iq[n + 1] = q[n] /\ q[n] \in S
  OBVIOUS
<1> HIDE DEF iq
<1>2. \A n \in 0 .. Len(q) : W[n] = WalkStep(W, q, n) BY <1>1, WalkedIs
<1>3. \A n \in 0 .. (Len(q) + 1) : V[n] = WalkStep(V, iq, n) BY <1>1, WalkedIs
<1> HIDE DEF W, V
<1>4. 0 \in D
  <2>1. W[0] = <<>> BY <1>1, <1>2 DEF WalkStep
  <2>2. V[0] = <<>> /\ V[1] = Step(V[0], iq[1]) BY <1>1, <1>3 DEF WalkStep
  <2>3. V[1] = <<i>> \o W[0] BY <1>1, <2>1, <2>2 DEF Step
  <2>4. W[0] \in Seq(S \ {Up, Dot}) BY <2>1, EmptySeq
  <2>5. V[0 + 1] = V[1] OBVIOUS
  <2> QED BY <2>3, <2>4, <2>5
<1>5. ASSUME NEW n \in Nat, n \in D PROVE n + 1 \in D
  <2> SUFFICES ASSUME n + 1 <= Len(q)
               PROVE  /\ W[n + 1] \in Seq(S \ {Up, Dot})
                      /\ V[n + 2] \in {<<i>> \o W[n + 1], W[n + 1]}
    <3>1. n + 1 \in Nat /\ (n + 1) + 1 = n + 2 OBVIOUS
    <3>2. V[(n + 1) + 1] = V[n + 2] BY <3>1
    <3> QED BY <3>1, <3>2 DEF D
  <2> DEFINE s == q[n + 1]
  <2>1. W[n] \in Seq(S \ {Up, Dot}) /\ V[n + 1] \in {<<i>> \o W[n], W[n]} BY <1>1, <1>5
  <2>2. s \in S /\ iq[n + 2] = s BY <1>1
  <2>3. W[n + 1] = Step(W[n], s)
    <3>1. n + 1 \in 0 .. Len(q) /\ n + 1 # 0 /\ (n + 1) - 1 = n BY <1>1
    <3> QED BY <3>1, <1>2 DEF WalkStep
  <2>4. V[n + 2] = Step(V[n + 1], s)
    <3>1. n + 2 \in 0 .. (Len(q) + 1) /\ n + 2 # 0 /\ (n + 2) - 1 = n + 1 BY <1>1
    <3> QED BY <3>1, <2>2, <1>3 DEF WalkStep
  <2> HIDE DEF s
  <2>5. W[n + 1] \in Seq(S \ {Up, Dot}) BY <2>1, <2>2, <2>3, StepType
  <2> DEFINE T == S \ {Up, Dot}
  <2>6. i \in T /\ W[n] \in Seq(T) /\ s \in T \cup {Up, Dot} BY <2>1, <2>2
  <2> HIDE DEF T
  <2>7. Step(V[n + 1], s) \in {<<i>> \o Step(W[n], s), Step(W[n], s)} BY <2>1, <2>6, StepBehind
  <2> QED BY <2>3, <2>4, <2>5, <2>7
<1> HIDE DEF D
<1>6. Len(q) \in D BY <1>1, <1>4, <1>5, Induction
<1>7. V[Len(q) + 1] \in {<<i>> \o W[Len(q)], W[Len(q)]} BY <1>1, <1>6 DEF D
<1> QED BY <1>1, <1>7 DEF V, W, iq, Cleaned

\* Paths of files, as the parser leaves them.
CleanPaths == Seq(Segments \ (Ids \cup {Up, Dot}))

LEMMA CleanPath ==
  ASSUME NEW q \in Paths
  PROVE  Cleaned(q) \in CleanPaths /\ Cleaned(q) \in Paths
<1> DEFINE S == Segments \ Ids
<1>1. Cleaned(q) \in Seq(S \ {Up, Dot})
  <2>1. q \in Seq(S) BY DEF Paths
  <2> HIDE DEF S
  <2> QED BY <2>1, CleanedType
<1>2. S \ {Up, Dot} = Segments \ (Ids \cup {Up, Dot}) OBVIOUS
<1>3. \A p \in Seq(S \ {Up, Dot}) : p \in Seq(S) OBVIOUS
<1> QED BY <1>1, <1>2, <1>3 DEF CleanPaths, Paths

LEMMA EntryType ==
  ASSUME NEW p \in PackageType
  PROVE  Entry(p) \in Paths /\ BaseDir(p) \in Paths
<1>1. p.entry \in Paths BY DEF PackageType
<1>2. p.entry # <<>> => Tail(p.entry) \in Paths BY <1>1, HeadTailProperties DEF Paths
<1>3. Entry(p) \in Paths BY <1>1, <1>2 DEF Entry
<1>4. ASSUME NEW e \in Seq(Segments \ Ids) PROVE Front(e) \in Seq(Segments \ Ids)
  <2>1. Len(e) \in Nat BY LenProperties
  <2>2. Len(e) = 0 => 1 .. (Len(e) - 1) = {} OBVIOUS
  <2>3. \A n \in 1 .. (Len(e) - 1) : n \in 1 .. Len(e) BY <2>1
  <2> QED BY <2>1, <2>2, <2>3 DEF Front
<1> QED BY <1>3, <1>4 DEF BaseDir, Paths

\* A name the parser leaves alone, in front of a path.
LEMMA Behind ==
  ASSUME NEW i \in Ids, NEW m \in CleanPaths
  PROVE  /\ <<i>> \o m \in Addresses /\ m \in Addresses
         /\ Len(<<i>> \o m) = Len(m) + 1 /\ Len(m) \in Nat
         /\ Head(<<i>> \o m) = i /\ Tail(<<i>> \o m) = m
         /\ m # <<>> => Head(m) \notin Ids
         /\ m # <<i>> \o m
<1> USE DEF CleanPaths, Addresses
<1>1. m \in Seq(Segments) OBVIOUS
<1>2. i \in Segments BY ResourcesAssumption
<1>3. Tail(<<i>> \o m) = m
  <2>1. Tail(<<i>> \o m) \in Seq(Segments) /\ Len(Tail(<<i>> \o m)) = Len(m) BY <1>1, <1>2
  <2>2. \A n \in 1 .. Len(m) : Tail(<<i>> \o m)[n] = m[n] BY <1>1, <1>2
  <2> QED BY <1>1, <2>1, <2>2, SeqEqual
<1>4. m # <<>> => Head(m) \in Segments \ (Ids \cup {Up, Dot}) BY HeadTailProperties
<1>5. m # <<>> => Head(m) \notin Ids BY <1>4
<1>6. <<i>> \o m \in Seq(Segments) /\ Len(<<i>> \o m) = Len(m) + 1 /\ Len(m) \in Nat
  BY <1>1, <1>2
<1>7. Head(<<i>> \o m) = i BY <1>1, <1>2
<1>8. m # <<i>> \o m
  <2>1. Len(m) # Len(m) + 1 BY <1>6
  <2> QED BY <2>1, <1>6
<1> QED BY <1>1, <1>3, <1>5, <1>6, <1>7, <1>8

\* Quoting keeps the name, and a plain path behind it.
LEMMA EncodeBehind ==
  ASSUME NEW i \in Ids, NEW m \in CleanPaths, Plain(m)
  PROVE  Encode(<<i>> \o m) = <<i>> \o m
<1> DEFINE im == <<i>> \o m
<1>1. m \in Seq(Segments) BY DEF CleanPaths
<1>2. i \in Segments /\ Encoded[i] = i BY ResourcesAssumption
<1>3. /\ im \in Seq(Segments) /\ Len(im) = Len(m) + 1 /\ Len(m) \in Nat
      /\ \A n \in 1 .. Len(im) : im[n] = IF n = 1 THEN i ELSE m[n - 1]
  BY <1>1, <1>2
<1>4. im = [n \in 1 .. Len(im) |-> im[n]] BY <1>3
<1>5. DOMAIN m = 1 .. Len(m) /\ DOMAIN im = 1 .. Len(im) BY <1>1, <1>3
<1>6. \A n \in 1 .. Len(m) : Encoded[m[n]] = m[n] BY <1>1, <1>5 DEF Plain, Encode
<1> HIDE DEF im
<1>7. ASSUME NEW n \in 1 .. Len(im) PROVE Encoded[im[n]] = im[n]
  <2>1. n # 1 => n - 1 \in 1 .. Len(m) BY <1>3
  <2> QED BY <2>1, <1>2, <1>3, <1>6
<1>8. Encode(im) = im BY <1>4, <1>5, <1>7 DEF Encode
<1> QED BY <1>8 DEF im

\* Quoting gives a path.
LEMMA EncodeType ==
  ASSUME NEW p \in Addresses
  PROVE  Encode(p) \in Addresses
<1>1. DOMAIN p = 1 .. Len(p) /\ Len(p) \in Nat BY DEF Addresses
<1>2. \A n \in 1 .. Len(p) : Encoded[p[n]] \in Segments BY <1>1, ResourcesAssumption DEF Addresses
<1> QED BY <1>1, <1>2 DEF Encode, Addresses

\* A file asked for with an address that starts with the id is asked for there,
\* or at its own path if the address climbs over the id.
LEMMA AskedBehind ==
  ASSUME NEW i \in Ids, NEW q \in Paths, Plain(Cleaned(q))
  PROVE  Encode(Cleaned(<<i>> \o q)) \in {<<i>> \o Cleaned(q), Cleaned(q)}
<1>1. Cleaned(<<i>> \o q) \in {<<i>> \o Cleaned(q), Cleaned(q)}
  <2>1. i \in Segments \ {Up, Dot} BY ResourcesAssumption
  <2>2. q \in Seq(Segments) BY DEF Paths
  <2> QED BY <2>1, <2>2, CleanedBehind
<1>2. Cleaned(q) \in CleanPaths BY CleanPath
<1>3. Encode(<<i>> \o Cleaned(q)) = <<i>> \o Cleaned(q) BY <1>2, EncodeBehind
<1>4. Encode(Cleaned(q)) = Cleaned(q) BY DEF Plain
<1> QED BY <1>1, <1>3, <1>4

\* The file a background window's address means.
LEMMA FileOf ==
  ASSUME NEW i \in Ids, NEW m \in CleanPaths, NEW path \in {<<i>> \o m, m}
  PROVE  \/ BgRequestRel(i, path) = m
         \/ m = <<>> /\ BgRequestRel(i, path) = <<i>>
<1>1. /\ Len(<<i>> \o m) = Len(m) + 1 /\ Len(m) \in Nat
      /\ Head(<<i>> \o m) = i /\ Tail(<<i>> \o m) = m
      /\ m # <<>> => Head(m) \notin Ids
  BY Behind
<1>2. Len(m) = 0 => m = <<>> BY EmptySeq DEF CleanPaths
<1>3. m = <<>> => <<i>> \o m = <<i>> OBVIOUS
<1>4. CASE path = m
  <2>1. Len(m) > 1 => m # <<>> OBVIOUS
  <2> QED BY <1>1, <1>4, <2>1 DEF BgRequestRel
<1>5. CASE path = <<i>> \o m
  <2>1. CASE Len(m) = 0
    <3>1. path = <<i>> /\ m = <<>> BY <2>1, <1>2, <1>3, <1>5
    <3> QED BY <3>1 DEF BgRequestRel
  <2>2. CASE Len(m) > 0
    <3>1. Len(path) > 1 /\ Head(path) = i /\ Tail(path) = m BY <2>2, <1>1, <1>5
    <3> QED BY <3>1 DEF BgRequestRel
  <2> QED BY <1>1, <2>1, <2>2
<1> QED BY <1>4, <1>5

-----------------------------------------------------------------------------
(* The invariant. *)

\* What is served and what is projected for an extension in its package.
Rec(i) == [dir |-> life[i].dir, war |-> life[i].package.war]

\* The tables follow the lifecycle: the root from the first step of an install
\* to the last but one of an uninstall, the projection one step behind.
PublishedAt(i) ==
  /\ life[i].phase \in {"rooted", "open", "ready", "closed"} => roots[i] = Rec(i)
  /\ life[i].phase \in {"gone", "unrooted"} => roots[i] = None
  /\ life[i].phase \in {"ready", "closed", "unrooted"} => registry[i] = Rec(i)
  /\ life[i].phase = "gone" => registry[i] = None
  /\ life[i].phase # "gone" => disk[life[i].dir].id = i
Published == \A i \in Ids : PublishedAt(i)

\* A page belongs to an extension that is running.  Nothing listens before the
\* entry is there; a module is told before it listens, and what it was told
\* waits for its first listener; a classic worker is told after it listened.
WindowAt(l) ==
  LET w == page[l] IN
    /\ w.ext = None => w = NoPage
    /\ w.ext # None => life[w.ext].phase \in {"open", "ready"}
    /\ w.early \subseteq w.listeners
    /\ w.code \in {"start", "entry"} => w.listeners = {}
    /\ w.told => IF PackageOf(l).module THEN (w.listeners = {} => w.buffered)
                                             /\ (w.listeners # {} => w.heard # {})
                 ELSE w.code \in {"active", "failed"} /\ w.early \subseteq w.heard
Windows == \A l \in Labels : WindowAt(l)

\* A request is for a file, and a worker's is asked by the page that waits.
Asked ==
  /\ req.at = "none" => req = NoReq
  /\ req.at \in {"label", "split", "root", "registry"} => ~req.own
  /\ req.at # "none" =>
       req.wants \in WantType /\ req.wants.rel \in CleanPaths /\ req.by \in Labels \cup {Page}
  /\ req.by \in Labels =>
       page[req.by].ext = req.wants.ext /\ page[req.by].code \in {"entry", "import"}

\* A request past its resolution is for a package of its own label, or for a
\* file that is declared.
Owned ==
  req.at \in {"resolve", "check", "read"} \/ Served =>
    /\ req.root \in Root
    /\ req.own => LabelOf(disk[req.root.dir].id) = req.by
    /\ ~req.own /\ req.at # "resolve" => req.rel \in req.root.war

\* A request is at the address of its file, with the id in front or without.
AtFile == req.path \in {<<req.wants.ext>> \o req.wants.rel, req.wants.rel}

\* The address of a bundler's file is right at the root of the package.
RightAddress ==
  req.wants.kind = "document" => BaseDir(life[req.wants.ext].package) = <<>>

\* What is known of a worker's request while nothing disturbs it.
WorkerAlone ==
  req.by \in Labels /\ ~req.disturbed /\ Alone(req.wants.ext) /\ PlainReq /\ RightAddress
WorkerKnown ==
  LET i == req.wants.ext
      m == req.wants.rel
  IN /\ AtFile
     /\ req.at \in {"label", "resolve", "check", "read", "done"}
     /\ req.at # "label" => /\ req.root = Rec(i) /\ req.own
                            /\ req.rel = m \/ (m = <<>> /\ req.rel = <<i>>)
     /\ req.at = "done" => (req.answer = 200 <=> req.rel \in disk[life[i].dir].files)
WorkerRight == WorkerAlone => WorkerKnown

\* What a web page is entitled to.
Due == LET i == req.wants.ext
           m == req.wants.rel
       IN /\ req.path = <<i>> \o m /\ life[i].phase # "gone"
          /\ m \in life[i].package.war \cap disk[life[i].dir].files

\* What is known of a web page's request while nothing disturbs it.
PageAlone == req.by = Page /\ ~req.disturbed /\ PlainReq
PageKnown ==
  LET i == req.wants.ext
      m == req.wants.rel
  IN /\ AtFile /\ ~req.own
     /\ req.at \in {"root", "registry"} =>
          IF req.path = <<i>> \o m THEN req.owner = i /\ req.rel = m ELSE req.owner = None
     /\ req.at = "registry" /\ req.owner = i => roots[i] = None
     /\ req.at \in {"resolve", "check", "read"} =>
          /\ req.path = <<i>> \o m /\ life[i].phase # "gone"
          /\ req.rel = m /\ req.root = Rec(i)
     /\ req.at \in {"check", "read"} => m \in life[i].package.war
     /\ req.at = "done" => (req.answer = 200 <=> Due)
PageRight == PageAlone => PageKnown

Inv == TypeOK /\ Published /\ Windows /\ Asked /\ Owned /\ WorkerRight /\ PageRight

-----------------------------------------------------------------------------
(* Types. *)

Tables ==
  /\ disk \in [Dirs -> Packages] /\ life \in [Ids -> LifeType]
  /\ roots \in [Ids -> Root \cup {None}] /\ registry \in [Ids -> Root \cup {None}]
  /\ \A i \in Ids : life[i].phase # "gone" => life[i].dir \in Dirs /\ life[i].package \in Packages
Pages ==
  /\ page \in [Labels -> WindowType]
  /\ \A l \in Labels : page[l].ext # None => LabelOf(page[l].ext) = l
Requests == req \in ReqType /\ (req.at \in {"resolve", "check", "read"} => req.root \in Root)

LEMMA TypeParts == TypeOK <=> Tables /\ Pages /\ Requests
BY DEF TypeOK, Tables, Pages, Requests

Steps ==
  \/ Handle \/ PageAnswered
  \/ \E l \in Labels : Worker(l)
  \/ \E i \in Ids : Manage(i)
  \/ \E i \in Ids, rel \in Wanted : PageAsks(i, rel)
  \/ \E d \in Dirs, p \in Packages : EditPackage(d, p)

LEMMA NextSteps == Next <=> Steps
BY DEF Next, Steps

\* The handler changes nothing but the request.
LEMMA HandleKeeps == Handle => UNCHANGED <<disk, life, roots, registry, page>>
<1> DEFINE Kept == UNCHANGED <<disk, life, roots, registry, page>>
<1>1. FindByLabel \/ NoSuchLabel \/ BadPath \/ Split => Kept
  BY Zenon DEF FindByLabel, NoSuchLabel, BadPath, Split, Handling
<1>2. GetRoot \/ NoRoot \/ GetLoaded \/ NotLoaded => Kept
  BY Zenon DEF GetRoot, NoRoot, GetLoaded, NotLoaded, Handling
<1>3. Resolve \/ Refuse \/ Check \/ Read \/ Miss => Kept
  BY Zenon DEF Resolve, Refuse, Check, Read, Miss, Handling
<1> QED BY <1>1, <1>2, <1>3, Zenon DEF Handle

\* Requests and pages leave the lifecycle's tables alone.
LEMMA TablesKept ==
  ASSUME Steps, ~\E i \in Ids : Manage(i), ~\E d \in Dirs, p \in Packages : EditPackage(d, p)
  PROVE  UNCHANGED <<disk, life, roots, registry>>
<1>1. ASSUME NEW l \in Labels, Worker(l) PROVE UNCHANGED <<disk, life, roots, registry>>
  BY <1>1, Zenon DEF Worker, StartWorker, Loaded, Activate, TellInstalled, Import, AddListener
<1>2. (\E i \in Ids, rel \in Wanted : PageAsks(i, rel)) \/ PageAnswered =>
        UNCHANGED <<disk, life, roots, registry>>
  BY DEF PageAsks, PageAnswered
<1> QED BY <1>1, <1>2, HandleKeeps DEF Steps

LEMMA TablesStep ==
  ASSUME Tables, Steps
  PROVE  Tables'
<1> USE DEF Tables
<1>1. Packages \subseteq PackageType BY ResourcesAssumption
<1>2. ASSUME NEW i \in Ids, Manage(i) PROVE Tables'
  <2>1. life[i] \in LifeType OBVIOUS
  <2>2. ASSUME NEW phase \in Phases, Enter(i, phase), life[i].phase # "gone"
        PROVE  /\ life' \in [Ids -> LifeType]
               /\ \A j \in Ids : life'[j].phase # "gone" =>
                                   life'[j].dir \in Dirs /\ life'[j].package \in Packages
    BY <2>1, <2>2 DEF Enter, LifeType
  <2>3. ASSUME NEW d \in Dirs, Install(i, d) PROVE Tables'
    <3>1. disk[d] \in Packages /\ disk[d] \in PackageType BY <1>1
    <3>2. [dir |-> d, war |-> disk[d].war] \in Root BY <3>1 DEF Root, PackageType
    <3>3. roots' \in [Ids -> Root \cup {None}] BY <3>2, <2>3 DEF Install, Publish
    <3>4. Readable(disk[d]) \in BOOLEAN BY DEF Readable
    <3>5. [phase |-> "rooted", dir |-> d, package |-> disk[d], worker |-> Readable(disk[d])]
            \in LifeType
      BY <3>1, <3>4 DEF LifeType, Phases
    <3> QED BY <2>3, <3>1, <3>3, <3>5 DEF Install
  <2>4. CASE Enable(i)
    <3>1. life[i].dir \in Dirs /\ life[i].package \in Packages /\ life[i].package \in PackageType
      BY <1>1, <2>4 DEF Enable
    <3>2. [dir |-> life[i].dir, war |-> life[i].package.war] \in Root
      BY <3>1 DEF Root, PackageType
    <3>3. roots' \in [Ids -> Root \cup {None}] BY <3>2, <2>4 DEF Enable, Publish
    <3>4. Readable(disk[life[i].dir]) \in BOOLEAN BY DEF Readable
    <3>5. life' \in [Ids -> LifeType]
      <4>1. [[life[i] EXCEPT !.phase = "rooted"] EXCEPT !.worker = Readable(disk[life[i].dir])]
              \in LifeType
        BY <2>1, <3>4 DEF LifeType, Phases
      <4> QED BY <4>1, <2>4 DEF Enable
    <3> QED BY <2>4, <3>1, <3>3, <3>5 DEF Enable
  <2>5. CASE OpenWindow(i) BY <2>2, <2>5 DEF OpenWindow, Phases
  <2>6. CASE Project(i)
    <3>1. life[i].dir \in Dirs /\ life[i].package \in PackageType BY <1>1, <2>6 DEF Project
    <3>2. [dir |-> life[i].dir, war |-> life[i].package.war] \in Root
      BY <3>1 DEF Root, PackageType
    <3>3. registry' \in [Ids -> Root \cup {None}] BY <3>2, <2>6 DEF Project
    <3> QED BY <2>2, <2>6, <3>3 DEF Project, Phases
  <2>7. CASE CloseWindow(i) BY <2>2, <2>7 DEF CloseWindow, Phases
  <2>8. CASE Unroot(i) BY <2>2, <2>8 DEF Unroot, Phases
  <2>9. CASE Prune(i) BY <2>9 DEF Prune, Gone, LifeType, Phases
  <2> QED BY <1>2, <2>3, <2>4, <2>5, <2>6, <2>7, <2>8, <2>9 DEF Manage
<1>3. ASSUME NEW d \in Dirs, NEW p \in Packages, EditPackage(d, p) PROVE Tables'
  BY <1>3 DEF EditPackage
<1>4. CASE UNCHANGED <<disk, life, roots, registry>> BY <1>4
<1> QED BY <1>2, <1>3, <1>4, TablesKept

LEMMA PagesStep ==
  ASSUME Pages, Steps
  PROVE  Pages'
<1>1. ASSUME NEW l \in Labels, NEW w \in WindowType, w.ext = page[l].ext, SetPage(l, w)
      PROVE  Pages'
  BY <1>1 DEF SetPage, Pages
<1>2. ASSUME NEW l \in Labels, Worker(l) PROVE Pages'
  <2>1. page[l] \in WindowType BY DEF Pages
  <2>2. CASE StartWorker(l)
    <3>1. [page[l] EXCEPT !.code = "entry"] \in WindowType /\ [page[l] EXCEPT !.code = "entry"].ext = page[l].ext
      BY <2>1 DEF WindowType
    <3> QED BY <1>1, <2>2, <3>1 DEF StartWorker
  <2>3. ASSUME NEW ref \in Refs, Import(l, ref) PROVE Pages'
    <3>1. [page[l] EXCEPT !.code = "import"] \in WindowType /\ [page[l] EXCEPT !.code = "import"].ext = page[l].ext
      BY <2>1 DEF WindowType
    <3> QED BY <1>1, <2>3, <3>1 DEF Import
  <2>4. CASE Loaded(l)
    <3>1. \A c \in {"running", "failed"} :
            [page[l] EXCEPT !.code = c] \in WindowType /\ [page[l] EXCEPT !.code = c].ext = page[l].ext
      BY <2>1 DEF WindowType
    <3>2. (IF req.answer = 200 THEN "running" ELSE "failed") \in {"running", "failed"} OBVIOUS
    <3> QED BY <1>1, <2>4, <3>1, <3>2 DEF Loaded
  <2>5. CASE Activate(l)
    <3>1. [page[l] EXCEPT !.code = "active"] \in WindowType /\ [page[l] EXCEPT !.code = "active"].ext = page[l].ext
      BY <2>1 DEF WindowType
    <3> QED BY <1>1, <2>5, <3>1 DEF Activate
  <2>6. CASE TellInstalled(l)
    <3> DEFINE b == page[l].listeners = {}
               w == [page[l] EXCEPT !.told = TRUE, !.buffered = b, !.heard = page[l].listeners]
    <3>1. b \in BOOLEAN OBVIOUS
    <3>2. SetPage(l, w) BY <2>6 DEF TellInstalled
    <3> HIDE DEF b
    <3>3. w \in WindowType /\ w.ext = page[l].ext BY <2>1, <3>1 DEF WindowType
    <3> HIDE DEF w
    <3> QED BY <1>1, <3>2, <3>3
  <2>7. ASSUME NEW x \in Listeners, AddListener(l, x) PROVE Pages'
    <3> DEFINE w == [page[l] EXCEPT
             !.listeners = @ \cup {x}, !.buffered = FALSE,
             !.early = IF page[l].code = "running" THEN @ \cup {x} ELSE @,
             !.heard = IF page[l].buffered THEN @ \cup {x} ELSE @]
    <3>1. w \in WindowType /\ w.ext = page[l].ext BY <2>1 DEF WindowType
    <3>2. SetPage(l, w) BY <2>7 DEF AddListener
    <3> HIDE DEF w
    <3> QED BY <1>1, <3>1, <3>2
  <2> QED BY <1>2, <2>2, <2>3, <2>4, <2>5, <2>6, <2>7 DEF Worker
<1>3. ASSUME NEW i \in Ids, Manage(i) PROVE Pages'
  <2>1. LabelOf(i) \in Labels BY DEF Labels
  <2>2. NoPage \in WindowType /\ NoPage.ext = None BY DEF NoPage, WindowType
  <2>3. CASE OpenWindow(i)
    <3>1. [NoPage EXCEPT !.ext = i, !.code = "start"] \in WindowType BY DEF NoPage, WindowType
    <3>2. [NoPage EXCEPT !.ext = i, !.code = "start"].ext = i BY DEF NoPage
    <3> QED BY <2>1, <2>3, <3>1, <3>2 DEF OpenWindow, Pages
  <2>4. CASE CloseWindow(i) BY <2>1, <2>2, <2>4 DEF CloseWindow, Pages
  <2>5. CASE UNCHANGED page BY <2>5 DEF Pages
  <2> QED BY <1>3, <2>3, <2>4, <2>5 DEF Manage, Install, Enable, Project, Unroot, Prune
<1>4. CASE UNCHANGED page BY <1>4 DEF Pages
<1> QED BY <1>2, <1>3, <1>4, HandleKeeps DEF Steps, PageAsks, PageAnswered, EditPackage

\* Cleaning an address gives an address.
LEMMA CleanedAddress ==
  ASSUME NEW q \in Addresses
  PROVE  Cleaned(q) \in Addresses
<1>1. Cleaned(q) \in Seq(Segments \ {Up, Dot}) BY CleanedType DEF Addresses
<1> QED BY <1>1 DEF Addresses

\* A worker's reference means a file of its package, and is requested at that
\* file's address unless a bundler wrote it below the root of the package.
LEMMA Referred ==
  ASSUME NEW i \in Ids, NEW p \in PackageType, NEW ref \in RefType
  PROVE  /\ ref.kind \in Kinds
         /\ Meant(p, ref) \in CleanPaths
         /\ Requested(i, p, ref) \in Addresses
         /\ Plain(Meant(p, ref)) /\ (ref.kind = "document" => BaseDir(p) = <<>>) =>
              Encode(Requested(i, p, ref)) \in {<<i>> \o Meant(p, ref), Meant(p, ref)}
<1> DEFINE q == IF ref.kind \in {"relative", "document"} THEN BaseDir(p) \o ref.path ELSE ref.path
<1>1. ref.kind \in Kinds /\ ref.path \in Paths /\ BaseDir(p) \in Paths BY EntryType DEF RefType
<1>2. BaseDir(p) \o ref.path \in Paths BY <1>1 DEF Paths
<1>3. q \in Paths BY <1>1, <1>2
<1>4. Meant(p, ref) = Cleaned(q) BY DEF Meant
<1>5. \A r \in Paths : r \in Addresses /\ <<i>> \o r \in Addresses
  BY ResourcesAssumption DEF Paths, Addresses
<1>6. (<<i>> \o BaseDir(p)) \o ref.path = <<i>> \o (BaseDir(p) \o ref.path)
  <2>1. \A r \in Paths : r \in Seq(Segments) BY DEF Paths
  <2>2. <<i>> \in Seq(Segments) BY ResourcesAssumption
  <2>3. BaseDir(p) \in Seq(Segments) /\ ref.path \in Seq(Segments) BY <1>1, <2>1
  <2>4. ASSUME NEW r \in Seq(Segments), NEW s \in Seq(Segments), NEW u \in Seq(Segments)
        PROVE  (r \o s) \o u = r \o (s \o u)
    BY ConcatAssociative
  <2> QED BY <2>2, <2>3, <2>4
<1>7. ref.kind = "document" /\ BaseDir(p) = <<>> => q = ref.path BY <1>1 DEF Paths
<1>8. \/ Requested(i, p, ref) = Cleaned(<<i>> \o q) /\ ref.kind \in {"relative", "geturl"}
      \/ Requested(i, p, ref) = Cleaned(ref.path) /\ ref.kind \in {"absolute", "document"}
  <2>1. CASE ref.kind = "relative" BY <1>6, <2>1 DEF Requested
  <2>2. CASE ref.kind = "geturl" BY <2>2 DEF Requested
  <2>3. CASE ref.kind \in {"absolute", "document"} BY <2>3 DEF Requested
  <2> QED BY <1>1, <2>1, <2>2, <2>3 DEF Kinds
<1> HIDE DEF q
<1>9. Meant(p, ref) \in CleanPaths BY <1>3, <1>4, CleanPath
<1>10. Requested(i, p, ref) \in Addresses BY <1>1, <1>3, <1>5, <1>8, CleanedAddress
<1>11. ASSUME Plain(Meant(p, ref)), ref.kind = "document" => BaseDir(p) = <<>>
       PROVE  Encode(Requested(i, p, ref)) \in {<<i>> \o Meant(p, ref), Meant(p, ref)}
  <2>1. CASE Requested(i, p, ref) = Cleaned(<<i>> \o q) BY <1>3, <1>4, <1>11, <2>1, AskedBehind
  <2>2. CASE Requested(i, p, ref) = Cleaned(ref.path) /\ ref.kind \in {"absolute", "document"}
    <3>1. q = ref.path BY <1>7, <1>11, <2>2 DEF q
    <3> QED BY <1>4, <1>11, <2>2, <3>1 DEF Plain
  <2> QED BY <1>8, <2>1, <2>2
<1> QED BY <1>1, <1>9, <1>10, <1>11

-----------------------------------------------------------------------------
(* What steps do to the request. *)

\* A request begins: a web page's, or that of a worker's page, which then waits.
AsksFor(by, i, kind, rel, path) ==
  /\ Ask(by, i, kind, rel, path)
  /\ by \in Labels => /\ page'[by].ext = i /\ page'[by].code \in {"entry", "import"}
                      /\ life[i].phase \in {"open", "ready"} /\ LabelOf(i) = by
  /\ Plain(rel) /\ (kind = "document" => BaseDir(life[i].package) = <<>>) =>
       Encode(path) \in {<<i>> \o rel, rel}
  /\ by = Page => kind = "geturl"
  /\ UNCHANGED <<disk, life, roots, registry>>
Asks ==
  \E by \in Labels \cup {Page}, i \in Ids, kind \in Kinds, rel \in CleanPaths, path \in Addresses :
    AsksFor(by, i, kind, rel, path)

\* A request stays as it is, but for being disturbed.
Stays == req' = req \/ (req.wants # None /\ req' = [req EXCEPT !.disturbed = TRUE])

LEMMA WorkerAsks ==
  ASSUME Tables, Pages, Windows, NEW l \in Labels, StartWorker(l) \/ \E ref \in Refs : Import(l, ref)
  PROVE  Asks
<1> DEFINE i == page[l].ext
           p == PackageOf(l)
<1>1. page \in [Labels -> WindowType] /\ page[l] \in WindowType BY DEF Pages
<1>2. page[l].code \in {"start", "running"} /\ UNCHANGED <<disk, life, roots, registry>>
  BY DEF StartWorker, Import
<1>3. i # None BY <1>2 DEF Windows, WindowAt, NoPage
<1>4. i \in Ids /\ LabelOf(i) = l BY <1>1, <1>3 DEF Pages, WindowType
<1>5. life[i].phase \in {"open", "ready"} BY <1>3 DEF Windows, WindowAt
<1>6. p \in PackageType /\ p = life[i].package
  BY <1>4, <1>5, ResourcesAssumption DEF Tables, PackageOf
<1>7. CASE StartWorker(l)
  <2>1. Ask(l, i, "relative", Cleaned(Entry(p)), Cleaned(<<i>> \o Entry(p))) BY <1>7 DEF StartWorker
  <2>2. page'[l].ext = i /\ page'[l].code = "entry"
    <3>1. page' = [page EXCEPT ![l] = [page[l] EXCEPT !.code = "entry"]]
      BY <1>7 DEF StartWorker, SetPage
    <3> QED BY <3>1, <1>1 DEF WindowType
  <2> HIDE DEF i, p
  <2>3. Entry(p) \in Paths BY <1>6, EntryType
  <2>4. Cleaned(Entry(p)) \in CleanPaths BY <2>3, CleanPath
  <2>5. Cleaned(<<i>> \o Entry(p)) \in Addresses
    <3>1. <<i>> \o Entry(p) \in Addresses BY <1>4, <2>3, ResourcesAssumption DEF Paths, Addresses
    <3> QED BY <3>1, CleanedAddress
  <2>6. Plain(Cleaned(Entry(p))) =>
          Encode(Cleaned(<<i>> \o Entry(p))) \in {<<i>> \o Cleaned(Entry(p)), Cleaned(Entry(p))}
    BY <1>4, <2>3, AskedBehind
  <2>7. l \in Labels \cup {Page} /\ l # Page /\ "relative" \in Kinds
    BY ResourcesAssumption DEF Kinds
  <2> QED BY <1>2, <1>4, <1>5, <1>6, <2>1, <2>2, <2>4, <2>5, <2>6, <2>7 DEF Asks, AsksFor
<1>8. ASSUME NEW ref \in Refs, Import(l, ref) PROVE Asks
  <2>1. Ask(l, i, ref.kind, Meant(p, ref), Requested(i, p, ref)) BY <1>8 DEF Import
  <2>2. page'[l].ext = i /\ page'[l].code = "import"
    <3>1. page' = [page EXCEPT ![l] = [page[l] EXCEPT !.code = "import"]]
      BY <1>8 DEF Import, SetPage
    <3> QED BY <3>1, <1>1 DEF WindowType
  <2> HIDE DEF i, p
  <2>3. ref \in RefType BY ResourcesAssumption
  <2>4. /\ ref.kind \in Kinds
        /\ Meant(p, ref) \in CleanPaths
        /\ Requested(i, p, ref) \in Addresses
        /\ Plain(Meant(p, ref)) /\ (ref.kind = "document" => BaseDir(p) = <<>>) =>
             Encode(Requested(i, p, ref)) \in {<<i>> \o Meant(p, ref), Meant(p, ref)}
    BY <1>4, <1>6, <2>3, Referred
  <2>5. l \in Labels \cup {Page} /\ l # Page BY ResourcesAssumption
  <2> QED BY <1>2, <1>4, <1>5, <1>6, <2>1, <2>2, <2>4, <2>5 DEF Asks, AsksFor
<1> QED BY <1>7, <1>8

LEMMA WebPageAsks ==
  ASSUME NEW i \in Ids, NEW rel \in Wanted, PageAsks(i, rel)
  PROVE  Asks
<1>1. rel \in Paths /\ Page \notin Labels BY ResourcesAssumption
<1>2. Cleaned(rel) \in CleanPaths BY <1>1, CleanPath
<1>3. Cleaned(<<i>> \o rel) \in Addresses
  <2>1. <<i>> \o rel \in Addresses BY <1>1, ResourcesAssumption DEF Paths, Addresses
  <2> QED BY <2>1, CleanedAddress
<1>4. Plain(Cleaned(rel)) => Encode(Cleaned(<<i>> \o rel)) \in {<<i>> \o Cleaned(rel), Cleaned(rel)}
  BY <1>1, AskedBehind
<1>5. "geturl" \in Kinds /\ Page \in Labels \cup {Page} BY DEF Kinds
<1> QED BY <1>1, <1>2, <1>3, <1>4, <1>5 DEF PageAsks, Asks, AsksFor

\* Every step handles the request, begins one, drops it or lets it be.
LEMMA RequestSteps ==
  ASSUME Tables, Pages, Windows, Steps
  PROVE  Handle \/ Asks \/ req' = NoReq \/ Stays
<1>1. ASSUME NEW l \in Labels, Worker(l) PROVE Asks \/ req' = NoReq \/ Stays
  <2>1. Loaded(l) => req' = NoReq BY DEF Loaded
  <2>2. Activate(l) \/ TellInstalled(l) => Stays BY Zenon DEF Activate, TellInstalled, Stays
  <2>3. ASSUME NEW x \in Listeners, AddListener(l, x) PROVE Stays
    BY <2>3, Zenon DEF AddListener, Stays
  <2> QED BY <1>1, <2>1, <2>2, <2>3, WorkerAsks DEF Worker
<1>2. \A i : Disturb(i) => Stays BY DEF Disturb, Stays
<1>3. ASSUME NEW i \in Ids, Manage(i) PROVE req' = NoReq \/ Stays
  <2>1. CASE OpenWindow(i) \/ Project(i) BY <2>1, Zenon DEF OpenWindow, Project, Stays
  <2>2. CASE CloseWindow(i) BY <2>2 DEF CloseWindow, Stays
  <2>3. CASE \E j \in Ids : Disturb(j) BY <1>2, <2>3
  <2> QED BY <1>3, <2>1, <2>2, <2>3 DEF Manage, Install, Enable, Unroot, Prune
<1>4. ASSUME NEW d \in Dirs, NEW p \in Packages, EditPackage(d, p) PROVE Stays
  BY <1>2, <1>4 DEF EditPackage
<1>5. PageAnswered => req' = NoReq BY DEF PageAnswered
<1> QED BY <1>1, <1>3, <1>4, <1>5, WebPageAsks DEF Steps

\* The handler keeps who asks for what.
Same == /\ req'.by = req.by /\ req'.wants = req.wants /\ req'.path = req.path
        /\ req'.disturbed = req.disturbed

\* An answer.
LEMMA Answered ==
  ASSUME NEW code \in {200, 400, 403, 404}, Answer(code), req \in ReqType
  PROVE  /\ req' \in ReqType /\ Same /\ req'.at = "done" /\ req'.answer = code
         /\ req'.own = req.own /\ req'.rel = req.rel /\ req'.root = req.root
<1> DEFINE r == [req EXCEPT !.at = "done"]
<1>1. r \in ReqType BY DEF ReqType
<1>2. /\ r.by = req.by /\ r.wants = req.wants /\ r.path = req.path /\ r.own = req.own
      /\ r.disturbed = req.disturbed /\ r.rel = req.rel /\ r.root = req.root /\ r.at = "done"
  BY DEF ReqType
<1>3. req' = [r EXCEPT !.answer = code] BY DEF Answer
<1> HIDE DEF r
<1>4. req' \in ReqType BY <1>1, <1>3 DEF ReqType
<1> QED BY <1>1, <1>2, <1>3, <1>4 DEF ReqType, Same

\* A step that takes the request further with what it has.
LEMMA Moved ==
  ASSUME NEW at \in {"split", "registry", "check", "read"}, req' = [req EXCEPT !.at = at],
         req \in ReqType
  PROVE  /\ req' \in ReqType /\ Same /\ req'.at = at /\ req'.owner = req.owner
         /\ req'.own = req.own /\ req'.rel = req.rel /\ req'.root = req.root
<1>1. req' \in ReqType BY DEF ReqType
<1> QED BY <1>1 DEF ReqType, Same

\* A window is found by its label.
LEMMA Found ==
  ASSUME Tables, req \in ReqType, FindByLabel
  PROVE  /\ req.at = "label" /\ req' \in ReqType /\ Same /\ req'.at = "resolve" /\ req'.own
         /\ \E i \in Labelled(req.by) :
              /\ i \in Ids /\ LabelOf(i) = req.by /\ roots[i] \in Root /\ req'.root = roots[i]
              /\ req'.rel = BgRequestRel(i, req.path)
<1>1. req.at = "label" BY DEF FindByLabel, Handling
<1>2. PICK i \in Labelled(req.by) :
        req' = [req EXCEPT !.at = "resolve", !.owner = i, !.root = roots[i], !.own = TRUE,
                           !.rel = BgRequestRel(i, req.path)]
  BY Zenon DEF FindByLabel
<1>3. i \in Ids /\ LabelOf(i) = req.by /\ roots[i] \in Root BY DEF Labelled, Tables
<1>4. BgRequestRel(i, req.path) \in Addresses
  <2>1. req.path \in Addresses BY DEF ReqType
  <2>2. Len(req.path) > 1 => Tail(req.path) \in Addresses BY <2>1 DEF Addresses
  <2> QED BY <2>1, <2>2 DEF BgRequestRel
<1> DEFINE r1 == [req EXCEPT !.at = "resolve"]
           r2 == [r1 EXCEPT !.owner = i]
           r3 == [r2 EXCEPT !.root = roots[i]]
           yes == TRUE
           r4 == [r3 EXCEPT !.own = yes]
           rel == BgRequestRel(i, req.path)
<1>5. req' = [r4 EXCEPT !.rel = rel] BY <1>2
<1>12. yes \in BOOLEAN OBVIOUS
<1>6. /\ r1 \in ReqType /\ r1.at = "resolve" /\ r1.by = req.by /\ r1.wants = req.wants
      /\ r1.path = req.path /\ r1.disturbed = req.disturbed
  <2>1. r1 \in ReqType BY DEF ReqType
  <2> QED BY <2>1 DEF ReqType
<1> HIDE DEF r1, rel
<1>7. /\ r2 \in ReqType /\ r2.at = "resolve" /\ r2.by = req.by /\ r2.wants = req.wants
      /\ r2.path = req.path /\ r2.disturbed = req.disturbed
  <2>1. r2 \in ReqType BY <1>3, <1>6 DEF ReqType
  <2> QED BY <1>6, <2>1 DEF ReqType
<1> HIDE DEF r2
<1>8. /\ r3 \in ReqType /\ r3.at = "resolve" /\ r3.by = req.by /\ r3.wants = req.wants
      /\ r3.path = req.path /\ r3.disturbed = req.disturbed /\ r3.root = roots[i]
  <2>1. r3 \in ReqType BY <1>3, <1>7 DEF ReqType
  <2> QED BY <1>7, <2>1 DEF ReqType
<1> HIDE DEF r3, yes
<1>9. /\ r4 \in ReqType /\ r4.at = "resolve" /\ r4.by = req.by /\ r4.wants = req.wants
      /\ r4.path = req.path /\ r4.disturbed = req.disturbed /\ r4.root = roots[i] /\ r4.own
  <2>1. r4 \in ReqType BY <1>8, <1>12 DEF ReqType
  <2> QED BY <1>8, <2>1 DEF ReqType, yes
<1> HIDE DEF r4
<1>10. req' \in ReqType BY <1>4, <1>5, <1>9 DEF ReqType, rel
<1>11. Same /\ req'.at = "resolve" /\ req'.own /\ req'.root = roots[i] /\ req'.rel = rel
  BY <1>5, <1>9, <1>10 DEF ReqType, Same
<1> QED BY <1>1, <1>3, <1>10, <1>11 DEF rel

\* An address is taken apart.
LEMMA Taken ==
  ASSUME req \in ReqType, Split
  PROVE  /\ req.at = "split" /\ req' \in ReqType /\ Same /\ req'.at = "root"
         /\ req'.own = req.own /\ req'.rel = Tail(req.path)
         /\ req'.owner = IF Head(req.path) \in Ids THEN Head(req.path) ELSE None
<1> DEFINE r1 == [req EXCEPT !.at = "root"]
           rel == Tail(req.path)
           r2 == [r1 EXCEPT !.rel = rel]
           owner == IF Head(req.path) \in Ids THEN Head(req.path) ELSE None
<1>1. req.at = "split" /\ req' = [r2 EXCEPT !.owner = owner] BY DEF Split, Handling
<1>2. rel \in Addresses
  <2>1. req.path \in Addresses BY DEF ReqType
  <2> QED BY <2>1 DEF Addresses, Split
<1>3. owner \in Ids \cup {None} OBVIOUS
<1>4. /\ r1 \in ReqType /\ r1.at = "root" /\ r1.by = req.by /\ r1.wants = req.wants
      /\ r1.path = req.path /\ r1.disturbed = req.disturbed /\ r1.own = req.own
  <2>1. r1 \in ReqType BY DEF ReqType
  <2> QED BY <2>1 DEF ReqType
<1> HIDE DEF r1, rel, owner
<1>5. /\ r2 \in ReqType /\ r2.at = "root" /\ r2.by = req.by /\ r2.wants = req.wants
      /\ r2.path = req.path /\ r2.disturbed = req.disturbed /\ r2.own = req.own /\ r2.rel = rel
  <2>1. r2 \in ReqType BY <1>2, <1>4 DEF ReqType
  <2> QED BY <1>4, <2>1 DEF ReqType
<1> HIDE DEF r2
<1>6. req' \in ReqType BY <1>1, <1>3, <1>5 DEF ReqType
<1> QED BY <1>1, <1>5, <1>6 DEF ReqType, Same, rel, owner

\* A table has a root for the owner.
LEMMA Given ==
  ASSUME Tables, req \in ReqType, GetRoot \/ GetLoaded
  PROVE  /\ req.owner \in Ids /\ req'.root \in Root
         /\ \/ req.at = "root" /\ req'.root = roots[req.owner]
            \/ req.at = "registry" /\ req'.root = registry[req.owner]
         /\ req' \in ReqType /\ Same /\ req'.at = "resolve" /\ req'.own = req.own
         /\ req'.rel = req.rel /\ req'.owner = req.owner
<1>1. req.owner \in Ids BY DEF GetRoot, GetLoaded, ReqType
<1>2. PICK root \in Root :
        /\ \/ req.at = "root" /\ root = roots[req.owner]
           \/ req.at = "registry" /\ root = registry[req.owner]
        /\ req' = [req EXCEPT !.at = "resolve", !.root = root]
  <2>1. CASE GetRoot
    <3>1. roots[req.owner] \in Root BY <1>1, <2>1 DEF GetRoot, Tables
    <3>2. req.at = "root" /\ req' = [req EXCEPT !.at = "resolve", !.root = roots[req.owner]]
      BY <2>1 DEF GetRoot, Handling
    <3> QED BY <3>1, <3>2, Zenon
  <2>2. CASE GetLoaded
    <3>1. registry[req.owner] \in Root BY <1>1, <2>2 DEF GetLoaded, Tables
    <3>2. req.at = "registry" /\ req' = [req EXCEPT !.at = "resolve", !.root = registry[req.owner]]
      BY <2>2 DEF GetLoaded, Handling
    <3> QED BY <3>1, <3>2, Zenon
  <2> QED BY <2>1, <2>2, Zenon
<1> DEFINE r == [req EXCEPT !.at = "resolve"]
<1>3. /\ r \in ReqType /\ r.at = "resolve" /\ r.by = req.by /\ r.wants = req.wants
      /\ r.path = req.path /\ r.disturbed = req.disturbed /\ r.own = req.own
      /\ r.rel = req.rel /\ r.owner = req.owner
  <2>1. r \in ReqType BY DEF ReqType
  <2> QED BY <2>1 DEF ReqType
<1>4. req' = [r EXCEPT !.root = root] BY <1>2
<1> HIDE DEF r
<1>5. req' \in ReqType BY <1>2, <1>3, <1>4 DEF ReqType
<1>6. Same /\ req'.at = "resolve" /\ req'.own = req.own /\ req'.root = root
      /\ req'.rel = req.rel /\ req'.owner = req.owner
  BY <1>3, <1>4, <1>5 DEF ReqType, Same
<1> QED BY <1>1, <1>2, <1>5, <1>6

LEMMA HandleRequest ==
  ASSUME Tables, Requests, Handle
  PROVE  Requests' /\ req.at \notin {"none", "done"} /\ req'.at # "none" /\ Same
<1>1. req \in ReqType BY DEF Requests
<1>2. ASSUME NEW code \in {200, 400, 403, 404}, Answer(code)
      PROVE  Requests' /\ req'.at # "none" /\ Same
  BY <1>1, <1>2, Answered DEF Requests
<1>3. ASSUME NEW at \in {"split", "registry", "check", "read"}, req' = [req EXCEPT !.at = at],
             at \in {"check", "read"} => req.at \in {"resolve", "check"}
      PROVE  Requests' /\ req'.at # "none" /\ Same
  BY <1>1, <1>3, Moved DEF Requests
<1>4. CASE FindByLabel BY <1>1, <1>4, Found DEF Requests
<1>5. CASE Split BY <1>1, <1>5, Taken DEF Requests
<1>6. CASE GetRoot \/ GetLoaded BY <1>1, <1>6, Given DEF Requests
<1>7. CASE NoSuchLabel \/ NoRoot BY <1>3, <1>7 DEF NoSuchLabel, NoRoot, Handling
<1>8. CASE Resolve \/ Check BY <1>3, <1>8 DEF Resolve, Check, Handling
<1>9. CASE BadPath \/ NotLoaded \/ Refuse BY <1>2, <1>9 DEF BadPath, NotLoaded, Refuse, Handling
<1>10. CASE Read \/ Miss BY <1>2, <1>10 DEF Read, Miss, Handling
<1> QED BY <1>4, <1>5, <1>6, <1>7, <1>8, <1>9, <1>10 DEF Handle

\* What a request is when it begins.
LEMMA AskedRequest ==
  ASSUME NEW by \in Labels \cup {Page}, NEW i \in Ids, NEW kind \in Kinds, NEW rel \in CleanPaths,
         NEW path \in Addresses, Ask(by, i, kind, rel, path)
  PROVE  /\ Requests' /\ req'.at = "label" /\ req'.by = by /\ req'.path = Encode(path)
         /\ req'.wants = [ext |-> i, kind |-> kind, rel |-> rel] /\ req'.wants \in WantType
         /\ ~req'.own
<1>1. Encode(path) \in Addresses BY EncodeType
<1>2. rel \in Paths BY DEF CleanPaths, Paths
<1>3. [ext |-> i, kind |-> kind, rel |-> rel] \in WantType BY <1>2 DEF WantType
<1> DEFINE r1 == [NoReq EXCEPT !.at = "label"]
           r2 == [r1 EXCEPT !.by = by]
           r3 == [r2 EXCEPT !.path = Encode(path)]
           w == [ext |-> i, kind |-> kind, rel |-> rel]
<1>4. r1 \in ReqType /\ r1.at = "label" /\ ~r1.own
  <2>1. NoReq \in ReqType BY DEF NoReq, ReqType, Addresses
  <2>2. ~NoReq.own BY DEF NoReq
  <2>3. r1 \in ReqType BY <2>1 DEF ReqType
  <2> QED BY <2>1, <2>2, <2>3 DEF ReqType
<1>5. req' = [r3 EXCEPT !.wants = w] BY DEF Ask
<1> HIDE DEF r1, w
<1>6. r2 \in ReqType /\ r2.at = "label" /\ r2.by = by /\ ~r2.own
  <2>1. r2 \in ReqType BY <1>4 DEF ReqType
  <2> QED BY <1>4, <2>1 DEF ReqType
<1> HIDE DEF r2
<1>7. r3 \in ReqType /\ r3.at = "label" /\ r3.by = by /\ ~r3.own /\ r3.path = Encode(path)
  <2>1. r3 \in ReqType BY <1>1, <1>6 DEF ReqType
  <2> QED BY <1>6, <2>1 DEF ReqType
<1> HIDE DEF r3
<1>8. req' \in ReqType BY <1>3, <1>5, <1>7 DEF ReqType, w
<1>9. req'.at = "label" /\ req'.by = by /\ req'.path = Encode(path) /\ ~req'.own /\ req'.wants = w
  BY <1>5, <1>7, <1>8 DEF ReqType
<1> QED BY <1>3, <1>8, <1>9 DEF w, Requests

LEMMA RequestsStep ==
  ASSUME Tables, Pages, Windows, Requests, Steps
  PROVE  Requests'
<1>1. CASE Asks
  <2>1. PICK by \in Labels \cup {Page}, i \in Ids, kind \in Kinds, rel \in CleanPaths,
             path \in Addresses : AsksFor(by, i, kind, rel, path)
    BY <1>1, Zenon DEF Asks
  <2> Ask(by, i, kind, rel, path) BY <2>1 DEF AsksFor
  <2> QED BY AskedRequest
<1>2. req' = NoReq => Requests'
  <2>1. NoReq \in ReqType BY DEF NoReq, ReqType, Addresses
  <2> QED BY <2>1 DEF Requests, NoReq
<1>3. Stays => Requests'
  <2>1. req \in ReqType BY DEF Requests
  <2>2. CASE req' = [req EXCEPT !.disturbed = TRUE]
    <3> DEFINE yes == TRUE
    <3>3. req' = [req EXCEPT !.disturbed = yes] /\ yes \in BOOLEAN BY <2>2
    <3> HIDE DEF yes
    <3>1. req' \in ReqType BY <2>1, <3>3 DEF ReqType
    <3>2. req'.at = req.at /\ req'.root = req.root BY <2>1, <2>2 DEF ReqType
    <3> QED BY <3>1, <3>2 DEF Requests
  <2> QED BY <2>2 DEF Stays, Requests
<1> QED BY <1>1, <1>2, <1>3, RequestSteps, HandleRequest

-----------------------------------------------------------------------------
(* The tables follow the lifecycle. *)

LEMMA PublishedStep ==
  ASSUME Tables, Published, Steps
  PROVE  Published'
<1>1. life \in [Ids -> LifeType] /\ \A i \in Ids : life[i] \in LifeType BY DEF Tables
<1>2. roots \in [Ids -> Root \cup {None}] /\ registry \in [Ids -> Root \cup {None}] BY DEF Tables
<1>3. ASSUME NEW i \in Ids, Manage(i) PROVE Published'
  <2> SUFFICES ASSUME NEW j \in Ids PROVE PublishedAt(j)' BY DEF Published
  <2>1. disk' = disk
    BY <1>3 DEF Manage, Install, Enable, OpenWindow, Project, CloseWindow, Unroot, Prune
  <2>2. CASE j # i
    <3>1. life'[j] = life[j] /\ roots'[j] = roots[j] /\ registry'[j] = registry[j]
      BY <1>1, <1>2, <1>3, <2>2
      DEF Manage, Install, Enable, OpenWindow, Project, CloseWindow, Unroot, Prune, Publish, Enter
    <3> QED BY <2>1, <3>1 DEF Published, PublishedAt, Rec
  <2>3. CASE j = i
    <3>1. ASSUME NEW phase \in Phases, Enter(i, phase)
          PROVE  life'[i].phase = phase /\ life'[i].dir = life[i].dir /\ life'[i].package = life[i].package
      BY <1>1, <3>1 DEF Enter, LifeType
    <3>2. ASSUME NEW d \in Dirs, Install(i, d)
          PROVE  /\ life'[i].phase = "rooted" /\ life'[i].dir = d /\ life'[i].package = disk[d]
                 /\ roots'[i] = [dir |-> d, war |-> disk[d].war] /\ disk[d].id = i
      BY <1>1, <1>2, <3>2 DEF Install, Publish
    <3>3. CASE Enable(i)
      <4>1. /\ life'[i].phase = "rooted" /\ life'[i].dir = life[i].dir
            /\ life'[i].package = life[i].package
        BY <1>1, <3>3 DEF Enable, LifeType
      <4>2. roots'[i] = Rec(i) /\ life[i].phase = "closed" BY <1>2, <3>3 DEF Enable, Publish, Rec
      <4> QED BY <2>1, <2>3, <4>1, <4>2 DEF Published, PublishedAt, Rec
    <3>4. CASE OpenWindow(i)
      BY <2>1, <2>3, <3>1, <3>4 DEF OpenWindow, Published, PublishedAt, Rec, Phases
    <3>5. CASE Project(i)
      <4>1. registry'[i] = Rec(i) BY <1>2, <3>5 DEF Project, Rec
      <4> QED BY <2>1, <2>3, <3>1, <3>5, <4>1 DEF Project, Published, PublishedAt, Rec, Phases
    <3>6. CASE CloseWindow(i)
      BY <2>1, <2>3, <3>1, <3>6 DEF CloseWindow, Published, PublishedAt, Rec, Phases
    <3>7. CASE Unroot(i)
      <4>1. roots'[i] = None BY <1>2, <3>7 DEF Unroot
      <4> QED BY <2>1, <2>3, <3>1, <3>7, <4>1 DEF Unroot, Published, PublishedAt, Rec, Phases
    <3>8. CASE Prune(i)
      <4>1. life'[i] = Gone /\ registry'[i] = None /\ roots'[i] = roots[i] /\ life[i].phase = "unrooted"
        BY <1>1, <1>2, <3>8 DEF Prune
      <4> QED BY <2>3, <4>1 DEF Published, PublishedAt, Gone
    <3>9. (\E d \in Dirs : Install(i, d)) => PublishedAt(j)'
      BY <2>1, <2>3, <3>2 DEF PublishedAt, Rec
    <3> QED BY <1>3, <3>3, <3>4, <3>5, <3>6, <3>7, <3>8, <3>9 DEF Manage
  <2> QED BY <2>2, <2>3
<1>4. ASSUME NEW d \in Dirs, NEW p \in Packages, EditPackage(d, p) PROVE Published'
  <2>1. disk' = [disk EXCEPT ![d] = p] /\ p.id = disk[d].id /\ UNCHANGED <<life, roots, registry>>
    BY <1>4 DEF EditPackage
  <2>2. \A c \in Dirs : disk'[c].id = disk[c].id BY <2>1 DEF Tables
  <2> QED BY <2>1, <2>2 DEF Published, PublishedAt, Rec, Tables
<1>5. CASE UNCHANGED <<disk, life, roots, registry>> BY <1>5 DEF Published, PublishedAt, Rec
<1> QED BY <1>3, <1>4, <1>5, TablesKept

\* A root that is served is a package of that id.
LEMMA RootOfId ==
  ASSUME Tables, Published, NEW i \in Ids, roots[i] # None
  PROVE  roots[i] = Rec(i) /\ disk[roots[i].dir].id = i
<1>1. life[i].phase \in {"rooted", "open", "ready", "closed"}
  BY DEF Published, PublishedAt, Tables, LifeType, Phases
<1> QED BY <1>1 DEF Published, PublishedAt, Rec

LEMMA OwnedStep ==
  ASSUME Tables, Pages, Windows, Requests, Asked, Published, Owned, Steps
  PROVE  Owned'
<1>1. req \in ReqType BY DEF Requests
<1>2. ASSUME NEW code \in {200, 400, 403, 404}, Answer(code), code = 200 => req.at = "read", disk' = disk
      PROVE  Owned'
  BY <1>1, <1>2, Answered DEF Owned, Served, Same
<1>3. ASSUME NEW at \in {"split", "registry", "check", "read"}, req' = [req EXCEPT !.at = at],
             at \in {"check", "read"} => req.at \in {"resolve", "check"},
             at = "check" => Resolves, at = "read" => req.at = "check", disk' = disk
      PROVE  Owned'
  BY <1>1, <1>3, Moved DEF Owned, Served, Same, Resolves
<1>4. Handle => disk' = disk BY HandleKeeps
<1>5. CASE Handle
  <2>1. CASE FindByLabel
    <3>1. PICK i \in Ids : LabelOf(i) = req.by /\ roots[i] \in Root /\ req'.root = roots[i]
      BY <1>1, <2>1, Found
    <3>2. roots[i] # None BY <3>1, ResourcesAssumption
    <3>3. disk[roots[i].dir].id = i BY <3>2, RootOfId
    <3>4. Same /\ req'.at = "resolve" /\ req'.own BY <1>1, <2>1, Found
    <3> QED BY <1>4, <1>5, <3>1, <3>3, <3>4 DEF Owned, Served, Same
  <2>2. CASE Split BY <1>1, <2>2, Taken DEF Owned, Served
  <2>3. CASE GetRoot \/ GetLoaded
    <3>1. req'.root \in Root /\ req'.at = "resolve" /\ req'.own = req.own BY <1>1, <2>3, Given
    <3>2. ~req.own BY <2>3 DEF GetRoot, GetLoaded, Handling, Asked
    <3> QED BY <3>1, <3>2 DEF Owned, Served
  <2>4. CASE NoSuchLabel \/ NoRoot BY <1>3, <1>4, <1>5, <2>4 DEF NoSuchLabel, NoRoot, Handling
  <2>5. CASE Resolve \/ Check BY <1>3, <1>4, <1>5, <2>5 DEF Resolve, Check, Handling
  <2>6. CASE BadPath \/ NotLoaded \/ Refuse
    BY <1>2, <1>4, <1>5, <2>6 DEF BadPath, NotLoaded, Refuse, Handling
  <2>7. CASE Read \/ Miss BY <1>2, <1>4, <1>5, <2>7 DEF Read, Miss, Handling
  <2> QED BY <1>5, <2>1, <2>2, <2>3, <2>4, <2>5, <2>6, <2>7 DEF Handle
<1>6. CASE Asks
  <2>1. PICK by \in Labels \cup {Page}, i \in Ids, kind \in Kinds, rel \in CleanPaths,
             path \in Addresses : AsksFor(by, i, kind, rel, path)
    BY <1>6, Zenon DEF Asks
  <2> Ask(by, i, kind, rel, path) BY <2>1 DEF AsksFor
  <2>2. req'.at = "label" BY AskedRequest
  <2> QED BY <2>2 DEF Owned, Served
<1>7. req' = NoReq => Owned' BY DEF Owned, Served, NoReq
<1>8. ASSUME Stays PROVE Owned'
  <2>1. /\ req'.at = req.at /\ req'.answer = req.answer /\ req'.root = req.root /\ req'.own = req.own
        /\ req'.by = req.by /\ req'.rel = req.rel
    BY <1>1, <1>8 DEF Stays, ReqType
  <2>2. \A d \in Dirs : disk'[d].id = disk[d].id
    <3>1. ASSUME NEW d \in Dirs, NEW p \in Packages, EditPackage(d, p)
          PROVE  \A c \in Dirs : disk'[c].id = disk[c].id
      BY <3>1 DEF EditPackage, Tables
    <3>2. ASSUME NEW i \in Ids, Manage(i) PROVE disk' = disk
      BY <3>2 DEF Manage, Install, Enable, OpenWindow, Project, CloseWindow, Unroot, Prune
    <3> QED BY <3>1, <3>2, TablesKept
  <2>3. req.root \in Root => req.root.dir \in Dirs BY DEF Root
  <2> QED BY <2>1, <2>2, <2>3 DEF Owned, Served
<1> QED BY <1>5, <1>6, <1>7, <1>8, RequestSteps

-----------------------------------------------------------------------------
(* Pages belong to extensions that run. *)

\* What happens in a page.
LEMMA PageStep ==
  ASSUME Pages, Windows, Asked, NEW l \in Labels, Worker(l)
  PROVE  WindowAt(l)' /\ \A k \in Labels \ {l} : page'[k] = page[k]
<1>1. page \in [Labels -> WindowType] /\ page[l] \in WindowType BY DEF Pages
<1>2. life' = life BY Zenon DEF Worker, StartWorker, Import, Loaded, Activate, TellInstalled, AddListener
<1>3. WindowAt(l) BY DEF Windows
<1>4. page[l].code # "none" => page[l].ext # None BY <1>3 DEF WindowAt, NoPage
<1>5. \A w : SetPage(l, w) => page'[l] = w /\ \A k \in Labels \ {l} : page'[k] = page[k]
  BY <1>1 DEF SetPage
<1>6. ASSUME NEW c \in {"entry", "running", "import", "active", "failed"},
             SetPage(l, [page[l] EXCEPT !.code = c]), page[l].ext # None,
             c = "entry" => page[l].code = "start",
             page[l].told /\ ~PackageOf(l).module => c \in {"active", "failed"}
      PROVE  WindowAt(l)' /\ \A k \in Labels \ {l} : page'[k] = page[k]
  <2>1. page'[l] = [page[l] EXCEPT !.code = c] BY <1>5, <1>6
  <2>2. /\ page'[l].ext = page[l].ext /\ page'[l].early = page[l].early
        /\ page'[l].listeners = page[l].listeners /\ page'[l].heard = page[l].heard
        /\ page'[l].told = page[l].told /\ page'[l].buffered = page[l].buffered
        /\ page'[l].code = c
    BY <1>1, <2>1 DEF WindowType
  <2>3. WindowAt(l)' BY <1>2, <1>3, <1>6, <2>2 DEF WindowAt, PackageOf
  <2> QED BY <1>5, <1>6, <2>3
<1>7. CASE StartWorker(l)
  <2>1. page[l].code = "start" /\ SetPage(l, [page[l] EXCEPT !.code = "entry"])
    BY <1>7 DEF StartWorker
  <2> QED BY <1>3, <1>4, <1>6, <2>1 DEF WindowAt
<1>8. ASSUME NEW ref \in Refs, Import(l, ref)
      PROVE  WindowAt(l)' /\ \A k \in Labels \ {l} : page'[k] = page[k]
  <2>1. page[l].code = "running" /\ SetPage(l, [page[l] EXCEPT !.code = "import"])
    BY <1>8 DEF Import
  <2> QED BY <1>3, <1>4, <1>6, <2>1 DEF WindowAt
<1>9. CASE Loaded(l)
  <2>1. PICK c \in {"running", "failed"} : SetPage(l, [page[l] EXCEPT !.code = c])
    BY <1>9 DEF Loaded
  <2>2. page[l].code \in {"entry", "import"} BY <1>9 DEF Loaded, Asked
  <2> QED BY <1>3, <1>4, <1>6, <2>1, <2>2 DEF WindowAt
<1>10. CASE Activate(l)
  <2>1. page[l].code = "running" /\ SetPage(l, [page[l] EXCEPT !.code = "active"])
    BY <1>10 DEF Activate
  <2> QED BY <1>3, <1>4, <1>6, <2>1 DEF WindowAt
<1>11. CASE TellInstalled(l)
  <2> DEFINE b == page[l].listeners = {}
             w == [page[l] EXCEPT !.told = TRUE, !.buffered = b, !.heard = page[l].listeners]
  <2>1. page'[l] = w /\ \A k \in Labels \ {l} : page'[k] = page[k]
    BY <1>5, <1>11 DEF TellInstalled
  <2>2. b <=> page[l].listeners = {} OBVIOUS
  <2> HIDE DEF b
  <2>3. /\ w.ext = page[l].ext /\ w.early = page[l].early /\ w.listeners = page[l].listeners
        /\ w.code = page[l].code /\ w.heard = page[l].listeners /\ w.buffered = b
    BY <1>1 DEF WindowType
  <2>4. page[l].ext # None BY <1>4, <1>11 DEF TellInstalled
  <2>5. page[l].code \in IF PackageOf(l).module THEN {"entry"} ELSE {"active", "failed"}
    BY <1>11, <2>4 DEF TellInstalled
  <2> HIDE DEF w
  <2>6. WindowAt(l)' BY <1>2, <1>3, <2>1, <2>2, <2>3, <2>4, <2>5 DEF WindowAt, PackageOf
  <2> QED BY <2>1, <2>6
<1>12. ASSUME NEW x \in Listeners, AddListener(l, x)
       PROVE  WindowAt(l)' /\ \A k \in Labels \ {l} : page'[k] = page[k]
  <2> DEFINE w == [page[l] EXCEPT
             !.listeners = @ \cup {x}, !.buffered = FALSE,
             !.early = IF page[l].code = "running" THEN @ \cup {x} ELSE @,
             !.heard = IF page[l].buffered THEN @ \cup {x} ELSE @]
  <2>1. page'[l] = w /\ \A k \in Labels \ {l} : page'[k] = page[k]
    BY <1>5, <1>12 DEF AddListener
  <2>2. /\ w.ext = page[l].ext /\ w.code = page[l].code /\ w.told = page[l].told
        /\ w.listeners = page[l].listeners \cup {x}
        /\ w.early = IF page[l].code = "running" THEN page[l].early \cup {x} ELSE page[l].early
        /\ w.heard = IF page[l].buffered THEN page[l].heard \cup {x} ELSE page[l].heard
    BY <1>1 DEF WindowType
  <2>3. page[l].code \in {"running", "active"} BY <1>12 DEF AddListener
  <2> HIDE DEF w
  <2>4. WindowAt(l)' BY <1>2, <1>3, <1>4, <2>1, <2>2, <2>3 DEF WindowAt, PackageOf
  <2> QED BY <2>1, <2>4
<1> QED BY <1>7, <1>8, <1>9, <1>10, <1>11, <1>12 DEF Worker

\* A window's extension keeps running, and its package, until it is closed.
LEMMA Running ==
  ASSUME Tables, Pages, Windows, NEW l \in Labels, page[l].ext # None, NEW i \in Ids, Manage(i),
         ~(CloseWindow(i) /\ LabelOf(i) = l)
  PROVE  /\ life'[page[l].ext].phase \in {"open", "ready"}
         /\ life'[page[l].ext].package = life[page[l].ext].package
<1> DEFINE j == page[l].ext
<1>1. j \in Ids /\ LabelOf(j) = l BY DEF Pages, WindowType
<1>2. life[j].phase \in {"open", "ready"} BY DEF Windows, WindowAt
<1>3. life \in [Ids -> LifeType] /\ life[i] \in LifeType BY DEF Tables
<1> HIDE DEF j
<1>4. CASE j # i
  <2>1. life'[j] = life[j]
    BY <1>1, <1>3, <1>4
    DEF Manage, Install, Enable, OpenWindow, Project, CloseWindow, Unroot, Prune, Enter
  <2> QED BY <1>2, <2>1 DEF j
<1>5. CASE j = i
  <2>1. Project(i)
    BY <1>1, <1>2, <1>5 DEF Manage, Install, Enable, OpenWindow, CloseWindow, Unroot, Prune
  <2>2. life'[i].phase = "ready" /\ life'[i].package = life[i].package
    BY <1>3, <2>1 DEF Project, Enter, LifeType
  <2> QED BY <1>5, <2>2 DEF j
<1> QED BY <1>4, <1>5 DEF j

LEMMA WindowsStep ==
  ASSUME Tables, Pages, Windows, Asked, Steps
  PROVE  Windows'
<1> SUFFICES ASSUME NEW l \in Labels PROVE WindowAt(l)' BY DEF Windows
<1>1. page \in [Labels -> WindowType] /\ page[l] \in WindowType BY DEF Pages
<1>2. WindowAt(l) BY DEF Windows
<1>3. ASSUME NEW k \in Labels, Worker(k) PROVE WindowAt(l)'
  <2>1. CASE k = l BY <1>3, <2>1, PageStep
  <2>2. CASE k # l
    <3>1. page'[l] = page[l] BY <1>3, <2>2, PageStep
    <3>2. life' = life
      BY <1>3, Zenon DEF Worker, StartWorker, Import, Loaded, Activate, TellInstalled, AddListener
    <3> QED BY <1>2, <3>1, <3>2 DEF WindowAt, PackageOf
  <2> QED BY <2>1, <2>2
<1>4. ASSUME NEW i \in Ids, Manage(i) PROVE WindowAt(l)'
  <2>1. CASE CloseWindow(i) /\ LabelOf(i) = l
    <3>1. page'[l] = NoPage BY <1>1, <2>1 DEF CloseWindow
    <3> QED BY <3>1 DEF WindowAt, NoPage
  <2>2. CASE OpenWindow(i) /\ LabelOf(i) = l /\ page'[l] # page[l]
    <3> DEFINE w == [NoPage EXCEPT !.ext = i, !.code = "start"]
    <3>1. page'[l] = w BY <1>1, <2>2 DEF OpenWindow
    <3>2. /\ w.ext = i /\ w.code = "start" /\ w.early = {} /\ w.listeners = {} /\ ~w.told
      BY DEF NoPage
    <3>3. life'[i].phase = "open" BY <2>2 DEF OpenWindow, Enter, Tables, LifeType
    <3>4. i # None BY ResourcesAssumption
    <3> HIDE DEF w
    <3> QED BY <3>1, <3>2, <3>3, <3>4 DEF WindowAt
  <2>3. CASE ~(CloseWindow(i) /\ LabelOf(i) = l) /\ page'[l] = page[l]
    <3>1. page[l].ext # None => /\ life'[page[l].ext].phase \in {"open", "ready"}
                                /\ life'[page[l].ext].package = life[page[l].ext].package
      BY <1>4, <2>3, Running
    <3>2. page[l].told => page[l].ext # None BY <1>2 DEF WindowAt, NoPage
    <3> QED BY <1>2, <2>3, <3>1, <3>2 DEF WindowAt, PackageOf
  <2>4. LabelOf(i) # l => page'[l] = page[l]
    BY <1>1, <1>4 DEF Manage, Install, Enable, OpenWindow, Project, CloseWindow, Unroot, Prune
  <2>5. ~OpenWindow(i) /\ ~CloseWindow(i) => page' = page
    BY <1>4 DEF Manage, Install, Enable, Project, Unroot, Prune
  <2>6. ~(OpenWindow(i) /\ CloseWindow(i)) BY DEF OpenWindow, CloseWindow
  <2> QED BY <2>1, <2>2, <2>3, <2>4, <2>5, <2>6
<1>5. CASE UNCHANGED <<page, life>> BY <1>2, <1>5 DEF WindowAt, PackageOf
<1> QED BY <1>3, <1>4, <1>5, HandleKeeps DEF Steps, PageAnswered, PageAsks, EditPackage

-----------------------------------------------------------------------------
(* A worker's request is asked by the page that waits for it. *)

\* What is asked, by whom, is kept by the steps that let a request be.
LEMMA StaysFields ==
  ASSUME req \in ReqType, Stays
  PROVE  /\ req'.at = req.at /\ req'.by = req.by /\ req'.wants = req.wants /\ req'.path = req.path
         /\ req'.owner = req.owner /\ req'.rel = req.rel /\ req'.root = req.root
         /\ req'.own = req.own /\ req'.answer = req.answer
         /\ ~req'.disturbed => req' = req
<1>1. CASE req' = [req EXCEPT !.disturbed = TRUE] BY <1>1 DEF ReqType
<1> QED BY <1>1 DEF Stays

\* A page that waits for an answer stays, and goes on waiting.
LEMMA Waits ==
  ASSUME Pages, Windows, Requests, Asked, Steps, req.by \in Labels, req' # NoReq
  PROVE  page'[req.by].ext = page[req.by].ext /\ page'[req.by].code = page[req.by].code
<1> DEFINE l == req.by
<1>1. page \in [Labels -> WindowType] /\ l \in Labels /\ page[l] \in WindowType BY DEF Pages
<1>2. req.at # "none"
  <2>1. None \notin Labels BY ResourcesAssumption
  <2> QED BY <2>1 DEF Asked, NoReq
<1>3. page[l].code \in {"entry", "import"} /\ page[l].ext # None
  <2>1. page[l].ext = req.wants.ext /\ page[l].code \in {"entry", "import"} BY DEF Asked
  <2>2. req.wants.ext \in Ids BY <1>2 DEF Asked, WantType
  <2> QED BY <2>1, <2>2, ResourcesAssumption
<1> HIDE DEF l
<1>4. ASSUME NEW k \in Labels, Worker(k) PROVE page'[l].ext = page[l].ext /\ page'[l].code = page[l].code
  <2>1. CASE k # l
    <3>1. page'[l] = page[l] BY <1>1, <1>4, <2>1, PageStep
    <3> QED BY <3>1
  <2>2. CASE k = l
    <3>1. TellInstalled(l)
      <4>1. ~StartWorker(l) /\ ~Activate(l) BY <1>3 DEF StartWorker, Activate
      <4>2. \A ref \in Refs : ~Import(l, ref) BY <1>3 DEF Import
      <4>3. \A x \in Listeners : ~AddListener(l, x) BY <1>3 DEF AddListener
      <4>4. ~Loaded(l) BY DEF Loaded
      <4> QED BY <1>4, <2>2, <4>1, <4>2, <4>3, <4>4 DEF Worker
    <3> DEFINE b == page[l].listeners = {}
               w == [page[l] EXCEPT !.told = TRUE, !.buffered = b, !.heard = page[l].listeners]
    <3>2. page'[l] = w BY <1>1, <3>1 DEF TellInstalled, SetPage
    <3> HIDE DEF b
    <3>3. w.ext = page[l].ext /\ w.code = page[l].code BY <1>1 DEF WindowType
    <3> HIDE DEF w
    <3> QED BY <3>2, <3>3
  <2> QED BY <2>1, <2>2
<1>5. ASSUME NEW i \in Ids, Manage(i) PROVE page'[l] = page[l]
  <2>1. CloseWindow(i) => LabelOf(i) # l BY DEF CloseWindow, l
  <2>2. OpenWindow(i) /\ LabelOf(i) = l => page' = page BY <1>3 DEF OpenWindow
  <2>3. LabelOf(i) # l => page'[l] = page[l]
    BY <1>1, <1>5 DEF Manage, Install, Enable, OpenWindow, Project, CloseWindow, Unroot, Prune
  <2>4. ~OpenWindow(i) /\ ~CloseWindow(i) => page' = page
    BY <1>5 DEF Manage, Install, Enable, Project, Unroot, Prune
  <2> QED BY <2>1, <2>2, <2>3, <2>4
<1>6. CASE UNCHANGED page BY <1>6
<1>7. page'[l].ext = page[l].ext /\ page'[l].code = page[l].code
  BY <1>4, <1>5, <1>6, HandleKeeps DEF Steps, PageAnswered, PageAsks, EditPackage
<1> QED BY <1>7 DEF l

LEMMA AskedStep ==
  ASSUME Tables, Pages, Windows, Requests, Asked, Steps
  PROVE  Asked'
<1>1. req \in ReqType BY DEF Requests
<1>2. None \notin Labels /\ Page # None BY ResourcesAssumption
<1>3. CASE req' = NoReq BY <1>2, <1>3 DEF Asked, NoReq
<1>4. CASE Asks
  <2>1. PICK by \in Labels \cup {Page}, i \in Ids, kind \in Kinds, rel \in CleanPaths,
             path \in Addresses : AsksFor(by, i, kind, rel, path)
    BY <1>4 DEF Asks
  <2>2. /\ req'.at = "label" /\ req'.by = by /\ ~req'.own /\ req'.wants \in WantType
        /\ req'.wants = [ext |-> i, kind |-> kind, rel |-> rel]
    BY <2>1, AskedRequest DEF AsksFor
  <2>3. req'.wants.ext = i /\ req'.wants.rel = rel BY <2>2
  <2> QED BY <2>1, <2>2, <2>3 DEF Asked, AsksFor
<1>5. CASE Handle
  <2>1. Same /\ req.at \notin {"none", "done"} /\ req'.at # "none" BY <1>5, HandleRequest
  <2>2. page' = page BY <1>5, HandleKeeps
  <2>3. req'.at \in {"label", "split", "root", "registry"} => ~req'.own
    <3>1. ASSUME NEW code \in {200, 400, 403, 404}, Answer(code) PROVE req'.at = "done"
      BY <1>1, <3>1, Answered
    <3>2. ASSUME NEW at \in {"split", "registry", "check", "read"}, req' = [req EXCEPT !.at = at]
          PROVE  req'.at = at /\ req'.own = req.own
      BY <1>1, <3>2, Moved
    <3>3. CASE FindByLabel BY <1>1, <3>3, Found
    <3>4. CASE Split BY <1>1, <3>4, Taken DEF Asked
    <3>5. CASE GetRoot \/ GetLoaded BY <1>1, <3>5, Given
    <3>6. CASE NoSuchLabel \/ NoRoot BY <3>2, <3>6 DEF NoSuchLabel, NoRoot, Handling, Asked
    <3>7. CASE Resolve \/ Check BY <3>2, <3>7 DEF Resolve, Check
    <3>8. CASE BadPath \/ NotLoaded \/ Refuse \/ Read \/ Miss
      BY <3>1, <3>8 DEF BadPath, NotLoaded, Refuse, Read, Miss
    <3> QED BY <1>5, <3>3, <3>4, <3>5, <3>6, <3>7, <3>8 DEF Handle
  <2> QED BY <2>1, <2>2, <2>3 DEF Asked, Same
<1>6. CASE Stays /\ req' # NoReq
  <2>1. /\ req'.at = req.at /\ req'.by = req.by /\ req'.wants = req.wants /\ req'.own = req.own
    BY <1>1, <1>6, StaysFields
  <2>2. req.at = "none" => req' = NoReq
    <3>1. NoReq.wants = None BY DEF NoReq
    <3> QED BY <1>6, <3>1 DEF Asked, Stays
  <2>3. req.by \in Labels => page'[req.by].ext = page[req.by].ext
                             /\ page'[req.by].code = page[req.by].code
    BY <1>6, Waits
  <2> QED BY <2>1, <2>2, <2>3 DEF Asked
<1> QED BY <1>3, <1>4, <1>5, <1>6, RequestSteps

-----------------------------------------------------------------------------
(* Requests that nothing disturbs. *)

\* While a request is not disturbed, neither its extension's package nor what
\* is published under its label changes.
LEMMA Steady ==
  ASSUME Tables, Published, Steps, req \in ReqType, Stays, ~req'.disturbed,
         req.wants \in WantType
  PROVE  LET i == req.wants.ext IN
         /\ i \in Ids /\ req' = req
         /\ \A j \in Ids : LabelOf(j) = LabelOf(i) => roots'[j] = roots[j]
         /\ life[i].phase = "gone" => life'[i].phase = "gone"
         /\ life[i].phase # "gone" =>
              /\ life'[i].phase # "gone" /\ life'[i].dir = life[i].dir
              /\ life'[i].package = life[i].package
              /\ disk'[life[i].dir] = disk[life[i].dir]
<1> DEFINE i == req.wants.ext
           Kept == /\ \A j \in Ids : LabelOf(j) = LabelOf(i) => roots'[j] = roots[j]
                   /\ life[i].phase = "gone" => life'[i].phase = "gone"
                   /\ life[i].phase # "gone" =>
                        /\ life'[i].phase # "gone" /\ life'[i].dir = life[i].dir
                        /\ life'[i].package = life[i].package
                        /\ disk'[life[i].dir] = disk[life[i].dir]
<1>1. i \in Ids /\ req.wants # None BY ResourcesAssumption DEF WantType
<1>2. req' = req BY StaysFields
<1>3. \A j : Disturb(j) => LabelOf(j) # LabelOf(i)
  <2>1. [req EXCEPT !.disturbed = TRUE].disturbed = TRUE BY DEF ReqType
  <2> QED BY <1>1, <2>1 DEF Disturb
<1>4. /\ life \in [Ids -> LifeType] /\ roots \in [Ids -> Root \cup {None}] /\ life[i] \in LifeType
  BY <1>1 DEF Tables
<1>5. ASSUME NEW k \in Ids, Manage(k) PROVE Kept
  <2>1. disk' = disk
    BY <1>5 DEF Manage, Install, Enable, OpenWindow, Project, CloseWindow, Unroot, Prune
  <2>2. CASE LabelOf(k) # LabelOf(i)
    <3>1. life'[i] = life[i]
      BY <1>1, <1>4, <1>5, <2>2
      DEF Manage, Install, Enable, OpenWindow, Project, CloseWindow, Unroot, Prune, Enter
    <3>2. \A j \in Ids : j # k => roots'[j] = roots[j]
      BY <1>4, <1>5
      DEF Manage, Install, Enable, OpenWindow, Project, CloseWindow, Unroot, Prune, Publish
    <3> QED BY <2>1, <2>2, <3>1, <3>2
  <2>3. CASE OpenWindow(k) \/ Project(k) \/ CloseWindow(k)
    <3>1. PICK phase \in {"open", "ready", "closed"} : Enter(k, phase) /\ life[k].phase # "gone"
      BY <2>3 DEF OpenWindow, Project, CloseWindow
    <3>2. roots' = roots BY <2>3 DEF OpenWindow, Project, CloseWindow
    <3>3. \/ life'[i] = life[i]
          \/ /\ i = k /\ life'[i].phase = phase /\ life'[i].dir = life[i].dir
             /\ life'[i].package = life[i].package
      BY <1>1, <1>4, <3>1 DEF Enter, LifeType
    <3> QED BY <2>1, <3>1, <3>2, <3>3
  <2> QED BY <1>3, <1>5, <2>2, <2>3 DEF Manage, Install, Enable, Unroot, Prune
<1>6. ASSUME NEW d \in Dirs, NEW p \in Packages, EditPackage(d, p) PROVE Kept
  <2>1. /\ disk' = [disk EXCEPT ![d] = p] /\ p.id = disk[d].id /\ UNCHANGED <<life, roots>>
        /\ LabelOf(p.id) # LabelOf(i)
    BY <1>3, <1>6 DEF EditPackage
  <2>2. life[i].phase # "gone" => disk[life[i].dir].id = i /\ life[i].dir \in Dirs
    BY <1>1 DEF Published, PublishedAt, Tables
  <2> QED BY <2>1, <2>2 DEF Tables
<1>7. UNCHANGED <<disk, life, roots, registry>> => Kept OBVIOUS
<1> HIDE DEF Kept
<1>8. Kept BY <1>5, <1>6, <1>7, TablesKept
<1> QED BY <1>1, <1>2, <1>8 DEF Kept

\* What a package holds is named by paths that no id is part of.
LEMMA FilesArePaths ==
  ASSUME Tables, NEW d \in Dirs
  PROVE  /\ <<>> \notin disk[d].files
         /\ \A i \in Ids : <<i>> \notin disk[d].files
<1>1. disk[d].files \subseteq Paths \ {<<>>}
  <2>1. disk[d] \in PackageType BY ResourcesAssumption DEF Tables
  <2> QED BY <2>1 DEF PackageType
<1>2. \A i \in Ids : <<i>> \notin Paths
  <2>1. ASSUME NEW i \in Ids, <<i>> \in Seq(Segments \ Ids) PROVE FALSE
    <3>1. 1 \in 1 .. Len(<<i>>) /\ <<i>>[1] = i OBVIOUS
    <3>2. <<i>>[1] \in Segments \ Ids BY <2>1, <3>1, ElementOfSeq
    <3> QED BY <3>1, <3>2
  <2> QED BY <2>1 DEF Paths
<1> QED BY <1>1, <1>2

\* A cleaned path is normal unless it is empty.
LEMMA CleanIsNormal ==
  ASSUME NEW m \in CleanPaths, ~Normal(m)
  PROVE  m = <<>>
<1>1. \A n \in DOMAIN m : m[n] \notin {Up, Dot} BY DEF CleanPaths
<1> QED BY <1>1 DEF Normal

\* Whose package a worker's request is for.
LEMMA WorkersPackage ==
  ASSUME Tables, Pages, Windows, Published, Asked, req.by \in Labels
  PROVE  LET i == req.wants.ext IN
         /\ i \in Ids /\ LabelOf(i) = req.by /\ req.wants.rel \in CleanPaths
         /\ life[i].phase \in {"open", "ready"} /\ life[i].dir \in Dirs
         /\ roots[i] = Rec(i) /\ roots[i] # None /\ roots[i].dir = life[i].dir
<1> DEFINE i == req.wants.ext
<1>1. None \notin Labels /\ None \notin Ids BY ResourcesAssumption
<1>2. req.wants \in WantType /\ req.wants.rel \in CleanPaths /\ page[req.by].ext = i
  BY <1>1 DEF Asked, NoReq
<1>3. i \in Ids BY <1>2 DEF WantType
<1>4. LabelOf(i) = req.by BY <1>1, <1>2, <1>3 DEF Pages
<1>5. life[i].phase \in {"open", "ready"} BY <1>1, <1>2, <1>3 DEF Windows, WindowAt
<1>6. life[i].dir \in Dirs /\ life[i].package \in PackageType
  BY <1>3, <1>5, ResourcesAssumption DEF Tables
<1>7. roots[i] = Rec(i) BY <1>3, <1>5 DEF Published, PublishedAt
<1>8. Rec(i) \in Root /\ Rec(i).dir = life[i].dir BY <1>6 DEF Rec, Root, PackageType
<1> QED BY <1>2, <1>3, <1>4, <1>5, <1>6, <1>7, <1>8, ResourcesAssumption

\* The handler keeps what is known of a worker's request.
LEMMA WorkerHandled ==
  ASSUME Tables, Pages, Windows, Published, Requests, Asked, WorkerRight, Handle, WorkerAlone'
  PROVE  WorkerKnown'
<1> DEFINE i == req.wants.ext
           m == req.wants.rel
           RelOf(rel) == rel = m \/ (m = <<>> /\ rel = <<i>>)
<1>1. req \in ReqType BY DEF Requests
<1>2. UNCHANGED <<disk, life, roots, registry, page>> BY HandleKeeps
<1>3. Same BY HandleRequest
<1>4. WorkerAlone /\ req'.wants = req.wants /\ req'.path = req.path /\ req'.by = req.by
  BY <1>2, <1>3 DEF WorkerAlone, Same, Alone, PlainReq, RightAddress
<1>5. WorkerKnown BY <1>4 DEF WorkerRight
<1>6. /\ i \in Ids /\ LabelOf(i) = req.by /\ m \in CleanPaths
      /\ life[i].dir \in Dirs /\ roots[i] = Rec(i) /\ roots[i] # None
      /\ roots[i].dir = life[i].dir
  BY <1>4, WorkersPackage DEF WorkerAlone
<1>7. AtFile /\ AtFile' BY <1>4, <1>5 DEF AtFile, WorkerKnown
<1>8. Labelled(req.by) = {i}
  BY <1>4, <1>6 DEF WorkerAlone, Alone, Labelled
<1>9. req.at # "label" => /\ req.root = Rec(i) /\ req.own /\ RelOf(req.rel)
                          /\ req.at \in {"resolve", "check", "read", "done"}
  BY <1>5 DEF WorkerKnown
<1>10. Rec(i)' = Rec(i) BY <1>2, <1>4 DEF Rec
<1>11. ASSUME NEW code \in {200, 400, 403, 404}, Answer(code), req.at # "label",
              code = 200 <=> req.rel \in disk[life[i].dir].files
       PROVE  WorkerKnown'
  <2>1. /\ req'.at = "done" /\ req'.answer = code
        /\ req'.own = req.own /\ req'.rel = req.rel /\ req'.root = req.root
    BY <1>1, <1>11, Answered
  <2> QED BY <1>2, <1>4, <1>7, <1>9, <1>10, <1>11, <2>1 DEF WorkerKnown
<1>12. ASSUME NEW at \in {"check", "read"}, req' = [req EXCEPT !.at = at], req.at # "label"
       PROVE  WorkerKnown'
  <2>1. req'.at = at /\ req'.own = req.own /\ req'.rel = req.rel /\ req'.root = req.root
    BY <1>1, <1>12, Moved
  <2> QED BY <1>4, <1>7, <1>9, <1>10, <1>12, <2>1 DEF WorkerKnown
<1>13. CASE FindByLabel
  <2>1. req.at = "label" /\ req'.at = "resolve" /\ req'.own BY <1>1, <1>13, Found
  <2>2. req'.root = roots[i] /\ req'.rel = BgRequestRel(i, req.path) BY <1>1, <1>8, <1>13, Found
  <2>3. RelOf(req'.rel) BY <1>6, <1>7, <2>2, FileOf DEF AtFile
  <2> QED BY <1>4, <1>6, <1>7, <1>10, <2>1, <2>2, <2>3 DEF WorkerKnown
<1>14. CASE NoSuchLabel \/ BadPath \/ Split \/ GetRoot \/ NoRoot \/ GetLoaded \/ NotLoaded
  <2>1. ~NoSuchLabel BY <1>8 DEF NoSuchLabel
  <2>2. req.at \in {"split", "root", "registry"}
    BY <1>14, <2>1 DEF BadPath, Split, GetRoot, NoRoot, GetLoaded, NotLoaded, Handling
  <2> QED BY <1>9, <2>2
<1>15. CASE Resolve \/ Check BY <1>12, <1>15 DEF Resolve, Check, Handling
<1>16. CASE Refuse
  <2>1. req.at = "resolve" /\ ~Normal(req.rel) BY <1>9, <1>16 DEF Refuse, Resolves, Handling
  <2>2. req.rel = <<>> \/ req.rel = <<i>> BY <1>6, <1>9, <2>1, CleanIsNormal
  <2>3. req.rel \notin disk[life[i].dir].files BY <1>6, <2>2, FilesArePaths
  <2> QED BY <1>11, <1>16, <2>1, <2>3 DEF Refuse
<1>17. CASE Read \/ Miss
  <2>1. req.at \in {"check", "read"} BY <1>17 DEF Read, Miss, Handling
  <2>2. OnDisk <=> req.rel \in disk[life[i].dir].files BY <1>6, <1>9, <2>1 DEF OnDisk
  <2>3. (Answer(200) /\ OnDisk) \/ (Answer(404) /\ ~OnDisk) BY <1>17 DEF Read, Miss
  <2> QED BY <1>11, <2>1, <2>2, <2>3
<1> QED BY <1>13, <1>14, <1>15, <1>16, <1>17 DEF Handle

LEMMA WorkerStep ==
  ASSUME Tables, Pages, Windows, Published, Requests, Asked, WorkerRight, Steps
  PROVE  WorkerRight'
<1> SUFFICES ASSUME WorkerAlone' PROVE WorkerKnown' BY DEF WorkerRight
<1>1. req \in ReqType BY DEF Requests
<1>2. req' # NoReq
  <2>1. None \notin Labels BY ResourcesAssumption
  <2> QED BY <2>1 DEF WorkerAlone, NoReq
<1>3. CASE Asks
  <2>1. PICK by \in Labels \cup {Page}, i \in Ids, kind \in Kinds, rel \in CleanPaths,
             path \in Addresses : AsksFor(by, i, kind, rel, path)
    BY <1>3 DEF Asks
  <2>2. /\ req'.at = "label" /\ req'.path = Encode(path)
        /\ req'.wants = [ext |-> i, kind |-> kind, rel |-> rel]
    BY <2>1, AskedRequest DEF AsksFor
  <2>3. req'.wants.ext = i /\ req'.wants.rel = rel /\ req'.wants.kind = kind BY <2>2
  <2>4. Plain(rel) /\ (kind = "document" => BaseDir(life[i].package) = <<>>)
    BY <2>1, <2>3 DEF WorkerAlone, PlainReq, RightAddress, AsksFor
  <2>5. AtFile' BY <2>1, <2>2, <2>3, <2>4 DEF AtFile, AsksFor
  <2> QED BY <2>2, <2>5 DEF WorkerKnown
<1>4. CASE Stays
  <2>1. req'.by = req.by /\ req'.wants = req.wants /\ ~req'.disturbed
    BY <1>1, <1>4, StaysFields DEF WorkerAlone
  <2>2. req.by \in Labels BY <2>1 DEF WorkerAlone
  <2>3. req.wants \in WantType
    <3>1. None \notin Labels BY ResourcesAssumption
    <3> QED BY <2>2, <3>1 DEF Asked, NoReq
  <2> DEFINE i == req.wants.ext
  <2>4. /\ i \in Ids /\ req' = req
        /\ \A j \in Ids : LabelOf(j) = LabelOf(i) => roots'[j] = roots[j]
        /\ life[i].phase # "gone" =>
              /\ life'[i].phase # "gone" /\ life'[i].dir = life[i].dir
              /\ life'[i].package = life[i].package
              /\ disk'[life[i].dir] = disk[life[i].dir]
    BY <1>1, <1>4, <2>1, <2>3, Steady
  <2>5. life[i].phase # "gone" BY <2>2, WorkersPackage
  <2>6. WorkerAlone
    BY <2>4, <2>5 DEF WorkerAlone, Alone, PlainReq, RightAddress
  <2>7. Rec(i)' = Rec(i) BY <2>4, <2>5 DEF Rec
  <2> QED BY <2>4, <2>5, <2>6, <2>7 DEF WorkerRight, WorkerKnown, AtFile
<1> QED BY <1>2, <1>3, <1>4, WorkerHandled, RequestSteps

\* The handler keeps what is known of a web page's request.
LEMMA PageHandled ==
  ASSUME Tables, Published, Requests, Asked, PageRight, Handle, PageAlone'
  PROVE  PageKnown'
<1> DEFINE i == req.wants.ext
           m == req.wants.rel
           At == req.path = <<i>> \o m
<1>1. req \in ReqType BY DEF Requests
<1>2. UNCHANGED <<disk, life, roots, registry, page>> BY HandleKeeps
<1>3. Same /\ req.at # "none" /\ req.at # "done" BY HandleRequest
<1>4. PageAlone /\ req'.wants = req.wants /\ req'.path = req.path /\ req'.by = Page
  BY <1>2, <1>3 DEF PageAlone, Same, PlainReq
<1>5. PageKnown BY <1>4 DEF PageRight
<1>6. i \in Ids /\ m \in CleanPaths BY <1>3 DEF Asked, WantType
<1>7. AtFile /\ AtFile' /\ ~req.own BY <1>4, <1>5 DEF AtFile, PageKnown
<1>8. Rec(i)' = Rec(i) /\ (Due' <=> Due) BY <1>2, <1>4 DEF Rec, Due
<1>9. /\ Len(<<i>> \o m) = Len(m) + 1 /\ Len(m) \in Nat
      /\ Head(<<i>> \o m) = i /\ Tail(<<i>> \o m) = m
      /\ m # <<>> => Head(m) \notin Ids
      /\ Len(m) = 0 => m = <<>>
  BY <1>6, Behind, EmptySeq DEF CleanPaths
<1>10. Due => m # <<>>
  <2>1. Due => life[i].dir \in Dirs /\ m \in disk[life[i].dir].files BY <1>6 DEF Due, Tables
  <2> QED BY <2>1, FilesArePaths
<1>11. ASSUME NEW code \in {200, 400, 403, 404}, Answer(code), code = 200 <=> Due
       PROVE  PageKnown'
  <2>1. req'.at = "done" /\ req'.answer = code /\ req'.own = req.own BY <1>1, <1>11, Answered
  <2> QED BY <1>7, <1>8, <1>11, <2>1 DEF PageKnown
<1>12. CASE FindByLabel
  <2>1. Page \notin Labels /\ req.by = Page BY <1>4, ResourcesAssumption DEF PageAlone
  <2>2. Labelled(req.by) = {} BY <2>1 DEF Labelled, Labels
  <2> QED BY <1>12, <2>2 DEF FindByLabel
<1>13. CASE NoSuchLabel
  <2>1. req'.at = "split" /\ req'.own = req.own BY <1>1, <1>13, Moved DEF NoSuchLabel
  <2> QED BY <1>7, <2>1 DEF PageKnown
<1>14. CASE BadPath
  <2>1. Len(req.path) < 2 BY <1>14 DEF BadPath
  <2>2. Due => Len(req.path) = Len(m) + 1 /\ Len(m) # 0 BY <1>9, <1>10, EmptySeq DEF Due, CleanPaths
  <2>3. ~Due BY <1>9, <2>1, <2>2
  <2> QED BY <1>11, <1>14, <2>3 DEF BadPath
<1>15. CASE Split
  <2>1. /\ req'.at = "root" /\ req'.own = req.own /\ req'.rel = Tail(req.path)
        /\ req'.owner = IF Head(req.path) \in Ids THEN Head(req.path) ELSE None
    BY <1>1, <1>15, Taken
  <2>2. Len(req.path) > 1 BY <1>15 DEF Split
  <2>3. IF At THEN req'.owner = i /\ req'.rel = m ELSE req'.owner = None
    <3>1. CASE At BY <1>6, <1>9, <2>1, <3>1
    <3>2. CASE ~At
      <4>1. req.path = m BY <1>7, <3>2 DEF AtFile
      <4>2. m # <<>> BY <2>2, <4>1
      <4> QED BY <1>9, <2>1, <3>2, <4>1, <4>2
    <3> QED BY <3>1, <3>2
  <2> QED BY <1>4, <1>7, <2>1, <2>3 DEF PageKnown
<1>16. CASE GetRoot \/ GetLoaded
  <2>1. /\ req.owner \in Ids /\ req'.at = "resolve" /\ req'.own = req.own /\ req'.rel = req.rel
        /\ \/ req.at = "root" /\ req'.root = roots[req.owner]
           \/ req.at = "registry" /\ req'.root = registry[req.owner]
    BY <1>1, <1>16, Given
  <2>2. None \notin Ids BY ResourcesAssumption
  <2>3. At /\ req.owner = i /\ req.rel = m BY <1>5, <2>1, <2>2 DEF PageKnown
  <2>4. life[i].phase # "gone" /\ req'.root = Rec(i)
    <3>1. life[i].phase \in Phases BY <1>6 DEF Tables, LifeType
    <3>2. CASE GetRoot
      <4>1. roots[i] # None /\ req.at = "root" BY <2>3, <3>2 DEF GetRoot, Handling
      <4> QED BY <1>6, <2>1, <2>3, <4>1, RootOfId DEF Published, PublishedAt
    <3>3. CASE GetLoaded
      <4>1. registry[i] # None /\ req.at = "registry" BY <2>3, <3>3 DEF GetLoaded, Handling
      <4>2. roots[i] = None BY <1>5, <2>3, <4>1 DEF PageKnown
      <4>3. life[i].phase \notin {"gone", "rooted", "open", "ready", "closed"}
        <5>1. Rec(i) # None \/ life[i].phase = "gone"
          <6>1. life[i].phase # "gone" => Rec(i) \in Root
            BY <1>6, ResourcesAssumption DEF Tables, Rec, Root, PackageType
          <6> QED BY <6>1, ResourcesAssumption
        <5> QED BY <1>6, <4>1, <4>2, <5>1 DEF Published, PublishedAt
      <4>4. life[i].phase = "unrooted" BY <3>1, <4>3 DEF Phases
      <4> QED BY <1>6, <2>1, <2>3, <4>1, <4>4 DEF Published, PublishedAt
    <3> QED BY <1>16, <3>2, <3>3
  <2> QED BY <1>2, <1>4, <1>7, <1>8, <2>1, <2>3, <2>4 DEF PageKnown
<1>17. CASE NoRoot
  <2>1. /\ req'.at = "registry" /\ req'.own = req.own /\ req'.owner = req.owner
        /\ req'.rel = req.rel /\ req.at = "root"
    BY <1>1, <1>17, Moved DEF NoRoot, Handling
  <2>2. IF At THEN req.owner = i /\ req.rel = m ELSE req.owner = None
    BY <1>5, <2>1 DEF PageKnown
  <2>3. req.owner = i => roots[i] = None
    <3>1. i # None BY <1>6, ResourcesAssumption
    <3> QED BY <1>17, <3>1 DEF NoRoot
  <2> QED BY <1>2, <1>4, <1>7, <2>1, <2>2, <2>3 DEF PageKnown
<1>18. CASE NotLoaded
  <2>1. req.at = "registry" /\ (req.owner = None \/ registry[req.owner] = None)
    BY <1>18 DEF NotLoaded, Handling
  <2>2. ~Due
    <3> SUFFICES ASSUME Due PROVE FALSE OBVIOUS
    <3>1. req.owner = i /\ i # None /\ roots[i] = None /\ registry[i] = None
      BY <1>5, <1>6, <2>1, ResourcesAssumption DEF Due, PageKnown
    <3>2. life[i].phase # "gone" BY DEF Due
    <3>3. Rec(i) \in Root
      BY <1>6, <3>2, ResourcesAssumption DEF Tables, Rec, Root, PackageType
    <3>4. life[i].phase \in Phases BY <1>6 DEF Tables, LifeType
    <3> QED BY <1>6, <3>1, <3>2, <3>3, <3>4, ResourcesAssumption DEF Published, PublishedAt, Phases
  <2> QED BY <1>11, <1>18, <2>2 DEF NotLoaded
<1>19. ASSUME req.at \in {"resolve", "check", "read"}
       PROVE  /\ At /\ life[i].phase # "gone" /\ req.rel = m
              /\ req.root.war = life[i].package.war /\ req.root.dir = life[i].dir
              /\ req.root = Rec(i)
  BY <1>5, <1>19 DEF PageKnown, Rec
<1>20. ASSUME NEW at \in {"check", "read"}, req' = [req EXCEPT !.at = at],
              req.at \in {"resolve", "check"}, m \in life[i].package.war
       PROVE  PageKnown'
  <2>1. req'.at = at /\ req'.own = req.own /\ req'.rel = req.rel /\ req'.root = req.root
    BY <1>1, <1>20, Moved
  <2> QED BY <1>2, <1>4, <1>7, <1>8, <1>19, <1>20, <2>1 DEF PageKnown
<1>21. CASE Resolve
  <2>1. req.at = "resolve" /\ Resolves BY <1>21 DEF Resolve, Handling
  <2>2. m \in life[i].package.war BY <1>7, <1>19, <2>1 DEF Resolves
  <2> QED BY <1>20, <1>21, <2>1, <2>2 DEF Resolve
<1>22. CASE Check
  <2>1. req.at = "check" BY <1>22 DEF Check, Handling
  <2>2. m \in life[i].package.war BY <1>5, <2>1 DEF PageKnown
  <2> QED BY <1>20, <1>22, <2>1, <2>2 DEF Check
<1>23. CASE Refuse
  <2>1. req.at = "resolve" /\ ~Resolves BY <1>23 DEF Refuse, Handling
  <2>2. ~Normal(m) \/ m \notin life[i].package.war BY <1>7, <1>19, <2>1 DEF Resolves
  <2>3. ~Due BY <1>6, <1>10, <2>2, CleanIsNormal DEF Due
  <2> QED BY <1>11, <1>23, <2>3 DEF Refuse
<1>24. CASE Read \/ Miss
  <2>1. req.at \in {"check", "read"} BY <1>24 DEF Read, Miss, Handling
  <2>2. m \in life[i].package.war BY <1>5, <2>1 DEF PageKnown
  <2>3. OnDisk <=> m \in disk[life[i].dir].files BY <1>19, <2>1 DEF OnDisk
  <2>4. OnDisk <=> Due BY <1>19, <2>1, <2>2, <2>3 DEF Due
  <2>5. (Answer(200) /\ OnDisk) \/ (Answer(404) /\ ~OnDisk) BY <1>24 DEF Read, Miss
  <2> QED BY <1>11, <2>4, <2>5
<1> QED
  BY <1>12, <1>13, <1>14, <1>15, <1>16, <1>17, <1>18, <1>21, <1>22, <1>23, <1>24 DEF Handle

LEMMA PageRightStep ==
  ASSUME Tables, Pages, Windows, Published, Requests, Asked, PageRight, Steps
  PROVE  PageRight'
<1> SUFFICES ASSUME PageAlone' PROVE PageKnown' BY DEF PageRight
<1>1. req \in ReqType BY DEF Requests
<1>2. Page # None BY ResourcesAssumption
<1>3. req' # NoReq BY <1>2 DEF PageAlone, NoReq
<1>4. CASE Asks
  <2>1. PICK by \in Labels \cup {Page}, i \in Ids, kind \in Kinds, rel \in CleanPaths,
             path \in Addresses : AsksFor(by, i, kind, rel, path)
    BY <1>4 DEF Asks
  <2>2. /\ req'.at = "label" /\ req'.path = Encode(path) /\ req'.by = by /\ ~req'.own
        /\ req'.wants = [ext |-> i, kind |-> kind, rel |-> rel]
    BY <2>1, AskedRequest DEF AsksFor
  <2>3. req'.wants.ext = i /\ req'.wants.rel = rel /\ by = Page BY <2>2 DEF PageAlone
  <2>4. Plain(rel) BY <2>3 DEF PageAlone, PlainReq
  <2>5. AtFile' BY <2>1, <2>2, <2>3, <2>4 DEF AtFile, AsksFor
  <2> QED BY <2>2, <2>5 DEF PageKnown
<1>5. CASE Stays
  <2>1. req'.by = req.by /\ req'.wants = req.wants /\ ~req'.disturbed
    BY <1>1, <1>5, StaysFields DEF PageAlone
  <2>2. req.by = Page BY <2>1 DEF PageAlone
  <2>3. req.wants \in WantType BY <1>2, <2>2 DEF Asked, NoReq
  <2> DEFINE i == req.wants.ext
  <2>4. /\ i \in Ids /\ req' = req
        /\ \A j \in Ids : LabelOf(j) = LabelOf(i) => roots'[j] = roots[j]
        /\ life[i].phase = "gone" => life'[i].phase = "gone"
        /\ life[i].phase # "gone" =>
              /\ life'[i].phase # "gone" /\ life'[i].dir = life[i].dir
              /\ life'[i].package = life[i].package
              /\ disk'[life[i].dir] = disk[life[i].dir]
    BY <1>1, <1>5, <2>1, <2>3, Steady
  <2>5. PageKnown BY <2>4 DEF PageRight, PageAlone, PlainReq
  <2>6. life[i].phase # "gone" => Rec(i)' = Rec(i) BY <2>4 DEF Rec
  <2>7. Due' <=> Due BY <2>4 DEF Due
  <2>8. roots'[i] = roots[i] BY <2>4
  <2>9. AtFile' <=> AtFile BY <2>4 DEF AtFile
  <2> QED BY <2>4, <2>5, <2>6, <2>7, <2>8, <2>9 DEF PageKnown
<1> QED BY <1>3, <1>4, <1>5, PageHandled, RequestSteps

-----------------------------------------------------------------------------
(* The theorems. *)

LEMMA InitInv == Init => Inv
<1> SUFFICES ASSUME Init PROVE Inv OBVIOUS
<1> USE DEF Init
<1>1. req = NoReq /\ req.at = "none" /\ req.by = None BY DEF NoReq
<1>2. None \notin Labels /\ Page # None /\ FirstDisk \in [Dirs -> Packages] BY ResourcesAssumption
<1>3. Tables BY <1>2 DEF Tables, Gone, LifeType, Phases
<1>4. Pages
  <2>1. NoPage \in WindowType /\ NoPage.ext = None BY DEF NoPage, WindowType
  <2> QED BY <2>1 DEF Pages
<1>5. Requests
  <2>1. NoReq \in ReqType BY DEF NoReq, ReqType, Addresses
  <2> QED BY <1>1, <2>1 DEF Requests
<1>6. Published BY DEF Published, PublishedAt, Gone
<1>7. Windows BY DEF Windows, WindowAt, NoPage
<1>8. Asked BY <1>1, <1>2 DEF Asked
<1>9. Owned BY <1>1 DEF Owned, Served
<1>10. WorkerRight /\ PageRight BY <1>1, <1>2 DEF WorkerRight, PageRight, WorkerAlone, PageAlone
<1> QED BY <1>3, <1>4, <1>5, <1>6, <1>7, <1>8, <1>9, <1>10, TypeParts DEF Inv

LEMMA InvStep == Inv /\ [Next]_vars => Inv'
<1> SUFFICES ASSUME Inv, [Next]_vars PROVE Inv' OBVIOUS
<1>1. /\ Tables /\ Pages /\ Requests /\ Published /\ Windows /\ Asked /\ Owned
      /\ WorkerRight /\ PageRight
  BY TypeParts DEF Inv
<1>2. (Tables /\ Pages /\ Requests)' => TypeOK'
  BY DEF TypeOK, Tables, Pages, Requests
<1>3. CASE Steps
  <2>1. Tables' /\ Pages' /\ Requests' BY <1>1, <1>3, TablesStep, PagesStep, RequestsStep
  <2>2. Published' /\ Windows' /\ Asked' BY <1>1, <1>3, PublishedStep, WindowsStep, AskedStep
  <2>3. Owned' BY <1>1, <1>3, OwnedStep
  <2>4. WorkerRight' /\ PageRight' BY <1>1, <1>3, WorkerStep, PageRightStep
  <2> QED BY <1>2, <2>1, <2>2, <2>3, <2>4 DEF Inv
<1>4. CASE UNCHANGED vars
  <2> USE <1>4 DEF vars
  <2>1. Tables' /\ Pages' /\ Requests' BY <1>1 DEF Tables, Pages, Requests
  <2>2. Published' BY <1>1 DEF Published, PublishedAt, Rec
  <2>3. Windows' BY <1>1 DEF Windows, WindowAt, PackageOf
  <2>4. Asked' /\ Owned' BY <1>1 DEF Asked, Owned, Served
  <2>5. WorkerRight'
    BY <1>1 DEF WorkerRight, WorkerAlone, WorkerKnown, Alone, PlainReq, RightAddress, AtFile, Rec
  <2>6. PageRight'
    BY <1>1 DEF PageRight, PageAlone, PageKnown, PlainReq, AtFile, Rec, Due
  <2> QED BY <1>2, <2>1, <2>2, <2>3, <2>4, <2>5, <2>6 DEF Inv
<1> QED BY <1>3, <1>4, NextSteps

\* The invariant holds of every state of every behaviour.
THEOREM Invariance == Spec => []Inv
<1>1. Init => Inv BY InitInv
<1>2. Inv /\ [Next]_vars => Inv' BY InvStep
<1> QED BY <1>1, <1>2, PTL DEF Spec

\* The tables, pages and requests have their types, and a request that is being
\* resolved was given a root by a table (lib.rs:138-188).
THEOREM TypeCorrect == Spec => []TypeOK
<1>1. Inv => TypeOK BY DEF Inv
<1> QED BY <1>1, Invariance, PTL

\* What a worker reads without its being declared is in a package of its own
\* label, in every interleaving of the handler with installs, reloads,
\* uninstalls and edits (lib.rs:138-153, resources.rs:375-386).
THEOREM WorkersReadTheirOwn == Spec => []OwnPackage
<1>1. Inv => OwnPackage BY DEF Inv, Owned, OwnPackage, Served
<1> QED BY <1>1, Invariance, PTL

\* A worker's reference is answered with the file it means to a browser, or not
\* at all if there is none (resources.rs:164-180, 245-263).
THEOREM WorkersFindTheirFiles == Spec => []WorkerFindsItsFiles
<1>1. ASSUME Inv PROVE WorkerFindsItsFiles
  <2> SUFFICES ASSUME Settled, req.by \in Labels, Alone(req.wants.ext), PlainReq
               PROVE  LET e == life[req.wants.ext] IN
                        \/ req.wants.kind = "document" /\ BaseDir(e.package) # <<>>
                        \/ IF req.wants.rel \in disk[e.dir].files
                           THEN Served /\ req.rel = req.wants.rel /\ req.root.dir = e.dir
                           ELSE ~Served
    BY DEF WorkerFindsItsFiles
  <2>1. CASE ~RightAddress BY <2>1 DEF RightAddress
  <2>2. CASE RightAddress
    <3> DEFINE i == req.wants.ext
               m == req.wants.rel
    <3>1. Tables /\ Pages /\ Windows /\ Published /\ Asked BY <1>1, TypeParts DEF Inv
    <3>2. i \in Ids /\ life[i].dir \in Dirs BY <3>1, WorkersPackage
    <3>3. req.at = "done" /\ WorkerKnown
      BY <1>1, <2>2 DEF Inv, WorkerRight, WorkerAlone, Settled
    <3>4. /\ req.root.dir = life[i].dir
          /\ req.rel = m \/ (m = <<>> /\ req.rel = <<i>>)
          /\ Served <=> req.rel \in disk[life[i].dir].files
      BY <3>3 DEF WorkerKnown, Rec, Served
    <3>5. <<>> \notin disk[life[i].dir].files /\ <<i>> \notin disk[life[i].dir].files
      BY <3>1, <3>2, FilesArePaths
    <3> QED BY <3>4, <3>5
  <2> QED BY <2>1, <2>2
<1> QED BY <1>1, Invariance, PTL

\* A web page's request is answered with a file exactly if the file is declared
\* and there, however the tables change hands meanwhile, from the first step of
\* an install to the last of an uninstall (lib.rs:160-194, manager.rs:225-247,
\* 320-328).
THEOREM PagesServed == Spec => []PagesGetDeclared
<1>1. Inv => PagesGetDeclared
  BY DEF Inv, PageRight, PageAlone, PageKnown, Due, PagesGetDeclared, Settled, Served
<1> QED BY <1>1, Invariance, PTL

\* The one onInstalled of a worker is heard, whatever order its configuration,
\* its evaluation and its listeners come in (bootstrap.ts:51-77, events.ts:31-51).
THEOREM InstallsHeard == Spec => []InstalledHeard
<1>1. Inv => InstalledHeard BY DEF Inv, Windows, WindowAt, InstalledHeard
<1> QED BY <1>1, Invariance, PTL
=============================================================================
