-------------------------- MODULE InjectionProofs --------------------------
(***************************************************************************)
(* Content scripts, for any windows, URLs, extensions and rules: frames    *)
(* are primed before their first script, page providers run before scripts *)
(* that harden the realm, no entry of a script list runs twice, and none   *)
(* that was there all along is left out.                                   *)
(***************************************************************************)
EXTENDS Injection, SequenceTheorems, WellFoundedInduction, TLAPS

-----------------------------------------------------------------------------
(* Induction, and what filtering and flattening do to sequences. *)

\* A set of numbers with 0 and every successor is all of them.
LEMMA Induction ==
  ASSUME NEW S, 0 \in S, \A n \in Nat : n \in S => n + 1 \in S
  PROVE  Nat \subseteq S
<1> DEFINE R == OpToRel(<, Nat)
<1>1. IsWellFoundedOn(R, Nat) BY NatLessThanWellFounded
<1>2. \A m, n \in Nat : m < n => <<m, n>> \in R BY DEF R, OpToRel
<1> HIDE DEF R
<1> SUFFICES ASSUME Nat \ S # {} PROVE FALSE OBVIOUS
<1>3. PICK n \in Nat \ S : \A m \in Nat \ S : ~(<<m, n>> \in R) BY <1>1, WFMin
<1>4. n # 0 /\ n \in Nat BY <1>3
<1>5. n - 1 \in Nat /\ n - 1 < n /\ (n - 1) + 1 = n BY <1>4
<1>6. n - 1 \in Nat \ S BY <1>5, <1>3
<1> QED BY <1>2, <1>3, <1>5, <1>6

\* What Kept takes of the first elements.
KeptStep(kept, s, S, n) ==
  IF n = 0 THEN <<>> ELSE IF s[n] \in S THEN Append(kept[n - 1], s[n]) ELSE kept[n - 1]

\* There is a function that satisfies Kept's recursion.
LEMMA KeptExists ==
  ASSUME NEW s, NEW S, NEW k \in Nat
  PROVE  \E kept : kept = [n \in 0 .. k |-> KeptStep(kept, s, S, n)]
<1> DEFINE D == {j \in Nat : \E f : f = [n \in 0 .. j |-> KeptStep(f, s, S, n)]}
<1>1. 0 \in D
  <2> DEFINE f == [n \in 0 .. 0 |-> <<>>]
  <2>1. f = [n \in 0 .. 0 |-> KeptStep(f, s, S, n)] BY DEF KeptStep
  <2> HIDE DEF f
  <2> QED BY <2>1
<1>2. ASSUME NEW j \in Nat, j \in D PROVE j + 1 \in D
  <2>1. PICK f : f = [n \in 0 .. j |-> KeptStep(f, s, S, n)] BY <1>2
  <2> DEFINE g == [n \in 0 .. (j + 1) |-> IF n = j + 1 THEN KeptStep(f, s, S, n) ELSE f[n]]
  <2>2. \A n \in 0 .. (j + 1) : g[n] = KeptStep(g, s, S, n)
    <3> TAKE n \in 0 .. (j + 1)
    <3>1. n # 0 => g[n - 1] = f[n - 1] OBVIOUS
    <3>2. KeptStep(g, s, S, n) = KeptStep(f, s, S, n) BY <3>1 DEF KeptStep
    <3>3. n \in 0 .. j => f[n] = KeptStep(f, s, S, n) BY <2>1
    <3> QED BY <3>2, <3>3
  <2>3. g = [n \in 0 .. (j + 1) |-> g[n]] OBVIOUS
  <2> HIDE DEF g
  <2>4. g = [n \in 0 .. (j + 1) |-> KeptStep(g, s, S, n)] BY <2>2, <2>3
  <2> QED BY <2>4
<1> HIDE DEF D
<1>3. k \in D BY <1>1, <1>2, Induction
<1> QED BY <1>3 DEF D

\* So Kept satisfies its recursion.
LEMMA KeptIs ==
  ASSUME NEW s, NEW S, Len(s) \in Nat
  PROVE  \A n \in 0 .. Len(s) : Kept(s, S)[n] = KeptStep(Kept(s, S), s, S, n)
<1>1. \E kept : kept = [n \in 0 .. Len(s) |-> KeptStep(kept, s, S, n)] BY KeptExists
<1>2. Kept(s, S) = CHOOSE kept : kept = [n \in 0 .. Len(s) |-> KeptStep(kept, s, S, n)]
  BY DEF Kept, KeptStep
<1>3. Kept(s, S) = [n \in 0 .. Len(s) |-> KeptStep(Kept(s, S), s, S, n)] BY <1>1, <1>2
<1> QED BY <1>3

\* Keep drops elements and nothing else: it has the type, exactly the elements
\* in S, and none twice unless the sequence had.
LEMMA KeepIs ==
  ASSUME NEW X, NEW s \in Seq(X), NEW S
  PROVE  /\ Keep(s, S) \in Seq(X)
         /\ \A x : x \in ToSet(Keep(s, S)) <=> x \in S /\ x \in ToSet(s)
         /\ IsInjective(s) => IsInjective(Keep(s, S))
<1> DEFINE k == Kept(s, S)
           Good(n) ==
             /\ k[n] \in Seq(X)
             /\ \A j \in DOMAIN k[n] : k[n][j] \in S /\ \E m \in 1 .. n : s[m] = k[n][j]
             /\ \A m \in 1 .. n : s[m] \in S => \E j \in DOMAIN k[n] : k[n][j] = s[m]
             /\ IsInjective(s) => IsInjective(k[n])
           G == {n \in Nat : n <= Len(s) => Good(n)}
<1>1. \A n \in 0 .. Len(s) : k[n] = KeptStep(k, s, S, n) BY KeptIs
<1> HIDE DEF k
<1>2. 0 \in G
  <2>1. k[0] = <<>> BY <1>1 DEF KeptStep
  <2>2. k[0] \in Seq(X) /\ DOMAIN k[0] = {} BY <2>1
  <2>3. \A m \in 1 .. 0 : FALSE OBVIOUS
  <2>4. Good(0) BY <2>2, <2>3 DEF IsInjective
  <2> QED BY <2>4
<1>3. ASSUME NEW n \in Nat, n \in G PROVE n + 1 \in G
  <2> SUFFICES ASSUME n + 1 <= Len(s) PROVE Good(n + 1) OBVIOUS
  <2>1. Good(n) BY <1>3
  <2>2. k[n + 1] = IF s[n + 1] \in S THEN Append(k[n], s[n + 1]) ELSE k[n]
    BY <1>1 DEF KeptStep
  <2>3. n + 1 \in DOMAIN s /\ 1 .. n \subseteq DOMAIN s /\ s[n + 1] \in X OBVIOUS
  <2>4. CASE s[n + 1] \notin S
    <3>1. k[n + 1] = k[n] BY <2>2, <2>4
    <3> QED BY <2>1, <2>4, <3>1
  <2>5. CASE s[n + 1] \in S
    <3>1. k[n + 1] = Append(k[n], s[n + 1]) BY <2>2, <2>5
    <3>2. /\ k[n + 1] \in Seq(X) /\ DOMAIN k[n + 1] = 1 .. (Len(k[n]) + 1)
          /\ DOMAIN k[n] = 1 .. Len(k[n]) /\ Len(k[n]) \in Nat
          /\ \A j \in DOMAIN k[n] : k[n + 1][j] = k[n][j]
          /\ k[n + 1][Len(k[n]) + 1] = s[n + 1]
      BY <3>1, <2>1, <2>3
    <3>3. \A j \in DOMAIN k[n + 1] :
            k[n + 1][j] \in S /\ \E m \in 1 .. (n + 1) : s[m] = k[n + 1][j]
      <4> TAKE j \in DOMAIN k[n + 1]
      <4>1. CASE j \in DOMAIN k[n] BY <4>1, <2>1, <3>2
      <4>2. CASE j = Len(k[n]) + 1 BY <4>2, <3>2, <2>5
      <4> QED BY <4>1, <4>2, <3>2
    <3>4. \A m \in 1 .. (n + 1) : s[m] \in S => \E j \in DOMAIN k[n + 1] : k[n + 1][j] = s[m]
      <4> TAKE m \in 1 .. (n + 1)
      <4>1. CASE m \in 1 .. n BY <4>1, <2>1, <3>2
      <4>2. CASE m = n + 1 BY <4>2, <3>2
      <4> QED BY <4>1, <4>2
    <3>5. IsInjective(s) => IsInjective(k[n + 1])
      <4> SUFFICES ASSUME IsInjective(s), NEW a \in DOMAIN k[n + 1], NEW b \in DOMAIN k[n + 1],
                          k[n + 1][a] = k[n + 1][b]
                   PROVE  a = b
        BY DEF IsInjective
      <4>1. \A j \in DOMAIN k[n] : k[n][j] # s[n + 1]
        BY <2>1, <2>3 DEF IsInjective
      <4>2. IsInjective(k[n]) BY <2>1
      <4>3. \A j \in DOMAIN k[n + 1] : j \in DOMAIN k[n] \/ j = Len(k[n]) + 1 BY <3>2
      <4> QED BY <4>1, <4>2, <4>3, <3>2 DEF IsInjective
    <3> QED BY <3>2, <3>3, <3>4, <3>5
  <2> QED BY <2>4, <2>5
<1> HIDE DEF G
<1>4. Len(s) \in G BY <1>2, <1>3, Induction
<1>5. Good(Len(s)) /\ Keep(s, S) = k[Len(s)] BY <1>4 DEF G, Keep, k
<1>6. \A x : x \in ToSet(s) <=> \E m \in 1 .. Len(s) : s[m] = x BY DEF ToSet
<1>7. \A x : x \in ToSet(k[Len(s)]) <=> \E j \in DOMAIN k[Len(s)] : k[Len(s)][j] = x BY DEF ToSet
<1> HIDE DEF k
<1> QED BY <1>5, <1>6, <1>7

\* One sequence after another has the elements of both, and each once if both
\* have and share none.
LEMMA ConcatIs ==
  ASSUME NEW X, NEW s \in Seq(X), NEW t \in Seq(X)
  PROVE  /\ s \o t \in Seq(X)
         /\ ToSet(s \o t) = ToSet(s) \cup ToSet(t)
         /\ IsInjective(s) /\ IsInjective(t) /\ ToSet(s) \cap ToSet(t) = {}
              => IsInjective(s \o t)
<1>1. /\ s \o t \in Seq(X) /\ DOMAIN (s \o t) = 1 .. (Len(s) + Len(t))
      /\ DOMAIN s = 1 .. Len(s) /\ DOMAIN t = 1 .. Len(t)
      /\ Len(s) \in Nat /\ Len(t) \in Nat
      /\ \A j \in DOMAIN s : (s \o t)[j] = s[j]
      /\ \A j \in DOMAIN t : (s \o t)[Len(s) + j] = t[j]
  OBVIOUS
<1>2. \A j \in DOMAIN (s \o t) : j \in DOMAIN s \/ (j - Len(s) \in DOMAIN t /\ Len(s) + (j - Len(s)) = j)
  BY <1>1
<1>3. \A j \in DOMAIN t : Len(s) + j \in DOMAIN (s \o t) BY <1>1
<1>4. \A j \in DOMAIN s : j \in DOMAIN (s \o t) BY <1>1
<1>5. \A j \in DOMAIN (s \o t) :
        \/ j \in DOMAIN s /\ (s \o t)[j] = s[j]
        \/ j - Len(s) \in DOMAIN t /\ (s \o t)[j] = t[j - Len(s)]
  BY <1>1, <1>2
<1>6. ToSet(s \o t) = ToSet(s) \cup ToSet(t)
  <2>1. ASSUME NEW x \in ToSet(s \o t) PROVE x \in ToSet(s) \cup ToSet(t) BY <1>5 DEF ToSet
  <2>2. ASSUME NEW x \in ToSet(s) PROVE x \in ToSet(s \o t) BY <1>1, <1>4 DEF ToSet
  <2>3. ASSUME NEW x \in ToSet(t) PROVE x \in ToSet(s \o t) BY <1>1, <1>3 DEF ToSet
  <2> QED BY <2>1, <2>2, <2>3
<1>7. ASSUME IsInjective(s), IsInjective(t), ToSet(s) \cap ToSet(t) = {},
             NEW a \in DOMAIN (s \o t), NEW b \in DOMAIN (s \o t), (s \o t)[a] = (s \o t)[b]
      PROVE  a = b
  <2>1. \A i \in DOMAIN s, j \in DOMAIN t : s[i] # t[j] BY <1>7 DEF ToSet
  <2>2. CASE a \in DOMAIN s /\ b \in DOMAIN s BY <2>2, <1>7, <1>1 DEF IsInjective
  <2>3. CASE a \notin DOMAIN s /\ b \notin DOMAIN s
    <3>1. /\ a - Len(s) \in DOMAIN t /\ (s \o t)[a] = t[a - Len(s)]
          /\ b - Len(s) \in DOMAIN t /\ (s \o t)[b] = t[b - Len(s)]
      BY <2>3, <1>5
    <3>2. a - Len(s) = b - Len(s) BY <3>1, <1>7 DEF IsInjective
    <3> QED BY <3>2, <1>1
  <2> QED BY <2>1, <2>2, <2>3, <1>5, <1>7
<1> QED BY <1>1, <1>6, <1>7 DEF IsInjective

\* What FlattenSeq makes of the first n sequences.
FlatStep(flat, ss, n) == IF n = 1 THEN ss[n] ELSE flat[n - 1] \o ss[n]

\* There is a function that satisfies FlattenSeq's recursion.
LEMMA FlatExists ==
  ASSUME NEW ss, NEW k \in Nat
  PROVE  \E flat : flat = [n \in 1 .. k |-> FlatStep(flat, ss, n)]
<1> DEFINE D == {j \in Nat : \E f : f = [n \in 1 .. j |-> FlatStep(f, ss, n)]}
<1>1. 0 \in D
  <2> DEFINE f == [n \in 1 .. 0 |-> <<>>]
  <2>1. f = [n \in 1 .. 0 |-> FlatStep(f, ss, n)] OBVIOUS
  <2> HIDE DEF f
  <2> QED BY <2>1
<1>2. ASSUME NEW j \in Nat, j \in D PROVE j + 1 \in D
  <2>1. PICK f : f = [n \in 1 .. j |-> FlatStep(f, ss, n)] BY <1>2
  <2> DEFINE g == [n \in 1 .. (j + 1) |-> IF n = j + 1 THEN FlatStep(f, ss, n) ELSE f[n]]
  <2>2. \A n \in 1 .. (j + 1) : g[n] = FlatStep(g, ss, n)
    <3> TAKE n \in 1 .. (j + 1)
    <3>1. n # 1 => g[n - 1] = f[n - 1] OBVIOUS
    <3>2. FlatStep(g, ss, n) = FlatStep(f, ss, n) BY <3>1 DEF FlatStep
    <3>3. n \in 1 .. j => f[n] = FlatStep(f, ss, n) BY <2>1
    <3> QED BY <3>2, <3>3
  <2>3. g = [n \in 1 .. (j + 1) |-> g[n]] OBVIOUS
  <2> HIDE DEF g
  <2>4. g = [n \in 1 .. (j + 1) |-> FlatStep(g, ss, n)] BY <2>2, <2>3
  <2> QED BY <2>4
<1> HIDE DEF D
<1>3. k \in D BY <1>1, <1>2, Induction
<1> QED BY <1>3 DEF D

\* Flattening keeps the type, has the elements of all parts, and each once if
\* every part has and no two share one.
LEMMA FlattenIs ==
  ASSUME NEW X, NEW ss \in Seq(Seq(X))
  PROVE  /\ FlattenSeq(ss) \in Seq(X)
         /\ \A x : x \in ToSet(FlattenSeq(ss)) <=> \E n \in DOMAIN ss : x \in ToSet(ss[n])
         /\ /\ \A n \in DOMAIN ss : IsInjective(ss[n])
            /\ \A m, n \in DOMAIN ss : m # n => ToSet(ss[m]) \cap ToSet(ss[n]) = {}
            => IsInjective(FlattenSeq(ss))
<1>1. CASE Len(ss) = 0
  <2>1. FlattenSeq(ss) = ss /\ ss = <<>> BY <1>1 DEF FlattenSeq
  <2>2. FlattenSeq(ss) = <<>> /\ DOMAIN ss = {} BY <2>1
  <2> QED BY <2>2 DEF ToSet, IsInjective
<1>2. CASE Len(ss) # 0
  <2> DEFINE flat == CHOOSE f : f = [n \in 1 .. Len(ss) |-> FlatStep(f, ss, n)]
             Apart == /\ \A n \in DOMAIN ss : IsInjective(ss[n])
                      /\ \A m, n \in DOMAIN ss : m # n => ToSet(ss[m]) \cap ToSet(ss[n]) = {}
             Good(n) == /\ flat[n] \in Seq(X)
                        /\ \A x : x \in ToSet(flat[n]) <=> \E m \in 1 .. n : x \in ToSet(ss[m])
                        /\ Apart => IsInjective(flat[n])
             G == {n \in Nat : n + 1 <= Len(ss) => Good(n + 1)}
  <2>1. FlattenSeq(ss) = flat[Len(ss)] BY <1>2 DEF FlattenSeq, FlatStep
  <2>2. flat = [n \in 1 .. Len(ss) |-> FlatStep(flat, ss, n)]
    <3>1. Len(ss) \in Nat OBVIOUS
    <3>2. \E f : f = [n \in 1 .. Len(ss) |-> FlatStep(f, ss, n)] BY <3>1, FlatExists
    <3> QED BY <3>2
  <2> HIDE DEF flat
  <2>3. \A n \in 1 .. Len(ss) : flat[n] = FlatStep(flat, ss, n) BY <2>2
  <2>4. 0 \in G
    <3>1. flat[1] = ss[1] /\ 1 \in DOMAIN ss BY <2>3, <1>2 DEF FlatStep
    <3>2. ss[1] \in Seq(X) BY <3>1
    <3>3. \A m \in 1 .. 1 : m = 1 OBVIOUS
    <3>4. Good(1) BY <3>1, <3>2, <3>3
    <3> QED BY <3>4
  <2>5. ASSUME NEW n \in Nat, n \in G PROVE n + 1 \in G
    <3> SUFFICES ASSUME (n + 1) + 1 <= Len(ss) PROVE Good((n + 1) + 1) OBVIOUS
    <3> DEFINE k == n + 1
    <3>1. Good(k) /\ k \in Nat /\ k # 0 BY <2>5
    <3>2. flat[k + 1] = flat[k] \o ss[k + 1]
      <4>1. k + 1 \in 1 .. Len(ss) /\ k + 1 # 1 /\ (k + 1) - 1 = k OBVIOUS
      <4>2. flat[k + 1] = FlatStep(flat, ss, k + 1) BY <4>1, <2>3
      <4> QED BY <4>1, <4>2 DEF FlatStep
    <3>3. /\ k + 1 \in DOMAIN ss /\ 1 .. k \subseteq DOMAIN ss /\ ss[k + 1] \in Seq(X)
          /\ 1 .. (k + 1) = (1 .. k) \cup {k + 1} /\ k + 1 \notin 1 .. k
      OBVIOUS
    <3> HIDE DEF k
    <3>4. /\ flat[k + 1] \in Seq(X) /\ ToSet(flat[k + 1]) = ToSet(flat[k]) \cup ToSet(ss[k + 1])
      BY <3>1, <3>2, <3>3, ConcatIs
    <3>5. Apart => ToSet(flat[k]) \cap ToSet(ss[k + 1]) = {} BY <3>1, <3>3
    <3>6. Apart => IsInjective(flat[k + 1]) BY <3>1, <3>2, <3>3, <3>5, ConcatIs
    <3>7. Good(k + 1) BY <3>1, <3>3, <3>4, <3>6
    <3> QED BY <3>7 DEF k
  <2> HIDE DEF G
  <2>6. Len(ss) - 1 \in Nat /\ (Len(ss) - 1) + 1 = Len(ss) BY <1>2
  <2>7. Len(ss) - 1 \in G BY <2>4, <2>5, <2>6, Induction
  <2>8. Good(Len(ss)) BY <2>6, <2>7 DEF G
  <2>9. DOMAIN ss = 1 .. Len(ss) OBVIOUS
  <2> QED BY <2>1, <2>8, <2>9
<1> QED BY <1>1, <1>2

-----------------------------------------------------------------------------
(* The inductive invariant. *)

StartQueued(l)    == events[l] \in {<<"start">>, <<"start", "finish">>}
FinishQueued(l)   == events[l] \in {<<"finish">>, <<"start", "finish">>}
Handles(l, phase) == Handling(l) /\ job.phase = phase
IsolatedThenMain(r, q) == r.world = "isolated" /\ q.world = "main"

\* A document's two events are handled in order, by a job that is about it.
Queue(l) ==
  /\ events[l] \in {<<>>, <<"start">>, <<"finish">>, <<"start", "finish">>}
  /\ doc[l] = None => events[l] = <<>> /\ ~Handling(l)
  /\ StartQueued(l) => ~Handling(l)
  /\ StartQueued(l) => (doc[l].loaded <=> FinishQueued(l))
  /\ FinishQueued(l) => doc[l].loaded /\ ~Handles(l, "finish")
  /\ Handles(l, "finish") => doc[l].loaded
  /\ Handling(l) => job.url = doc[l].url /\ ~Ignored(l)
Queues == \A l \in Labels : Queue(l)

\* Once its first event is handled, a document that kept its URL was primed
\* exactly if its frame is marked; only marked frames have scripts or an identity.
Marked(l) == <<l, doc[l].url>> \in marks
Primed(l) ==
  /\ StartQueued(l) => /\ doc[l].primed = "no" /\ doc[l].config = None
                       /\ doc[l].ran = <<>> /\ ~doc[l].moved
  /\ ~StartQueued(l) /\ ~doc[l].moved =>
       /\ doc[l].primed # "no" <=> Marked(l)
       /\ doc[l].config # None \/ doc[l].ran # <<>> => Marked(l)
Marks ==
  /\ \A l \in Showing : Primed(l)
  /\ \A l \in Labels, u \in Urls : <<l, u>> \in marks => l \notin BgLabels /\ u \notin Skipped
  /\ At("inject") => Frame \in marks

\* What ran in a document came in two phases, in each of them once and providers
\* first; the scripts of a job are not among it, and come in this order too.
OnlyStarts(l) == ~doc[l].loaded \/ FinishQueued(l) \/ Handles(l, "start")
Ran(l) ==
  /\ IsInjective(doc[l].ran)
  /\ \A m, n \in DOMAIN doc[l].ran :
       m < n /\ (doc[l].ran[m].at = "start" <=> doc[l].ran[n].at = "start")
         => ~IsolatedThenMain(doc[l].ran[m], doc[l].ran[n])
  /\ OnlyStarts(l) => \A n \in DOMAIN doc[l].ran : doc[l].ran[n].at = "start"
Collected ==
  /\ IsInjective(job.reqs)
  /\ job.at = "static" => \A n \in DOMAIN job.reqs :
       job.reqs[n].src \in Nat /\ job.reqs[n].ext \notin job.left
  /\ job.at = "dynamic" => \A n \in DOMAIN job.reqs :
       job.reqs[n].src \in Nat \/ job.reqs[n].ext \notin job.left
  /\ job.at \in {"prime", "inject"} =>
       /\ \A n \in DOMAIN job.reqs : Of(job.phase, job.reqs[n])
       /\ \A m, n \in DOMAIN job.reqs : m < n => ~IsolatedThenMain(job.reqs[m], job.reqs[n])
NotYet ==
  LET ran == doc[job.label].ran IN
  IF job.at = "inject"
  THEN \A m \in DOMAIN ran, n \in DOMAIN job.reqs :
         /\ ran[m] # job.reqs[n]
         /\ Of(job.phase, ran[m]) => ~IsolatedThenMain(ran[m], job.reqs[n])
  ELSE \A m \in DOMAIN ran : ~Of(job.phase, ran[m])
Scripts ==
  /\ \A l \in Showing : Ran(l)
  /\ job # None => Collected /\ NotYet
  /\ \A e \in Exts : UniqueIds(dynamic[e])

\* Every script that was there all along ran, failed, or is coming, as soon as
\* the event of its phase is taken off the queue.
Sure(l) ==
  /\ \A e \in Exts : <<e, "static">> \in doc[l].sure => e \in registry
  /\ \A e \in Exts, i \in Ids : <<e, i>> \in doc[l].sure => i \in IdsOf(dynamic[e])
Passed(l, phase) ==
  IF phase = "start" THEN ~StartQueued(l) ELSE doc[l].loaded /\ events[l] = <<>>
Coming(r) ==
  \/ r \in ToSet(job.reqs)
  \/ job.at = "static" /\ (r.src \in Ids \/ r.ext \in job.left)
  \/ job.at = "dynamic" /\ r.src \in Ids /\ r.ext \in job.left
Covered(l) ==
  \A phase \in {"start", "finish"}, r \in Expected(l) :
    Passed(l, phase) /\ Of(phase, r) =>
      r \in ToSet(doc[l].ran) \cup doc[l].lost \/ (Handles(l, phase) /\ Coming(r))
Excused(l) == Ignored(l) \/ doc[l].moved \/ doc[l].primed = "failed"
Coverage == \A l \in Showing : Sure(l) /\ (Excused(l) \/ Covered(l))

Inv == TypeOK /\ Queues /\ Marks /\ Scripts /\ Coverage

-----------------------------------------------------------------------------
(* What the walks collect. *)

\* A source's requests are of the source, well-typed and different.
LEMMA RequestsIs ==
  ASSUME NEW e \in Exts, NEW src \in Ids \cup Nat, NEW rule \in RuleType
  PROVE  /\ RequestsOf(e, src, rule) \in Seq(RequestType)
         /\ IsInjective(RequestsOf(e, src, rule))
         /\ \A r \in ToSet(RequestsOf(e, src, rule)) : r.ext = e /\ r.src = src
<1> DEFINE listed == [n \in DOMAIN rule.files |->
             [ext |-> e, src |-> src, nth |-> n, file |-> rule.files[n],
              at |-> rule.at, world |-> rule.world]]
           present == {r \in ToSet(listed) : r.file \notin Missing}
<1>1. /\ rule.files \in Seq(Files) /\ rule.at \in {"start", "end", "idle"}
      /\ rule.world \in {"main", "isolated"}
  BY DEF RuleType
<1>2. \A n \in DOMAIN rule.files : listed[n] \in RequestType BY <1>1 DEF RequestType
<1>3. DOMAIN listed = 1 .. Len(rule.files) /\ Len(rule.files) \in Nat BY <1>1
<1>4. listed \in Seq(RequestType) BY <1>2, <1>3
<1>5. IsInjective(listed) BY DEF IsInjective
<1>6. \A r \in ToSet(listed) : r.ext = e /\ r.src = src
  <2>1. \A n \in DOMAIN listed : listed[n].ext = e /\ listed[n].src = src OBVIOUS
  <2> HIDE DEF listed
  <2> QED BY <2>1 DEF ToSet
<1>7. RequestsOf(e, src, rule) = Keep(listed, present) BY DEF RequestsOf
<1> HIDE DEF listed, present
<1> QED BY <1>4, <1>5, <1>6, <1>7, KeepIs

\* So are those of an extension's rules,
LEMMA StaticIs ==
  ASSUME NEW e \in Exts, NEW u
  PROVE  /\ StaticRequests(e, u) \in Seq(RequestType)
         /\ IsInjective(StaticRequests(e, u))
         /\ \A r \in ToSet(StaticRequests(e, u)) : r.ext = e /\ r.src \in Nat
<1> DEFINE parts == [n \in DOMAIN Rules[e] |->
             IF u \in Rules[e][n].urls THEN RequestsOf(e, n, Rules[e][n]) ELSE <<>>]
<1>1. Rules[e] \in Seq(RuleType) BY InjectionAssumption
<1>2. /\ DOMAIN Rules[e] = 1 .. Len(Rules[e]) /\ Len(Rules[e]) \in Nat
      /\ \A n \in DOMAIN Rules[e] : n \in Nat /\ Rules[e][n] \in RuleType
  BY <1>1
<1>3. \A n \in DOMAIN Rules[e] :
        /\ parts[n] \in Seq(RequestType) /\ IsInjective(parts[n])
        /\ \A r \in ToSet(parts[n]) : r.ext = e /\ r.src = n
  <2> TAKE n \in DOMAIN Rules[e]
  <2>1. CASE u \in Rules[e][n].urls
    <3>1. parts[n] = RequestsOf(e, n, Rules[e][n]) BY <2>1
    <3> HIDE DEF parts
    <3> QED BY <3>1, <1>2, RequestsIs
  <2>2. CASE u \notin Rules[e][n].urls
    <3>1. parts[n] = <<>> BY <2>2
    <3> HIDE DEF parts
    <3> QED BY <3>1 DEF IsInjective, ToSet
  <2> QED BY <2>1, <2>2
<1>4. DOMAIN parts = DOMAIN Rules[e] OBVIOUS
<1>5. StaticRequests(e, u) = FlattenSeq(parts) BY DEF StaticRequests
<1>6. parts = [n \in DOMAIN Rules[e] |-> parts[n]] OBVIOUS
<1> HIDE DEF parts
<1>7. parts \in Seq(Seq(RequestType))
  <2>1. \A n \in 1 .. Len(Rules[e]) : parts[n] \in Seq(RequestType) BY <1>2, <1>3
  <2> QED BY <1>2, <1>6, <2>1
<1>8. \A m, n \in DOMAIN parts : m # n => ToSet(parts[m]) \cap ToSet(parts[n]) = {}
  BY <1>3, <1>4
<1>9. IsInjective(FlattenSeq(parts)) BY <1>3, <1>4, <1>7, <1>8, FlattenIs
<1>10. /\ FlattenSeq(parts) \in Seq(RequestType)
       /\ \A r \in ToSet(FlattenSeq(parts)) : \E n \in DOMAIN parts : r \in ToSet(parts[n])
  BY <1>7, FlattenIs
<1>11. \A r \in ToSet(FlattenSeq(parts)) : r.ext = e /\ r.src \in Nat
  BY <1>2, <1>3, <1>4, <1>10
<1> QED BY <1>5, <1>9, <1>10, <1>11

\* ... and those of its registrations, as long as their ids differ.
Asked(s, e, u) ==
  FlattenSeq([n \in DOMAIN s |->
    IF u \in s[n].rule.urls THEN RequestsOf(e, s[n].id, s[n].rule) ELSE <<>>])
LEMMA AskedIs ==
  ASSUME NEW s \in Seq(EntryType), NEW e \in Exts, NEW u
  PROVE  /\ Asked(s, e, u) \in Seq(RequestType)
         /\ UniqueIds(s) => IsInjective(Asked(s, e, u))
         /\ \A r \in ToSet(Asked(s, e, u)) : r.ext = e /\ r.src \in Ids
         /\ \A r : r \in ToSet(Asked(s, e, u)) <=>
              \E x \in ToSet(s) :
                u \in x.rule.urls /\ r \in ToSet(RequestsOf(e, x.id, x.rule))
<1> DEFINE parts == [n \in DOMAIN s |->
             IF u \in s[n].rule.urls
             THEN RequestsOf(e, s[n].id, s[n].rule) ELSE <<>>]
<1>2. /\ DOMAIN s = 1 .. Len(s) /\ Len(s) \in Nat
      /\ \A n \in DOMAIN s : s[n].id \in Ids /\ s[n].rule \in RuleType
  <2>1. \A n \in DOMAIN s : s[n] \in EntryType OBVIOUS
  <2>2. \A x \in EntryType : x.id \in Ids /\ x.rule \in RuleType BY DEF EntryType
  <2> QED BY <2>1, <2>2
<1>3. \A n \in DOMAIN s :
        /\ parts[n] \in Seq(RequestType) /\ IsInjective(parts[n])
        /\ \A r \in ToSet(parts[n]) : r.ext = e /\ r.src = s[n].id
        /\ \A r : r \in ToSet(parts[n]) <=> /\ u \in s[n].rule.urls
             /\ r \in ToSet(RequestsOf(e, s[n].id, s[n].rule))
  <2> TAKE n \in DOMAIN s
  <2>1. CASE u \in s[n].rule.urls
    <3>1. parts[n] = RequestsOf(e, s[n].id, s[n].rule) BY <2>1
    <3> HIDE DEF parts
    <3> QED BY <2>1, <3>1, <1>2, RequestsIs
  <2>2. CASE u \notin s[n].rule.urls
    <3>1. parts[n] = <<>> BY <2>2
    <3> HIDE DEF parts
    <3> QED BY <2>2, <3>1 DEF IsInjective, ToSet
  <2> QED BY <2>1, <2>2
<1>4. DOMAIN parts = DOMAIN s OBVIOUS
<1>5. Asked(s, e, u) = FlattenSeq(parts) BY DEF Asked
<1>6. parts = [n \in DOMAIN s |-> parts[n]] OBVIOUS
<1> HIDE DEF parts
<1>7. parts \in Seq(Seq(RequestType))
  <2>1. \A n \in 1 .. Len(s) : parts[n] \in Seq(RequestType) BY <1>2, <1>3
  <2> QED BY <1>2, <1>6, <2>1
<1>8. UniqueIds(s) =>
        \A m, n \in DOMAIN parts : m # n => ToSet(parts[m]) \cap ToSet(parts[n]) = {}
  BY <1>3, <1>4 DEF UniqueIds
<1>9. \A r : r \in ToSet(Asked(s, e, u)) <=> \E n \in DOMAIN parts : r \in ToSet(parts[n])
  BY <1>5, <1>7, FlattenIs
<1>10. ASSUME NEW r
       PROVE  (\E n \in DOMAIN parts : r \in ToSet(parts[n])) <=>
                \E x \in ToSet(s) :
                  u \in x.rule.urls /\ r \in ToSet(RequestsOf(e, x.id, x.rule))
  <2>1. \A x : x \in ToSet(s) <=> \E n \in DOMAIN s : s[n] = x
    BY DEF ToSet
  <2> QED BY <1>3, <1>4, <2>1
<1>11. UniqueIds(s) => IsInjective(Asked(s, e, u))
  BY <1>3, <1>4, <1>5, <1>7, <1>8, FlattenIs
<1>12. Asked(s, e, u) \in Seq(RequestType) BY <1>5, <1>7, FlattenIs
<1>13. \A r \in ToSet(Asked(s, e, u)) : r.ext = e /\ r.src \in Ids
  BY <1>2, <1>3, <1>4, <1>9
<1> QED BY <1>9, <1>10, <1>11, <1>12, <1>13

LEMMA DynamicIs ==
  ASSUME NEW e \in Exts, NEW u, dynamic \in [Exts -> Seq(EntryType)]
  PROVE  /\ DynamicRequests(e, u) = Asked(dynamic[e], e, u)
         /\ DynamicRequests(e, u) \in Seq(RequestType)
         /\ UniqueIds(dynamic[e]) => IsInjective(DynamicRequests(e, u))
         /\ \A r \in ToSet(DynamicRequests(e, u)) : r.ext = e /\ r.src \in Ids
<1>1. DynamicRequests(e, u) = Asked(dynamic[e], e, u) BY DEF DynamicRequests, Asked
<1> QED BY <1>1, AskedIs

\* Selecting a phase's scripts and putting page providers first loses and
\* repeats none, and a script that may harden the realm comes behind them.
LEMMA SelectIs ==
  ASSUME NEW phase, NEW reqs \in Seq(RequestType)
  PROVE  LET due == Due(phase, reqs) first == MainFirst(due) IN
         /\ first \in Seq(RequestType) /\ (due # <<>> => first # <<>>)
         /\ \A r : r \in ToSet(first) <=> r \in ToSet(reqs) /\ Of(phase, r)
         /\ due = <<>> => \A r \in ToSet(reqs) : ~Of(phase, r)
         /\ IsInjective(reqs) => IsInjective(first)
         /\ \A m, n \in DOMAIN first : m < n => ~IsolatedThenMain(first[m], first[n])
<1> DEFINE due   == Due(phase, reqs)
           mains == {r \in ToSet(due) : r.world = "main"}
           left  == Keep(due, mains)
           right == Keep(due, ToSet(due) \ mains)
           first == MainFirst(due)
<1>1. /\ due \in Seq(RequestType)
      /\ \A r : r \in ToSet(due) <=> r \in ToSet(reqs) /\ Of(phase, r)
      /\ IsInjective(reqs) => IsInjective(due)
  BY KeepIs DEF Due
<1> HIDE DEF due
<1>2. /\ left \in Seq(RequestType) /\ right \in Seq(RequestType)
      /\ \A r : r \in ToSet(left) <=> r \in mains
      /\ \A r : r \in ToSet(right) <=> r \in ToSet(due) \ mains
      /\ IsInjective(due) => IsInjective(left) /\ IsInjective(right)
  <2>1. /\ left \in Seq(RequestType) /\ (IsInjective(due) => IsInjective(left))
        /\ \A r : r \in ToSet(left) <=> r \in mains /\ r \in ToSet(due)
    BY <1>1, KeepIs
  <2>2. /\ right \in Seq(RequestType) /\ (IsInjective(due) => IsInjective(right))
        /\ \A r : r \in ToSet(right) <=> r \in ToSet(due) \ mains /\ r \in ToSet(due)
    BY <1>1, KeepIs
  <2>3. mains \subseteq ToSet(due) OBVIOUS
  <2> HIDE DEF mains, left, right
  <2> QED BY <2>1, <2>2, <2>3
<1>3. first = left \o right BY DEF MainFirst
<1> HIDE DEF left, right, first
<1>4. /\ first \in Seq(RequestType) /\ ToSet(first) = ToSet(left) \cup ToSet(right)
      /\ IsInjective(due) => IsInjective(first)
  <2>1. ToSet(left) \cap ToSet(right) = {} BY <1>2
  <2> QED BY <1>2, <1>3, <2>1, ConcatIs
<1>5. ToSet(first) = ToSet(due) BY <1>2, <1>4
<1>6. due # <<>> => first # <<>>
  <2> SUFFICES ASSUME due # <<>> PROVE first # <<>> OBVIOUS
  <2>1. due[1] \in ToSet(due) BY <1>1 DEF ToSet
  <2>2. ToSet(<<>>) = {} BY DEF ToSet
  <2> QED BY <1>5, <2>1, <2>2
<1>7. due = <<>> => \A r \in ToSet(reqs) : ~Of(phase, r)
  <2>1. ToSet(<<>>) = {} BY DEF ToSet
  <2> QED BY <1>1, <2>1
<1>8. ASSUME NEW m \in DOMAIN first, NEW n \in DOMAIN first, m < n
      PROVE  ~IsolatedThenMain(first[m], first[n])
  <2>1. /\ DOMAIN first = 1 .. (Len(left) + Len(right)) /\ Len(left) \in Nat /\ Len(right) \in Nat
        /\ \A j \in 1 .. Len(left) : first[j] = left[j] /\ left[j] \in ToSet(left)
        /\ \A j \in 1 .. Len(right) : first[Len(left) + j] = right[j] /\ right[j] \in ToSet(right)
    BY <1>2, <1>3 DEF ToSet
  <2>2. CASE m \in 1 .. Len(left)
    <3>1. first[m].world = "main" BY <2>1, <2>2, <1>2
    <3> QED BY <3>1 DEF IsolatedThenMain
  <2>3. CASE m \notin 1 .. Len(left)
    <3>1. n - Len(left) \in 1 .. Len(right) /\ Len(left) + (n - Len(left)) = n
      BY <2>1, <2>3, <1>8
    <3>2. first[n] \in ToSet(right) BY <2>1, <3>1
    <3>3. first[n].world # "main" BY <3>2, <1>2
    <3> QED BY <3>3 DEF IsolatedThenMain
  <2> QED BY <2>2, <2>3
<1> QED BY <1>1, <1>4, <1>5, <1>6, <1>7, <1>8 DEF due, first

-----------------------------------------------------------------------------
(* Types. *)

\* What the types say of a document and of a job.
LEMMA Typed ==
  ASSUME TypeOK
  PROVE  /\ \A l \in Showing : doc[l] \in DocType
         /\ \A l \in Labels \ Showing : doc[l] = None
         /\ job # None => job \in JobType
         /\ \A e \in Exts : dynamic[e] \in Seq(EntryType)
         /\ \A l \in Labels : events[l] \in Seq({"start", "finish"})
BY DEF TypeOK, Showing

\* A sequence that is not empty has a first element, and a rest.
LEMMA FirstAndRest ==
  ASSUME NEW X, NEW s \in Seq(X), s # <<>>
  PROVE  /\ s[1] \in X /\ s[1] = Head(s) /\ Tail(s) \in Seq(X) /\ Len(s) \in Nat \ {0}
         /\ 1 \in DOMAIN s /\ (Len(s) # 1 => Tail(s) # <<>>)
         /\ DOMAIN Tail(s) = 1 .. (Len(s) - 1)
         /\ \A n \in DOMAIN Tail(s) : n + 1 \in DOMAIN s /\ Tail(s)[n] = s[n + 1]
<1>1. Len(s) # 0 OBVIOUS
<1>2. Len(s) \in Nat /\ DOMAIN s = 1 .. Len(s) OBVIOUS
<1>3. Tail(s) \in Seq(X) /\ Len(Tail(s)) = Len(s) - 1 BY <1>1
<1>4. Len(s) # 1 => Tail(s) # <<>>
  <2>1. Len(<<>>) = 0 OBVIOUS
  <2> QED BY <1>1, <1>2, <1>3, <2>1
<1>5. \A n \in 1 .. (Len(s) - 1) : Tail(s)[n] = s[n + 1] BY <1>1
<1>6. DOMAIN Tail(s) = 1 .. (Len(s) - 1) BY <1>3
<1>7. s[1] \in X /\ s[1] = Head(s) BY <1>1
<1> QED BY <1>1, <1>2, <1>3, <1>4, <1>5, <1>6, <1>7

\* So does a document whose sources are cut.
LEMMA DocsWithoutTyped ==
  ASSUME TypeOK, NEW gone
  PROVE  DocsWithout(gone) \in [Labels -> DocType \cup {None}]
<1>1. ASSUME NEW l \in Labels, doc[l] # None PROVE [doc[l] EXCEPT !.sure = @ \ gone] \in DocType
  <2>1. doc[l] \in DocType BY <1>1, Typed DEF Showing
  <2> QED BY <2>1 DEF DocType
<1> QED BY <1>1 DEF DocsWithout

LEMMA TypeInit == Init => TypeOK
BY InjectionAssumption DEF Init, TypeOK, At

LEMMA NewDocumentTyped ==
  ASSUME TypeOK, NEW u \in Urls
  PROVE  NewDocument(u) \in DocType
<1>1. ASSUME NEW e \in Exts PROVE IdsOf(dynamic[e]) \subseteq Ids
  <2>1. \A n \in DOMAIN dynamic[e] : dynamic[e][n] \in EntryType BY Typed
  <2>2. \A x \in EntryType : x.id \in Ids BY DEF EntryType
  <2> QED BY <2>1, <2>2 DEF IdsOf, ToSet
<1>2. Sources \subseteq Exts \X (Ids \cup {"static"}) BY <1>1 DEF Sources, TypeOK
<1> QED BY <1>2 DEF NewDocument, DocType

LEMMA TypeNext == TypeOK /\ Queues /\ [Next]_vars => TypeOK'
<1> SUFFICES ASSUME TypeOK, Queues, [Next]_vars PROVE TypeOK' OBVIOUS
<1>1. ASSUME NEW l \in Labels, IgnoreEvent(l) PROVE TypeOK'
  <2>1. Tail(events[l]) \in Seq({"start", "finish"}) BY <1>1, Typed, FirstAndRest DEF IgnoreEvent
  <2> QED BY <1>1, <2>1 DEF IgnoreEvent, TypeOK, At
<1>2. ASSUME NEW l \in Labels, HandleEvent(l) PROVE TypeOK'
  <2>1. Tail(events[l]) \in Seq({"start", "finish"}) /\ Head(events[l]) \in {"start", "finish"}
    BY <1>2, Typed, FirstAndRest DEF HandleEvent
  <2>2. doc[l] # None BY <1>2 DEF HandleEvent, Queues, Queue
  <2>3. doc[l].url \in Urls BY <2>2, Typed DEF DocType, Showing
  <2>4. NewJob(l) \in JobType BY <2>1, <2>3 DEF NewJob, JobType
  <2> QED BY <1>2, <2>1, <2>3, <2>4 DEF HandleEvent, TypeOK, At, NewJob
<1>3. ASSUME NEW e \in Exts, WalkStatic(e) PROVE TypeOK'
  <2>1. job \in JobType /\ job.reqs \in Seq(RequestType) BY <1>3, Typed DEF WalkStatic, At, JobType
  <2>2. job.reqs \o StaticRequests(e, job.url) \in Seq(RequestType) BY <2>1, StaticIs, ConcatIs
  <2> QED BY <1>3, <2>1, <2>2 DEF WalkStatic, TypeOK, At, JobType
<1>4. ASSUME NEW e \in Exts, WalkDynamic(e) PROVE TypeOK'
  <2>1. job \in JobType /\ job.reqs \in Seq(RequestType) BY <1>4, Typed DEF WalkDynamic, At, JobType
  <2>2. job.reqs \o DynamicRequests(e, job.url) \in Seq(RequestType)
    BY <2>1, DynamicIs, ConcatIs DEF TypeOK
  <2> QED BY <1>4, <2>1, <2>2 DEF WalkDynamic, TypeOK, At, JobType
<1>5. ASSUME EndStatic PROVE TypeOK'
  BY <1>5, Typed DEF EndStatic, TypeOK, At, JobType
<1>6. ASSUME Select PROVE TypeOK'
  <2>1. job \in JobType /\ job.reqs \in Seq(RequestType) BY <1>6, Typed DEF Select, At, JobType
  <2> DEFINE due == Due(job.phase, job.reqs)
  <2>2. MainFirst(due) \in Seq(RequestType) /\ (due # <<>> => MainFirst(due) # <<>>)
    BY <2>1, SelectIs
  <2>3. job' = IF due = <<>> THEN None ELSE [job EXCEPT !.at = "prime", !.reqs = MainFirst(due)]
    BY <1>6 DEF Select
  <2>4. job' \in JobType \cup {None} BY <2>1, <2>2, <2>3 DEF JobType
  <2>5. (At("prime") \/ At("inject") => job.reqs # <<>>)' BY <2>1, <2>2, <2>3 DEF At, JobType
  <2> QED BY <1>6, <2>4, <2>5 DEF Select, TypeOK
<1>7. ASSUME Prime PROVE TypeOK'
  <2>1. job \in JobType /\ job.reqs \in Seq(RequestType) /\ job.reqs # <<>>
    BY <1>7, Typed DEF Prime, At, JobType, TypeOK
  <2>2. job.reqs[1] \in RequestType BY <2>1, FirstAndRest
  <2>3. job.label \in Labels /\ job.url \in Urls /\ job.reqs[1].ext \in Exts
    BY <2>1, <2>2 DEF JobType, RequestType
  <2>4. doc[job.label] \in DocType /\ doc[job.label].config \in Exts \cup {None}
    BY <1>7, <2>3, Typed DEF Prime, At, Queues, Queue, Handling, Showing, DocType
  <2>5. PICK c \in {doc[job.label].config, job.reqs[1].ext} :
          doc' = [doc EXCEPT ![job.label].primed = "yes", ![job.label].config = c]
    BY <1>7 DEF Prime
  <2>6. [doc[job.label] EXCEPT !.primed = "yes", !.config = c] \in DocType
    BY <2>3, <2>4 DEF DocType
  <2>7. doc' = [doc EXCEPT ![job.label] = [doc[job.label] EXCEPT !.primed = "yes", !.config = c]]
    BY <2>3, <2>5 DEF TypeOK
  <2>8. doc' \in [Labels -> DocType \cup {None}] BY <2>6, <2>7 DEF TypeOK
  <2>9. [job EXCEPT !.at = "inject"] \in JobType /\ [job EXCEPT !.at = "inject"].reqs = job.reqs
    BY <2>1 DEF JobType
  <2>10. job' \in JobType /\ job'.reqs = job.reqs BY <1>7, <2>9 DEF Prime
  <2>11. marks' \subseteq Labels \X Urls BY <1>7, <2>3 DEF Prime, TypeOK, Frame
  <2> QED BY <1>7, <2>1, <2>8, <2>10, <2>11 DEF Prime, TypeOK, At
<1>8. ASSUME PrimeFails PROVE TypeOK'
  <2>1. job.label \in Labels /\ job.url \in Urls BY <1>8, Typed DEF PrimeFails, At, JobType
  <2>2. doc[job.label] \in DocType
    BY <1>8, <2>1, Typed DEF PrimeFails, At, Queues, Queue, Handling, Showing
  <2>3. [doc[job.label] EXCEPT !.primed = "failed"] \in DocType BY <2>2 DEF DocType
  <2> QED BY <1>8, <2>1, <2>3 DEF PrimeFails, TypeOK, At, Frame
<1>9. ASSUME AlreadyPrimed PROVE TypeOK'
  BY <1>9, Typed DEF AlreadyPrimed, TypeOK, At, JobType
<1>10. ASSUME Eval \/ EvalFails PROVE TypeOK'
  <2>1. job \in JobType /\ job.reqs \in Seq(RequestType) /\ job.reqs # <<>>
    BY <1>10, Typed DEF Eval, EvalFails, At, JobType, TypeOK
  <2>2. Advanced \in JobType \cup {None} /\ (Advanced # None => Advanced.reqs # <<>>)
    BY <2>1, FirstAndRest DEF Advanced, JobType
  <2>3. job.label \in Labels /\ job.reqs[1] \in RequestType BY <2>1, FirstAndRest DEF JobType
  <2>4. doc[job.label] \in DocType
    BY <1>10, <2>3, Typed DEF Eval, EvalFails, At, Queues, Queue, Handling, Showing
  <2>5. Append(doc[job.label].ran, job.reqs[1]) \in Seq(RequestType) BY <2>3, <2>4 DEF DocType
  <2>6. /\ [doc[job.label] EXCEPT !.ran = Append(@, job.reqs[1])] \in DocType
        /\ [doc[job.label] EXCEPT !.lost = @ \cup {job.reqs[1]}] \in DocType
    BY <2>3, <2>4, <2>5 DEF DocType
  <2>7. doc' \in [Labels -> DocType \cup {None}] BY <1>10, <2>6 DEF Eval, EvalFails, TypeOK
  <2> QED BY <1>10, <2>2, <2>7 DEF Eval, EvalFails, TypeOK, At
<1>11. ASSUME NEW l \in Labels, Loaded(l) PROVE TypeOK'
  <2>1. Append(events[l], "finish") \in Seq({"start", "finish"}) BY Typed
  <2>2. doc[l] \in DocType BY <1>11, Typed DEF Loaded, Showing
  <2>3. [doc[l] EXCEPT !.loaded = TRUE] \in DocType BY <2>2 DEF DocType
  <2> QED BY <1>11, <2>1, <2>3 DEF Loaded, TypeOK, At
<1>12. ASSUME NEW l \in Labels, Close(l) PROVE TypeOK'
  BY <1>12 DEF Close, TypeOK, At
<1>13. ASSUME NEW l \in Labels, NEW u \in Urls, Navigate(l, u) PROVE TypeOK'
  <2>1. <<"start">> \in Seq({"start", "finish"}) OBVIOUS
  <2> QED BY <1>13, <2>1, NewDocumentTyped DEF Navigate, TypeOK, At
<1>14. ASSUME NEW l \in Labels, NEW u \in Urls, Rewrite(l, u) PROVE TypeOK'
  <2>1. doc[l] \in DocType BY <1>14, Typed DEF Rewrite, Showing
  <2>2. [doc[l] EXCEPT !.url = u, !.moved = TRUE] \in DocType BY <2>1 DEF DocType
  <2>3. doc' = [doc EXCEPT ![l] = [doc[l] EXCEPT !.url = u, !.moved = TRUE]]
    BY <1>14 DEF Rewrite, TypeOK
  <2> QED BY <1>14, <2>2, <2>3 DEF Rewrite, TypeOK, At
<1>15. ASSUME NEW e \in Exts, Upsert(e) \/ RemoveExt(e) PROVE TypeOK'
  BY <1>15, DocsWithoutTyped DEF Upsert, RemoveExt, TypeOK, At
<1>16. ASSUME NEW e \in Exts, NEW b \in Batches[e], Register(e, b) PROVE TypeOK'
  <2>1. b \in Seq(EntryType) BY InjectionAssumption
  <2>2. dynamic[e] \o b \in Seq(EntryType) BY <2>1, Typed
  <2> QED BY <1>16, <2>2 DEF Register, TypeOK, At
<1>17. ASSUME NEW e \in Exts, NEW ids \in SUBSET Ids, Unregister(e, ids) PROVE TypeOK'
  <2>1. Keep(dynamic[e], {x \in ToSet(dynamic[e]) : x.id \notin ids}) \in Seq(EntryType)
    BY Typed, KeepIs
  <2> QED BY <1>17, <2>1, DocsWithoutTyped DEF Unregister, TypeOK, At
<1>18. ASSUME UNCHANGED vars PROVE TypeOK' BY <1>18 DEF vars, TypeOK, At
<1> QED
  BY <1>1, <1>2, <1>3, <1>4, <1>5, <1>6, <1>7, <1>8, <1>9, <1>10, <1>11, <1>12, <1>13, <1>14,
     <1>15, <1>16, <1>17, <1>18 DEF Next, Handle

-----------------------------------------------------------------------------
(* What the actions do to the fields of documents and of the job. *)

\* Nothing of the document of k changes but what is named.
Elsewhere(l) == \A k \in Labels \ {l} : doc'[k] = doc[k]
SameShown(k) ==
  /\ doc[k] \in DocType /\ doc'[k] \in DocType
  /\ doc'[k].url = doc[k].url /\ doc'[k].moved = doc[k].moved
SameScripts(k) == doc'[k].ran = doc[k].ran /\ doc'[k].lost = doc[k].lost
SamePriming(k) == doc'[k].primed = doc[k].primed /\ doc'[k].config = doc[k].config
SameJob ==
  /\ job \in JobType /\ job' \in JobType
  /\ job'.label = job.label /\ job'.url = job.url /\ job'.phase = job.phase

LEMMA LoadedIs ==
  ASSUME TypeOK, NEW l \in Labels, Loaded(l)
  PROVE  /\ Elsewhere(l) /\ SameShown(l) /\ SameScripts(l) /\ SamePriming(l)
         /\ doc'[l].loaded /\ doc'[l].sure = doc[l].sure
<1>1. doc[l] \in DocType BY Typed DEF Loaded, Showing
<1>2. doc'[l] = [doc[l] EXCEPT !.loaded = TRUE] /\ Elsewhere(l) BY DEF Loaded, TypeOK, Elsewhere
<1> QED BY <1>1, <1>2 DEF SameShown, SameScripts, SamePriming, DocType

LEMMA NavigateIs ==
  ASSUME TypeOK, NEW l \in Labels, NEW u \in Urls, Navigate(l, u)
  PROVE  /\ Elsewhere(l) /\ doc'[l] \in DocType /\ doc'[l].url = u /\ ~doc'[l].moved
         /\ ~doc'[l].loaded /\ doc'[l].primed = "no" /\ doc'[l].config = None
         /\ doc'[l].ran = <<>> /\ doc'[l].sure = Sources
<1>1. doc'[l] = NewDocument(u) /\ Elsewhere(l) BY DEF Navigate, TypeOK, Elsewhere
<1>2. NewDocument(u) \in DocType BY NewDocumentTyped
<1> QED BY <1>1, <1>2 DEF NewDocument

LEMMA RewriteIs ==
  ASSUME TypeOK, NEW l \in Labels, NEW u \in Urls, Rewrite(l, u)
  PROVE  /\ Elsewhere(l) /\ doc[l] \in DocType /\ doc'[l] \in DocType
         /\ doc'[l].moved /\ doc'[l].loaded = doc[l].loaded
         /\ SameScripts(l) /\ SamePriming(l) /\ doc'[l].sure = doc[l].sure
<1>1. doc[l] \in DocType BY Typed DEF Rewrite, Showing
<1>2. doc'[l] = [doc[l] EXCEPT !.url = u, !.moved = TRUE] /\ Elsewhere(l)
  BY DEF Rewrite, TypeOK, Elsewhere
<1> QED BY <1>1, <1>2 DEF SameScripts, SamePriming, DocType

LEMMA PrimeIs ==
  ASSUME TypeOK, Queues, Prime \/ PrimeFails
  PROVE  /\ job \in JobType /\ job.label \in Labels /\ job.url \in Urls
         /\ Elsewhere(job.label) /\ SameShown(job.label) /\ SameScripts(job.label)
         /\ doc'[job.label].loaded = doc[job.label].loaded
         /\ doc'[job.label].sure = doc[job.label].sure
         /\ doc'[job.label].primed = IF Prime THEN "yes" ELSE "failed"
         /\ marks' = marks \cup {<<job.label, job.url>>}
         /\ job.at = "prime" /\ <<job.label, job.url>> \notin marks
         /\ Prime => job' = [job EXCEPT !.at = "inject"]
         /\ ~Prime => job' = None /\ doc'[job.label].config = doc[job.label].config
         /\ UNCHANGED <<registry, dynamic, events>>
<1>1. job \in JobType /\ job.label \in Labels /\ job.url \in Urls
  BY Typed DEF Prime, PrimeFails, At, JobType
<1>2. doc[job.label] \in DocType
  BY <1>1, Typed DEF Prime, PrimeFails, At, Queues, Queue, Handling, Showing
<1>3. CASE Prime
  <2>1. PICK c \in {doc[job.label].config, job.reqs[1].ext} :
          doc' = [doc EXCEPT ![job.label].primed = "yes", ![job.label].config = c]
    BY <1>3 DEF Prime
  <2>2. /\ doc'[job.label] = [doc[job.label] EXCEPT !.primed = "yes", !.config = c]
        /\ Elsewhere(job.label)
    BY <1>1, <2>1 DEF TypeOK, Elsewhere
  <2>3. c \in Exts \cup {None}
    <3>1. job.reqs[1] \in RequestType BY <1>1, <1>3, FirstAndRest DEF Prime, At, TypeOK, JobType
    <3> QED BY <1>2, <2>1, <3>1 DEF DocType, RequestType
  <2> QED BY <1>1, <1>2, <1>3, <2>2, <2>3
             DEF SameShown, SameScripts, DocType, Prime, At, Frame
<1>4. CASE ~Prime
  <2>1. PrimeFails BY <1>4
  <2>2. /\ doc'[job.label] = [doc[job.label] EXCEPT !.primed = "failed"]
        /\ Elsewhere(job.label)
    BY <1>1, <2>1 DEF TypeOK, Elsewhere, PrimeFails
  <2> QED BY <1>1, <1>2, <1>4, <2>1, <2>2
             DEF SameShown, SameScripts, DocType, PrimeFails, At, Frame
<1> QED BY <1>3, <1>4

LEMMA EvalIs ==
  ASSUME TypeOK, Queues, Eval \/ EvalFails
  PROVE  /\ job \in JobType /\ job.label \in Labels /\ job.at = "inject"
         /\ job.reqs \in Seq(RequestType) /\ job.reqs # <<>>
         /\ Elsewhere(job.label) /\ SameShown(job.label) /\ SamePriming(job.label)
         /\ doc'[job.label].loaded = doc[job.label].loaded
         /\ doc'[job.label].sure = doc[job.label].sure
         /\ \/ /\ doc'[job.label].ran = Append(doc[job.label].ran, job.reqs[1])
               /\ doc'[job.label].lost = doc[job.label].lost
            \/ /\ doc'[job.label].ran = doc[job.label].ran
               /\ doc'[job.label].lost = doc[job.label].lost \cup {job.reqs[1]}
         /\ IF Len(job.reqs) = 1 THEN job' = None
            ELSE SameJob /\ job'.at = "inject" /\ job'.reqs = Tail(job.reqs)
         /\ UNCHANGED <<registry, dynamic, marks, events>>
<1>1. job \in JobType /\ job.label \in Labels /\ job.reqs \in Seq(RequestType) /\ job.reqs # <<>>
  BY Typed DEF Eval, EvalFails, At, JobType, TypeOK
<1>2. doc[job.label] \in DocType
  BY <1>1, Typed DEF Eval, EvalFails, At, Queues, Queue, Handling, Showing
<1>3. job.reqs[1] \in RequestType /\ Tail(job.reqs) \in Seq(RequestType) BY <1>1, FirstAndRest
<1>4. /\ IF Len(job.reqs) = 1 THEN job' = None
         ELSE SameJob /\ job'.at = "inject" /\ job'.reqs = Tail(job.reqs)
      /\ UNCHANGED <<registry, dynamic, marks, events>> /\ job.at = "inject"
  <2>1. job' = Advanced /\ job.at = "inject" BY DEF Eval, EvalFails, At
  <2>2. CASE Len(job.reqs) = 1 BY <2>1, <2>2 DEF Advanced, Eval, EvalFails
  <2>3. CASE Len(job.reqs) # 1
    <3>1. job' = [job EXCEPT !.reqs = Tail(job.reqs)] BY <2>1, <2>3 DEF Advanced
    <3>2. SameJob /\ job'.at = "inject" /\ job'.reqs = Tail(job.reqs)
      BY <1>1, <1>3, <2>1, <3>1 DEF SameJob, JobType
    <3> QED BY <2>1, <2>3, <3>2 DEF Eval, EvalFails
  <2> QED BY <2>2, <2>3
<1>5. CASE Eval
  <2>1. /\ doc'[job.label] = [doc[job.label] EXCEPT !.ran = Append(@, job.reqs[1])]
        /\ Elsewhere(job.label)
    BY <1>1, <1>5 DEF TypeOK, Elsewhere, Eval
  <2>2. Append(doc[job.label].ran, job.reqs[1]) \in Seq(RequestType) BY <1>2, <1>3 DEF DocType
  <2> QED BY <1>1, <1>2, <1>4, <2>1, <2>2 DEF SameShown, SamePriming, DocType
<1>6. CASE EvalFails
  <2>1. /\ doc'[job.label] = [doc[job.label] EXCEPT !.lost = @ \cup {job.reqs[1]}]
        /\ Elsewhere(job.label)
    BY <1>1, <1>6 DEF TypeOK, Elsewhere, EvalFails
  <2> QED BY <1>1, <1>2, <1>3, <1>4, <2>1 DEF SameShown, SamePriming, DocType
<1> QED BY <1>5, <1>6

\* What goes out of the tables goes out of what is sure, and nothing else.
LEMMA DocsWithoutIs ==
  ASSUME TypeOK, NEW gone, doc' = DocsWithout(gone), NEW k \in Labels
  PROVE  /\ doc'[k] = None <=> doc[k] = None
         /\ k \in Showing =>
              /\ SameShown(k) /\ SameScripts(k) /\ SamePriming(k)
              /\ doc'[k].loaded = doc[k].loaded /\ doc'[k].sure = doc[k].sure \ gone
<1>1. CASE doc[k] = None BY <1>1 DEF DocsWithout, Showing
<1>2. CASE doc[k] # None
  <2>1. doc[k] \in DocType BY <1>2, Typed DEF Showing
  <2>2. doc'[k] = [doc[k] EXCEPT !.sure = @ \ gone] BY <1>2 DEF DocsWithout
  <2>3. doc'[k] \in DocType BY <2>1, <2>2 DEF DocType
  <2>4. doc'[k] # None BY <2>3, InjectionAssumption
  <2> QED BY <1>2, <2>1, <2>2, <2>3, <2>4 DEF SameShown, SameScripts, SamePriming, DocType
<1> QED BY <1>1, <1>2

\* HandleEvent takes the first event and makes a job of it.
LEMMA HandleEventIs ==
  ASSUME TypeOK, Queues, NEW l \in Labels, HandleEvent(l)
  PROVE  /\ doc[l] # None /\ doc[l] \in DocType /\ events[l] # <<>> /\ job = None
         /\ job' # None /\ job' \in JobType
         /\ job'.label = l /\ job'.url = doc[l].url /\ job'.phase = Head(events[l])
         /\ job'.at = "static" /\ job'.left = Exts /\ job'.reqs = <<>> /\ ~Ignored(l)
         /\ events' = [events EXCEPT ![l] = Tail(@)]
         /\ UNCHANGED <<registry, dynamic, doc>>
<1>1. doc[l] # None /\ events[l] # <<>> BY DEF HandleEvent, Queues, Queue
<1>2. Head(events[l]) \in {"start", "finish"} BY <1>1, Typed, FirstAndRest
<1>3. doc[l] \in DocType /\ doc[l].url \in Urls BY <1>1, Typed DEF Showing, DocType
<1>4. NewJob(l) \in JobType BY <1>2, <1>3 DEF NewJob, JobType
<1>5. job' = NewJob(l) BY DEF HandleEvent
<1>6. job' # None BY <1>4, <1>5, InjectionAssumption
<1> QED BY <1>1, <1>3, <1>4, <1>5, <1>6 DEF HandleEvent, NewJob

\* The walks go on with the same job, or end it.
Walks == EndStatic \/ Select \/ AlreadyPrimed \/ \E e \in Exts : WalkStatic(e) \/ WalkDynamic(e)
LEMMA WalksAre ==
  ASSUME TypeOK, Walks
  PROVE  job # None /\ (job' = None \/ SameJob) /\ UNCHANGED <<registry, dynamic, marks, doc, events>>
<1>1. job # None /\ job \in JobType /\ UNCHANGED <<registry, dynamic, marks, doc, events>>
  <2>1. ASSUME EndStatic PROVE job # None /\ UNCHANGED <<registry, dynamic, marks, doc, events>>
    BY <2>1 DEF EndStatic, At
  <2>2. ASSUME Select PROVE job # None /\ UNCHANGED <<registry, dynamic, marks, doc, events>>
    BY <2>2 DEF Select, At
  <2>3. ASSUME AlreadyPrimed PROVE job # None /\ UNCHANGED <<registry, dynamic, marks, doc, events>>
    BY <2>3 DEF AlreadyPrimed, At
  <2>4. ASSUME NEW e \in Exts, WalkStatic(e) \/ WalkDynamic(e)
        PROVE job # None /\ UNCHANGED <<registry, dynamic, marks, doc, events>>
    BY <2>4 DEF WalkStatic, WalkDynamic, At
  <2> QED BY <2>1, <2>2, <2>3, <2>4, Typed DEF Walks
<1>2. ASSUME EndStatic \/ AlreadyPrimed PROVE SameJob
  BY <1>1, <1>2 DEF EndStatic, AlreadyPrimed, SameJob, JobType
<1>3. ASSUME NEW e \in Exts, WalkStatic(e) PROVE SameJob
  <2>1. job.reqs \o StaticRequests(e, job.url) \in Seq(RequestType)
    BY <1>1, StaticIs, ConcatIs DEF JobType
  <2>2. SameJob
    BY <1>1, <1>3, <2>1 DEF WalkStatic, SameJob, JobType
  <2> QED BY <2>2
<1>4. ASSUME NEW e \in Exts, WalkDynamic(e) PROVE SameJob
  <2>1. job.reqs \o DynamicRequests(e, job.url) \in Seq(RequestType)
    BY <1>1, DynamicIs, ConcatIs DEF JobType, TypeOK
  <2>2. SameJob
    BY <1>1, <1>4, <2>1 DEF WalkDynamic, SameJob, JobType
  <2> QED BY <2>2
<1>5. ASSUME Select PROVE job' = None \/ SameJob
  <2> DEFINE due == Due(job.phase, job.reqs)
  <2>1. MainFirst(due) \in Seq(RequestType) BY <1>1, SelectIs DEF JobType
  <2>2. job' = IF due = <<>> THEN None ELSE [job EXCEPT !.at = "prime", !.reqs = MainFirst(due)]
    BY <1>5 DEF Select
  <2> QED BY <1>1, <2>1, <2>2 DEF SameJob, JobType
<1> QED BY <1>1, <1>2, <1>3, <1>4, <1>5 DEF Walks

\* Next, with the steps grouped by what they touch.
LEMMA Steps ==
  ASSUME [Next]_vars
  PROVE  \/ \E l \in Labels : IgnoreEvent(l) \/ HandleEvent(l) \/ Loaded(l) \/ Close(l)
         \/ \E l \in Labels, u \in Urls : Navigate(l, u) \/ Rewrite(l, u)
         \/ Walks \/ Prime \/ PrimeFails \/ Eval \/ EvalFails
         \/ \E e \in Exts : Upsert(e) \/ RemoveExt(e)
         \/ \E e \in Exts : \E b \in Batches[e] : Register(e, b)
         \/ \E e \in Exts : \E ids \in SUBSET Ids : Unregister(e, ids)
         \/ UNCHANGED vars
BY DEF Next, Handle, Walks

-----------------------------------------------------------------------------
(* Queues. *)

\* A sequence with one more element is the one Append makes.
LEMMA AppendIs ==
  ASSUME NEW X, NEW s \in Seq(X), NEW x \in X, NEW t \in Seq(X),
         Len(t) = Len(s) + 1, t[Len(s) + 1] = x, \A i \in 1 .. Len(s) : t[i] = s[i]
  PROVE  Append(s, x) = t
<1> DEFINE a == Append(s, x)
<1>1. a \in Seq(X) /\ Len(a) = Len(s) + 1 OBVIOUS
<1>2. \A i \in 1 .. Len(s) : a[i] = s[i] OBVIOUS
<1>3. a[Len(s) + 1] = x OBVIOUS
<1>4. \A i \in 1 .. Len(a) : i \in 1 .. Len(s) \/ i = Len(s) + 1 BY <1>1
<1> HIDE DEF a
<1>5. a = t BY <1>1, <1>2, <1>3, <1>4, SeqEqual
<1> QED BY <1>5 DEF a

LEMMA AppendHas ==
  ASSUME NEW X, NEW s \in Seq(X), NEW x \in X
  PROVE  /\ DOMAIN Append(s, x) = 1 .. (Len(s) + 1) /\ Len(s) \in Nat /\ DOMAIN s = 1 .. Len(s)
         /\ \A n \in DOMAIN s : Append(s, x)[n] = s[n]
         /\ Append(s, x)[Len(s) + 1] = x
OBVIOUS

LEMMA AppendSet ==
  ASSUME NEW X, NEW s \in Seq(X), NEW x \in X
  PROVE  ToSet(Append(s, x)) = ToSet(s) \cup {x}
<1> DEFINE a == Append(s, x)
<1>1. /\ DOMAIN a = 1 .. (Len(s) + 1) /\ Len(s) \in Nat /\ DOMAIN s = 1 .. Len(s)
      /\ \A n \in DOMAIN s : a[n] = s[n] /\ a[Len(s) + 1] = x
  BY AppendHas
<1>2. a[Len(s) + 1] = x BY AppendHas
<1> HIDE DEF a
<1>3. \A n \in DOMAIN a : n \in DOMAIN s \/ n = Len(s) + 1 BY <1>1
<1>4. ToSet(a) \subseteq ToSet(s) \cup {x} BY <1>1, <1>2, <1>3 DEF ToSet
<1>5. \A n \in DOMAIN s : n \in DOMAIN a BY <1>1
<1>6. Len(s) + 1 \in DOMAIN a BY <1>1
<1>7. ToSet(s) \cup {x} \subseteq ToSet(a) BY <1>1, <1>2, <1>5, <1>6 DEF ToSet
<1> QED BY <1>4, <1>7 DEF a

\* What the queues of a window can be, and become.
LEMMA Words ==
  /\ Tail(<<"start">>) = <<>> /\ Tail(<<"finish">>) = <<>>
  /\ Tail(<<"start", "finish">>) = <<"finish">>
  /\ Head(<<"start">>) = "start" /\ Head(<<"finish">>) = "finish"
  /\ Head(<<"start", "finish">>) = "start"
  /\ Append(<<>>, "finish") = <<"finish">> /\ Append(<<"start">>, "finish") = <<"start", "finish">>
  /\ <<"start">> # <<>> /\ <<"finish">> # <<>> /\ <<"start", "finish">> # <<>>
  /\ <<"start">> # <<"finish">> /\ <<"start">> # <<"start", "finish">>
  /\ <<"finish">> # <<"start", "finish">>
<1>1. Tail(<<"start">>) = <<>> /\ Tail(<<"finish">>) = <<>> OBVIOUS
<1>2. Tail(<<"start", "finish">>) = <<"finish">> OBVIOUS
<1>3. /\ Head(<<"start">>) = "start" /\ Head(<<"finish">>) = "finish"
      /\ Head(<<"start", "finish">>) = "start"
  OBVIOUS
<1>4. Append(<<>>, "finish") = <<"finish">> OBVIOUS
<1>6. Append(<<"start">>, "finish") = <<"start", "finish">>
  <2> DEFINE X == {"start", "finish"} s == <<"start">> t == <<"start", "finish">>
  <2>1. s \in Seq(X) /\ Len(s) = 1 /\ s[1] = "start" OBVIOUS
  <2>2. t \in Seq(X) /\ Len(t) = 2 /\ t[1] = "start" /\ t[2] = "finish" OBVIOUS
  <2>3. "finish" \in X OBVIOUS
  <2> HIDE DEF X, s, t
  <2>4. Len(t) = Len(s) + 1 /\ t[Len(s) + 1] = "finish" /\ \A n \in 1 .. Len(s) : t[n] = s[n]
    BY <2>1, <2>2
  <2>5. Append(s, "finish") = t BY <2>1, <2>2, <2>3, <2>4, AppendIs
  <2> QED BY <2>5 DEF s, t
<1>5. /\ <<"start">> # <<>> /\ <<"finish">> # <<>> /\ <<"start", "finish">> # <<>>
      /\ <<"start">> # <<"finish">> /\ <<"start">> # <<"start", "finish">>
      /\ <<"finish">> # <<"start", "finish">>
  <2>1. /\ Len(<<>>) = 0 /\ Len(<<"start">>) = 1 /\ Len(<<"finish">>) = 1
        /\ Len(<<"start", "finish">>) = 2
    OBVIOUS
  <2> QED BY <2>1, <1>3
<1> QED BY <1>1, <1>2, <1>3, <1>4, <1>5, <1>6

\* Queues only depend on which documents there are, their URLs and whether they
\* are loaded, and on the phase of the job.
LEMMA QueuesStay ==
  ASSUME Queues, job' = None \/ (job # None /\ SameJob) \/ job' = job, UNCHANGED events,
         \A k \in Labels : /\ doc'[k] = None <=> doc[k] = None
                           /\ doc[k] # None => /\ doc'[k].url = doc[k].url
                                               /\ doc'[k].loaded = doc[k].loaded
  PROVE  Queues'
<1> SUFFICES ASSUME NEW k \in Labels PROVE Queue(k)' BY DEF Queues
<1>1. Queue(k) BY DEF Queues
<1>2. CASE job' = None
  BY <1>1, <1>2 DEF Queue, Handling, StartQueued, FinishQueued, Handles
<1>3. CASE job' # None
  <2>1. job # None /\ job'.label = job.label /\ job'.url = job.url /\ job'.phase = job.phase
    BY <1>3 DEF SameJob
  <2>2. Handling(k)' = Handling(k) BY <1>3, <2>1 DEF Handling
  <2> QED BY <1>1, <2>1, <2>2 DEF Queue, StartQueued, FinishQueued, Handles, Ignored
<1> QED BY <1>2, <1>3

LEMMA QueuesNext == TypeOK /\ Queues /\ [Next]_vars => Queues'
<1> SUFFICES ASSUME TypeOK, Queues, [Next]_vars PROVE Queues' OBVIOUS
<1>1. ASSUME NEW l \in Labels, IgnoreEvent(l) PROVE Queues'
  <2> SUFFICES ASSUME NEW k \in Labels PROVE Queue(k)' BY DEF Queues
  <2>1. Queue(k) BY DEF Queues
  <2>2. job = None /\ job' = None /\ doc' = doc /\ events[l] # <<>>
        /\ events' = [events EXCEPT ![l] = Tail(@)]
    BY <1>1 DEF IgnoreEvent
  <2> QED BY <2>1, <2>2, Words DEF Queue, Handling, StartQueued, FinishQueued, Handles, TypeOK
<1>2. ASSUME NEW l \in Labels, HandleEvent(l) PROVE Queues'
  <2> SUFFICES ASSUME NEW k \in Labels PROVE Queue(k)' BY DEF Queues
  <2>1. Queue(k) BY DEF Queues
  <2>2. Handling(k)' <=> k = l BY <1>2, HandleEventIs DEF Handling
  <2>3. CASE k # l
    <3>1. events'[k] = events[k] /\ doc'[k] = doc[k] BY <1>2, <2>3, HandleEventIs DEF TypeOK
    <3> QED BY <2>1, <2>2, <2>3, <3>1 DEF Queue, StartQueued, FinishQueued, Handles
  <2>4. CASE k = l
    <3>1. /\ events'[k] = Tail(events[k]) /\ doc'[k] = doc[k] /\ doc[k] # None /\ events[k] # <<>>
          /\ job' # None /\ job'.url = doc[k].url /\ job'.phase = Head(events[k]) /\ ~Ignored(k)
      BY <1>2, <2>4, HandleEventIs DEF TypeOK
    <3> QED BY <2>1, <2>2, <2>4, <3>1, Words
               DEF Queue, StartQueued, FinishQueued, Handles, Ignored
  <2> QED BY <2>3, <2>4
<1>3. ASSUME NEW l \in Labels, Loaded(l) PROVE Queues'
  <2> SUFFICES ASSUME NEW k \in Labels PROVE Queue(k)' BY DEF Queues
  <2>1. Queue(k) BY DEF Queues
  <2>2. job' = job /\ events' = [events EXCEPT ![l] = Append(@, "finish")]
        /\ doc[l] # None /\ ~doc[l].loaded
    BY <1>3 DEF Loaded
  <2>3. Handling(k)' = Handling(k) BY <2>2 DEF Handling
  <2>4. CASE k # l
    <3>1. events'[k] = events[k] /\ doc'[k] = doc[k]
      BY <1>3, <2>2, <2>4, LoadedIs DEF TypeOK, Elsewhere
    <3> QED BY <2>1, <2>2, <2>3, <3>1 DEF Queue, StartQueued, FinishQueued, Handles, Ignored
  <2>5. CASE k = l
    <3>1. /\ events'[k] = Append(events[k], "finish") /\ doc'[k] # None
          /\ doc'[k].url = doc[k].url /\ doc'[k].loaded
      BY <1>3, <2>2, <2>5, LoadedIs, InjectionAssumption DEF TypeOK, SameShown
    <3> QED BY <2>1, <2>2, <2>3, <2>5, <3>1, Words
               DEF Queue, StartQueued, FinishQueued, Handles, Ignored
  <2> QED BY <2>4, <2>5
<1>4. ASSUME NEW l \in Labels, Close(l) PROVE Queues'
  <2> SUFFICES ASSUME NEW k \in Labels PROVE Queue(k)' BY DEF Queues
  <2>1. Queue(k) BY DEF Queues
  <2>2. doc' = [doc EXCEPT ![l] = None] /\ UNCHANGED <<events, job>> /\ Quiescent(l)
    BY <1>4 DEF Close
  <2>3. CASE k # l
    <3>1. doc'[k] = doc[k] BY <2>2, <2>3 DEF TypeOK
    <3> QED BY <2>1, <2>2, <3>1
            DEF Queue, StartQueued, FinishQueued, Handles, Ignored, Handling
  <2>4. CASE k = l
    BY <2>2, <2>4, Words DEF TypeOK, Queue, StartQueued, FinishQueued, Handles, Quiescent, Handling
  <2> QED BY <2>3, <2>4
<1>5. ASSUME NEW l \in Labels, NEW u \in Urls, Navigate(l, u) PROVE Queues'
  <2> SUFFICES ASSUME NEW k \in Labels PROVE Queue(k)' BY DEF Queues
  <2>1. Queue(k) BY DEF Queues
  <2>2. UNCHANGED job /\ Quiescent(l) /\ events' = [events EXCEPT ![l] = <<"start">>]
    BY <1>5 DEF Navigate
  <2>3. CASE k # l
    <3>1. doc'[k] = doc[k] /\ events'[k] = events[k]
      BY <1>5, <2>2, <2>3, NavigateIs DEF TypeOK, Elsewhere
    <3> QED BY <2>1, <2>2, <3>1
            DEF Queue, StartQueued, FinishQueued, Handles, Ignored, Handling
  <2>4. CASE k = l
    <3>1. doc'[k] # None /\ ~doc'[k].loaded /\ events'[k] = <<"start">>
      BY <1>5, <2>2, <2>4, NavigateIs, InjectionAssumption DEF TypeOK
    <3> QED BY <2>2, <2>4, <3>1, Words
            DEF Queue, StartQueued, FinishQueued, Handles, Quiescent, Handling
  <2> QED BY <2>3, <2>4
<1>6. ASSUME NEW l \in Labels, NEW u \in Urls, Rewrite(l, u) PROVE Queues'
  <2> SUFFICES ASSUME NEW k \in Labels PROVE Queue(k)' BY DEF Queues
  <2>1. Queue(k) BY DEF Queues
  <2>2. UNCHANGED <<job, events>> /\ Quiescent(l) BY <1>6 DEF Rewrite
  <2>3. CASE k # l
    <3>1. doc'[k] = doc[k] BY <1>6, <2>3, RewriteIs DEF Elsewhere
    <3> QED BY <2>1, <2>2, <3>1
            DEF Queue, StartQueued, FinishQueued, Handles, Ignored, Handling
  <2>4. CASE k = l
    <3>1. doc'[k] # None BY <1>6, <2>4, RewriteIs, InjectionAssumption
    <3> QED BY <2>2, <2>4, <3>1, Words
            DEF Queue, StartQueued, FinishQueued, Handles, Quiescent, Handling
  <2> QED BY <2>3, <2>4
<1>7. ASSUME Walks PROVE Queues' BY <1>7, WalksAre, QueuesStay
<1>8. ASSUME Prime \/ PrimeFails PROVE Queues'
  <2>1. job' = None \/ SameJob
    <3>1. [job EXCEPT !.at = "inject"] \in JobType BY <1>8, PrimeIs DEF JobType
    <3> QED BY <1>8, <3>1, PrimeIs DEF SameJob, JobType
  <2>2. job # None BY <1>8 DEF Prime, PrimeFails, At
  <2> QED BY <1>8, <2>1, <2>2, PrimeIs, QueuesStay, InjectionAssumption DEF Elsewhere, SameShown
<1>9. ASSUME Eval \/ EvalFails PROVE Queues'
  <2>1. job # None BY <1>9 DEF Eval, EvalFails, At
  <2> QED BY <1>9, <2>1, EvalIs, QueuesStay, InjectionAssumption DEF Elsewhere, SameShown
<1>10. ASSUME NEW e \in Exts, Upsert(e) \/ \E b \in Batches[e] : Register(e, b) PROVE Queues'
  BY <1>10, QueuesStay DEF Upsert, Register
<1>11. ASSUME NEW e \in Exts, RemoveExt(e) \/ \E ids \in SUBSET Ids : Unregister(e, ids)
       PROVE  Queues'
  <2>1. PICK gone : doc' = DocsWithout(gone) BY <1>11 DEF RemoveExt, Unregister
  <2>2. UNCHANGED <<job, events>> BY <1>11 DEF RemoveExt, Unregister
  <2> QED BY <2>1, <2>2, DocsWithoutIs, QueuesStay DEF SameShown, Showing
<1>12. ASSUME UNCHANGED vars PROVE Queues' BY <1>12, QueuesStay DEF vars
<1> QED BY Steps, <1>1, <1>2, <1>3, <1>4, <1>5, <1>6, <1>7, <1>8, <1>9, <1>10, <1>11, <1>12

-----------------------------------------------------------------------------
(* Marks. *)

\* A document that shows as before, with the event of its start queued as
\* before, stays primed as its frame is marked.
Showed(k) ==
  /\ doc[k] # None /\ doc'[k].url = doc[k].url /\ doc'[k].moved = doc[k].moved
  /\ doc'[k].ran = doc[k].ran /\ SamePriming(k)
LEMMA PrimedStays ==
  ASSUME Marks, NEW k \in Labels, Showed(k), StartQueued(k)' <=> StartQueued(k),
         Marked(k)' <=> Marked(k)
  PROVE  Primed(k)'
<1>1. Primed(k) BY DEF Marks, Showing, Showed
<1> QED BY <1>1 DEF Primed, Showed, SamePriming

LEMMA MarksStay ==
  ASSUME Marks, UNCHANGED marks, At("inject")' => Frame' \in marks',
         \A k \in Labels : doc'[k] = None \/ (Showed(k) /\ (StartQueued(k)' <=> StartQueued(k)))
  PROVE  Marks'
<1>1. ASSUME NEW k \in Labels, doc'[k] # None PROVE Primed(k)'
  <2>1. Showed(k) /\ (StartQueued(k)' <=> StartQueued(k)) BY <1>1
  <2>2. Marked(k)' <=> Marked(k) BY <2>1 DEF Marked, Showed
  <2> QED BY <2>1, <2>2, PrimedStays
<1> QED BY <1>1 DEF Marks, Showing

LEMMA MarksNext == TypeOK /\ Queues /\ Marks /\ [Next]_vars => Marks'
<1> SUFFICES ASSUME TypeOK, Queues, Marks, [Next]_vars PROVE Marks' OBVIOUS
<1>1. ASSUME NEW l \in Labels, IgnoreEvent(l) PROVE Marks'
  <2>1. /\ UNCHANGED <<marks, doc, job>> /\ job = None /\ Ignored(l) /\ events[l] # <<>>
        /\ events' = [events EXCEPT ![l] = Tail(@)]
    BY <1>1 DEF IgnoreEvent
  <2>2. ASSUME NEW k \in Showing PROVE Primed(k)'
    <3>1. Primed(k) /\ Queue(k) BY <2>2 DEF Marks, Queues, Showing
    <3>2. CASE k # l
      <4>1. events'[k] = events[k] BY <2>1, <2>2, <3>2 DEF TypeOK, Showing
      <4> QED BY <2>1, <3>1, <4>1 DEF Primed, StartQueued, Marked
    <3>3. CASE k = l
      <4>1. doc[k].url \in Urls BY <2>2, Typed DEF DocType
      <4>2. ~Marked(k) BY <2>1, <2>2, <3>3, <4>1 DEF Marks, Ignored, Marked, Showing
      <4>3. events'[k] = Tail(events[k]) BY <2>1, <2>2, <3>3 DEF TypeOK, Showing
      <4> QED BY <2>1, <3>1, <3>3, <4>2, <4>3, Words
              DEF Primed, StartQueued, Marked, Queue
    <3> QED BY <3>2, <3>3
  <2> QED BY <2>1, <2>2 DEF Marks, Showing, At
<1>2. ASSUME NEW l \in Labels, HandleEvent(l) PROVE Marks'
  <2>1. /\ doc' = doc /\ events' = [events EXCEPT ![l] = Tail(@)] /\ job' # None
        /\ job'.at = "static" /\ events[l] # <<>>
    BY <1>2, HandleEventIs
  <2>2. marks' = IF Head(events[l]) = "start" THEN marks \ {<<l, doc[l].url>>} ELSE marks
    BY <1>2 DEF HandleEvent
  <2>3. ASSUME NEW k \in Showing PROVE Primed(k)'
    <3>1. Primed(k) /\ Queue(k) BY <2>3 DEF Marks, Queues, Showing
    <3>2. CASE k # l
      <4>1. events'[k] = events[k] BY <2>1, <2>3, <3>2 DEF TypeOK, Showing
      <4>2. <<k, doc[k].url>> \in marks' <=> <<k, doc[k].url>> \in marks BY <2>2, <3>2
      <4> QED BY <2>1, <3>1, <4>1, <4>2 DEF Primed, StartQueued, Marked
    <3>3. CASE k = l
      <4>1. events'[k] = Tail(events[k]) BY <2>1, <2>3, <3>3 DEF TypeOK, Showing
      <4>2. CASE Head(events[k]) = "start"
        <5>1. StartQueued(k) /\ ~StartQueued(k)'
          BY <2>1, <3>1, <3>3, <4>1, <4>2, Words DEF Queue, StartQueued
        <5>2. ~Marked(k)' BY <2>1, <2>2, <3>3, <4>2 DEF Marked
        <5> QED BY <2>1, <3>1, <5>1, <5>2 DEF Primed
      <4>3. CASE Head(events[k]) # "start"
        <5>1. ~StartQueued(k) /\ ~StartQueued(k)'
          BY <2>1, <3>1, <3>3, <4>1, <4>3, Words DEF Queue, StartQueued
        <5>2. Marked(k)' <=> Marked(k) BY <2>1, <2>2, <3>3, <4>3 DEF Marked
        <5> QED BY <2>1, <3>1, <5>1, <5>2 DEF Primed
      <4> QED BY <4>2, <4>3
    <3> QED BY <3>2, <3>3
  <2>4. ~At("inject")' BY <2>1 DEF At
  <2>5. marks' \subseteq marks BY <2>2
  <2> QED BY <2>1, <2>3, <2>4, <2>5 DEF Marks, Showing
<1>3. ASSUME NEW l \in Labels, Loaded(l) PROVE Marks'
  <2>1. ASSUME NEW k \in Labels, doc'[k] # None
        PROVE  Showed(k) /\ (StartQueued(k)' <=> StartQueued(k))
    <3>1. CASE k # l
      BY <1>3, <2>1, <3>1, LoadedIs DEF Elsewhere, Loaded, TypeOK, StartQueued, Showed, SamePriming
    <3>2. CASE k = l
      <4>1. Queue(k) /\ doc[k] # None /\ ~doc[k].loaded BY <1>3, <3>2 DEF Queues, Loaded
      <4>2. events'[k] = Append(events[k], "finish") BY <1>3, <3>2 DEF Loaded, TypeOK
      <4>3. events[k] \in {<<>>, <<"start">>} BY <4>1 DEF Queue, FinishQueued
      <4>4. StartQueued(k)' <=> StartQueued(k) BY <4>2, <4>3, Words DEF StartQueued
      <4> QED BY <1>3, <3>2, <4>1, <4>4, LoadedIs DEF Showed, SameShown, SameScripts
    <3> QED BY <3>1, <3>2
  <2>2. UNCHANGED <<marks, job>> BY <1>3 DEF Loaded
  <2>3. At("inject")' => Frame' \in marks' BY <2>2 DEF Marks, At, Frame
  <2> QED BY <2>1, <2>2, <2>3, MarksStay
<1>4. ASSUME NEW l \in Labels, Close(l) PROVE Marks'
  <2>1. UNCHANGED <<marks, job, events>> /\ doc' = [doc EXCEPT ![l] = None] BY <1>4 DEF Close
  <2>2. \A k \in Labels : doc'[k] = None \/ (doc'[k] = doc[k] /\ doc[k] # None)
    BY <2>1 DEF TypeOK
  <2>3. At("inject")' => Frame' \in marks' BY <2>1 DEF Marks, At, Frame
  <2> QED BY <2>1, <2>2, <2>3, MarksStay DEF Showed, SamePriming, StartQueued
<1>5. ASSUME NEW l \in Labels, NEW u \in Urls, Navigate(l, u) PROVE Marks'
  <2>1. UNCHANGED <<marks, job>> /\ events' = [events EXCEPT ![l] = <<"start">>]
    BY <1>5 DEF Navigate
  <2>2. ASSUME NEW k \in Labels, doc'[k] # None PROVE Primed(k)'
    <3>1. CASE k # l
      <4>1. doc'[k] = doc[k] /\ events'[k] = events[k]
        BY <1>5, <2>1, <3>1, NavigateIs DEF Elsewhere, TypeOK
      <4>2. Showed(k) /\ (StartQueued(k)' <=> StartQueued(k)) /\ (Marked(k)' <=> Marked(k))
        BY <2>1, <2>2, <4>1 DEF Showed, SamePriming, StartQueued, Marked
      <4> QED BY <4>2, PrimedStays
    <3>2. CASE k = l
      <4>1. StartQueued(k)' BY <2>1, <3>2 DEF StartQueued, TypeOK
      <4> QED BY <1>5, <3>2, <4>1, NavigateIs DEF Primed
    <3> QED BY <3>1, <3>2
  <2>3. At("inject")' => Frame' \in marks' BY <2>1 DEF Marks, At, Frame
  <2> QED BY <2>1, <2>2, <2>3 DEF Marks, Showing
<1>6. ASSUME NEW l \in Labels, NEW u \in Urls, Rewrite(l, u) PROVE Marks'
  <2>1. UNCHANGED <<marks, job, events>> /\ Quiescent(l) BY <1>6 DEF Rewrite
  <2>2. ASSUME NEW k \in Labels, doc'[k] # None PROVE Primed(k)'
    <3>1. CASE k # l
      <4>1. doc'[k] = doc[k] /\ events'[k] = events[k]
        BY <1>6, <2>1, <3>1, RewriteIs DEF Elsewhere
      <4>2. Showed(k) /\ (StartQueued(k)' <=> StartQueued(k)) /\ (Marked(k)' <=> Marked(k))
        BY <2>1, <2>2, <4>1 DEF Showed, SamePriming, StartQueued, Marked
      <4> QED BY <4>2, PrimedStays
    <3>2. CASE k = l
      <4>1. ~StartQueued(k)' BY <2>1, <3>2, Words DEF StartQueued, Quiescent
      <4> QED BY <1>6, <3>2, <4>1, RewriteIs DEF Primed
    <3> QED BY <3>1, <3>2
  <2>3. At("inject")' => Frame' \in marks' BY <2>1 DEF Marks, At, Frame
  <2> QED BY <2>1, <2>2, <2>3 DEF Marks, Showing
<1>7. ASSUME Walks PROVE Marks'
  <2>1. UNCHANGED <<marks, doc, events>> /\ (job' = None \/ SameJob) /\ job # None
    BY <1>7, WalksAre
  <2>2. At("inject")' => AlreadyPrimed
    <3>1. ASSUME EndStatic PROVE ~At("inject")'
      BY <3>1, Typed DEF EndStatic, At, JobType
    <3>2. ASSUME Select PROVE ~At("inject")'
      BY <3>2, Typed DEF Select, At, JobType
    <3>3. ASSUME NEW e \in Exts, WalkStatic(e) \/ WalkDynamic(e) PROVE ~At("inject")'
      BY <3>3, Typed DEF WalkStatic, WalkDynamic, At, JobType
    <3> QED BY <1>7, <3>1, <3>2, <3>3 DEF Walks
  <2>3. At("inject")' => Frame' \in marks'
    <3> SUFFICES ASSUME AlreadyPrimed, job' # None PROVE Frame' \in marks' BY <2>2 DEF At
    <3>1. Frame \in marks /\ Frame' = Frame BY <2>1 DEF AlreadyPrimed, Frame, SameJob
    <3> QED BY <2>1, <3>1
  <2> QED BY <2>1, <2>3, MarksStay DEF Showed, SamePriming, StartQueued
<1>8. ASSUME Prime \/ PrimeFails PROVE Marks'
  <2>1. job # None BY <1>8 DEF Prime, PrimeFails, At
  <2> DEFINE l == job.label
  <2>2. Handling(l) /\ l \in Labels BY <1>8, <2>1, PrimeIs DEF Handling
  <2>3. Queue(l) /\ ~StartQueued(l) /\ job.url = doc[l].url /\ ~Ignored(l) /\ doc[l] # None
    BY <2>2 DEF Queues, Queue
  <2>4. /\ marks' = marks \cup {<<l, doc[l].url>>} /\ UNCHANGED events /\ Elsewhere(l)
        /\ doc'[l].url = doc[l].url /\ doc'[l].primed # "no"
    BY <1>8, <2>3, PrimeIs DEF SameShown
  <2>5. ASSUME NEW k \in Labels, doc'[k] # None PROVE Primed(k)'
    <3>1. CASE k # l
      <4>1. doc'[k] = doc[k] /\ events'[k] = events[k] BY <2>4, <3>1 DEF Elsewhere
      <4>2. Showed(k) /\ (StartQueued(k)' <=> StartQueued(k)) /\ (Marked(k)' <=> Marked(k))
        BY <2>4, <2>5, <3>1, <4>1 DEF Showed, SamePriming, StartQueued, Marked
      <4> QED BY <4>2, PrimedStays
    <3>2. CASE k = l
      <4>1. ~StartQueued(k)' /\ Marked(k)' BY <2>3, <2>4, <3>2 DEF StartQueued, Marked
      <4> QED BY <2>4, <3>2, <4>1 DEF Primed
    <3> QED BY <3>1, <3>2
  <2>6. At("inject")' => Frame' \in marks'
    <3>1. Prime => Frame' = <<job.label, job.url>> BY PrimeIs DEF Frame, JobType
    <3> QED BY <1>8, <3>1, PrimeIs DEF At
  <2>7. \A k \in Labels, u \in Urls : <<k, u>> \in marks' => k \notin BgLabels /\ u \notin Skipped
    BY <2>3, <2>4 DEF Marks, Ignored
  <2> QED BY <2>5, <2>6, <2>7 DEF Marks, Showing
<1>9. ASSUME Eval \/ EvalFails PROVE Marks'
  <2>1. job # None /\ At("inject") BY <1>9 DEF Eval, EvalFails, At
  <2> DEFINE l == job.label
  <2>2. Handling(l) /\ l \in Labels BY <1>9, <2>1, EvalIs DEF Handling
  <2>3. Queue(l) /\ ~StartQueued(l) /\ job.url = doc[l].url /\ doc[l] # None
    BY <2>2 DEF Queues, Queue
  <2>4. UNCHANGED <<marks, events>> /\ Elsewhere(l) /\ SameShown(l) /\ SamePriming(l)
    BY <1>9, EvalIs
  <2>5. Marked(l) BY <2>1, <2>3 DEF Marks, Frame, Marked
  <2>6. ASSUME NEW k \in Labels, doc'[k] # None PROVE Primed(k)'
    <3>1. CASE k # l
      <4>1. doc'[k] = doc[k] /\ events'[k] = events[k] BY <2>4, <3>1 DEF Elsewhere
      <4>2. Showed(k) /\ (StartQueued(k)' <=> StartQueued(k)) /\ (Marked(k)' <=> Marked(k))
        BY <2>4, <2>6, <3>1, <4>1 DEF Showed, SamePriming, StartQueued, Marked
      <4> QED BY <4>2, PrimedStays
    <3>2. CASE k = l
      <4>1. ~StartQueued(k)' /\ Marked(k)' /\ Primed(k)
        BY <2>2, <2>3, <2>4, <2>5, <3>2 DEF StartQueued, Marked, SameShown, Marks, Showing
      <4> QED BY <2>3, <2>4, <2>5, <3>2, <4>1 DEF Primed, SameShown, SamePriming
    <3> QED BY <3>1, <3>2
  <2>7. At("inject")' => Frame' \in marks'
    <3>1. job' # None => Frame' = Frame BY <1>9, EvalIs DEF Frame, SameJob
    <3> QED BY <2>1, <2>4, <3>1 DEF At, Marks
  <2> QED BY <2>4, <2>6, <2>7 DEF Marks, Showing
<1>10. ASSUME NEW e \in Exts, Upsert(e) \/ \E b \in Batches[e] : Register(e, b) PROVE Marks'
  <2>1. UNCHANGED <<marks, doc, events, job>> BY <1>10 DEF Upsert, Register
  <2> QED BY <2>1, MarksStay DEF Showed, SamePriming, StartQueued, Marks, At, Frame
<1>11. ASSUME NEW e \in Exts, RemoveExt(e) \/ \E ids \in SUBSET Ids : Unregister(e, ids)
       PROVE  Marks'
  <2>1. PICK gone : doc' = DocsWithout(gone) BY <1>11 DEF RemoveExt, Unregister
  <2>2. UNCHANGED <<marks, job, events>> BY <1>11 DEF RemoveExt, Unregister
  <2>3. \A k \in Labels : doc'[k] = None \/ Showed(k)
    BY <2>1, DocsWithoutIs DEF SameShown, SameScripts, Showed, Showing
  <2> QED BY <2>2, <2>3, MarksStay DEF StartQueued, Marks, At, Frame
<1>12. ASSUME UNCHANGED vars PROVE Marks'
  BY <1>12, MarksStay DEF vars, Showed, SamePriming, StartQueued, Marks, At, Frame
<1> QED BY Steps, <1>1, <1>2, <1>3, <1>4, <1>5, <1>6, <1>7, <1>8, <1>9, <1>10, <1>11, <1>12

-----------------------------------------------------------------------------
(* Scripts. *)

\* Ids differ if entries do and no two entries share one.
LEMMA UniqueIdsIs ==
  ASSUME NEW s
  PROVE  UniqueIds(s) <=> IsInjective(s) /\ \A x, y \in ToSet(s) : x.id = y.id => x = y
<1>1. ASSUME UniqueIds(s) PROVE IsInjective(s) /\ \A x, y \in ToSet(s) : x.id = y.id => x = y
  BY <1>1 DEF UniqueIds, IsInjective, ToSet
<1>2. ASSUME IsInjective(s), \A x, y \in ToSet(s) : x.id = y.id => x = y PROVE UniqueIds(s)
  BY <1>2 DEF UniqueIds, IsInjective, ToSet
<1> QED BY <1>1, <1>2

\* The ids of an extension's registrations stay different.
Registered == \A e \in Exts : UniqueIds(dynamic[e])
LEMMA RegisteredNext == TypeOK /\ Registered /\ [Next]_vars => Registered'
<1> SUFFICES ASSUME TypeOK, Registered, [Next]_vars, NEW k \in Exts PROVE UniqueIds(dynamic'[k])
  BY DEF Registered
<1>1. UniqueIds(dynamic[k]) /\ dynamic[k] \in Seq(EntryType) BY Typed DEF Registered
<1>2. CASE dynamic'[k] = dynamic[k] BY <1>1, <1>2
<1>3. ASSUME NEW b \in Batches[k], Register(k, b) PROVE UniqueIds(dynamic'[k])
  <2>1. dynamic'[k] = dynamic[k] \o b /\ UniqueIds(b) /\ IdsOf(b) \cap IdsOf(dynamic[k]) = {}
    BY <1>3 DEF Register, TypeOK
  <2>2. b \in Seq(EntryType) BY InjectionAssumption
  <2>3. \A x \in ToSet(b), y \in ToSet(dynamic[k]) : x.id # y.id BY <2>1 DEF IdsOf
  <2>4. /\ IsInjective(b) /\ \A x, y \in ToSet(b) : x.id = y.id => x = y
        /\ IsInjective(dynamic[k]) /\ \A x, y \in ToSet(dynamic[k]) : x.id = y.id => x = y
    BY <1>1, <2>1, UniqueIdsIs
  <2>5. ToSet(dynamic[k]) \cap ToSet(b) = {} BY <2>3
  <2>6. IsInjective(dynamic'[k]) /\ ToSet(dynamic'[k]) = ToSet(dynamic[k]) \cup ToSet(b)
    BY <1>1, <2>1, <2>2, <2>4, <2>5, ConcatIs
  <2> QED BY <2>3, <2>4, <2>6, UniqueIdsIs
<1>4. ASSUME NEW ids, Unregister(k, ids) PROVE UniqueIds(dynamic'[k])
  <2> DEFINE S == {x \in ToSet(dynamic[k]) : x.id \notin ids}
  <2>1. dynamic'[k] = Keep(dynamic[k], S) BY <1>4 DEF Unregister, TypeOK
  <2>2. IsInjective(dynamic[k]) /\ \A x, y \in ToSet(dynamic[k]) : x.id = y.id => x = y
    BY <1>1, UniqueIdsIs
  <2> HIDE DEF S
  <2>3. IsInjective(dynamic'[k]) /\ ToSet(dynamic'[k]) \subseteq ToSet(dynamic[k])
    BY <1>1, <2>1, <2>2, KeepIs
  <2> QED BY <2>2, <2>3, UniqueIdsIs
<1>5. ASSUME UNCHANGED dynamic PROVE dynamic'[k] = dynamic[k] BY <1>5
<1>6. ASSUME NEW e \in Exts, e # k,
             (\E b \in Batches[e] : Register(e, b)) \/ \E ids \in SUBSET Ids : Unregister(e, ids)
      PROVE  dynamic'[k] = dynamic[k]
  BY <1>6 DEF Register, Unregister, TypeOK
<1>7. UNCHANGED dynamic
      \/ \E e \in Exts : (\E b \in Batches[e] : Register(e, b)) \/ \E ids \in SUBSET Ids : Unregister(e, ids)
  <2>1. Walks => UNCHANGED dynamic BY WalksAre
  <2> QED BY Steps, <2>1 DEF IgnoreEvent, HandleEvent, Loaded, Close, Navigate, Rewrite, Prime, PrimeFails,
           Eval, EvalFails, Upsert, RemoveExt, vars
<1> QED BY <1>2, <1>3, <1>4, <1>5, <1>6, <1>7

\* What ran stays as it is when no script runs.
LEMMA RanStays ==
  ASSUME Scripts, NEW k \in Labels, doc[k] # None, doc'[k].ran = doc[k].ran,
         OnlyStarts(k)' => OnlyStarts(k)
  PROVE  Ran(k)'
<1>1. Ran(k) BY DEF Scripts, Showing
<1> QED BY <1>1 DEF Ran

LEMMA RanNext ==
  ASSUME Inv, [Next]_vars, NEW k \in Labels, doc'[k] # None
  PROVE  Ran(k)'
<1> USE DEF Inv
<1>1. ASSUME NEW l \in Labels, IgnoreEvent(l) PROVE Ran(k)'
  <2>1. /\ UNCHANGED <<doc, job>> /\ events[l] # <<>> /\ job = None
        /\ events' = [events EXCEPT ![l] = Tail(@)]
    BY <1>1 DEF IgnoreEvent
  <2>2. events'[k] = IF k = l THEN Tail(events[k]) ELSE events[k] BY <2>1 DEF TypeOK
  <2>3. FinishQueued(k)' => FinishQueued(k)
    BY <2>1, <2>2, Words DEF FinishQueued, Queues, Queue
  <2> QED BY <2>1, <2>3, RanStays DEF OnlyStarts, Handles, Handling
<1>2. ASSUME NEW l \in Labels, HandleEvent(l) PROVE Ran(k)'
  <2>1. /\ UNCHANGED doc /\ events[l] # <<>> /\ job = None /\ job' # None
        /\ events' = [events EXCEPT ![l] = Tail(@)] /\ job'.label = l /\ job'.phase = Head(events[l])
    BY <1>2, HandleEventIs
  <2>2. events'[k] = IF k = l THEN Tail(events[k]) ELSE events[k] BY <2>1 DEF TypeOK
  <2>3. FinishQueued(k)' => FinishQueued(k)
    BY <2>1, <2>2, Words DEF FinishQueued, Queues, Queue
  <2>4. CASE Handles(k, "start")'
    <3>1. k = l /\ Head(events[k]) = "start" BY <2>1, <2>4 DEF Handles, Handling
    <3>2. StartQueued(k) BY <2>1, <3>1, Words DEF Queues, Queue, StartQueued
    <3>3. doc[k].ran = <<>> /\ doc'[k].ran = <<>> BY <2>1, <3>2 DEF Marks, Primed, Showing
    <3> QED BY <3>3 DEF Ran, IsInjective
  <2>5. CASE ~Handles(k, "start")'
    BY <2>1, <2>3, <2>5, RanStays DEF OnlyStarts
  <2> QED BY <2>4, <2>5
<1>3. ASSUME NEW l \in Labels, Loaded(l) PROVE Ran(k)'
  <2>1. UNCHANGED job /\ doc[l] # None /\ ~doc[l].loaded BY <1>3 DEF Loaded
  <2>2. CASE k = l
    <3>1. OnlyStarts(k) BY <2>1, <2>2 DEF OnlyStarts
    <3> QED BY <1>3, <2>1, <2>2, <3>1, LoadedIs, RanStays DEF SameScripts
  <2>3. CASE k # l
    <3>1. doc'[k] = doc[k] /\ events'[k] = events[k]
      BY <1>3, <2>3, LoadedIs DEF Elsewhere, Loaded, TypeOK
    <3> QED BY <2>1, <3>1, RanStays DEF OnlyStarts, FinishQueued, Handles, Handling
  <2> QED BY <2>2, <2>3
<1>4. ASSUME NEW l \in Labels, Close(l) PROVE Ran(k)'
  <2>1. k # l /\ doc'[k] = doc[k] /\ UNCHANGED <<events, job>> BY <1>4 DEF Close, TypeOK
  <2> QED BY <2>1, RanStays DEF OnlyStarts, FinishQueued, Handles, Handling
<1>5. ASSUME NEW l \in Labels, NEW u \in Urls, Navigate(l, u) PROVE Ran(k)'
  <2>1. CASE k = l
    <3>1. doc'[k].ran = <<>> BY <1>5, <2>1, NavigateIs
    <3> QED BY <3>1 DEF Ran, IsInjective
  <2>2. CASE k # l
    <3>1. doc'[k] = doc[k] /\ events'[k] = events[k] /\ UNCHANGED job
      BY <1>5, <2>2, NavigateIs DEF Elsewhere, Navigate, TypeOK
    <3> QED BY <3>1, RanStays DEF OnlyStarts, FinishQueued, Handles, Handling
  <2> QED BY <2>1, <2>2
<1>6. ASSUME NEW l \in Labels, NEW u \in Urls, Rewrite(l, u) PROVE Ran(k)'
  <2>1. UNCHANGED <<events, job>> /\ doc[k] # None /\ doc'[k].ran = doc[k].ran
        /\ doc'[k].loaded = doc[k].loaded
    BY <1>6, RewriteIs DEF Rewrite, Elsewhere, SameScripts
  <2> QED BY <2>1, RanStays DEF OnlyStarts, FinishQueued, Handles, Handling
<1>7. ASSUME Walks PROVE Ran(k)'
  BY <1>7, WalksAre, RanStays DEF OnlyStarts, FinishQueued, Handles, Handling, SameJob
<1>8. ASSUME Prime \/ PrimeFails PROVE Ran(k)'
  <2>1. /\ UNCHANGED events /\ doc[k] # None /\ doc'[k].ran = doc[k].ran
        /\ doc'[k].loaded = doc[k].loaded
    BY <1>8, PrimeIs, InjectionAssumption DEF Elsewhere, SameScripts, SameShown
  <2>2. Handles(k, "start")' => Handles(k, "start")
    <3>1. Prime => /\ job # None /\ [job EXCEPT !.at = "inject"].label = job.label
                   /\ [job EXCEPT !.at = "inject"].phase = job.phase
      BY PrimeIs DEF Prime, At, JobType
    <3> QED BY <1>8, <3>1, PrimeIs DEF Handles, Handling
  <2> QED BY <2>1, <2>2, RanStays DEF OnlyStarts, FinishQueued
<1>9. ASSUME Eval \/ EvalFails PROVE Ran(k)'
  <2>1. job # None /\ At("inject") BY <1>9 DEF Eval, EvalFails, At
  <2>2. /\ UNCHANGED events /\ doc[k] # None /\ doc'[k].loaded = doc[k].loaded
    BY <1>9, EvalIs, InjectionAssumption DEF Elsewhere, SameShown
  <2>3. Handles(k, "start")' => Handles(k, "start")
    BY <1>9, <2>1, EvalIs DEF Handles, Handling, SameJob
  <2>4. OnlyStarts(k)' => OnlyStarts(k) BY <2>2, <2>3 DEF OnlyStarts, FinishQueued
  <2>5. CASE doc'[k].ran = doc[k].ran BY <2>2, <2>4, <2>5, RanStays
  <2>6. CASE doc'[k].ran # doc[k].ran
    <3> DEFINE ran == doc[k].ran r == job.reqs[1]
    <3>1. k = job.label /\ doc'[k].ran = Append(ran, r)
      BY <1>9, <2>6, EvalIs DEF Elsewhere
    <3>2. /\ doc[k] \in DocType /\ ran \in Seq(RequestType) /\ r \in RequestType
          /\ 1 \in DOMAIN job.reqs
      BY <1>9, <3>1, EvalIs, FirstAndRest DEF SameShown, DocType
    <3> HIDE DEF ran, r
    <3>3. /\ DOMAIN doc'[k].ran = 1 .. (Len(ran) + 1) /\ Len(ran) \in Nat
          /\ DOMAIN ran = 1 .. Len(ran)
          /\ \A n \in DOMAIN ran : doc'[k].ran[n] = ran[n]
          /\ doc'[k].ran[Len(ran) + 1] = r
      BY <3>1, <3>2, AppendHas
    <3>4. \A n \in DOMAIN doc'[k].ran : n \in DOMAIN ran \/ n = Len(ran) + 1 BY <3>3
    <3>5. Ran(k) /\ Collected /\ NotYet BY <2>1, <2>2 DEF Scripts, Showing
    <3>6. \A m \in DOMAIN ran :
            /\ ran[m] # r /\ (Of(job.phase, ran[m]) => ~IsolatedThenMain(ran[m], r))
      BY <2>1, <3>1, <3>2, <3>5 DEF NotYet, At, ran, r
    <3>7. Of(job.phase, r) BY <2>1, <3>2, <3>5 DEF Collected, At, r
    <3>8. \A m \in DOMAIN ran : (ran[m].at = "start" <=> r.at = "start") => Of(job.phase, ran[m])
      BY <3>7 DEF Of
    <3>9. OnlyStarts(k)' => r.at = "start"
      <4>1. Queue(k) /\ Handling(k) BY <2>1, <3>1 DEF Queues, Handling
      <4>2. CASE job.phase = "start" BY <3>7, <4>2 DEF Of
      <4>3. CASE job.phase # "start"
        <5>1. job.phase = "finish" BY <1>9, <4>3, EvalIs DEF JobType
        <5>2. ~OnlyStarts(k) BY <4>1, <5>1 DEF OnlyStarts, Queue, Handles
        <5> QED BY <2>4, <5>2
      <4> QED BY <4>2, <4>3
    <3>10. IsInjective(doc'[k].ran)
      <4>1. IsInjective(ran) BY <3>5 DEF Ran, ran
      <4> QED BY <4>1, <3>3, <3>4, <3>6 DEF IsInjective
    <3>11. \A m, n \in DOMAIN doc'[k].ran :
             m < n /\ (doc'[k].ran[m].at = "start" <=> doc'[k].ran[n].at = "start")
               => ~IsolatedThenMain(doc'[k].ran[m], doc'[k].ran[n])
      <4> TAKE m, n \in DOMAIN doc'[k].ran
      <4>1. \A i, j \in DOMAIN ran : i < j /\ (ran[i].at = "start" <=> ran[j].at = "start")
               => ~IsolatedThenMain(ran[i], ran[j])
        BY <3>5 DEF Ran, ran
      <4>2. CASE n \in DOMAIN ran
        <5>1. m < n => m \in DOMAIN ran BY <3>3, <4>2
        <5> QED BY <3>3, <4>1, <4>2, <5>1
      <4>3. CASE n = Len(ran) + 1
        <5>1. m < n => m \in DOMAIN ran BY <3>3, <4>3
        <5> QED BY <3>3, <3>6, <3>8, <4>3, <5>1
      <4> QED BY <3>4, <4>2, <4>3
    <3>12. OnlyStarts(k)' => \A n \in DOMAIN doc'[k].ran : doc'[k].ran[n].at = "start"
      <4>1. OnlyStarts(k)' => \A n \in DOMAIN ran : ran[n].at = "start"
        BY <2>4, <3>5 DEF Ran, ran
      <4> QED BY <3>3, <3>4, <3>9, <4>1
    <3> QED BY <3>10, <3>11, <3>12 DEF Ran
  <2> QED BY <2>5, <2>6
<1>10. ASSUME NEW e \in Exts, Upsert(e) \/ \E b \in Batches[e] : Register(e, b) PROVE Ran(k)'
  <2>1. UNCHANGED <<doc, events, job>> BY <1>10 DEF Upsert, Register
  <2> QED BY <2>1, RanStays DEF OnlyStarts, FinishQueued, Handles, Handling
<1>11. ASSUME NEW e \in Exts, RemoveExt(e) \/ \E ids \in SUBSET Ids : Unregister(e, ids)
       PROVE  Ran(k)'
  <2>1. PICK gone : doc' = DocsWithout(gone) BY <1>11 DEF RemoveExt, Unregister
  <2>2. UNCHANGED <<job, events>> BY <1>11 DEF RemoveExt, Unregister
  <2>3. doc[k] # None /\ doc'[k].ran = doc[k].ran /\ doc'[k].loaded = doc[k].loaded
    BY <2>1, DocsWithoutIs DEF SameScripts, Showing
  <2> QED BY <2>2, <2>3, RanStays DEF OnlyStarts, FinishQueued, Handles, Handling
<1>12. ASSUME UNCHANGED vars PROVE Ran(k)'
  <2>1. UNCHANGED <<doc, events, job>> BY <1>12 DEF vars
  <2> QED BY <2>1, RanStays DEF OnlyStarts, FinishQueued, Handles, Handling
<1> QED BY Steps, <1>1, <1>2, <1>3, <1>4, <1>5, <1>6, <1>7, <1>8, <1>9, <1>10, <1>11, <1>12

\* The scripts of a job, from the walks to their evaluation.
JobScripts == job # None => Collected /\ NotYet

LEMMA JobScriptsStay ==
  ASSUME TypeOK, Queues, JobScripts, UNCHANGED job, job # None => doc'[job.label].ran = doc[job.label].ran
  PROVE  JobScripts'
<1> SUFFICES ASSUME job # None PROVE Collected' /\ NotYet' BY DEF JobScripts
<1>1. Collected /\ NotYet BY DEF JobScripts
<1> QED BY <1>1 DEF Collected, NotYet

LEMMA JobScriptsNext == Inv /\ [Next]_vars => JobScripts'
<1> SUFFICES ASSUME Inv, [Next]_vars PROVE JobScripts' OBVIOUS
<1> USE DEF Inv
<1>a. JobScripts /\ (job # None => job \in JobType /\ job.label \in Labels /\ job.reqs \in Seq(RequestType))
  BY Typed DEF Scripts, JobScripts, JobType
<1>b. ASSUME NEW l \in Labels, UNCHANGED job, Elsewhere(l), job = None \/ ~Handling(l)
      PROVE  JobScripts'
  <2>1. job # None => doc'[job.label] = doc[job.label] BY <1>a, <1>b DEF Elsewhere, Handling
  <2> QED BY <1>a, <1>b, <2>1, JobScriptsStay
<1>1. ASSUME NEW l \in Labels, IgnoreEvent(l) PROVE JobScripts'
  BY <1>1 DEF IgnoreEvent, JobScripts
<1>2. ASSUME NEW l \in Labels, HandleEvent(l) PROVE JobScripts'
  <2>1. /\ UNCHANGED doc /\ doc[l] # None /\ events[l] # <<>> /\ job' # None
        /\ job'.label = l /\ job'.phase = Head(events[l]) /\ job'.at = "static" /\ job'.reqs = <<>>
    BY <1>2, HandleEventIs
  <2>2. Collected' BY <2>1 DEF Collected, IsInjective
  <2>3. ASSUME NEW m \in DOMAIN doc[l].ran PROVE ~Of(Head(events[l]), doc[l].ran[m])
    <3>1. CASE StartQueued(l)
      <4>1. doc[l].ran = <<>> BY <2>1, <3>1 DEF Marks, Primed, Showing
      <4> QED BY <2>3, <4>1
    <3>2. CASE ~StartQueued(l)
      <4>1. events[l] = <<"finish">> BY <2>1, <3>2 DEF Queues, Queue, StartQueued
      <4>2. FinishQueued(l) BY <4>1 DEF FinishQueued
      <4>3. doc[l].ran[m].at = "start" BY <2>1, <2>3, <4>2 DEF Scripts, Ran, OnlyStarts, Showing
      <4> QED BY <4>1, <4>3, Words DEF Of
    <3> QED BY <3>1, <3>2
  <2>4. NotYet' BY <2>1, <2>3 DEF NotYet
  <2> QED BY <2>2, <2>4 DEF JobScripts
<1>3. ASSUME NEW l \in Labels, Loaded(l) PROVE JobScripts'
  <2>1. job # None => doc'[job.label].ran = doc[job.label].ran
    BY <1>a, <1>3, LoadedIs DEF Elsewhere, SameScripts
  <2> QED BY <1>a, <1>3, <2>1, JobScriptsStay DEF Loaded
<1>4. ASSUME NEW l \in Labels, Close(l) PROVE JobScripts'
  BY <1>b, <1>4 DEF Close, Quiescent, Elsewhere, TypeOK
<1>5. ASSUME NEW l \in Labels, NEW u \in Urls, Navigate(l, u) PROVE JobScripts'
  BY <1>b, <1>5, NavigateIs DEF Navigate, Quiescent
<1>6. ASSUME NEW l \in Labels, NEW u \in Urls, Rewrite(l, u) PROVE JobScripts'
  BY <1>b, <1>6, RewriteIs DEF Rewrite, Quiescent
<1>7. ASSUME NEW e \in Exts, WalkStatic(e) PROVE JobScripts'
  <2>1. /\ job # None /\ job.at = "static" /\ e \in job.left /\ UNCHANGED doc
        /\ job' = [job EXCEPT !.left = @ \ {e},
                     !.reqs = IF e \in registry THEN @ \o StaticRequests(e, job.url) ELSE @]
    BY <1>7 DEF WalkStatic, At
  <2>2. /\ job'.at = "static" /\ job'.left = job.left \ {e}
        /\ job'.label = job.label /\ job'.phase = job.phase
        /\ job'.reqs = IF e \in registry THEN job.reqs \o StaticRequests(e, job.url) ELSE job.reqs
    BY <1>a, <2>1 DEF JobType
  <2>3. Collected /\ NotYet BY <1>a, <2>1 DEF JobScripts
  <2>4. /\ IsInjective(job.reqs)
        /\ \A r \in ToSet(job.reqs) : r.src \in Nat /\ r.ext \notin job.left
    BY <2>1, <2>3 DEF Collected, ToSet
  <2>5. /\ StaticRequests(e, job.url) \in Seq(RequestType) /\ IsInjective(StaticRequests(e, job.url))
        /\ \A r \in ToSet(StaticRequests(e, job.url)) : r.ext = e /\ r.src \in Nat
    BY StaticIs
  <2>6. ToSet(job.reqs) \cap ToSet(StaticRequests(e, job.url)) = {} BY <2>1, <2>4, <2>5
  <2>7. /\ IsInjective(job'.reqs)
        /\ \A r \in ToSet(job'.reqs) : r.src \in Nat /\ r.ext \notin job'.left
    BY <1>a, <2>1, <2>2, <2>4, <2>5, <2>6, ConcatIs
  <2>8. Collected' BY <2>2, <2>7 DEF Collected, ToSet
  <2>9. NotYet' BY <2>1, <2>2, <2>3 DEF NotYet
  <2> QED BY <2>8, <2>9 DEF JobScripts
<1>8. ASSUME NEW e \in Exts, WalkDynamic(e) PROVE JobScripts'
  <2>1. /\ job # None /\ job.at = "dynamic" /\ e \in job.left /\ UNCHANGED doc
        /\ job' = [job EXCEPT !.left = @ \ {e}, !.reqs = @ \o DynamicRequests(e, job.url)]
    BY <1>8 DEF WalkDynamic, At
  <2>2. /\ job'.at = "dynamic" /\ job'.left = job.left \ {e}
        /\ job'.label = job.label /\ job'.phase = job.phase
        /\ job'.reqs = job.reqs \o DynamicRequests(e, job.url)
    BY <1>a, <2>1 DEF JobType
  <2>3. Collected /\ NotYet BY <1>a, <2>1 DEF JobScripts
  <2>4. /\ IsInjective(job.reqs)
        /\ \A r \in ToSet(job.reqs) : r.src \in Nat \/ r.ext \notin job.left
    BY <2>1, <2>3 DEF Collected, ToSet
  <2>5. /\ DynamicRequests(e, job.url) \in Seq(RequestType) /\ IsInjective(DynamicRequests(e, job.url))
        /\ \A r \in ToSet(DynamicRequests(e, job.url)) : r.ext = e /\ r.src \in Ids
    BY DynamicIs DEF TypeOK, Scripts
  <2>6. ToSet(job.reqs) \cap ToSet(DynamicRequests(e, job.url)) = {}
    BY <2>1, <2>4, <2>5, InjectionAssumption
  <2>7. /\ IsInjective(job'.reqs)
        /\ \A r \in ToSet(job'.reqs) : r.src \in Nat \/ r.ext \notin job'.left
    BY <1>a, <2>1, <2>2, <2>4, <2>5, <2>6, ConcatIs
  <2>8. Collected' BY <2>2, <2>7 DEF Collected, ToSet
  <2>9. NotYet' BY <2>1, <2>2, <2>3 DEF NotYet
  <2> QED BY <2>8, <2>9 DEF JobScripts
<1>9. ASSUME EndStatic PROVE JobScripts'
  <2>1. /\ job # None /\ job.at = "static" /\ UNCHANGED doc
        /\ job' = [job EXCEPT !.left = Exts, !.at = "dynamic"]
    BY <1>9 DEF EndStatic, At
  <2>2. /\ job'.at = "dynamic" /\ job'.label = job.label /\ job'.phase = job.phase
        /\ job'.reqs = job.reqs
    BY <1>a, <2>1 DEF JobType
  <2>3. Collected /\ NotYet BY <1>a, <2>1 DEF JobScripts
  <2>4. Collected' BY <2>1, <2>2, <2>3 DEF Collected
  <2>5. NotYet' BY <2>1, <2>2, <2>3 DEF NotYet
  <2> QED BY <2>4, <2>5 DEF JobScripts
<1>10. ASSUME Select PROVE JobScripts'
  <2> DEFINE due == Due(job.phase, job.reqs)
             first == MainFirst(due)
  <2>1. /\ job # None /\ job.at = "dynamic" /\ UNCHANGED doc
        /\ job' = IF due = <<>> THEN None ELSE [job EXCEPT !.at = "prime", !.reqs = first]
    BY <1>10 DEF Select, At
  <2>2. SUFFICES ASSUME due # <<>> PROVE JobScripts' BY <2>1 DEF JobScripts
  <2>3. /\ job'.at = "prime" /\ job'.label = job.label /\ job'.phase = job.phase
        /\ job'.reqs = first
    BY <1>a, <2>1, <2>2 DEF JobType
  <2>4. Collected /\ NotYet BY <1>a, <2>1 DEF JobScripts
  <2>5. /\ \A r \in ToSet(first) : Of(job.phase, r)
        /\ IsInjective(job.reqs) => IsInjective(first)
        /\ \A m, n \in DOMAIN first : m < n => ~IsolatedThenMain(first[m], first[n])
    BY <1>a, <2>1, SelectIs
  <2> HIDE DEF due, first
  <2>6. IsInjective(first) BY <2>4, <2>5 DEF Collected
  <2>7. \A n \in DOMAIN first : Of(job.phase, first[n]) BY <2>5 DEF ToSet
  <2>8. Collected' BY <2>3, <2>5, <2>6, <2>7 DEF Collected
  <2>9. NotYet' BY <2>1, <2>3, <2>4 DEF NotYet
  <2> QED BY <2>8, <2>9 DEF JobScripts
<1>11. ASSUME Prime \/ PrimeFails \/ AlreadyPrimed PROVE JobScripts'
  <2>1. SUFFICES ASSUME job' # None PROVE JobScripts' BY DEF JobScripts
  <2>2. /\ job # None /\ job.at = "prime" /\ job' = [job EXCEPT !.at = "inject"]
    BY <1>11, <2>1 DEF Prime, PrimeFails, AlreadyPrimed, At
  <2>3. /\ job'.at = "inject" /\ job'.label = job.label /\ job'.phase = job.phase
        /\ job'.reqs = job.reqs
    BY <1>a, <2>2 DEF JobType
  <2>4. Collected /\ NotYet BY <1>a, <2>2 DEF JobScripts
  <2>5. doc'[job.label].ran = doc[job.label].ran
    BY <1>11, PrimeIs DEF AlreadyPrimed, SameScripts
  <2>6. Collected' BY <2>2, <2>3, <2>4 DEF Collected
  <2>7. \A n \in DOMAIN job.reqs : Of(job.phase, job.reqs[n]) BY <2>2, <2>4 DEF Collected
  <2>8. \A m \in DOMAIN doc[job.label].ran : ~Of(job.phase, doc[job.label].ran[m])
    BY <2>2, <2>4 DEF NotYet
  <2>9. NotYet' BY <2>3, <2>5, <2>7, <2>8 DEF NotYet
  <2> QED BY <2>6, <2>9 DEF JobScripts
<1>12. ASSUME Eval \/ EvalFails PROVE JobScripts'
  <2>1. SUFFICES ASSUME job' # None PROVE JobScripts' BY DEF JobScripts
  <2>2. job # None BY <1>12 DEF Eval, EvalFails, At
  <2> DEFINE ran == doc[job.label].ran
  <2>3. /\ job.at = "inject" /\ job'.at = "inject" /\ job'.label = job.label
        /\ job'.phase = job.phase /\ job'.reqs = Tail(job.reqs) /\ job.reqs # <<>>
        /\ job.reqs \in Seq(RequestType) /\ doc[job.label] \in DocType
        /\ doc'[job.label].ran \in {ran, Append(ran, job.reqs[1])}
    BY <1>12, <2>1, EvalIs DEF SameJob, SameShown
  <2>4. Collected /\ NotYet BY <1>a, <2>2 DEF JobScripts
  <2>5. /\ 1 \in DOMAIN job.reqs /\ job.reqs[1] \in RequestType /\ DOMAIN job'.reqs \subseteq Nat \ {0}
        /\ \A n \in DOMAIN job'.reqs : n + 1 \in DOMAIN job.reqs /\ job'.reqs[n] = job.reqs[n + 1]
    BY <2>3, FirstAndRest
  <2>6. ran \in Seq(RequestType) BY <2>3 DEF DocType
  <2>7. Collected'
    <3>1. /\ IsInjective(job.reqs) /\ \A n \in DOMAIN job.reqs : Of(job.phase, job.reqs[n])
          /\ \A m, n \in DOMAIN job.reqs : m < n => ~IsolatedThenMain(job.reqs[m], job.reqs[n])
      BY <2>3, <2>4 DEF Collected
    <3>2. IsInjective(job'.reqs)
      <4> SUFFICES ASSUME NEW m \in DOMAIN job'.reqs, NEW n \in DOMAIN job'.reqs,
                          job'.reqs[m] = job'.reqs[n]
                   PROVE  m = n
        BY DEF IsInjective
      <4>1. m + 1 = n + 1 BY <2>5, <3>1 DEF IsInjective
      <4> QED BY <2>5, <4>1
    <3>3. \A n \in DOMAIN job'.reqs : Of(job'.phase, job'.reqs[n]) BY <2>3, <2>5, <3>1
    <3>4. \A m, n \in DOMAIN job'.reqs : m < n => ~IsolatedThenMain(job'.reqs[m], job'.reqs[n])
      <4> SUFFICES ASSUME NEW m \in DOMAIN job'.reqs, NEW n \in DOMAIN job'.reqs, m < n
                   PROVE  ~IsolatedThenMain(job'.reqs[m], job'.reqs[n])
        OBVIOUS
      <4>1. m + 1 < n + 1 BY <2>5
      <4> QED BY <2>5, <3>1, <4>1
    <3> QED BY <2>3, <3>2, <3>3, <3>4 DEF Collected
  <2>8. ASSUME NEW m \in DOMAIN doc'[job.label].ran, NEW n \in DOMAIN job'.reqs
        PROVE  /\ doc'[job.label].ran[m] # job'.reqs[n]
               /\ Of(job.phase, doc'[job.label].ran[m])
                    => ~IsolatedThenMain(doc'[job.label].ran[m], job'.reqs[n])
    <3>1. n + 1 \in DOMAIN job.reqs /\ job'.reqs[n] = job.reqs[n + 1] /\ n \in Nat \ {0} BY <2>5
    <3>2. CASE m \in DOMAIN ran /\ doc'[job.label].ran[m] = ran[m]
      BY <2>3, <2>4, <3>1, <3>2 DEF NotYet
    <3>3. CASE doc'[job.label].ran[m] = job.reqs[1]
      <4>1. 1 # n + 1 /\ 1 < n + 1 BY <3>1
      <4>2. job.reqs[1] # job.reqs[n + 1] BY <2>4, <2>5, <3>1, <4>1 DEF Collected, IsInjective
      <4>3. ~IsolatedThenMain(job.reqs[1], job.reqs[n + 1])
        BY <2>3, <2>4, <2>5, <3>1, <4>1 DEF Collected
      <4> QED BY <3>1, <3>3, <4>2, <4>3
    <3>4. \/ m \in DOMAIN ran /\ doc'[job.label].ran[m] = ran[m]
          \/ doc'[job.label].ran[m] = job.reqs[1]
      <4>1. CASE doc'[job.label].ran = ran BY <2>8, <4>1
      <4>2. CASE doc'[job.label].ran = Append(ran, job.reqs[1])
        <5>1. m \in DOMAIN ran \/ m = Len(ran) + 1 BY <2>5, <2>6, <2>8, <4>2, AppendHas
        <5> QED BY <2>5, <2>6, <4>2, <5>1, AppendHas
      <4> QED BY <2>3, <4>1, <4>2
    <3> QED BY <3>2, <3>3, <3>4
  <2>9. NotYet' BY <2>3, <2>8 DEF NotYet
  <2> QED BY <2>7, <2>9 DEF JobScripts
<1>13. ASSUME NEW e \in Exts, Upsert(e) \/ \E b \in Batches[e] : Register(e, b) PROVE JobScripts'
  <2>1. UNCHANGED <<doc, job>> BY <1>13 DEF Upsert, Register
  <2> QED BY <1>a, <2>1, JobScriptsStay
<1>14. ASSUME NEW e \in Exts, RemoveExt(e) \/ \E ids \in SUBSET Ids : Unregister(e, ids)
       PROVE  JobScripts'
  <2>1. PICK gone : doc' = DocsWithout(gone) BY <1>14 DEF RemoveExt, Unregister
  <2>2. UNCHANGED job BY <1>14 DEF RemoveExt, Unregister
  <2>3. job # None => doc[job.label] # None BY <1>a DEF Queues, Queue, Handling
  <2>4. job # None => doc'[job.label].ran = doc[job.label].ran
    BY <1>a, <2>1, <2>3, DocsWithoutIs DEF SameScripts, Showing
  <2> QED BY <1>a, <2>2, <2>4, JobScriptsStay
<1>15. ASSUME UNCHANGED vars PROVE JobScripts'
  <2>1. UNCHANGED <<doc, job>> BY <1>15 DEF vars
  <2> QED BY <1>a, <2>1, JobScriptsStay
<1> QED
  BY Steps, <1>1, <1>2, <1>3, <1>4, <1>5, <1>6, <1>7, <1>8, <1>9, <1>10, <1>11, <1>12, <1>13, <1>14,
     <1>15 DEF Walks

-----------------------------------------------------------------------------
(* Coverage. *)

\* What is expected of a document comes from a rule, or from a registration.
LEMMA ExpectedIs ==
  ASSUME TypeOK, NEW l \in Showing, NEW r
  PROVE  r \in Expected(l) <=>
           \E e \in Exts :
             \/ <<e, "static">> \in doc[l].sure /\ r \in ToSet(StaticRequests(e, doc[l].url))
             \/ <<e, r.src>> \in doc[l].sure /\ r \in ToSet(DynamicRequests(e, doc[l].url))
<1> DEFINE From(e) == (IF <<e, "static">> \in doc[l].sure THEN ToSet(StaticRequests(e, doc[l].url)) ELSE {})
             \cup {q \in ToSet(DynamicRequests(e, doc[l].url)) : <<e, q.src>> \in doc[l].sure}
<1>1. r \in Expected(l) <=> \E e \in Exts : r \in From(e)
  <2>1. Expected(l) = UNION {From(e) : e \in Exts} BY DEF Expected
  <2> HIDE DEF From
  <2> QED BY <2>1
<1> QED BY <1>1

LEMMA ExpectedFrom ==
  ASSUME TypeOK, NEW l \in Showing, NEW r \in Expected(l)
  PROVE  /\ r.ext \in Exts
         /\ r.src \notin Ids => /\ <<r.ext, "static">> \in doc[l].sure
                               /\ r \in ToSet(StaticRequests(r.ext, doc[l].url))
         /\ r.src \in Ids => /\ <<r.ext, r.src>> \in doc[l].sure
                            /\ r \in ToSet(DynamicRequests(r.ext, doc[l].url))
<1>1. PICK e \in Exts :
        \/ <<e, "static">> \in doc[l].sure /\ r \in ToSet(StaticRequests(e, doc[l].url))
        \/ <<e, r.src>> \in doc[l].sure /\ r \in ToSet(DynamicRequests(e, doc[l].url))
  BY ExpectedIs
<1>2. CASE <<e, "static">> \in doc[l].sure /\ r \in ToSet(StaticRequests(e, doc[l].url))
  <2>1. r.ext = e /\ r.src \in Nat BY <1>2, StaticIs
  <2> QED BY <1>2, <2>1, InjectionAssumption
<1>3. CASE <<e, r.src>> \in doc[l].sure /\ r \in ToSet(DynamicRequests(e, doc[l].url))
  <2>1. r.ext = e /\ r.src \in Ids BY <1>3, DynamicIs DEF TypeOK
  <2> QED BY <1>3, <2>1
<1> QED BY <1>1, <1>2, <1>3

\* What is expected of a document does not grow, as long as registrations that
\* come in have ids it is not sure of.
LEMMA ExpectedShrinks ==
  ASSUME TypeOK, TypeOK', NEW k \in Labels, doc[k] # None, doc'[k] # None,
         doc'[k].url = doc[k].url, doc'[k].sure \subseteq doc[k].sure,
         \A e \in Exts : \A x \in ToSet(dynamic'[e]) :
           x \in ToSet(dynamic[e]) \/ <<e, x.id>> \notin doc'[k].sure
  PROVE  Expected(k)' \subseteq Expected(k)
<1> SUFFICES ASSUME NEW r \in Expected(k)' PROVE r \in Expected(k) OBVIOUS
<1> DEFINE u == doc[k].url
<1>1. PICK e \in Exts :
        \/ <<e, "static">> \in doc'[k].sure /\ r \in ToSet(StaticRequests(e, u))
        \/ <<e, r.src>> \in doc'[k].sure /\ r \in ToSet(Asked(dynamic'[e], e, u))
  <2>1. PICK e \in Exts :
          \/ <<e, "static">> \in doc'[k].sure /\ r \in ToSet(StaticRequests(e, doc'[k].url))
          \/ <<e, r.src>> \in doc'[k].sure /\ r \in ToSet(DynamicRequests(e, doc[k].url)')
    BY DEF Expected
  <2>2. DynamicRequests(e, doc[k].url)' = Asked(dynamic'[e], e, doc'[k].url)
    BY DEF DynamicRequests, Asked
  <2> QED BY <2>1, <2>2
<1>2. CASE <<e, "static">> \in doc'[k].sure /\ r \in ToSet(StaticRequests(e, u))
  BY <1>2, ExpectedIs DEF Showing
<1>3. CASE <<e, r.src>> \in doc'[k].sure /\ r \in ToSet(Asked(dynamic'[e], e, u))
  <2>1. dynamic[e] \in Seq(EntryType) /\ dynamic'[e] \in Seq(EntryType) BY DEF TypeOK
  <2>2. PICK x \in ToSet(dynamic'[e]) :
          u \in x.rule.urls /\ r \in ToSet(RequestsOf(e, x.id, x.rule))
    BY <1>3, <2>1, AskedIs
  <2>3. x \in EntryType /\ x.id \in Ids /\ x.rule \in RuleType
    <3>1. x \in EntryType BY <2>1 DEF ToSet
    <3> QED BY <3>1 DEF EntryType
  <2>4. r.src = x.id BY <2>2, <2>3, RequestsIs
  <2>5. x \in ToSet(dynamic[e]) BY <1>3, <2>4
  <2>6. r \in ToSet(Asked(dynamic[e], e, u)) BY <2>1, <2>2, <2>5, AskedIs
  <2>7. DynamicRequests(e, u) = Asked(dynamic[e], e, u) BY DynamicIs DEF TypeOK
  <2> QED BY <1>3, <2>6, <2>7, ExpectedIs DEF Showing
<1> QED BY <1>1, <1>2, <1>3

\* What was covered is, if what was coming is, or has run or failed.
LEMMA CoveredStays ==
  ASSUME NEW k, Covered(k), Expected(k)' \subseteq Expected(k),
         doc'[k].ran = doc[k].ran, doc'[k].lost = doc[k].lost,
         \A phase \in {"start", "finish"} :
           /\ Passed(k, phase)' => Passed(k, phase)
           /\ \A r \in Expected(k) : Of(phase, r) /\ Handles(k, phase) /\ Coming(r)
                => Handles(k, phase)' /\ Coming(r)'
  PROVE  Covered(k)'
BY DEF Covered

\* What a document is sure of is there.
LEMMA SureNext ==
  ASSUME Inv, TypeOK', [Next]_vars, NEW k \in Labels, doc'[k] # None
  PROVE  Sure(k)'
<1> USE DEF Inv
<1>1. ASSUME doc[k] # None, doc'[k].sure = doc[k].sure, registry \subseteq registry',
             \A e \in Exts : IdsOf(dynamic[e]) \subseteq IdsOf(dynamic'[e])
      PROVE  Sure(k)'
  <2>1. Sure(k) BY <1>1 DEF Coverage, Showing
  <2> QED BY <1>1, <2>1 DEF Sure
<1>2. ASSUME NEW l \in Labels,
             IgnoreEvent(l) \/ HandleEvent(l) \/ Loaded(l) \/ Close(l) \/ \E u \in Urls : Rewrite(l, u)
      PROVE  Sure(k)'
  <2>1. UNCHANGED <<registry, dynamic>>
    BY <1>2 DEF IgnoreEvent, HandleEvent, Loaded, Close, Rewrite
  <2>2. doc[k] # None /\ doc'[k].sure = doc[k].sure
    <3>1. CASE k # l
      BY <1>2, <3>1, LoadedIs, RewriteIs
         DEF IgnoreEvent, HandleEvent, Close, Elsewhere, TypeOK
    <3>2. CASE k = l
      BY <1>2, <3>2, LoadedIs, RewriteIs DEF IgnoreEvent, HandleEvent, Close, Loaded, Rewrite, TypeOK
    <3> QED BY <3>1, <3>2
  <2> QED BY <1>1, <2>1, <2>2
<1>3. ASSUME NEW l \in Labels, NEW u \in Urls, Navigate(l, u) PROVE Sure(k)'
  <2>1. UNCHANGED <<registry, dynamic>> BY <1>3 DEF Navigate
  <2>2. CASE k # l BY <1>1, <1>3, <2>1, <2>2, NavigateIs DEF Elsewhere
  <2>3. CASE k = l
    <3>1. doc'[k].sure = Sources BY <1>3, <2>3, NavigateIs
    <3>2. ASSUME NEW e \in Exts, <<e, "static">> \in Sources PROVE e \in registry
      <4>1. \A d \in Exts : IdsOf(dynamic[d]) \subseteq Ids
        <5> SUFFICES ASSUME NEW d \in Exts PROVE IdsOf(dynamic[d]) \subseteq Ids OBVIOUS
        <5>1. \A n \in DOMAIN dynamic[d] : dynamic[d][n] \in EntryType BY Typed
        <5>2. \A x \in EntryType : x.id \in Ids BY DEF EntryType
        <5> QED BY <5>1, <5>2 DEF IdsOf, ToSet
      <4> QED BY <3>2, <4>1, InjectionAssumption DEF Sources
    <3>3. ASSUME NEW e \in Exts, NEW i \in Ids, <<e, i>> \in Sources PROVE i \in IdsOf(dynamic[e])
      BY <3>3, InjectionAssumption DEF Sources
    <3> QED BY <2>1, <3>1, <3>2, <3>3 DEF Sure
  <2> QED BY <2>2, <2>3
<1>4. ASSUME Walks \/ UNCHANGED vars PROVE Sure(k)'
  <2>1. UNCHANGED <<registry, dynamic, doc>> BY <1>4, WalksAre DEF vars
  <2> QED BY <1>1, <2>1
<1>5. ASSUME Prime \/ PrimeFails PROVE Sure(k)'
  <2>1. UNCHANGED <<registry, dynamic>> /\ doc[k] # None /\ doc'[k].sure = doc[k].sure
    BY <1>5, PrimeIs, InjectionAssumption DEF Elsewhere, SameShown
  <2> QED BY <1>1, <2>1
<1>6. ASSUME Eval \/ EvalFails PROVE Sure(k)'
  <2>1. UNCHANGED <<registry, dynamic>> /\ doc[k] # None /\ doc'[k].sure = doc[k].sure
    BY <1>6, EvalIs, InjectionAssumption DEF Elsewhere, SameShown
  <2> QED BY <1>1, <2>1
<1>7. ASSUME NEW e \in Exts, Upsert(e) PROVE Sure(k)'
  BY <1>1, <1>7 DEF Upsert
<1>8. ASSUME NEW e \in Exts, NEW b \in Batches[e], Register(e, b) PROVE Sure(k)'
  <2>1. b \in Seq(EntryType) BY InjectionAssumption
  <2>2. ToSet(dynamic[e] \o b) = ToSet(dynamic[e]) \cup ToSet(b) BY <2>1, Typed, ConcatIs
  <2>3. \A d \in Exts : IdsOf(dynamic[d]) \subseteq IdsOf(dynamic'[d])
    BY <1>8, <2>2 DEF Register, TypeOK, IdsOf
  <2> QED BY <1>1, <1>8, <2>3 DEF Register
<1>9. ASSUME NEW e \in Exts, RemoveExt(e) PROVE Sure(k)'
  <2>1. doc' = DocsWithout({<<e, "static">>}) /\ registry' = registry \ {e} /\ UNCHANGED dynamic
    BY <1>9 DEF RemoveExt
  <2>2. doc[k] # None /\ doc'[k].sure = doc[k].sure \ {<<e, "static">>}
    BY <2>1, DocsWithoutIs DEF Showing
  <2>3. Sure(k) BY <2>2 DEF Coverage, Showing
  <2> QED BY <2>1, <2>2, <2>3 DEF Sure
<1>10. ASSUME NEW e \in Exts, NEW ids \in SUBSET Ids, Unregister(e, ids) PROVE Sure(k)'
  <2> DEFINE S == {x \in ToSet(dynamic[e]) : x.id \notin ids}
  <2>1. /\ doc' = DocsWithout({<<e, i>> : i \in ids}) /\ UNCHANGED registry
        /\ dynamic' = [dynamic EXCEPT ![e] = Keep(dynamic[e], S)]
    BY <1>10 DEF Unregister
  <2>2. doc[k] # None /\ doc'[k].sure = doc[k].sure \ {<<e, i>> : i \in ids}
    BY <2>1, DocsWithoutIs DEF Showing
  <2>3. Sure(k) BY <2>2 DEF Coverage, Showing
  <2>4. S \subseteq ToSet(Keep(dynamic[e], S)) BY Typed, KeepIs
  <2>5. ASSUME NEW d \in Exts, NEW i \in Ids, <<d, i>> \in doc'[k].sure PROVE i \in IdsOf(dynamic'[d])
    <3>1. i \in IdsOf(dynamic[d]) BY <2>2, <2>3, <2>5 DEF Sure
    <3>2. CASE d # e BY <2>1, <3>1, <3>2 DEF TypeOK
    <3>3. CASE d = e
      <4>1. i \notin ids BY <2>2, <2>5, <3>3
      <4>2. PICK x \in ToSet(dynamic[e]) : x.id = i BY <3>1, <3>3 DEF IdsOf
      <4>3. x \in ToSet(dynamic'[e]) BY <2>1, <2>4, <4>1, <4>2 DEF TypeOK
      <4> QED BY <3>3, <4>2, <4>3 DEF IdsOf
    <3> QED BY <3>2, <3>3
  <2> QED BY <2>1, <2>2, <2>3, <2>5 DEF Sure
<1> QED BY Steps, <1>2, <1>3, <1>4, <1>5, <1>6, <1>7, <1>8, <1>9, <1>10

\* A document whose entry in everything is as before is covered as before.
LEMMA CoverageStays ==
  ASSUME Inv, TypeOK', NEW k \in Labels, doc[k] # None, doc'[k] = doc[k],
         Expected(k)' \subseteq Expected(k),
         \A phase \in {"start", "finish"} :
           /\ Passed(k, phase)' => Passed(k, phase)
           /\ \A r \in Expected(k) : Of(phase, r) /\ Handles(k, phase) /\ Coming(r)
                => Handles(k, phase)' /\ Coming(r)'
  PROVE  Excused(k)' \/ Covered(k)'
<1>1. Excused(k) \/ Covered(k) BY DEF Inv, Coverage, Showing
<1>2. Excused(k) => Excused(k)' BY DEF Excused, Ignored
<1> QED BY <1>1, <1>2, CoveredStays

\* The walks bring in what they were to bring in.
LEMMA ComingNext ==
  ASSUME Inv, Walks, NEW k \in Labels, doc[k] # None, NEW phase \in {"start", "finish"},
         NEW r \in Expected(k), Of(phase, r), Handles(k, phase), Coming(r)
  PROVE  Handles(k, phase)' /\ Coming(r)'
<1> USE DEF Inv
<1>1. /\ job # None /\ job \in JobType /\ job.label = k /\ job.phase = phase
      /\ job.reqs \in Seq(RequestType) /\ job.url = doc[k].url
  BY Typed DEF Handles, Handling, JobType, Queues, Queue
<1>2. ASSUME SameJob PROVE Handles(k, phase)'
  BY <1>1, <1>2, InjectionAssumption DEF SameJob, Handles, Handling
<1>3. /\ r.ext \in Exts
      /\ r.src \notin Ids => r.ext \in registry /\ r \in ToSet(StaticRequests(r.ext, job.url))
      /\ r.src \in Ids => r \in ToSet(DynamicRequests(r.ext, job.url))
  BY <1>1, ExpectedFrom DEF Showing, Coverage, Sure
<1>4. CASE EndStatic
  <2>1. /\ job.at = "static" /\ job.left = {} /\ job' = [job EXCEPT !.left = Exts, !.at = "dynamic"]
    BY <1>4 DEF EndStatic, At
  <2>2. /\ SameJob /\ job'.at = "dynamic" /\ job'.left = Exts /\ job'.reqs = job.reqs
    BY <1>1, <2>1 DEF SameJob, JobType
  <2> QED BY <1>2, <1>3, <2>1, <2>2 DEF Coming
<1>5. ASSUME NEW e \in Exts, WalkStatic(e) PROVE Handles(k, phase)' /\ Coming(r)'
  <2>1. /\ job.at = "static" /\ job' = [job EXCEPT !.left = @ \ {e},
             !.reqs = IF e \in registry THEN @ \o StaticRequests(e, job.url) ELSE @]
    BY <1>5 DEF WalkStatic, At
  <2>2. StaticRequests(e, job.url) \in Seq(RequestType) BY StaticIs
  <2>3. job.reqs \o StaticRequests(e, job.url) \in Seq(RequestType) BY <1>1, <2>2, ConcatIs
  <2>4. /\ SameJob /\ job'.at = "static" /\ job'.left = job.left \ {e}
        /\ job'.reqs = IF e \in registry THEN job.reqs \o StaticRequests(e, job.url) ELSE job.reqs
    BY <1>1, <2>1, <2>3 DEF SameJob, JobType
  <2>5. /\ ToSet(job.reqs) \subseteq ToSet(job'.reqs)
        /\ e \in registry => ToSet(StaticRequests(e, job.url)) \subseteq ToSet(job'.reqs)
    BY <1>1, <2>2, <2>4, ConcatIs
  <2> QED BY <1>2, <1>3, <2>1, <2>4, <2>5 DEF Coming
<1>6. ASSUME NEW e \in Exts, WalkDynamic(e) PROVE Handles(k, phase)' /\ Coming(r)'
  <2>1. /\ job.at = "dynamic"
        /\ job' = [job EXCEPT !.left = @ \ {e}, !.reqs = @ \o DynamicRequests(e, job.url)]
    BY <1>6 DEF WalkDynamic, At
  <2>2. DynamicRequests(e, job.url) \in Seq(RequestType) BY DynamicIs DEF TypeOK
  <2>3. job.reqs \o DynamicRequests(e, job.url) \in Seq(RequestType) BY <1>1, <2>2, ConcatIs
  <2>4. /\ SameJob /\ job'.at = "dynamic" /\ job'.left = job.left \ {e}
        /\ job'.reqs = job.reqs \o DynamicRequests(e, job.url)
    BY <1>1, <2>1, <2>3 DEF SameJob, JobType
  <2>5. ToSet(job'.reqs) = ToSet(job.reqs) \cup ToSet(DynamicRequests(e, job.url))
    BY <1>1, <2>2, <2>4, ConcatIs
  <2> QED BY <1>2, <1>3, <2>1, <2>4, <2>5 DEF Coming
<1>7. CASE Select
  <2> DEFINE due == Due(job.phase, job.reqs)
             first == MainFirst(due)
  <2>1. /\ job.at = "dynamic" /\ job.left = {}
        /\ job' = IF due = <<>> THEN None ELSE [job EXCEPT !.at = "prime", !.reqs = first]
    BY <1>7 DEF Select, At
  <2>2. r \in ToSet(job.reqs) BY <2>1 DEF Coming
  <2>3. /\ first \in Seq(RequestType) /\ due # <<>>
        /\ \A q : q \in ToSet(first) <=> q \in ToSet(job.reqs) /\ Of(job.phase, q)
    BY <1>1, <2>2, SelectIs
  <2>4. r \in ToSet(first) BY <1>1, <2>2, <2>3
  <2>5. SameJob /\ job'.at = "prime" /\ job'.reqs = first
    BY <1>1, <2>1, <2>3 DEF SameJob, JobType
  <2> HIDE DEF first
  <2> QED BY <1>2, <2>4, <2>5 DEF Coming
<1>8. CASE AlreadyPrimed
  <2>1. job.at = "prime" /\ job' = [job EXCEPT !.at = "inject"] BY <1>8 DEF AlreadyPrimed, At
  <2>2. SameJob /\ job'.at = "inject" /\ job'.reqs = job.reqs
    BY <1>1, <2>1 DEF SameJob, JobType
  <2> QED BY <1>2, <2>1, <2>2 DEF Coming
<1> QED BY <1>4, <1>5, <1>6, <1>7, <1>8 DEF Walks

LEMMA CoveredNext ==
  ASSUME Inv, TypeOK', Queues', [Next]_vars, NEW k \in Labels, doc'[k] # None
  PROVE  Excused(k)' \/ Covered(k)'
<1> USE DEF Inv
<1>1. ASSUME NEW l \in Labels, IgnoreEvent(l) PROVE Excused(k)' \/ Covered(k)'
  <2>1. /\ UNCHANGED <<registry, dynamic, doc, job>> /\ job = None /\ Ignored(l)
        /\ events' = [events EXCEPT ![l] = Tail(@)]
    BY <1>1 DEF IgnoreEvent
  <2>2. CASE k = l BY <2>1, <2>2 DEF Excused, Ignored
  <2>3. CASE k # l
    <3>1. events'[k] = events[k] BY <2>1, <2>3 DEF TypeOK
    <3>2. Expected(k)' = Expected(k) BY <2>1 DEF Expected, DynamicRequests
    <3> QED BY <2>1, <3>1, <3>2, CoverageStays
            DEF Passed, StartQueued, Handles, Handling
  <2> QED BY <2>2, <2>3
<1>2. ASSUME NEW l \in Labels, HandleEvent(l) PROVE Excused(k)' \/ Covered(k)'
  <2>1. /\ doc[l] # None /\ events[l] # <<>> /\ job = None /\ job' # None
        /\ job'.label = l /\ job'.phase = Head(events[l]) /\ job'.at = "static" /\ job'.left = Exts
        /\ events' = [events EXCEPT ![l] = Tail(@)] /\ UNCHANGED <<registry, dynamic, doc>>
    BY <1>2, HandleEventIs
  <2>2. Expected(k)' = Expected(k) BY <2>1 DEF Expected, DynamicRequests
  <2>3. CASE k # l
    <3>1. events'[k] = events[k] BY <2>1, <2>3 DEF TypeOK
    <3> QED BY <2>1, <2>2, <3>1, CoverageStays DEF Passed, StartQueued, Handles, Handling
  <2>4. CASE k = l
    <3>1. Queue(k) /\ (Excused(k) \/ Covered(k)) BY <2>1, <2>4 DEF Queues, Coverage, Showing
    <3>2. Excused(k) => Excused(k)' BY <2>1 DEF Excused, Ignored
    <3> SUFFICES ASSUME Covered(k) PROVE Covered(k)' BY <3>1, <3>2
    <3>3. events'[k] = Tail(events[k]) BY <2>1, <2>4 DEF TypeOK
    <3> SUFFICES ASSUME NEW phase \in {"start", "finish"}, NEW r \in Expected(k),
                        Passed(k, phase)', Of(phase, r)
                 PROVE  \/ r \in ToSet(doc'[k].ran) \cup doc'[k].lost
                        \/ Handles(k, phase)' /\ Coming(r)'
      BY <2>2 DEF Covered
    <3>4. CASE phase = Head(events[k])
      <4>1. Handles(k, phase)' BY <2>1, <2>4, <3>4 DEF Handles, Handling
      <4>2. r.ext \in Exts BY <2>1, <2>4, ExpectedFrom DEF Showing
      <4> QED BY <2>1, <4>1, <4>2 DEF Coming
    <3>5. CASE phase # Head(events[k])
      <4>1. Passed(k, phase)
        <5>1. CASE events[k] = <<"start">>
          <6>1. phase = "finish" /\ ~doc[k].loaded
            BY <3>1, <3>5, <5>1, Words DEF Queue, StartQueued, FinishQueued
          <6> QED BY <2>1, <6>1 DEF Passed
        <5>2. CASE events[k] = <<"finish">>
          BY <3>5, <5>2, Words DEF Passed, StartQueued
        <5>3. CASE events[k] = <<"start", "finish">>
          <6>1. phase = "finish" /\ events'[k] # <<>> BY <3>3, <3>5, <5>3, Words
          <6> QED BY <6>1 DEF Passed
        <5> QED BY <2>1, <2>4, <3>1, <5>1, <5>2, <5>3 DEF Queue
      <4>2. ~Handles(k, phase) BY <2>1 DEF Handles, Handling
      <4> QED BY <2>1, <4>1, <4>2 DEF Covered
    <3> QED BY <3>4, <3>5
  <2> QED BY <2>3, <2>4
<1>3. ASSUME NEW l \in Labels, Loaded(l) PROVE Excused(k)' \/ Covered(k)'
  <2>1. /\ UNCHANGED <<registry, dynamic, job>> /\ doc[l] # None
        /\ events' = [events EXCEPT ![l] = Append(@, "finish")]
    BY <1>3 DEF Loaded
  <2>2. CASE k # l
    <3>1. events'[k] = events[k] /\ doc'[k] = doc[k]
      BY <1>3, <2>1, <2>2, LoadedIs DEF Elsewhere, TypeOK
    <3>2. Expected(k)' = Expected(k) BY <2>1, <3>1 DEF Expected, DynamicRequests
    <3>3. \A r : Coming(r)' <=> Coming(r) BY <2>1 DEF Coming
    <3> QED BY <2>1, <3>1, <3>2, <3>3, CoverageStays DEF Passed, StartQueued, Handles, Handling
  <2>3. CASE k = l
    <3>1. /\ doc'[k].url = doc[k].url /\ doc'[k].moved = doc[k].moved
          /\ doc'[k].primed = doc[k].primed /\ doc'[k].sure = doc[k].sure
          /\ doc'[k].ran = doc[k].ran /\ doc'[k].lost = doc[k].lost
      BY <1>3, <2>3, LoadedIs DEF SameShown, SameScripts, SamePriming
    <3>2. Excused(k) => Excused(k)' BY <3>1 DEF Excused, Ignored
    <3>3. Queue(k) /\ (Excused(k) \/ Covered(k)) /\ ~doc[k].loaded
      BY <1>3, <2>1, <2>3 DEF Queues, Coverage, Showing, Loaded
    <3>4. Expected(k)' = Expected(k) BY <2>1, <3>1 DEF Expected, DynamicRequests
    <3>5. \A phase \in {"start", "finish"} : Passed(k, phase)' => Passed(k, phase)
      <4>1. events'[k] = Append(events[k], "finish") BY <2>1, <2>3 DEF TypeOK
      <4>2. events[k] \in {<<>>, <<"start">>} BY <3>3 DEF Queue, FinishQueued
      <4> QED BY <4>1, <4>2, Words DEF Passed, StartQueued
    <3>6. \A r : Coming(r)' <=> Coming(r) BY <2>1 DEF Coming
    <3>7. \A phase : Handles(k, phase)' <=> Handles(k, phase) BY <2>1 DEF Handles, Handling
    <3>8. Covered(k) => Covered(k)' BY <3>1, <3>4, <3>5, <3>6, <3>7, CoveredStays
    <3> QED BY <3>2, <3>3, <3>8
  <2> QED BY <2>2, <2>3
<1>4. ASSUME NEW l \in Labels, Close(l) \/ \E u \in Urls : Rewrite(l, u)
      PROVE  Excused(k)' \/ Covered(k)'
  <2>1. UNCHANGED <<registry, dynamic, job, events>> BY <1>4 DEF Close, Rewrite
  <2>2. CASE k = l
    <3>1. doc'[k].moved BY <1>4, <2>2, RewriteIs DEF Close, TypeOK
    <3> QED BY <3>1 DEF Excused
  <2>3. CASE k # l
    <3>1. doc'[k] = doc[k] BY <1>4, <2>3, RewriteIs DEF Close, Elsewhere, TypeOK
    <3>2. Expected(k)' = Expected(k) BY <2>1, <3>1 DEF Expected, DynamicRequests
    <3>3. \A r : Coming(r)' <=> Coming(r) BY <2>1 DEF Coming
    <3> QED BY <2>1, <3>1, <3>2, <3>3, CoverageStays DEF Passed, StartQueued, Handles, Handling
  <2> QED BY <2>2, <2>3
<1>5. ASSUME NEW l \in Labels, NEW u \in Urls, Navigate(l, u) PROVE Excused(k)' \/ Covered(k)'
  <2>1. UNCHANGED <<registry, dynamic, job>> /\ events' = [events EXCEPT ![l] = <<"start">>]
    BY <1>5 DEF Navigate
  <2>2. CASE k = l
    <3>1. events'[k] = <<"start">> /\ ~doc'[k].loaded BY <1>5, <2>1, <2>2, NavigateIs DEF TypeOK
    <3>2. ~Passed(k, "start")' /\ ~Passed(k, "finish")' BY <3>1 DEF Passed, StartQueued
    <3> QED BY <3>2 DEF Covered
  <2>3. CASE k # l
    <3>1. events'[k] = events[k] /\ doc'[k] = doc[k]
      BY <1>5, <2>1, <2>3, NavigateIs DEF Elsewhere, TypeOK
    <3>2. Expected(k)' = Expected(k) BY <2>1, <3>1 DEF Expected, DynamicRequests
    <3>3. \A r : Coming(r)' <=> Coming(r) BY <2>1 DEF Coming
    <3> QED BY <2>1, <3>1, <3>2, <3>3, CoverageStays DEF Passed, StartQueued, Handles, Handling
  <2> QED BY <2>2, <2>3
<1>6. ASSUME Walks PROVE Excused(k)' \/ Covered(k)'
  <2>1. UNCHANGED <<registry, dynamic, doc, events>> BY <1>6, WalksAre
  <2>2. Expected(k)' = Expected(k) BY <2>1 DEF Expected, DynamicRequests
  <2>3. \A phase : Passed(k, phase)' => Passed(k, phase) BY <2>1 DEF Passed, StartQueued
  <2> QED BY <1>6, <2>1, <2>2, <2>3, ComingNext, CoverageStays
<1>7. ASSUME Prime \/ PrimeFails PROVE Excused(k)' \/ Covered(k)'
  <2>1. UNCHANGED <<registry, dynamic, events>> /\ job # None
    BY <1>7, PrimeIs DEF Prime, PrimeFails, At
  <2>2. CASE k # job.label
    <3>1. doc'[k] = doc[k] BY <1>7, <2>2, PrimeIs DEF Elsewhere
    <3>2. Expected(k)' = Expected(k) BY <2>1, <3>1 DEF Expected, DynamicRequests
    <3>3. \A phase : ~Handles(k, phase) BY <2>2 DEF Handles, Handling
    <3>4. \A phase : Passed(k, phase)' => Passed(k, phase)
      BY <2>1, <3>1 DEF Passed, StartQueued
    <3> QED BY <3>1, <3>2, <3>3, <3>4, CoverageStays
  <2>3. CASE k = job.label /\ ~Prime
    BY <1>7, <2>3, PrimeIs DEF Excused
  <2>4. CASE k = job.label /\ Prime
    <3>1. /\ doc[k] # None /\ doc'[k].url = doc[k].url /\ doc'[k].moved = doc[k].moved
          /\ doc'[k].sure = doc[k].sure /\ doc'[k].loaded = doc[k].loaded
          /\ doc'[k].ran = doc[k].ran /\ doc'[k].lost = doc[k].lost
      BY <2>4, PrimeIs, InjectionAssumption DEF SameShown, SameScripts
    <3>2. doc[k].moved \/ doc[k].primed # "failed"
      <4>1. ~StartQueued(k) /\ ~doc[k].moved => (doc[k].primed # "no" <=> Marked(k))
        BY <3>1 DEF Marks, Primed, Showing
      <4>2. Handling(k) /\ Queue(k) BY <2>1, <2>4 DEF Handling, Queues
      <4>3. ~Marked(k) /\ ~StartQueued(k) BY <2>4, <3>1, <4>2, PrimeIs DEF Marked, Queue
      <4> QED BY <4>1, <4>3
    <3>3. Expected(k)' = Expected(k) BY <2>1, <3>1 DEF Expected, DynamicRequests
    <3>4. /\ job \in JobType /\ job' = [job EXCEPT !.at = "inject"] /\ job.at = "prime"
      BY <2>4, PrimeIs
    <3>5. /\ SameJob /\ job'.at = "inject" /\ job'.reqs = job.reqs
      BY <3>4 DEF SameJob, JobType
    <3>6. \A phase : Handles(k, phase) => Handles(k, phase)'
      BY <3>5, InjectionAssumption DEF Handles, Handling, SameJob
    <3>7. \A r : Coming(r) => Coming(r)' BY <3>4, <3>5 DEF Coming
    <3>8. \A phase : Passed(k, phase)' => Passed(k, phase) BY <2>1, <3>1 DEF Passed, StartQueued
    <3>9. Covered(k) => Covered(k)' BY <3>1, <3>3, <3>6, <3>7, <3>8, CoveredStays
    <3>10. Excused(k) => Excused(k)' BY <3>1, <3>2 DEF Excused, Ignored
    <3> QED BY <3>1, <3>9, <3>10 DEF Coverage, Showing
  <2> QED BY <2>2, <2>3, <2>4
<1>8. ASSUME Eval \/ EvalFails PROVE Excused(k)' \/ Covered(k)'
  <2>1. UNCHANGED <<registry, dynamic, events>> /\ job # None
    BY <1>8, EvalIs DEF Eval, EvalFails, At
  <2>2. CASE k # job.label
    <3>1. doc'[k] = doc[k] BY <1>8, <2>2, EvalIs DEF Elsewhere
    <3>2. Expected(k)' = Expected(k) BY <2>1, <3>1 DEF Expected, DynamicRequests
    <3>3. \A phase : ~Handles(k, phase) BY <2>2 DEF Handles, Handling
    <3>4. \A phase : Passed(k, phase)' => Passed(k, phase)
      BY <2>1, <3>1 DEF Passed, StartQueued
    <3> QED BY <3>1, <3>2, <3>3, <3>4, CoverageStays
  <2>3. CASE k = job.label
    <3>1. /\ doc[k] # None /\ doc[k] \in DocType /\ doc'[k].url = doc[k].url
          /\ doc'[k].moved = doc[k].moved /\ doc'[k].primed = doc[k].primed
          /\ doc'[k].sure = doc[k].sure /\ doc'[k].loaded = doc[k].loaded
          /\ job.at = "inject" /\ job.reqs \in Seq(RequestType) /\ job.reqs # <<>>
      BY <1>8, <2>3, EvalIs, InjectionAssumption DEF SameShown, SamePriming
    <3>2. Excused(k) => Excused(k)' BY <3>1 DEF Excused, Ignored
    <3>3. Excused(k) \/ Covered(k) BY <3>1 DEF Coverage, Showing
    <3> SUFFICES ASSUME Covered(k) PROVE Covered(k)' BY <3>2, <3>3
    <3>4. Expected(k)' = Expected(k) BY <2>1, <3>1 DEF Expected, DynamicRequests
    <3>5. \A phase : Passed(k, phase)' => Passed(k, phase) BY <2>1, <3>1 DEF Passed, StartQueued
    <3>6. job.reqs[1] \in RequestType /\ doc[k].ran \in Seq(RequestType)
      BY <3>1, FirstAndRest DEF DocType
    <3>7. ToSet(doc[k].ran) \cup doc[k].lost \cup {job.reqs[1]} = ToSet(doc'[k].ran) \cup doc'[k].lost
      <4>1. ToSet(Append(doc[k].ran, job.reqs[1])) = ToSet(doc[k].ran) \cup {job.reqs[1]}
        BY <3>6, AppendSet
      <4>2. \/ doc'[k].ran = Append(doc[k].ran, job.reqs[1]) /\ doc'[k].lost = doc[k].lost
            \/ doc'[k].ran = doc[k].ran /\ doc'[k].lost = doc[k].lost \cup {job.reqs[1]}
        BY <1>8, <2>3, EvalIs
      <4> QED BY <4>1, <4>2
    <3> SUFFICES ASSUME NEW phase \in {"start", "finish"}, NEW r \in Expected(k),
                        Passed(k, phase), Of(phase, r), r # job.reqs[1],
                        Handles(k, phase), Coming(r)
                 PROVE  Handles(k, phase)' /\ Coming(r)'
      BY <3>4, <3>5, <3>7 DEF Covered
    <3>8. r \in ToSet(job.reqs) BY <3>1 DEF Coming
    <3>9. PICK n \in DOMAIN job.reqs : job.reqs[n] = r BY <3>8 DEF ToSet
    <3>10. n # 1 /\ n \in 1 .. Len(job.reqs) /\ Len(job.reqs) \in Nat BY <3>1, <3>9
    <3>11. n - 1 \in DOMAIN Tail(job.reqs) /\ Tail(job.reqs)[n - 1] = r
      BY <3>1, <3>9, <3>10, FirstAndRest
    <3>12. Len(job.reqs) # 1 BY <3>10
    <3>13. SameJob /\ job'.reqs = Tail(job.reqs) BY <1>8, <3>12, EvalIs
    <3>14. Coming(r)' BY <3>11, <3>13 DEF Coming, ToSet
    <3>15. Handles(k, phase)' BY <3>13, InjectionAssumption DEF Handles, Handling, SameJob
    <3> QED BY <3>14, <3>15
  <2> QED BY <2>2, <2>3
<1>9. ASSUME NEW e \in Exts, Upsert(e) \/ (\E b \in Batches[e] : Register(e, b)) PROVE Excused(k)' \/ Covered(k)'
  <2>1. UNCHANGED <<doc, job, events>> BY <1>9 DEF Upsert, Register
  <2>2. Expected(k)' \subseteq Expected(k)
    <3>1. CASE Upsert(e) BY <3>1, <2>1 DEF Upsert, Expected, DynamicRequests
    <3>2. ASSUME NEW b \in Batches[e], Register(e, b) PROVE Expected(k)' \subseteq Expected(k)
      <4>1. b \in Seq(EntryType) BY InjectionAssumption
      <4>2. /\ dynamic' = [dynamic EXCEPT ![e] = @ \o b]
            /\ \A x \in ToSet(b) : x.id \notin IdsOf(dynamic[e])
        BY <3>2 DEF Register, IdsOf
      <4>3. ToSet(dynamic[e] \o b) = ToSet(dynamic[e]) \cup ToSet(b) BY <4>1, Typed, ConcatIs
      <4>4. \A x \in ToSet(b) : x.id \in Ids
        <5>1. \A x \in EntryType : x.id \in Ids BY DEF EntryType
        <5> QED BY <4>1, <5>1 DEF ToSet
      <4>5. \A x \in ToSet(b) : <<e, x.id>> \notin doc[k].sure
        BY <2>1, <4>2, <4>4 DEF Coverage, Sure, Showing
      <4>6. \A d \in Exts : \A x \in ToSet(dynamic'[d]) :
              x \in ToSet(dynamic[d]) \/ <<d, x.id>> \notin doc'[k].sure
        BY <2>1, <4>2, <4>3, <4>5 DEF TypeOK
      <4> QED BY <2>1, <4>6, ExpectedShrinks
    <3> QED BY <1>9, <3>1, <3>2
  <2>3. \A r : Coming(r)' <=> Coming(r) BY <2>1 DEF Coming
  <2>4. \A phase : /\ Passed(k, phase)' <=> Passed(k, phase)
                   /\ Handles(k, phase)' <=> Handles(k, phase)
    BY <2>1 DEF Passed, StartQueued, Handles, Handling
  <2> QED BY <2>1, <2>2, <2>3, <2>4, CoverageStays
<1>10. ASSUME NEW e \in Exts, RemoveExt(e) \/ \E ids \in SUBSET Ids : Unregister(e, ids)
       PROVE  Excused(k)' \/ Covered(k)'
  <2>1. PICK gone : doc' = DocsWithout(gone) BY <1>10 DEF RemoveExt, Unregister
  <2>2. UNCHANGED <<job, events>> BY <1>10 DEF RemoveExt, Unregister
  <2>3. /\ doc[k] # None /\ doc'[k].url = doc[k].url /\ doc'[k].moved = doc[k].moved
        /\ doc'[k].primed = doc[k].primed /\ doc'[k].loaded = doc[k].loaded
        /\ doc'[k].sure \subseteq doc[k].sure
        /\ doc'[k].ran = doc[k].ran /\ doc'[k].lost = doc[k].lost
    BY <2>1, DocsWithoutIs DEF SameShown, SameScripts, SamePriming, Showing
  <2>4. \A d \in Exts : ToSet(dynamic'[d]) \subseteq ToSet(dynamic[d])
    <3>1. CASE RemoveExt(e) BY <3>1 DEF RemoveExt
    <3>2. ASSUME NEW ids, Unregister(e, ids)
          PROVE  \A d \in Exts : ToSet(dynamic'[d]) \subseteq ToSet(dynamic[d])
      <4> DEFINE S == {x \in ToSet(dynamic[e]) : x.id \notin ids}
      <4>1. dynamic' = [dynamic EXCEPT ![e] = Keep(dynamic[e], S)] BY <3>2 DEF Unregister
      <4> HIDE DEF S
      <4>2. ToSet(Keep(dynamic[e], S)) \subseteq ToSet(dynamic[e]) BY Typed, KeepIs
      <4> QED BY <4>1, <4>2 DEF TypeOK
    <3> QED BY <1>10, <3>1, <3>2
  <2>5. Expected(k)' \subseteq Expected(k) BY <2>3, <2>4, ExpectedShrinks
  <2>6. Excused(k) => Excused(k)' BY <2>3 DEF Excused, Ignored
  <2>7. \A r : Coming(r)' <=> Coming(r) BY <2>2 DEF Coming
  <2>8. \A phase : /\ Passed(k, phase)' <=> Passed(k, phase)
                   /\ Handles(k, phase)' <=> Handles(k, phase)
    BY <2>2, <2>3 DEF Passed, StartQueued, Handles, Handling
  <2>9. Covered(k) => Covered(k)' BY <2>3, <2>5, <2>7, <2>8, CoveredStays
  <2> QED BY <2>3, <2>6, <2>9 DEF Coverage, Showing
<1>11. ASSUME UNCHANGED vars PROVE Excused(k)' \/ Covered(k)'
  <2>1. UNCHANGED <<registry, dynamic, doc, events, job>> BY <1>11 DEF vars
  <2>2. Expected(k)' = Expected(k) BY <2>1 DEF Expected, DynamicRequests
  <2>3. \A r : Coming(r)' <=> Coming(r) BY <2>1 DEF Coming
  <2> QED BY <2>1, <2>2, <2>3, CoverageStays DEF Passed, StartQueued, Handles, Handling
<1> QED BY Steps, <1>1, <1>2, <1>3, <1>4, <1>5, <1>6, <1>7, <1>8, <1>9, <1>10, <1>11

-----------------------------------------------------------------------------
(* The theorems. *)

LEMMA InvInit == Init => Inv
<1> SUFFICES ASSUME Init PROVE Inv OBVIOUS
<1>1. TypeOK BY TypeInit
<1>2. Queues /\ Marks /\ Coverage
  BY DEF Init, Queues, Queue, Marks, Coverage, Showing, Handling, Handles, StartQueued, FinishQueued, At
<1>3. Scripts BY DEF Init, Scripts, Showing, UniqueIds
<1> QED BY <1>1, <1>2, <1>3 DEF Inv

LEMMA InvNext == Inv /\ [Next]_vars => Inv'
<1> SUFFICES ASSUME Inv, [Next]_vars PROVE Inv' OBVIOUS
<1>1. TypeOK' /\ Queues' /\ Marks' BY TypeNext, QueuesNext, MarksNext DEF Inv
<1>2. Scripts'
  <2>1. \A l \in Labels : doc'[l] # None => Ran(l)' BY RanNext
  <2>2. JobScripts' /\ Registered' BY JobScriptsNext, RegisteredNext DEF Inv, Scripts, Registered
  <2> QED BY <2>1, <2>2 DEF Scripts, JobScripts, Registered, Showing
<1>3. Coverage'
  <2>1. \A l \in Labels : doc'[l] # None => Sure(l)' /\ (Excused(l)' \/ Covered(l)')
    BY <1>1, SureNext, CoveredNext
  <2> QED BY <2>1 DEF Coverage, Showing
<1> QED BY <1>1, <1>2, <1>3 DEF Inv

THEOREM Invariance == Spec => []Inv
BY InvInit, InvNext, PTL DEF Spec

\* Every variable holds a value of its type, and a page load that goes on to
\* prime or to inject has a script to run (injection.rs).
THEOREM TypeCorrect == Spec => []TypeOK
BY Invariance, PTL DEF Inv

\* A script never runs in a frame that was not primed (BootstrapTracker).
THEOREM ChromePrimedFirst == Spec => []PrimedFirst
<1>1. Inv => PrimedFirst
  <2> SUFFICES ASSUME Inv, NEW l \in Showing, doc[l].ran # <<>>, ~doc[l].moved
               PROVE  doc[l].primed # "no"
    BY DEF PrimedFirst
  <2>1. Primed(l) BY DEF Inv, Marks
  <2> QED BY <2>1 DEF Primed
<1> QED BY <1>1, Invariance, PTL

\* Page providers come before scripts that harden the realm, in each phase
\* (main_world_first and the walk over both tables).
THEOREM ProvidersRunFirst == Spec => []ProvidersFirst
<1>1. Inv => ProvidersFirst
  BY DEF Inv, Scripts, Ran, ProvidersFirst, IsolatedThenMain
<1> QED BY <1>1, Invariance, PTL

\* No entry of a script list runs twice in a document, though its load is
\* handled twice and registrations come and go in between.
THEOREM RunOnce == Spec => []EachOnce
<1>1. Inv => EachOnce BY DEF Inv, Scripts, Ran, EachOnce
<1> QED BY <1>1, Invariance, PTL

\* A handled load has run, or failed to run, every script that was there all
\* along.
THEOREM NoneLeftOut == Spec => []AllInjected
<1>1. Inv => AllInjected
  <2> SUFFICES ASSUME Inv, NEW l \in Showing \ BgLabels, doc[l].loaded, Quiescent(l), ~doc[l].moved,
                      doc[l].url \notin Skipped, doc[l].primed # "failed", NEW r \in Expected(l)
               PROVE  r \in ToSet(doc[l].ran) \cup doc[l].lost
    BY DEF AllInjected
  <2>1. Covered(l) BY DEF Inv, Coverage, Excused, Ignored
  <2>2. Passed(l, "start") /\ Passed(l, "finish") BY Words DEF Passed, StartQueued, Quiescent
  <2>3. ~Handles(l, "start") /\ ~Handles(l, "finish") BY DEF Quiescent, Handles
  <2>4. Of("start", r) \/ Of("finish", r) BY DEF Of
  <2> QED BY <2>1, <2>2, <2>3, <2>4 DEF Covered
<1> QED BY <1>1, Invariance, PTL

\* configure() names an identity at most once in the life of a document: the
\* frame is marked before the second could.
THEOREM OneIdentity == Spec => IdentityKept
<1>1. ASSUME Inv, [Next]_vars
      PROVE  [\A l \in Showing : doc[l].config # None /\ ~doc[l].moved /\ doc'[l] # None /\ ~Commits(l)
                => doc'[l].config = doc[l].config]_vars
  <2> SUFFICES ASSUME NEW k \in Labels, doc[k] # None, doc[k].config # None, ~doc[k].moved,
                      doc'[k] # None, ~Commits(k)
               PROVE  doc'[k].config = doc[k].config
    BY DEF Showing
  <2>1. TypeOK /\ Queues /\ Marks BY <1>1 DEF Inv
  <2>2. ASSUME NEW l \in Labels,
               IgnoreEvent(l) \/ HandleEvent(l) \/ Loaded(l) \/ Close(l) \/ \E u \in Urls : Rewrite(l, u)
        PROVE  doc'[k].config = doc[k].config
    BY <2>1, <2>2, LoadedIs, RewriteIs
       DEF IgnoreEvent, HandleEvent, Close, Elsewhere, SamePriming, TypeOK
  <2>3. ASSUME NEW l \in Labels, NEW u \in Urls, Navigate(l, u)
        PROVE  doc'[k].config = doc[k].config
    <3>1. k # l
      <4> SUFFICES ASSUME k = l PROVE FALSE OBVIOUS
      <4>1. Commits(k) BY <2>1, <2>3 DEF Navigate, Commits, Quiescent, TypeOK
      <4> QED BY <4>1
    <3> QED BY <2>1, <2>3, <3>1, NavigateIs DEF Elsewhere
  <2>4. ASSUME Walks \/ UNCHANGED vars PROVE doc'[k].config = doc[k].config
    BY <2>1, <2>4, WalksAre DEF vars
  <2>5. ASSUME Prime \/ PrimeFails PROVE doc'[k].config = doc[k].config
    <3>1. CASE k # job.label BY <2>1, <2>5, <3>1, PrimeIs DEF Elsewhere
    <3>2. CASE k = job.label
      <4>1. job # None BY <2>5 DEF Prime, PrimeFails, At
      <4>2. Handling(k) /\ Queue(k) /\ Primed(k)
        BY <2>1, <3>2, <4>1 DEF Handling, Queues, Marks, Showing
      <4>3. Marked(k) /\ job.url = doc[k].url BY <4>2 DEF Primed, Queue
      <4> QED BY <2>1, <2>5, <3>2, <4>3, PrimeIs DEF Marked
    <3> QED BY <3>1, <3>2
  <2>6. ASSUME Eval \/ EvalFails PROVE doc'[k].config = doc[k].config
    BY <2>1, <2>6, EvalIs DEF Elsewhere, SamePriming
  <2>7. ASSUME NEW e \in Exts, Upsert(e) \/ \E b \in Batches[e] : Register(e, b)
        PROVE  doc'[k].config = doc[k].config
    BY <2>7 DEF Upsert, Register
  <2>8. ASSUME NEW e \in Exts, RemoveExt(e) \/ \E ids \in SUBSET Ids : Unregister(e, ids)
        PROVE  doc'[k].config = doc[k].config
    <3>1. PICK gone : doc' = DocsWithout(gone) BY <2>8 DEF RemoveExt, Unregister
    <3> QED BY <2>1, <3>1, DocsWithoutIs DEF SamePriming, Showing
  <2> QED BY <1>1, Steps, <2>2, <2>3, <2>4, <2>5, <2>6, <2>7, <2>8
<1> QED BY <1>1, Invariance, PTL DEF Spec, IdentityKept
=============================================================================
