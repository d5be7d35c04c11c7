---------------------------- MODULE MCResources ----------------------------
(* Small instances of Resources for TLC. *)
EXTENDS Resources, TLC
CONSTANTS a, b, sw, lib, chunk, inpage, spaced, quoted, d1, d2

\* Two ids, one character apart, and labels that keep both or one of it.
TwoIds == {<<a, a>>, <<a, b>>}
Names  == TwoIds \cup {Up, Dot, sw, lib, chunk, inpage, spaced, quoted}
Quoted == [s \in Names |-> IF s = spaced THEN quoted ELSE s]
Owner(d) == IF d = d1 THEN <<a, a>> ELSE <<a, b>>

Files == {<<sw>>, <<chunk>>, <<lib, sw>>, <<lib, chunk>>, <<inpage>>, <<spaced>>}
Classic(d) == [id |-> Owner(d), entry |-> <<Dot, lib, sw>>, module |-> FALSE,
               files |-> Files, war |-> {<<inpage>>, <<spaced>>}]
Shallow(d) == [Classic(d) EXCEPT !.entry = <<sw>>]
Module(d)  == [id |-> Owner(d), entry |-> <<sw>>, module |-> TRUE,
               files |-> Files \ {<<inpage>>}, war |-> {<<inpage>>, <<chunk>>}]
Bare(d)    == [id |-> Owner(d), entry |-> <<>>, module |-> FALSE,
               files |-> {<<sw>>, <<chunk>>, <<inpage>>}, war |-> {<<inpage>>}]
FourPackages == {Classic(d1), Shallow(d1), Module(d1), Bare(d2)}
TwoDirs == d1 :> Classic(d1) @@ d2 :> Bare(d2)

Ref(k, p) == [kind |-> k, path |-> p]
SameListeners == Permutations(Listeners)
SomeRefs == {Ref("relative", <<chunk>>), Ref("relative", <<Up, chunk>>),
             Ref("absolute", <<chunk>>), Ref("geturl", <<lib, chunk>>),
             Ref("document", <<chunk>>), Ref("absolute", <<spaced>>)}
SomeWanted == {<<inpage>>, <<chunk>>, <<lib, sw>>, <<spaced>>, <<>>, <<Up, inpage>>}
=============================================================================
