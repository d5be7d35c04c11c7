---------------------------- MODULE MCInjection -----------------------------
(* Small instances of Injection for TLC. *)
EXTENDS Injection
CONSTANTS main, u1, u2, about, e1, e2, i1, i2, f1, f2, f3, f4, gone

Rule(fs, at, world, us) == [files |-> fs, at |-> at, world |-> world, urls |-> us]

\* e1 declares scripts, one of them with a missing file; e2 registers them.
SomeRules ==
  (e1 :> <<Rule(<<gone, f1>>, "start", "isolated", {u1}), Rule(<<f2>>, "end", "isolated", {u1})>>)
  @@ (e2 :> <<>>)
SomeBatches ==
  (e1 :> {})
  @@ (e2 :> {<<[id |-> i1, rule |-> Rule(<<f3>>, "start", "main", {u1, u2})]>>,
             <<[id |-> i1, rule |-> Rule(<<f4>>, "idle", "main", {u1})],
               [id |-> i2, rule |-> Rule(<<f3>>, "start", "main", {u2})]>>})
=============================================================================
