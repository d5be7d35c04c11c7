---------------------------- MODULE MCLocalStore ----------------------------
(* Small instances of LocalStore for TLC. *)
EXTENDS LocalStore
CONSTANTS k1, k2, v1, t1, t2, h1, n1, n2

Items(S) == [k \in Keys |-> IF k \in S THEN v1 ELSE Absent]
Request(o, S) == [op |-> o, items |-> Items(S)]
SomeRequests ==
  {Request("get", Keys), Request("set", {k1}), Request("set", {k2}),
   Request("remove", {k1}), Request("clear", {})}
=============================================================================
