----------------------------- MODULE StorageOps -----------------------------
(***************************************************************************)
(* The key-value data of one extension's chrome.storage area and what the  *)
(* four requests do to it.  A key without a value is Absent.               *)
(***************************************************************************)
CONSTANTS Keys, Values, Absent

ASSUME DataAssumption == Absent \notin Values

Contents == [Keys -> Values \cup {Absent}]
Nothing  == [k \in Keys |-> Absent]

\* A request: its operation and the items it names.  A get or a remove uses
\* the items' keys only and a clear uses nothing.
RequestType == [op : {"get", "set", "remove", "clear"}, items : Contents]
Named(r)    == {k \in Keys : r.items[k] # Absent}

\* What a get answers from m, and what any other request makes of m.
Selected(r, m) == [k \in Keys |-> IF k \in Named(r) THEN m[k] ELSE Absent]

\* Mutant: a set replaces the map by its items.
ApplyOnly(r, m) == [k \in Named(r) |-> IF r.op = "set" THEN r.items[k] ELSE Absent]

Apply(r, m) ==
  [k \in Keys |-> IF r.op = "clear" THEN Absent
                  ELSE IF k \notin Named(r) THEN m[k]
                  ELSE IF r.op = "set" THEN r.items[k] ELSE Absent]
=============================================================================
