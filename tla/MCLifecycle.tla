---------------------------- MODULE MCLifecycle ----------------------------
(* Small instances of Lifecycle for TLC. *)
EXTENDS Lifecycle, TLC
CONSTANTS i1, i2, d1, d2, o1, o2, o3, c1, c2, l1, l2

OneLabel  == [i \in Ids |-> l1]
OwnLabels == [i \in Ids |-> IF i = i1 THEN l1 ELSE l2]
Worker(i) == [id |-> i, sw |-> TRUE]
Workers == {Worker(i) : i \in Ids}
OwnManifests == {Worker(i1), None}
OneDisk   == [d \in Dirs |-> Worker(i1)]
TwoDisks  == [d \in Dirs |-> Worker(IF d = d1 THEN i1 ELSE i2)]
\* One part of the host installs and another one uninstalls.
Roles == op'[c1] # "uninstall" /\ op'[c2] \notin {"install", "reload"}
RolesSpec == Init /\ [][Next /\ Roles]_vars /\ Fairness
\* Only one of two callers also reloads.
CallsSpec == Init /\ [][Next /\ op'[c2] # "reload"]_vars /\ Fairness
\* Once a save or a load failed, and until a save succeeds, nothing else is odd: no
\* worker's build failed, and none has content scripts registered.
Plain == /\ scripts = {} /\ \A i \in Ids : flying[i] = "none"
         /\ \A o \in Objs : Running(o) => heap[o].hdl # None
Apart == unsaved' = {} \/ Plain'
RestartSpec == Init /\ [][Next /\ Apart]_vars
Symmetry  == Permutations(Objs) \cup Permutations(Callers)
=============================================================================
