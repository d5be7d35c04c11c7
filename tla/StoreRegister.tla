--------------------------- MODULE StoreRegister ---------------------------
(***************************************************************************)
(* What the StateStore trait promises (lifecycle/store.rs): a save         *)
(* replaces the rows in one step or leaves them alone and says so, a kill  *)
(* of the host keeps them, and a power loss may at most bring back rows    *)
(* whose replacement had not reached the disk.  MemoryStateStore, the test *)
(* double, is this register without the failures.                          *)
(***************************************************************************)
CONSTANTS
  Savers,  \* the tasks that save
  Rows,    \* what a save may write
  Reads,   \* what a load may give
  None

VARIABLES
  stored,  \* what a load gives
  past,    \* what a power loss may bring back
  call     \* the rows each saver wants written, and how far its call is
vars == <<stored, past, call>>

Idle == [at |-> "idle", rows |-> None]

Init == stored \in Reads /\ past = {} /\ call = [s \in Savers |-> Idle]

End(s, at) ==
  call[s].at = "saving" /\ call' = [call EXCEPT ![s] = [Idle EXCEPT !.at = at]]

Begin(s, r) ==
  /\ call[s].at = "idle" /\ call' = [call EXCEPT ![s] = [at |-> "saving", rows |-> r]]
  /\ UNCHANGED <<stored, past>>

Land(s) ==
  /\ End(s, "ok")
  /\ stored' = call[s].rows /\ past' = past \cup {stored}

Fail(s) == End(s, "failed") /\ UNCHANGED <<stored, past>>

Return(s) ==
  /\ call[s].at \in {"ok", "failed"} /\ call' = [call EXCEPT ![s] = Idle]
  /\ UNCHANGED <<stored, past>>

Settle == past' = {} /\ UNCHANGED <<stored, call>>

Kill == call' = [s \in Savers |-> Idle] /\ UNCHANGED <<stored, past>>

PowerLoss ==
  /\ stored' \in past \cup {stored} /\ past' = {}
  /\ call' = [s \in Savers |-> Idle]

Next ==
  \/ \E s \in Savers : Land(s) \/ Fail(s) \/ Return(s) \/ \E r \in Rows : Begin(s, r)
  \/ Settle \/ Kill \/ PowerLoss
=============================================================================
