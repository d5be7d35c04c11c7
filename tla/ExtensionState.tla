-------------------------- MODULE ExtensionState --------------------------
(***************************************************************************)
(* The state machine an extension goes through (lifecycle/state.rs), as    *)
(* the host sees it through its id: absent, or in exactly one state.  Only *)
(* a running extension owns a background worker, a stop takes the worker   *)
(* along in the same step, and what is being uninstalled is only removed.  *)
(***************************************************************************)
CONSTANTS
  Ids,      \* extension ids
  Workers,  \* what names a background worker
  None

VARIABLES
  state,   \* each id's state
  worker   \* the worker of a running extension
vars == <<state, worker>>

can_start(i) == state[i] \in {"installed", "stopped"}
can_stop(i)  == state[i] = "running"

Init == state = [i \in Ids |-> "absent"] /\ worker = [i \in Ids |-> None]

Enter(i, s, w) ==
  /\ state' = [state EXCEPT ![i] = s] /\ worker' = [worker EXCEPT ![i] = w]

Install(i)       == state[i] = "absent" /\ Enter(i, "installed", None)
Start(i, w)      == can_start(i) /\ Enter(i, "running", w)
begin_stopping(i) == can_stop(i) /\ Enter(i, "stopping", None)
Stop(i)          == state[i] = "stopping" /\ Enter(i, "stopped", None)
Uninstall(i)     == (can_start(i) \/ can_stop(i)) /\ Enter(i, "uninstalling", None)
Remove(i)        == state[i] = "uninstalling" /\ Enter(i, "absent", None)

\* At exit no close is waited for, and the process may end in any state.
Shutdown(i) == can_stop(i) /\ Enter(i, "stopped", None)
Restart     == state' = [i \in Ids |-> "absent"] /\ worker' = [i \in Ids |-> None]

Step(i) ==
  \/ Install(i) \/ \E w \in Workers \cup {None} : Start(i, w)
  \/ begin_stopping(i) \/ Stop(i) \/ Uninstall(i) \/ Remove(i) \/ Shutdown(i)
Next == Restart \/ \E i \in Ids : Step(i)

Spec == Init /\ [][Next]_vars
=============================================================================
