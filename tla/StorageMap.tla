----------------------------- MODULE StorageMap -----------------------------
(***************************************************************************)
(* What an extension is promised of chrome.storage.local: its requests     *)
(* take effect one at a time between call and return, each on the map that *)
(* the ones before left, and a write that succeeded is there after a       *)
(* restart.  A write that fails may be visible until the next restart and  *)
(* becomes durable with the next write that succeeds.                      *)
(***************************************************************************)
EXTENDS StorageOps
CONSTANTS Callers, Requests, None, Ok, Failed

VARIABLES visible, durable, call, answer
vars == <<visible, durable, call, answer>>

Init ==
  /\ visible = Nothing /\ durable = Nothing
  /\ call = [t \in Callers |-> None] /\ answer = [t \in Callers |-> None]

Invoke(t, r) ==
  /\ call[t] = None /\ call' = [call EXCEPT ![t] = r]
  /\ UNCHANGED <<visible, durable, answer>>

Pending(t) == call[t] # None /\ answer[t] = None

\* The answers are set once.
Get(t) ==
  /\ Pending(t) /\ call[t].op = "get"
  /\ answer' = [answer EXCEPT ![t] = Selected(call[t], visible)]
  /\ UNCHANGED <<visible, durable, call>>

Write(t) ==
  /\ Pending(t) /\ call[t].op # "get"
  /\ visible' = Apply(call[t], visible) /\ durable' = visible'
  /\ answer' = [answer EXCEPT ![t] = Ok]
  /\ UNCHANGED call

Fail(t) ==
  /\ Pending(t)
  /\ \/ visible' = visible
     \/ call[t].op # "get" /\ visible' = Apply(call[t], visible)
  /\ answer' = [answer EXCEPT ![t] = Failed]
  /\ UNCHANGED <<durable, call>>

Return(t) ==
  /\ answer[t] # None
  /\ call' = [call EXCEPT ![t] = None] /\ answer' = [answer EXCEPT ![t] = None]
  /\ UNCHANGED <<visible, durable>>

\* The process ends with its calls, or the extension is unloaded.
Forget ==
  /\ visible' = durable
  /\ \/ UNCHANGED <<call, answer>>
     \/ call' = [t \in Callers |-> None] /\ answer' = [t \in Callers |-> None]
  /\ UNCHANGED durable

Next ==
  \/ \E t \in Callers :
       Get(t) \/ Write(t) \/ Fail(t) \/ Return(t) \/ \E r \in Requests : Invoke(t, r)
  \/ Forget

Spec == Init /\ [][Next]_vars
=============================================================================
