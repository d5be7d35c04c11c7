---------------------------- MODULE SendMessage ----------------------------
(***************************************************************************)
(* chrome.runtime.sendMessage, from a page's shim through the router's     *)
(* table of pending requests into the background worker's page and back    *)
(* (src/ipc/router.rs, the extensions_runtime_send_message command, and    *)
(* the shim's runtime.ts and events.ts).                                   *)
(*                                                                         *)
(* The worker's page may be closed and opened again at any time, a request *)
(* may expire at any time, and replies travel in no order.  Scripts queued *)
(* in a page run in order, but requests do not look at each other, so the  *)
(* queue is a set.                                                         *)
(***************************************************************************)
EXTENDS Naturals, Sequences, FiniteSets

CONSTANTS
  Reqs,       \* requests that may be sent
  FromWorker, \* those sent by the worker itself, to the content surfaces
  Listeners,  \* onMessage listeners the worker's code may register
  MaxPages,   \* how many pages the worker's window may load (a bound)
  None

Answers == Listeners \cup {"undefined"}

ASSUME RequestAssumption ==
  /\ FromWorker \subseteq Reqs
  /\ MaxPages \in Nat
  /\ "undefined" \notin Listeners
  /\ None \notin Answers

VARIABLES
  sender,    \* each request at its sender
  answer,    \* what the sender's promise resolved to
  pending,   \* Router.pending: requests with a oneshot sender
  chan,      \* the value in each request's oneshot, not received yet
  page,      \* the worker's page: none, blank (no bootstrap yet), wired
  pages,     \* pages loaded so far
  listeners, \* the page's onMessage listeners, in registration order
  inbox,     \* requests whose event is queued in the page
  holders,   \* listeners that may still call a request's sendResponse
  replies    \* response invokes on their way to the router

routerVars == <<pending, chan>>
pageVars   == <<page, pages, listeners, inbox, holders>>
vars       == <<sender, answer, routerVars, pageVars, replies>>

Settled == {"answered", "failed"}

-----------------------------------------------------------------------------
(* Mutants of what follows. *)

\* sendResponse forgets that it has been called.
RespondAgain(r, l) ==
  /\ l \in holders[r]
  /\ replies' = replies \cup {<<r, l>>}
  /\ holders' = [holders EXCEPT ![r] = @ \ {l}]
  /\ UNCHANGED <<sender, answer, routerVars, page, pages, listeners, inbox>>

\* The sender that timed out leaves its entry in the table.
LeavePending(r) ==
  /\ sender[r] = "expired"
  /\ sender' = [sender EXCEPT ![r] = "failed"]
  /\ UNCHANGED <<answer, routerVars, pageVars, replies>>

\* The receiver is awaited without a timeout.
NeverExpire(r) == FALSE /\ UNCHANGED vars

-----------------------------------------------------------------------------
(* The sender and send_to_background. *)

Init ==
  /\ sender = [r \in Reqs |-> "idle"] /\ answer = [r \in Reqs |-> None]
  /\ pending = {} /\ chan = [r \in Reqs |-> None]
  /\ page = "none" /\ pages = 0 /\ listeners = <<>>
  /\ inbox = {} /\ holders = [r \in Reqs |-> {}] /\ replies = {}

Call(r) ==
  /\ sender[r] = "idle"
  /\ sender' = [sender EXCEPT ![r] = "called"]
  /\ UNCHANGED <<answer, routerVars, pageVars, replies>>

\* "Receiving end does not exist."
NoReceiver(r) ==
  /\ sender[r] = "called" /\ (r \in FromWorker \/ page = "none")
  /\ sender' = [sender EXCEPT ![r] = "failed"]
  /\ UNCHANGED <<answer, routerVars, pageVars, replies>>

Register(r) ==
  /\ sender[r] = "called" /\ r \notin FromWorker /\ page # "none"
  /\ sender' = [sender EXCEPT ![r] = "registered"]
  /\ pending' = pending \cup {r}
  /\ UNCHANGED <<answer, chan, pageVars, replies>>

Dispatch(r) ==
  /\ sender[r] = "registered" /\ page # "none"
  /\ sender' = [sender EXCEPT ![r] = "waiting"]
  /\ inbox' = inbox \cup {r}
  /\ UNCHANGED <<answer, routerVars, page, pages, listeners, holders, replies>>

\* The window went away since it was looked up.
DispatchFails(r) ==
  /\ sender[r] = "registered" /\ page = "none"
  /\ sender' = [sender EXCEPT ![r] = "failed"]
  /\ pending' = pending \ {r}
  /\ UNCHANGED <<answer, chan, pageVars, replies>>

\* The timeout polls the receiver before its own timer.
Receive(r) ==
  /\ sender[r] = "waiting" /\ chan[r] # None
  /\ sender' = [sender EXCEPT ![r] = "answered"]
  /\ answer' = [answer EXCEPT ![r] = chan[r]]
  /\ chan' = [chan EXCEPT ![r] = None]
  /\ UNCHANGED <<pending, pageVars, replies>>

\* SEND_MESSAGE_TIMEOUT passed: the receiver is dropped ...
Expire(r) ==
  /\ sender[r] = "waiting" /\ chan[r] = None
  /\ sender' = [sender EXCEPT ![r] = "expired"]
  /\ UNCHANGED <<answer, routerVars, pageVars, replies>>

\* ... and then the entry.
Abandon(r) ==
  /\ sender[r] = "expired"
  /\ sender' = [sender EXCEPT ![r] = "failed"]
  /\ pending' = pending \ {r}
  /\ UNCHANGED <<answer, chan, pageVars, replies>>

\* resolve_pending: a reply to no pending request is dropped, and so is one
\* whose receiver has been dropped.
Resolve(r, v) ==
  /\ <<r, v>> \in replies
  /\ replies' = replies \ {<<r, v>>}
  /\ pending' = pending \ {r}
  /\ chan' = [chan EXCEPT ![r] =
       IF r \in pending /\ sender[r] \in {"registered", "waiting"} THEN v ELSE @]
  /\ UNCHANGED <<sender, answer, pageVars>>

-----------------------------------------------------------------------------
(* The worker's page. *)

Registered == {listeners[n] : n \in DOMAIN listeners}

\* l is the first listener registered among those in S.
First(l, S) ==
  /\ l \in S
  /\ \E n \in DOMAIN listeners :
       /\ listeners[n] = l
       /\ \A m \in DOMAIN listeners : listeners[m] \in S => n <= m

\* handleInboundMessage calls every listener and then looks at what they
\* returned.  A listener replies at once, keeps sendResponse (it returned
\* true), returns a promise, or does none of these; only the first promise is
\* listened to, and a listener that kept sendResponse may use it later.
Handle(r, beh) ==
  LET Of(b) == {l \in Registered : beh[l] = b} IN
  \/ \E l \in Listeners :
       /\ First(l, Of("replies"))
       /\ replies' = replies \cup {<<r, l>>}
       /\ UNCHANGED holders
  \/ /\ Of("replies") = {}
     /\ Of("keeps") \cup Of("promises") = {}
     /\ replies' = replies \cup {<<r, "undefined">>}
     /\ UNCHANGED holders
  \/ /\ Of("replies") = {}
     /\ Of("keeps") \cup Of("promises") # {}
     /\ holders' = [holders EXCEPT ![r] =
          Of("keeps") \cup {l \in Of("promises") : First(l, Of("promises"))}]
     /\ UNCHANGED replies

Deliver(r) ==
  /\ page = "wired" /\ r \in inbox
  /\ inbox' = inbox \ {r}
  /\ \E beh \in [Registered -> {"replies", "keeps", "promises", "ignores"}] :
       Handle(r, beh)
  /\ UNCHANGED <<sender, answer, routerVars, page, pages, listeners>>

\* A page without the dispatcher drops the event.
Drop(r) ==
  /\ page = "blank" /\ r \in inbox
  /\ inbox' = inbox \ {r}
  /\ UNCHANGED <<sender, answer, routerVars, page, pages, listeners, holders,
                 replies>>

\* The first call of sendResponse counts.
Respond(r, l) ==
  /\ l \in holders[r]
  /\ replies' = replies \cup {<<r, l>>}
  /\ holders' = [holders EXCEPT ![r] = {}]
  /\ UNCHANGED <<sender, answer, routerVars, page, pages, listeners, inbox>>

AddListener(l) ==
  /\ page = "wired" /\ l \notin Registered
  /\ listeners' = Append(listeners, l)
  /\ UNCHANGED <<sender, answer, routerVars, page, pages, inbox, holders, replies>>

RemoveListener(l) ==
  /\ page = "wired"
  /\ \E n \in DOMAIN listeners :
       /\ listeners[n] = l
       /\ listeners' = SubSeq(listeners, 1, n - 1)
                         \o SubSeq(listeners, n + 1, Len(listeners))
  /\ UNCHANGED <<sender, answer, routerVars, page, pages, inbox, holders, replies>>

\* The lifecycle manager builds the window; its initialization script installs
\* the dispatcher and the shim; and the manager closes the window.
OpenPage ==
  /\ page = "none" /\ pages < MaxPages
  /\ page' = "blank" /\ pages' = pages + 1
  /\ UNCHANGED <<sender, answer, routerVars, listeners, inbox, holders, replies>>

Bootstrap ==
  /\ page = "blank" /\ page' = "wired"
  /\ UNCHANGED <<sender, answer, routerVars, pages, listeners, inbox, holders,
                 replies>>

ClosePage ==
  /\ page # "none" /\ page' = "none"
  /\ listeners' = <<>> /\ inbox' = {} /\ holders' = [r \in Reqs |-> {}]
  /\ UNCHANGED <<sender, answer, routerVars, pages, replies>>

-----------------------------------------------------------------------------

Send(r) ==
  \/ NoReceiver(r) \/ Register(r) \/ Dispatch(r) \/ DispatchFails(r)
  \/ Receive(r) \/ Expire(r) \/ Abandon(r)

Page ==
  \/ \E r \in Reqs : Deliver(r) \/ Drop(r)
  \/ \E r \in Reqs, l \in Listeners : Respond(r, l)
  \/ \E l \in Listeners : AddListener(l) \/ RemoveListener(l)
  \/ OpenPage \/ Bootstrap \/ ClosePage

Next ==
  \/ \E r \in Reqs : Call(r) \/ Send(r)
  \/ \E r \in Reqs, v \in Answers : Resolve(r, v)
  \/ Page

Spec == Init /\ [][Next]_vars

(* The command's task is scheduled and its timer fires; nothing is assumed of *)
(* the worker, its listeners or the replies.                                  *)
FairSpec == Spec /\ \A r \in Reqs : WF_vars(Send(r))

-----------------------------------------------------------------------------
(* Properties. *)

\* Every variable holds a value of its type.
TypeOK ==
  /\ sender \in [Reqs -> {"idle", "called", "registered", "waiting", "expired"}
                           \cup Settled]
  /\ answer \in [Reqs -> Answers \cup {None}]
  /\ pending \subseteq Reqs /\ chan \in [Reqs -> Answers \cup {None}]
  /\ page \in {"none", "blank", "wired"} /\ pages \in 0 .. MaxPages
  /\ listeners \in Seq(Listeners)
  /\ inbox \subseteq Reqs /\ holders \in [Reqs -> SUBSET Listeners]
  /\ replies \subseteq Reqs \X Answers

\* The table has exactly the requests someone still waits for, or has just
\* stopped waiting for: no request that is over leaves an entry or a value behind,
\* and no sender waits on an entry that was removed without an answer for it (the
\* "channel closed without a reply" branch is never taken).
EntryMatches(r) ==
  /\ r \in pending => sender[r] \in {"registered", "waiting", "expired"} /\ chan[r] = None
  /\ sender[r] = "registered" \/ (sender[r] = "waiting" /\ chan[r] = None)
       => r \in pending
  /\ chan[r] # None => sender[r] = "waiting"
PendingMatchesSenders == \A r \in Reqs : EntryMatches(r)

\* A request is in one place at a time between its dispatch and its answer, so
\* that however often sendResponse is called, by however many listeners, one
\* reply at most is ever sent for it, and none is on its way once it is answered.
Queued(r)  == r \in inbox
Held(r)    == holders[r] # {}
Replied(r) == \E v \in Answers : <<r, v>> \in replies
InOnePlace(r) ==
  /\ ~(Queued(r) /\ Held(r)) /\ ~(Queued(r) /\ Replied(r)) /\ ~(Held(r) /\ Replied(r))
  /\ \A v, w \in Answers : <<r, v>> \in replies /\ <<r, w>> \in replies => v = w
  /\ Queued(r) \/ Held(r) \/ Replied(r) =>
       sender[r] \in {"waiting", "expired", "failed"} /\ chan[r] = None
OneReply == \A r \in Reqs : InOnePlace(r)

\* Every sendMessage comes to an end, whatever the worker does.
Settles == \A r \in Reqs : sender[r] = "called" ~> sender[r] \in Settled
=============================================================================
