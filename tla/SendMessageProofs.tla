------------------------- MODULE SendMessageProofs -------------------------
(***************************************************************************)
(* Every request of SendMessage gets one reply at most and leaves nothing  *)
(* in the router's table, for any number of requests, listeners and pages. *)
(***************************************************************************)
EXTENDS SendMessage, SequenceTheorems, TLAPS

\* The three invariants support each other: a reply resolves a waiting sender
\* because nobody replied before, and nobody did because the table had it.
Inv == TypeOK /\ PendingMatchesSenders /\ OneReply

\* Removing one listener leaves a sequence of listeners.
LEMMA SpliceType ==
  ASSUME NEW s \in Seq(Listeners), NEW n \in DOMAIN s
  PROVE  SubSeq(s, 1, n - 1) \o SubSeq(s, n + 1, Len(s)) \in Seq(Listeners)
<1>1. n \in 1 .. Len(s) BY LenProperties
<1>2. SubSeq(s, 1, n - 1) \in Seq(Listeners)
  BY <1>1, SubSeqProperties
<1>3. SubSeq(s, n + 1, Len(s)) \in Seq(Listeners)
  BY <1>1, SubSeqProperties
<1> QED BY <1>2, <1>3, ConcatProperties

\* Initially nothing has been sent.
LEMMA InvInit == Init => Inv
<1> SUFFICES ASSUME Init PROVE Inv OBVIOUS
<1>1. TypeOK BY RequestAssumption DEF Init, TypeOK
<1>2. PendingMatchesSenders BY DEF Init, PendingMatchesSenders, EntryMatches
<1>3. OneReply BY DEF Init, OneReply, InOnePlace, Queued, Held, Replied
<1> QED BY <1>1, <1>2, <1>3 DEF Inv

\* Handling a request either sends one reply for it or leaves it with some of
\* the listeners.
LEMMA HandleStep ==
  ASSUME NEW r \in Reqs, NEW beh, TypeOK, Handle(r, beh)
  PROVE  \/ \E v \in Answers : replies' = replies \cup {<<r, v>>} /\ UNCHANGED holders
         \/ \E H \in SUBSET Listeners :
              holders' = [holders EXCEPT ![r] = H] /\ UNCHANGED replies
<1> DEFINE Of(b) == {l \in Registered : beh[l] = b}
           H == Of("keeps") \cup {l \in Of("promises") : First(l, Of("promises"))}
<1>1. Registered \subseteq Listeners BY DEF Registered, TypeOK
<1>2. H \in SUBSET Listeners BY <1>1
<1>3. \/ \E l \in Listeners : replies' = replies \cup {<<r, l>>} /\ UNCHANGED holders
      \/ replies' = replies \cup {<<r, "undefined">>} /\ UNCHANGED holders
      \/ holders' = [holders EXCEPT ![r] = H] /\ UNCHANGED replies
  BY DEF Handle
<1> HIDE DEF H
<1> QED BY <1>2, <1>3 DEF Answers

\* Every step leaves values of the right type.
LEMMA TypeStep == TypeOK /\ [Next]_vars => TypeOK'
<1> SUFFICES ASSUME TypeOK, [Next]_vars PROVE TypeOK' OBVIOUS
<1> USE DEF TypeOK, Settled, routerVars, pageVars
<1>1. ASSUME NEW r \in Reqs, Call(r) \/ Send(r) PROVE TypeOK'
  <2>1. CASE Call(r) BY <2>1 DEF Call
  <2>2. CASE NoReceiver(r) BY <2>2 DEF NoReceiver
  <2>3. CASE Register(r) BY <2>3 DEF Register
  <2>4. CASE Dispatch(r) BY <2>4 DEF Dispatch
  <2>5. CASE DispatchFails(r) BY <2>5 DEF DispatchFails
  <2>6. CASE Receive(r) BY <2>6 DEF Receive
  <2>7. CASE Expire(r) BY <2>7 DEF Expire
  <2>8. CASE Abandon(r) BY <2>8 DEF Abandon
  <2> QED BY <1>1, <2>1, <2>2, <2>3, <2>4, <2>5, <2>6, <2>7, <2>8 DEF Send
<1>2. ASSUME NEW r \in Reqs, NEW v \in Answers, Resolve(r, v) PROVE TypeOK'
  BY <1>2 DEF Resolve
<1>3. ASSUME NEW r \in Reqs, Deliver(r) \/ Drop(r) PROVE TypeOK'
  <2>1. CASE Drop(r) BY <2>1 DEF Drop
  <2>2. CASE Deliver(r)
    <3>1. /\ inbox' \subseteq Reqs
          /\ UNCHANGED <<sender, answer, pending, chan, page, pages, listeners>>
      BY <2>2 DEF Deliver
    <3>2. PICK beh : Handle(r, beh) BY <2>2 DEF Deliver
    <3>3. holders' \in [Reqs -> SUBSET Listeners] /\ replies' \subseteq Reqs \X Answers
      BY <3>2, HandleStep
    <3> QED BY <3>1, <3>3
  <2> QED BY <1>3, <2>1, <2>2
<1>4. ASSUME NEW r \in Reqs, NEW l \in Listeners, Respond(r, l) PROVE TypeOK'
  BY <1>4 DEF Respond, Answers
<1>5. ASSUME NEW l \in Listeners, AddListener(l) \/ RemoveListener(l) PROVE TypeOK'
  <2>1. listeners' \in Seq(Listeners)
    <3>1. CASE AddListener(l) BY <3>1, AppendProperties DEF AddListener
    <3>2. CASE RemoveListener(l) BY <3>2, SpliceType DEF RemoveListener
    <3> QED BY <1>5, <3>1, <3>2
  <2>2. UNCHANGED <<sender, answer, pending, chan, page, pages, inbox, holders, replies>>
    BY <1>5 DEF AddListener, RemoveListener
  <2> QED BY <2>1, <2>2
<1>6. CASE OpenPage BY <1>6, RequestAssumption DEF OpenPage
<1>7. CASE Bootstrap BY <1>7 DEF Bootstrap
<1>8. CASE ClosePage
  <2>1. listeners' \in Seq(Listeners) BY <1>8, EmptySeq DEF ClosePage
  <2> QED BY <1>8, <2>1 DEF ClosePage
<1>9. CASE UNCHANGED vars BY <1>9 DEF vars
<1> QED BY <1>1, <1>2, <1>3, <1>4, <1>5, <1>6, <1>7, <1>8, <1>9 DEF Next, Page

\* Every step of a request's sender, its replies and its page keeps the request
\* in one place and its entry in the table exactly as long as it is needed.
LEMMA RequestStep ==
  ASSUME Inv, TypeOK', [Next]_vars, NEW q \in Reqs
  PROVE  EntryMatches(q)' /\ InOnePlace(q)'
<1>0. TypeOK /\ EntryMatches(q) /\ InOnePlace(q)
  BY DEF Inv, PendingMatchesSenders, OneReply
<1> USE RequestAssumption, <1>0
    DEF TypeOK, EntryMatches, InOnePlace, Queued, Held, Replied, Settled, routerVars, pageVars
<1>1. ASSUME NEW r \in Reqs, Call(r) \/ Send(r) PROVE EntryMatches(q)' /\ InOnePlace(q)'
  <2>1. CASE Call(r) BY <2>1 DEF Call
  <2>2. CASE NoReceiver(r) BY <2>2 DEF NoReceiver
  <2>3. CASE Register(r)
    <3>1. EntryMatches(q)' BY <2>3 DEF Register
    <3>2. InOnePlace(q)' BY <2>3 DEF Register
    <3> QED BY <3>1, <3>2
  <2>4. CASE Dispatch(r)
    <3>1. EntryMatches(q)' BY <2>4 DEF Dispatch
    <3>2. InOnePlace(q)' BY <2>4 DEF Dispatch
    <3> QED BY <3>1, <3>2
  <2>5. CASE DispatchFails(r) BY <2>5 DEF DispatchFails
  <2>6. CASE Receive(r)
    <3>1. EntryMatches(q)' BY <2>6 DEF Receive
    <3>2. InOnePlace(q)' BY <2>6 DEF Receive
    <3> QED BY <3>1, <3>2
  <2>7. CASE Expire(r) BY <2>7 DEF Expire
  <2>8. CASE Abandon(r) BY <2>8 DEF Abandon
  <2> QED BY <1>1, <2>1, <2>2, <2>3, <2>4, <2>5, <2>6, <2>7, <2>8 DEF Send
<1>2. ASSUME NEW r \in Reqs, NEW v \in Answers, Resolve(r, v)
      PROVE  EntryMatches(q)' /\ InOnePlace(q)'
  <2>1. Replied(r) BY <1>2 DEF Resolve
  <2>2. CASE q # r BY <1>2, <2>2 DEF Resolve
  <2>3. CASE q = r
    <3>1. EntryMatches(q)' BY <1>2, <2>1, <2>3 DEF Resolve
    <3>2. ~Replied(q)' /\ ~Queued(q)' /\ ~Held(q)' BY <1>2, <2>1, <2>3 DEF Resolve
    <3> QED BY <3>1, <3>2
  <2> QED BY <2>2, <2>3
<1>3. ASSUME NEW r \in Reqs, Drop(r) PROVE EntryMatches(q)' /\ InOnePlace(q)'
  BY <1>3 DEF Drop
<1>4. ASSUME NEW r \in Reqs, Deliver(r) PROVE EntryMatches(q)' /\ InOnePlace(q)'
  <2>1. EntryMatches(q)' BY <1>4 DEF Deliver
  <2>2. /\ r \in inbox /\ inbox' = inbox \ {r} /\ UNCHANGED <<sender, chan>>
        /\ \E beh : Handle(r, beh)
    BY <1>4 DEF Deliver
  <2>3. Queued(r) /\ ~Held(r) /\ ~Replied(r)
    BY <2>2 DEF Inv, OneReply
  <2>4. CASE \E v \in Answers : replies' = replies \cup {<<r, v>>} /\ UNCHANGED holders
    BY <2>1, <2>2, <2>3, <2>4
  <2>5. CASE \E H \in SUBSET Listeners :
               holders' = [holders EXCEPT ![r] = H] /\ UNCHANGED replies
    BY <2>1, <2>2, <2>3, <2>5
  <2> QED BY <2>2, <2>4, <2>5, HandleStep
<1>5. ASSUME NEW r \in Reqs, NEW l \in Listeners, Respond(r, l)
      PROVE  EntryMatches(q)' /\ InOnePlace(q)'
  <2>1. Held(r) /\ ~Queued(r) /\ ~Replied(r) BY <1>5 DEF Respond, Inv, OneReply
  <2>2. EntryMatches(q)' BY <1>5 DEF Respond
  <2>3. InOnePlace(q)' BY <1>5, <2>1 DEF Respond, Answers
  <2> QED BY <2>2, <2>3
<1>6. ASSUME NEW l \in Listeners, AddListener(l) \/ RemoveListener(l)
      PROVE  EntryMatches(q)' /\ InOnePlace(q)'
  BY <1>6 DEF AddListener, RemoveListener
<1>7. CASE OpenPage BY <1>7 DEF OpenPage
<1>8. CASE Bootstrap BY <1>8 DEF Bootstrap
<1>9. CASE ClosePage BY <1>9 DEF ClosePage
<1>10. CASE UNCHANGED vars BY <1>10 DEF vars
<1> QED
  BY <1>1, <1>2, <1>3, <1>4, <1>5, <1>6, <1>7, <1>8, <1>9, <1>10 DEF Next, Page

\* In every state of every behaviour the three invariants hold together.
THEOREM Invariance == Spec => []Inv
<1>1. Init => Inv BY InvInit
<1>2. Inv /\ [Next]_vars => Inv'
  <2> SUFFICES ASSUME Inv, [Next]_vars PROVE Inv' OBVIOUS
  <2>1. TypeOK' BY TypeStep DEF Inv
  <2>2. PendingMatchesSenders' BY <2>1, RequestStep DEF PendingMatchesSenders
  <2>3. OneReply' BY <2>1, RequestStep DEF OneReply
  <2> QED BY <2>1, <2>2, <2>3 DEF Inv
<1> QED BY <1>1, <1>2, PTL DEF Spec

\* The variables of the model keep their types.
THEOREM TypeCorrect == Spec => []TypeOK
<1>1. Inv => TypeOK BY DEF Inv
<1> QED BY <1>1, Invariance, PTL

\* No request that is over leaves an entry in Router.pending, and no sender
\* waits on an entry that is gone.
THEOREM TableMatchesSenders == Spec => []PendingMatchesSenders
<1>1. Inv => PendingMatchesSenders BY DEF Inv
<1> QED BY <1>1, Invariance, PTL

\* The shim sends one reply at most for a request, and none once its sender
\* has an answer.
THEOREM AtMostOneReply == Spec => []OneReply
<1>1. Inv => OneReply BY DEF Inv
<1> QED BY <1>1, Invariance, PTL
=============================================================================
