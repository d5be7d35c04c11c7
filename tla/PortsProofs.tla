---------------------------- MODULE PortsProofs ----------------------------
(***************************************************************************)
(* A port is announced once and its opener never left with an open end on  *)
(* nothing, for any number of ports, messages and pages.                   *)
(***************************************************************************)
EXTENDS Ports, SequenceTheorems, TLAPS

\* A script queued in a page leaves a queue of scripts.
LEMMA EvalType ==
  ASSUME TypeOK, NEW e \in Ends, NEW ev \in EventType, Eval(e, ev)
  PROVE  events' \in [Ends -> Seq(EventType)]
<1>1. Append(events[e], ev) \in Seq(EventType) BY AppendProperties DEF TypeOK
<1> QED BY <1>1 DEF Eval, TypeOK

\* A command that is invoked once more is a command.
LEMMA AgainType ==
  ASSUME NEW c \in CommandType
  PROVE  /\ [c EXCEPT !.try = 2] \in CommandType
         /\ [c EXCEPT !.try = 2, !.at = "sent"] \in CommandType
<1>1. [c EXCEPT !.try = 2] \in CommandType BY DEF CommandType
<1>2. [c EXCEPT !.try = 2, !.at = "sent"] = [[c EXCEPT !.try = 2] EXCEPT !.at = "sent"]
  OBVIOUS
<1> QED BY <1>1, <1>2 DEF CommandType

\* The answer to a command leaves commands and ends of the right type.
LEMMA RejectType ==
  ASSUME TypeOK, NEW c \in cmds, Reject(c)
  PROVE  TypeOK'
<1> USE DEF TypeOK, endVars
<1>1. c \in CommandType BY DEF TypeOK
<1>2. cmds' \subseteq CommandType
  <2>1. CASE Again(c)
    <3>1. [c EXCEPT !.try = 2, !.at = "sent"] \in CommandType BY <1>1, AgainType
    <3> QED BY <2>1, <3>1 DEF Again
  <2>2. CASE Finish(c) BY <2>2 DEF Finish
  <2> QED BY <2>1, <2>2 DEF Reject
<1>3. UNCHANGED <<route, ear, buffer, heard, events, page, pages, posted>>
  BY DEF Reject, CloseEnd
<1>4. end' \in [PortIds -> [Ends -> {"none", "open", "closed", "gone"}]]
  <2>1. c.port \in PortIds BY <1>1 DEF CommandType
  <2>2. CASE CloseEnd(c.port, "opener") BY <2>1, <2>2 DEF CloseEnd, Ends
  <2>3. CASE UNCHANGED end BY <2>3
  <2> QED BY <2>2, <2>3 DEF Reject
<1> QED BY <1>2, <1>3, <1>4

\* A handler moves its own command only.
LEMMA HandleType ==
  ASSUME TypeOK, NEW c \in cmds, Handle(c)
  PROVE  TypeOK'
<1>1. c \in CommandType BY DEF TypeOK
<1>2. /\ c.port \in PortIds /\ c.msg \in Msgs \cup {None}
      /\ [c EXCEPT !.at = "routed"] \in CommandType /\ Peer(c.by) \in Ends
  BY <1>1 DEF CommandType, Peer, Ends
<1>3. /\ Event("connect", c.port, None) \in EventType
      /\ c.op = "post" => Event("message", c.port, c.msg) \in EventType
      /\ Event("disconnect", c.port, None) \in EventType
  BY <1>1, <1>2 DEF Event, EventType, CommandType
<1>4. CASE Reject(c) BY <1>4, RejectType
<1>5. CASE RegisterPort(c) BY <1>2, <1>5 DEF RegisterPort, Advance, TypeOK, endVars
<1>6. CASE Announce(c)
  <2>1. events' \in [Ends -> Seq(EventType)] BY <1>3, <1>6, EvalType DEF Announce, Ends
  <2> QED BY <1>6, <2>1 DEF Announce, Finish, TypeOK, endVars
<1>7. CASE PostRoute(c) BY <1>2, <1>7 DEF PostRoute, Advance, TypeOK, endVars
<1>8. CASE PostDispatch(c)
  <2>1. events' \in [Ends -> Seq(EventType)] BY <1>2, <1>3, <1>8, EvalType DEF PostDispatch
  <2> QED BY <1>8, <2>1 DEF PostDispatch, Finish, TypeOK, endVars
<1>9. CASE RemovePort(c) BY <1>2, <1>9 DEF RemovePort, Advance, TypeOK, endVars
<1>10. CASE NotifyPeer(c)
  <2>1. events' \in [Ends -> Seq(EventType)]
    <3>1. CASE Eval(Peer(c.by), Event("disconnect", c.port, None))
      BY <1>2, <1>3, <3>1, EvalType
    <3>2. CASE UNCHANGED events BY <3>2 DEF TypeOK
    <3> QED BY <1>10, <3>1, <3>2 DEF NotifyPeer
  <2> QED BY <1>10, <2>1 DEF NotifyPeer, Finish, TypeOK, endVars
<1>11. CASE DisconnectUnknown(c) BY <1>11 DEF DisconnectUnknown, Finish, TypeOK, endVars
<1> QED
  BY <1>4, <1>5, <1>6, <1>7, <1>8, <1>9, <1>10, <1>11
  DEF Handle, ConnectNoReceiver, AnnounceFails, PostUnknown, PostDispatchFails

\* The pages' own calls.
LEMMA ScriptType == TypeOK /\ Script => TypeOK'
<1> SUFFICES ASSUME TypeOK, Script PROVE TypeOK' OBVIOUS
<1> USE DEF TypeOK, endVars, Invoke
<1>1. ASSUME NEW p \in PortIds, Connect(p) PROVE TypeOK'
  <2>1. Command("connect", p, "opener", None) \in CommandType
    BY DEF Command, CommandType, Ends
  <2> QED BY <1>1, <2>1 DEF Connect, Ends
<1>2. ASSUME NEW p \in PortIds, NEW e \in Ends, NEW m \in Msgs, PostMessage(p, e, m)
      PROVE  TypeOK'
  <2>1. Command("post", p, e, m) \in CommandType BY DEF Command, CommandType
  <2> QED BY <1>2, <2>1 DEF PostMessage
<1>3. ASSUME NEW p \in PortIds, NEW e \in Ends, Disconnect(p, e) PROVE TypeOK'
  <2>1. Command("disconnect", p, e, None) \in CommandType BY DEF Command, CommandType
  <2> QED BY <1>3, <2>1 DEF Disconnect
<1>4. ASSUME NEW p \in PortIds, NEW e \in Ends, AddListener(p, e) PROVE TypeOK'
  <2>1. heard[p][e] \o buffer[p][e] \in Seq(Msgs) BY ConcatProperties
  <2>2. <<>> \in Seq(Msgs) BY EmptySeq
  <2> QED BY <1>4, <2>1, <2>2 DEF AddListener
<1>5. ASSUME NEW p \in PortIds, NEW e \in Ends, RemoveListener(p, e) PROVE TypeOK'
  BY <1>5 DEF RemoveListener
<1> QED BY <1>1, <1>2, <1>3, <1>4, <1>5 DEF Script

\* A message that arrives is kept, heard or dropped.
LEMMA InboundType ==
  ASSUME TypeOK, NEW p \in PortIds, NEW e \in Ends, NEW m \in Msgs, HandleInbound(p, e, m)
  PROVE  /\ heard' \in [PortIds -> [Ends -> Seq(Msgs)]]
         /\ buffer' \in [PortIds -> [Ends -> Seq(Msgs)]]
         /\ UNCHANGED <<end, ear>>
<1> USE DEF TypeOK
<1>0. UNCHANGED <<end, ear>> BY DEF HandleInbound
<1>1. /\ Append(heard[p][e], m) \in Seq(Msgs)
      /\ Append(buffer[p][e], m) \in Seq(Msgs)
  BY AppendProperties
<1>2. CASE heard' = [heard EXCEPT ![p][e] = Append(@, m)] /\ UNCHANGED buffer
  BY <1>0, <1>1, <1>2
<1>3. CASE buffer' = [buffer EXCEPT ![p][e] = Append(@, m)] /\ UNCHANGED heard
  BY <1>0, <1>1, <1>3
<1>4. CASE UNCHANGED <<buffer, heard>> BY <1>0, <1>4
<1> QED BY <1>2, <1>3, <1>4 DEF HandleInbound

\* The events in the pages.
LEMMA PageType == TypeOK /\ Page => TypeOK'
<1> SUFFICES ASSUME TypeOK, Page PROVE TypeOK' OBVIOUS
<1> USE DEF TypeOK, endVars
<1>0. <<>> \in Seq(Msgs) /\ <<>> \in Seq(EventType) BY EmptySeq
<1>1. CASE OpenPage BY <1>1, PortsAssumption DEF OpenPage
<1>2. CASE Bootstrap BY <1>2 DEF Bootstrap
<1>3. CASE ClosePage
  <2>1. cmds' \subseteq CommandType
    BY <1>3, AgainType DEF ClosePage, NoRetry
  <2> QED BY <1>0, <1>3, <2>1 DEF ClosePage, Without, Ends
<1>4. CASE Navigate
  <2>1. cmds' \subseteq CommandType
    BY <1>4, AgainType DEF Navigate, NoRetry
  <2> QED BY <1>0, <1>4, <2>1 DEF Navigate, Without, Ends
<1>5. CASE DropEvent
  <2>1. Tail(events["target"]) \in Seq(EventType)
    BY <1>5, HeadTailProperties DEF DropEvent, Ends
  <2> QED BY <1>5, <2>1 DEF DropEvent
<1>6. ASSUME NEW e \in Ends, Deliver(e) PROVE TypeOK'
  <2> DEFINE ev == Head(events[e])
  <2>1. ev \in EventType /\ Tail(events[e]) \in Seq(EventType)
    BY <1>6, HeadTailProperties DEF Deliver
  <2>2. ev.port \in PortIds /\ (ev.kind = "message" => ev.msg \in Msgs)
    BY <2>1 DEF EventType
  <2>3. events' \in [Ends -> Seq(EventType)] /\ UNCHANGED <<route, cmds, page, pages, posted>>
    BY <1>6, <2>1 DEF Deliver
  <2>4. CASE MakePort(ev.port)
    BY <1>0, <2>2, <2>3, <2>4 DEF MakePort, Ends
  <2>5. CASE ev.kind = "message" /\ HandleInbound(ev.port, e, ev.msg)
    BY <2>2, <2>3, <2>5, InboundType
  <2>6. CASE CloseEnd(ev.port, e) BY <2>2, <2>3, <2>6 DEF CloseEnd
  <2> QED BY <1>6, <2>4, <2>5, <2>6 DEF Deliver
<1> QED BY <1>1, <1>2, <1>3, <1>4, <1>5, <1>6 DEF Page

\* Initially there are no ports.
LEMMA InitType == Init => TypeOK
<1> SUFFICES ASSUME Init PROVE TypeOK OBVIOUS
<1>1. <<>> \in Seq(Msgs) /\ <<>> \in Seq(EventType) BY EmptySeq
<1> QED BY <1>1, PortsAssumption DEF Init, NoPorts, TypeOK

LEMMA TypeStep == TypeOK /\ [Next]_vars => TypeOK'
<1> SUFFICES ASSUME TypeOK, [Next]_vars PROVE TypeOK' OBVIOUS
<1>1. CASE Script BY <1>1, ScriptType
<1>2. CASE Run BY <1>2, HandleType DEF Run
<1>3. CASE Page BY <1>3, PageType
<1>4. CASE UNCHANGED vars BY <1>4 DEF vars, endVars, TypeOK
<1> QED BY <1>1, <1>2, <1>3, <1>4 DEF Next

-----------------------------------------------------------------------------

\* An announcement of p queued for the worker's page.
Announced(n, p) ==
  n \in DOMAIN events["target"] /\ events["target"][n].kind = "connect"
    /\ events["target"][n].port = p

\* A port goes from its connect to its announcement to its end in the worker's
\* page and is never in two of these places; the worker can only disconnect what
\* it was announced, and the route is there from the registration on unless
\* somebody disconnected.
OneConnect(p) == \A c, d \in cmds : Connects(c, p) /\ Connects(d, p) => c = d
Connecting(p) ==
  \A c \in cmds : Connects(c, p) =>
    /\ end[p]["opener"] # "none" /\ end[p]["target"] = "none"
    /\ c.at = "routed" => p \in route \/ end[p]["opener"] # "open"
    /\ \A n \in Nat : ~Announced(n, p)
    /\ \A d \in cmds : ~Disconnects(d, p, "target")
OneAnnouncement(p) == \A n, k \in Nat : Announced(n, p) /\ Announced(k, p) => n = k
Announcing(p) ==
  \A n \in Nat : Announced(n, p) => end[p]["opener"] # "none" /\ end[p]["target"] = "none"
OpenerFirst(p) ==
  /\ end[p]["target"] # "none" => end[p]["opener"] # "none"
  /\ \A c \in cmds : Disconnects(c, p, "target") => end[p]["opener"] # "none"
  /\ \A c \in cmds : Disconnects(c, p, "opener") => end[p]["opener"] \in {"closed", "gone"}
OneWay == \A n \in DOMAIN events["opener"] : events["opener"][n].kind # "connect"
Once(p) ==
  OneConnect(p) /\ Connecting(p) /\ OneAnnouncement(p) /\ Announcing(p) /\ OpenerFirst(p) /\ OneWay

Inv == TypeOK /\ \A p \in PortIds : Once(p) /\ AccountedFor(p)

\* Where the scripts are after one was queued.
LEMMA EvalPlaces ==
  ASSUME TypeOK, NEW e \in Ends, NEW ev \in EventType, Eval(e, ev)
  PROVE  /\ \A f \in Ends \ {e} : events'[f] = events[f]
         /\ \A n \in DOMAIN events[e] : n \in DOMAIN events'[e] /\ events'[e][n] = events[e][n]
         /\ \E k \in Nat : /\ k \notin DOMAIN events[e] /\ DOMAIN events'[e] = DOMAIN events[e] \cup {k}
                           /\ events'[e][k] = ev
<1> DEFINE s == events[e]
           t == Append(s, ev)
<1>1. s \in Seq(EventType) BY DEF TypeOK
<1>2. t \in Seq(EventType) /\ Len(t) = Len(s) + 1 /\ t[Len(s) + 1] = ev
      /\ \A n \in 1 .. Len(s) : t[n] = s[n]
  BY <1>1, AppendProperties
<1>3. DOMAIN s = 1 .. Len(s) /\ DOMAIN t = 1 .. Len(t) /\ Len(s) \in Nat
  BY <1>1, <1>2, LenProperties
<1>4. events'[e] = t /\ \A f \in Ends \ {e} : events'[f] = events[f]
  BY DEF Eval, TypeOK
<1>5. DOMAIN t = DOMAIN s \cup {Len(s) + 1} /\ Len(s) + 1 \notin DOMAIN s
  BY <1>2, <1>3
<1> QED BY <1>2, <1>3, <1>4, <1>5

\* Where the scripts are after the first of a page was taken.
LEMMA TakePlaces ==
  ASSUME TypeOK, NEW e \in Ends, events[e] # <<>>,
         events' = [events EXCEPT ![e] = Tail(@)]
  PROVE  /\ \A f \in Ends \ {e} : events'[f] = events[f]
         /\ Head(events[e]) = events[e][1] /\ 1 \in DOMAIN events[e]
         /\ DOMAIN events[e] \subseteq Nat /\ DOMAIN events'[e] \subseteq Nat \ {0}
         /\ \A n \in DOMAIN events'[e] :
              n + 1 \in DOMAIN events[e] /\ events'[e][n] = events[e][n + 1]
         /\ \A n \in DOMAIN events[e] : n # 1 =>
              n - 1 \in DOMAIN events'[e] /\ events'[e][n - 1] = events[e][n]
<1> DEFINE s == events[e]
           t == Tail(s)
<1>1. s \in Seq(EventType) BY DEF TypeOK
<1>2. t \in Seq(EventType) /\ Len(t) = Len(s) - 1 /\ \A n \in 1 .. Len(t) : t[n] = s[n + 1]
  BY <1>1, HeadTailProperties
<1>3. DOMAIN s = 1 .. Len(s) /\ DOMAIN t = 1 .. Len(t) /\ Len(s) \in Nat /\ Len(s) # 0
  BY <1>1, <1>2, LenProperties, EmptySeq
<1>4. events'[e] = t /\ \A f \in Ends \ {e} : events'[f] = events[f]
  BY DEF TypeOK
<1>5. Head(s) = s[1] BY <1>1
<1>6. ASSUME NEW n \in DOMAIN s, n # 1 PROVE n - 1 \in DOMAIN t /\ t[n - 1] = s[n]
  <2>1. n - 1 \in 1 .. Len(t) /\ (n - 1) + 1 = n BY <1>2, <1>3, <1>6
  <2> QED BY <1>2, <1>3, <2>1
<1>7. \A n \in DOMAIN t : n + 1 \in DOMAIN s /\ t[n] = s[n + 1] BY <1>2, <1>3
<1>8. DOMAIN s \subseteq Nat /\ DOMAIN t \subseteq Nat \ {0} /\ 1 \in DOMAIN s
  BY <1>2, <1>3
<1> HIDE DEF t
<1> QED BY <1>4, <1>5, <1>6, <1>7, <1>8

\* Initially no port has been opened.
LEMMA InvInit == Init => Inv
<1> SUFFICES ASSUME Init PROVE Inv OBVIOUS
<1>1. TypeOK BY InitType
<1>2. ASSUME NEW p \in PortIds PROVE Once(p) /\ AccountedFor(p)
  <2>1. end[p]["opener"] = "none" /\ end[p]["target"] = "none" /\ cmds = {}
    BY DEF Init, NoPorts, Ends
  <2>2. events["opener"] = <<>> /\ events["target"] = <<>> BY DEF Init, NoPorts, Ends
  <2> QED
    BY <2>1, <2>2
    DEF Once, OneConnect, Connecting, OneAnnouncement, Announcing, OpenerFirst, OneWay,
        AccountedFor, Announced
<1> QED BY <1>1, <1>2 DEF Inv

\* The pages' own calls.
LEMMA ScriptStep ==
  ASSUME Inv, TypeOK', NEW p \in PortIds, Script
  PROVE  Once(p)' /\ AccountedFor(p)'
<1>0. TypeOK /\ Once(p) /\ AccountedFor(p) BY DEF Inv
<1> USE <1>0 DEF Once, OneConnect, Connecting, OneAnnouncement, Announcing, OpenerFirst, OneWay,
        AccountedFor, Announced, Connects, Disconnects
<1>1. ASSUME NEW q \in PortIds, Connect(q) PROVE Once(p)' /\ AccountedFor(p)'
  <2> DEFINE d == Command("connect", q, "opener", None)
  <2>1. cmds' = cmds \cup {d} /\ UNCHANGED <<route, events>> BY <1>1 DEF Connect, Invoke
  <2>2. d.op = "connect" /\ d.port = q /\ d.by = "opener" /\ d.at = "sent" BY DEF Command
  <2>3. end[q]["opener"] = "none" /\ end'[q]["opener"] = "open"
        /\ end'[p]["target"] = end[p]["target"]
        /\ (p # q => end'[p]["opener"] = end[p]["opener"])
    BY <1>1 DEF Connect, TypeOK, Ends
  <2> HIDE DEF d
  <2> QED BY <2>1, <2>2, <2>3
<1>2. ASSUME NEW q \in PortIds, NEW e \in Ends, NEW m \in Msgs, PostMessage(q, e, m)
      PROVE  Once(p)' /\ AccountedFor(p)'
  <2> DEFINE d == Command("post", q, e, m)
  <2>1. cmds' = cmds \cup {d} /\ UNCHANGED <<route, events, end>>
    BY <1>2 DEF PostMessage, Invoke, endVars
  <2>2. d.op = "post" BY DEF Command
  <2> HIDE DEF d
  <2> QED BY <2>1, <2>2
<1>3. ASSUME NEW q \in PortIds, NEW e \in Ends, Disconnect(q, e)
      PROVE  Once(p)' /\ AccountedFor(p)'
  <2> DEFINE d == Command("disconnect", q, e, None)
  <2>1. cmds' = cmds \cup {d} /\ UNCHANGED <<route, events>> BY <1>3 DEF Disconnect, Invoke
  <2>2. d.op = "disconnect" /\ d.port = q /\ d.by = e BY DEF Command
  <2>3. end[q][e] = "open" /\ end'[q][e] = "closed"
        /\ \A f \in Ends : p # q \/ f # e => end'[p][f] = end[p][f]
    BY <1>3 DEF Disconnect, TypeOK
  <2>4. e \in {"opener", "target"} /\ Ends = {"opener", "target"} BY DEF Ends
  <2> HIDE DEF d
  <2> QED BY <2>1, <2>2, <2>3, <2>4
<1>4. ASSUME NEW q \in PortIds, NEW e \in Ends, AddListener(q, e) \/ RemoveListener(q, e)
      PROVE  Once(p)' /\ AccountedFor(p)'
  BY <1>4 DEF AddListener, RemoveListener
<1> QED BY <1>1, <1>2, <1>3, <1>4 DEF Script

\* What a command is stays the same while it is handled or invoked again.
LEMMA SameCommand ==
  ASSUME NEW c \in CommandType, NEW at
  PROVE  LET d == [c EXCEPT !.at = at]
             a == [c EXCEPT !.try = 2, !.at = "sent"]
             r == [c EXCEPT !.try = 2]
         IN  /\ d.op = c.op /\ d.port = c.port /\ d.by = c.by /\ d.at = at
             /\ a.op = c.op /\ a.port = c.port /\ a.by = c.by /\ a.at = "sent"
             /\ r.op = c.op /\ r.port = c.port /\ r.by = c.by /\ r.at = c.at
BY DEF CommandType

\* A rejected command.
LEMMA RejectStep ==
  ASSUME Inv, NEW p \in PortIds, NEW c \in cmds, Reject(c), c.op # "disconnect"
  PROVE  Once(p)' /\ AccountedFor(p)'
<1>0. TypeOK /\ Once(p) /\ AccountedFor(p) /\ c \in CommandType BY DEF Inv, TypeOK
<1> USE <1>0 DEF Once, OneConnect, Connecting, OneAnnouncement, Announcing, OpenerFirst, OneWay,
        AccountedFor, Announced, Connects, Disconnects
<1>1. UNCHANGED <<route, events>> BY DEF Reject
<1>2. CASE Again(c) /\ UNCHANGED endVars
  <2> DEFINE d == [c EXCEPT !.try = 2, !.at = "sent"]
  <2>1. d.op = c.op /\ d.port = c.port /\ d.by = c.by /\ d.at = "sent" BY SameCommand
  <2>2. cmds' = (cmds \ {c}) \cup {d} /\ UNCHANGED end BY <1>2 DEF Again, endVars
  <2> HIDE DEF d
  <2> QED BY <1>1, <2>1, <2>2
<1>3. CASE Finish(c) /\ IF c.op = "connect" THEN CloseEnd(c.port, "opener") ELSE UNCHANGED endVars
  <2>1. cmds' = cmds \ {c} BY <1>3 DEF Finish
  <2>2. CASE c.op = "connect" /\ c.port = p
    <3>1. end'[p]["target"] = end[p]["target"]
          /\ end'[p]["opener"] = IF end[p]["opener"] = "open" THEN "closed" ELSE end[p]["opener"]
      BY <1>3, <2>2 DEF CloseEnd, TypeOK, Ends
    <3> QED BY <1>1, <2>1, <2>2, <3>1
  <2>3. CASE ~(c.op = "connect" /\ c.port = p)
    <3>1. end'[p] = end[p] BY <1>3, <2>3 DEF CloseEnd, TypeOK, endVars
    <3> QED BY <1>1, <2>1, <2>3, <3>1
  <2> QED BY <2>2, <2>3
<1> QED BY <1>2, <1>3 DEF Reject

\* A handler's step.
LEMMA HandlerStep ==
  ASSUME Inv, TypeOK', NEW p \in PortIds, NEW c \in cmds, Handle(c)
  PROVE  Once(p)' /\ AccountedFor(p)'
<1>0. TypeOK /\ Once(p) /\ AccountedFor(p) /\ c \in CommandType BY DEF Inv, TypeOK
<1> USE <1>0 DEF Once, OneConnect, Connecting, OneAnnouncement, Announcing, OpenerFirst, OneWay,
        AccountedFor, Announced, Connects, Disconnects
<1> DEFINE d == [c EXCEPT !.at = "routed"]
<1>1. d.op = c.op /\ d.port = c.port /\ d.by = c.by /\ d.at = "routed" BY SameCommand
<1>2. "opener" \in Ends /\ "target" \in Ends /\ Ends = {"opener", "target"} /\ c.by \in Ends
      /\ c.port \in PortIds /\ c.msg \in Msgs \cup {None}
  BY DEF Ends, CommandType
<1> HIDE DEF d
<1>3. CASE c.op # "disconnect" /\ Reject(c) BY <1>3, RejectStep
<1>4. CASE RegisterPort(c)
  <2>1. cmds' = (cmds \ {c}) \cup {d} /\ route' = route \cup {c.port} /\ c.op = "connect"
        /\ UNCHANGED <<end, events>>
    BY <1>4 DEF RegisterPort, Advance, endVars, d
  <2> QED BY <1>1, <2>1
<1>5. CASE Announce(c)
  <2> DEFINE ev == Event("connect", c.port, None)
  <2>1. ev.kind = "connect" /\ ev.port = c.port BY DEF Event
  <2>2. ev \in EventType BY <1>2 DEF Event, EventType
  <2>3. Eval("target", ev) /\ cmds' = cmds \ {c} /\ UNCHANGED <<route, end>>
        /\ c.op = "connect" /\ c.at = "routed"
    BY <1>5 DEF Announce, Finish, endVars
  <2> HIDE DEF ev
  <2>4. events'["opener"] = events["opener"]
        /\ \E k \in Nat : /\ k \notin DOMAIN events["target"]
                          /\ DOMAIN events'["target"] = DOMAIN events["target"] \cup {k}
                          /\ events'["target"][k] = ev
        /\ \A n \in DOMAIN events["target"] : events'["target"][n] = events["target"][n]
    BY <1>2, <2>2, <2>3, EvalPlaces
  <2>5. CASE c.port = p BY <2>1, <2>3, <2>4, <2>5
  <2>6. CASE c.port # p BY <2>1, <2>3, <2>4, <2>6
  <2> QED BY <2>5, <2>6
<1>6. CASE PostRoute(c)
  <2>1. cmds' = (cmds \ {c}) \cup {d} /\ c.op = "post" /\ UNCHANGED <<route, end, events>>
    BY <1>6 DEF PostRoute, Advance, endVars, d
  <2> QED BY <1>1, <2>1
<1>7. ASSUME NEW e \in Ends, NEW ev \in EventType, ev.kind # "connect", Eval(e, ev),
             cmds' = cmds \ {c}, c.op # "connect", UNCHANGED <<route, end>>,
             Disconnects(c, p, "target") => e = "opener" /\ ev.kind = "disconnect" /\ ev.port = p
      PROVE  Once(p)' /\ AccountedFor(p)'
  <2>1. /\ \A f \in Ends \ {e} : events'[f] = events[f]
        /\ \A n \in DOMAIN events[e] : n \in DOMAIN events'[e] /\ events'[e][n] = events[e][n]
        /\ \E k \in Nat : /\ k \notin DOMAIN events[e]
                          /\ DOMAIN events'[e] = DOMAIN events[e] \cup {k}
                          /\ events'[e][k] = ev
    BY <1>7, EvalPlaces
  <2>2. CASE e = "opener" BY <1>2, <1>7, <2>1, <2>2
  <2>3. CASE e = "target" BY <1>2, <1>7, <2>1, <2>3
  <2> QED BY <1>2, <2>2, <2>3
<1>8. CASE PostDispatch(c)
  <2>1. Event("message", c.port, c.msg) \in EventType /\ Peer(c.by) \in Ends
        /\ Event("message", c.port, c.msg).kind = "message"
    BY <1>2, <1>8 DEF Event, EventType, Peer, PostDispatch, CommandType
  <2> QED BY <1>7, <1>8, <2>1 DEF PostDispatch, Finish, endVars
<1>9. CASE RemovePort(c)
  <2>1. cmds' = (cmds \ {c}) \cup {d} /\ route' = route \ {c.port} /\ c.op = "disconnect"
        /\ UNCHANGED <<end, events>>
    BY <1>9 DEF RemovePort, Advance, endVars, d
  <2>2. CASE c.by = "target" BY <1>1, <2>1, <2>2
  <2>3. CASE c.by = "opener" BY <1>1, <2>1, <2>3
  <2> QED BY <1>2, <2>2, <2>3
<1>10. CASE NotifyPeer(c)
  <2>1. Event("disconnect", c.port, None) \in EventType /\ Peer(c.by) \in Ends
        /\ Event("disconnect", c.port, None).kind = "disconnect"
        /\ Event("disconnect", c.port, None).port = c.port
        /\ (c.by = "target" => Peer(c.by) = "opener")
    BY <1>2 DEF Event, EventType, Peer
  <2>2. cmds' = cmds \ {c} /\ c.op = "disconnect" /\ UNCHANGED <<route, end>>
    BY <1>10 DEF NotifyPeer, Finish, endVars
  <2>3. CASE Eval(Peer(c.by), Event("disconnect", c.port, None)) BY <1>7, <2>1, <2>2, <2>3
  <2>4. CASE ~HasWebview(Peer(c.by)) /\ UNCHANGED events
    <3>1. c.by = "opener" BY <1>2, <2>1, <2>4 DEF HasWebview
    <3> QED BY <2>2, <2>4, <3>1
  <2> QED BY <1>10, <2>3, <2>4 DEF NotifyPeer
<1>11. CASE DisconnectUnknown(c)
  <2>1. cmds' = cmds \ {c} /\ c.op = "disconnect" /\ c.at = "sent" /\ UNCHANGED <<route, end, events>>
    BY <1>11 DEF DisconnectUnknown, Finish, endVars
  <2> QED BY <2>1
<1> QED
  BY <1>3, <1>4, <1>5, <1>6, <1>8, <1>9, <1>10, <1>11
  DEF Handle, ConnectNoReceiver, AnnounceFails, PostUnknown, PostDispatchFails

\* A page that goes takes its ends and scripts along and retries nothing.
LEMMA NoRetryStep ==
  ASSUME TypeOK, NEW e, cmds' = NoRetry(e), NEW p
  PROVE  /\ OneConnect(p) => OneConnect(p)'
         /\ \A c \in cmds : \E d \in cmds' :
              d.op = c.op /\ d.port = c.port /\ d.by = c.by /\ d.at = c.at
         /\ \A d \in cmds' : \E c \in cmds :
              d.op = c.op /\ d.port = c.port /\ d.by = c.by /\ d.at = c.at
<1> DEFINE Img(c) == IF c.by = e THEN [c EXCEPT !.try = 2] ELSE c
<1>1. \A c \in cmds : /\ Img(c).op = c.op /\ Img(c).port = c.port
                      /\ Img(c).by = c.by /\ Img(c).at = c.at
  BY SameCommand DEF TypeOK
<1>2. cmds' = {Img(c) : c \in cmds} BY DEF NoRetry
<1> HIDE DEF Img
<1>3. OneConnect(p) => OneConnect(p)' BY <1>1, <1>2 DEF OneConnect, Connects
<1> QED BY <1>1, <1>2, <1>3

\* The events in the pages.
LEMMA PageStep ==
  ASSUME Inv, TypeOK', NEW p \in PortIds, Page
  PROVE  Once(p)' /\ AccountedFor(p)'
<1>0. TypeOK /\ Once(p) /\ AccountedFor(p) BY DEF Inv
<1>9. \A e : cmds' = NoRetry(e) => OneConnect(p)'
  <2> SUFFICES ASSUME NEW e, cmds' = NoRetry(e) PROVE OneConnect(p)' OBVIOUS
  <2>1. OneConnect(p) BY <1>0 DEF Once
  <2> QED BY <1>0, <2>1, NoRetryStep
<1> USE <1>0 DEF Once, OneConnect, Connecting, OneAnnouncement, Announcing, OpenerFirst, OneWay,
        AccountedFor, Announced, Connects, Disconnects
<1>1. "opener" \in Ends /\ "target" \in Ends /\ Ends = {"opener", "target"} BY DEF Ends
<1>2. CASE OpenPage \/ Bootstrap BY <1>2 DEF OpenPage, Bootstrap, endVars
<1>3. CASE ClosePage
  <2>1. cmds' = NoRetry("target") /\ UNCHANGED route BY <1>3 DEF ClosePage
  <2>2. events'["target"] = <<>> /\ events'["opener"] = events["opener"]
    BY <1>1, <1>3 DEF ClosePage, TypeOK
  <2>3. end'[p]["target"] = "none" /\ end'[p]["opener"] = end[p]["opener"]
    BY <1>1, <1>3 DEF ClosePage, TypeOK, Without
  <2>4. DOMAIN events'["target"] = {} BY <2>2
  <2>5. OneConnect(p)' BY <1>9, <2>1
  <2>6. Connecting(p)' BY <2>1, <2>3, <2>4, NoRetryStep
  <2>7. OpenerFirst(p)' /\ AccountedFor(p)' BY <2>1, <2>2, <2>3, NoRetryStep
  <2>8. OneAnnouncement(p)' /\ Announcing(p)' /\ OneWay' BY <2>2, <2>4
  <2> QED BY <2>5, <2>6, <2>7, <2>8
<1>4. CASE Navigate
  <2>1. cmds' = NoRetry("opener") /\ UNCHANGED route BY <1>4 DEF Navigate
  <2>2. events'["opener"] = <<>> /\ events'["target"] = events["target"]
    BY <1>1, <1>4 DEF Navigate, TypeOK
  <2>3. end'[p]["opener"] = "gone" /\ end'[p]["target"] = end[p]["target"]
    BY <1>1, <1>4 DEF Navigate, TypeOK, Without
  <2>4. DOMAIN events'["opener"] = {} BY <2>2
  <2>5. OneConnect(p)' BY <1>9, <2>1
  <2>6. Connecting(p)' BY <2>1, <2>2, <2>3, NoRetryStep
  <2>7. OpenerFirst(p)' /\ AccountedFor(p)' BY <2>3
  <2>8. OneAnnouncement(p)' /\ Announcing(p)' /\ OneWay' BY <2>2, <2>3, <2>4
  <2> QED BY <2>5, <2>6, <2>7, <2>8
<1>5. ASSUME NEW e \in Ends, events[e] # <<>>, events' = [events EXCEPT ![e] = Tail(@)]
      PROVE  /\ \A f \in Ends \ {e} : events'[f] = events[f]
             /\ Head(events[e]) = events[e][1] /\ 1 \in DOMAIN events[e]
             /\ DOMAIN events[e] \subseteq Nat /\ DOMAIN events'[e] \subseteq Nat \ {0}
             /\ \A n \in DOMAIN events'[e] :
                  n + 1 \in DOMAIN events[e] /\ events'[e][n] = events[e][n + 1]
             /\ \A n \in DOMAIN events[e] : n # 1 =>
                  n - 1 \in DOMAIN events'[e] /\ events'[e][n - 1] = events[e][n]
  BY <1>5, TakePlaces
<1>6. CASE DropEvent
  <2>1. events["target"] # <<>> /\ events' = [events EXCEPT !["target"] = Tail(@)]
        /\ UNCHANGED <<route, cmds, end>>
    BY <1>6 DEF DropEvent, endVars
  <2>2. events'["opener"] = events["opener"]
        /\ \A n \in Nat : Announced(n, p)' => n + 1 \in Nat /\ Announced(n + 1, p)
    BY <1>1, <1>5, <2>1
  <2> QED BY <2>1, <2>2
<1>7. ASSUME Deliver("opener") PROVE Once(p)' /\ AccountedFor(p)'
  <2> DEFINE ev == events["opener"][1]
  <2>1. events["opener"] # <<>> /\ events' = [events EXCEPT !["opener"] = Tail(@)]
        /\ UNCHANGED <<route, cmds>>
    BY <1>7 DEF Deliver
  <2>2. events'["target"] = events["target"] /\ OneWay'
    BY <1>1, <1>5, <2>1
  <2>3. ev = Head(events["opener"]) /\ ev.kind # "connect" /\ ev \in EventType
    BY <1>1, <1>5, <2>1, HeadTailProperties DEF TypeOK
  <2>4. end'[p]["target"] = end[p]["target"]
        /\ \/ end'[p]["opener"] = end[p]["opener"] /\ ~(ev.kind = "disconnect" /\ ev.port = p)
           \/ end'[p]["opener"] = end[p]["opener"] /\ end[p]["opener"] # "open"
           \/ end'[p]["opener"] = "closed" /\ end[p]["opener"] = "open"
    <3>1. CASE ev.kind = "message" /\ HandleInbound(ev.port, "opener", ev.msg)
      BY <3>1 DEF HandleInbound
    <3>2. CASE ev.kind = "disconnect" /\ CloseEnd(ev.port, "opener")
      BY <1>1, <2>3, <3>2 DEF CloseEnd, TypeOK, EventType
    <3> QED BY <1>7, <2>3, <3>1, <3>2 DEF Deliver
  <2>5. Once(p)' BY <2>1, <2>2, <2>4
  <2>6. AccountedFor(p)'
    <3> SUFFICES ASSUME end'[p]["opener"] = "open" PROVE AccountedFor(p)' OBVIOUS
    <3>1. end[p]["opener"] = "open" /\ ~(ev.kind = "disconnect" /\ ev.port = p) BY <2>4
    <3>2. ASSUME NEW n \in DOMAIN events["opener"],
                 events["opener"][n].kind = "disconnect", events["opener"][n].port = p
          PROVE  \E k \in DOMAIN events'["opener"] :
                   events'["opener"][k].kind = "disconnect" /\ events'["opener"][k].port = p
      <4>1. n # 1 BY <3>1, <3>2
      <4>2. n - 1 \in DOMAIN events'["opener"] /\ events'["opener"][n - 1] = events["opener"][n]
        BY <1>1, <1>5, <2>1, <4>1
      <4> QED BY <3>2, <4>2
    <3> QED BY <2>1, <3>1, <3>2
  <2> QED BY <2>5, <2>6
<1>8. ASSUME Deliver("target") PROVE Once(p)' /\ AccountedFor(p)'
  <2> DEFINE ev == events["target"][1]
  <2>1. events["target"] # <<>> /\ events' = [events EXCEPT !["target"] = Tail(@)]
        /\ UNCHANGED <<route, cmds>>
    BY <1>8 DEF Deliver
  <2>2. events'["opener"] = events["opener"]
        /\ \A n \in Nat : Announced(n, p)' => n + 1 \in Nat /\ n # 0 /\ Announced(n + 1, p)
    BY <1>1, <1>5, <2>1
  <2>3. ev = Head(events["target"]) /\ ev \in EventType
        /\ (ev.kind = "connect" /\ ev.port = p => Announced(1, p))
    BY <1>1, <1>5, <2>1, HeadTailProperties DEF TypeOK
  <2>4. end'[p]["opener"] = end[p]["opener"]
        /\ \/ end'[p]["target"] = end[p]["target"]
           \/ end'[p]["target"] # "none" /\ end[p]["target"] # "none"
           \/ end'[p]["target"] = "open" /\ ev.kind = "connect" /\ ev.port = p
    <3>1. CASE ev.kind = "message" /\ HandleInbound(ev.port, "target", ev.msg)
      BY <3>1 DEF HandleInbound
    <3>2. CASE ev.kind = "disconnect" /\ CloseEnd(ev.port, "target")
      BY <1>1, <2>3, <3>2 DEF CloseEnd, TypeOK, EventType
    <3>3. CASE ev.kind = "connect" /\ MakePort(ev.port)
      BY <1>1, <2>3, <3>3 DEF MakePort, TypeOK, EventType
    <3> QED BY <1>8, <2>3, <3>1, <3>2, <3>3 DEF Deliver
  <2>5. CASE end'[p]["target"] = "open" /\ ev.kind = "connect" /\ ev.port = p
    <3>1. Announced(1, p) BY <2>3, <2>5
    <3>2. \A n \in Nat : ~Announced(n, p)' BY <2>2, <3>1
    <3> QED BY <2>1, <2>2, <2>4, <3>1, <3>2
  <2>6. CASE \/ end'[p]["target"] = end[p]["target"]
             \/ end'[p]["target"] # "none" /\ end[p]["target"] # "none"
    BY <2>1, <2>2, <2>4, <2>6
  <2> QED BY <2>4, <2>5, <2>6
<1> QED BY <1>1, <1>2, <1>3, <1>4, <1>6, <1>7, <1>8 DEF Page

\* The invariant holds in every state.
THEOREM Invariance == Spec => []Inv
<1>1. Init => Inv BY InvInit
<1>2. Inv /\ [Next]_vars => Inv'
  <2> SUFFICES ASSUME Inv, [Next]_vars PROVE Inv' OBVIOUS
  <2>1. TypeOK' BY TypeStep DEF Inv
  <2>2. ASSUME NEW p \in PortIds PROVE Once(p)' /\ AccountedFor(p)'
    <3>1. CASE Script BY <2>1, <3>1, ScriptStep
    <3>2. CASE Run BY <2>1, <3>2, HandlerStep DEF Run
    <3>3. CASE Page BY <2>1, <3>3, PageStep
    <3>4. CASE UNCHANGED vars
      BY <3>4
      DEF vars, endVars, Inv, Once, OneConnect, Connecting, OneAnnouncement, Announcing,
          OpenerFirst, OneWay, AccountedFor, Announced
    <3> QED BY <3>1, <3>2, <3>3, <3>4 DEF Next
  <2> QED BY <2>1, <2>2 DEF Inv
<1> QED BY <1>1, <1>2, PTL DEF Spec

\* The variables of the model keep their types.
THEOREM TypeCorrect == Spec => []TypeOK
<1>1. Inv => TypeOK BY DEF Inv
<1> QED BY <1>1, Invariance, PTL

\* A port that its opener believes open has a route, or a connect or a
\* disconnect on its way: no retry, restart or navigation leaves it on nothing.
THEOREM OpenersAreRouted == Spec => []OpenOpenerIsRouted
<1>1. Inv => OpenOpenerIsRouted BY DEF Inv, OpenOpenerIsRouted
<1> QED BY <1>1, Invariance, PTL

\* Only an announcement opens the worker's end, and an end that is there has none
\* queued.
LEMMA ClosedStaysClosed ==
  ASSUME Inv, [Next]_vars, NEW p \in PortIds, end[p]["target"] = "closed"
  PROVE  end'[p]["target"] # "open"
<1>0. TypeOK /\ Once(p) BY DEF Inv
<1>1. "opener" \in Ends /\ "target" \in Ends /\ Ends = {"opener", "target"} BY DEF Ends
<1>2. CASE Script
  <2>1. ASSUME NEW q \in PortIds, Connect(q) PROVE end'[p]["target"] # "open"
    BY <1>0, <1>1, <2>1 DEF Connect, TypeOK
  <2>2. ASSUME NEW q \in PortIds, NEW e \in Ends, Disconnect(q, e)
        PROVE  end'[p]["target"] # "open"
    BY <1>0, <1>1, <2>2 DEF Disconnect, TypeOK
  <2>3. ASSUME UNCHANGED end PROVE end'[p]["target"] # "open" BY <2>3
  <2> QED
    BY <1>2, <2>1, <2>2, <2>3
    DEF Script, PostMessage, AddListener, RemoveListener, endVars
<1>3. ASSUME NEW c \in cmds, Handle(c) PROVE end'[p]["target"] # "open"
  <2>1. CASE Reject(c)
    <3>1. CASE CloseEnd(c.port, "opener") BY <1>0, <1>1, <3>1 DEF CloseEnd, TypeOK
    <3>2. CASE UNCHANGED end BY <3>2
    <3> QED BY <2>1, <3>1, <3>2 DEF Reject, endVars
  <2>2. CASE ~Reject(c)
    BY <1>3, <2>2
    DEF Handle, ConnectNoReceiver, RegisterPort, Announce, AnnounceFails, PostUnknown, PostRoute,
        PostDispatch, PostDispatchFails, RemovePort, NotifyPeer, DisconnectUnknown, endVars
  <2> QED BY <2>1, <2>2
<1>4. CASE OpenPage \/ Bootstrap \/ DropEvent
  BY <1>4 DEF OpenPage, Bootstrap, DropEvent, endVars
<1>5. CASE ClosePage \/ Navigate
  BY <1>0, <1>1, <1>5 DEF ClosePage, Navigate, Without, TypeOK
<1>6. ASSUME NEW e \in Ends, Deliver(e) PROVE end'[p]["target"] # "open"
  <2> DEFINE ev == Head(events[e])
  <2>1. ev \in EventType /\ ev = events[e][1] /\ 1 \in DOMAIN events[e]
    <3>1. events[e] # <<>> BY <1>6 DEF Deliver
    <3>2. events[e] \in Seq(EventType) BY <1>0 DEF TypeOK
    <3> QED BY <3>1, <3>2, HeadTailProperties, LenProperties, EmptySeq
  <2>2. CASE ev.kind = "connect" /\ MakePort(ev.port)
    <3>1. e = "target" BY <1>0, <1>1, <2>1, <2>2 DEF Once, OneWay
    <3>2. ev.port # p BY <1>0, <2>1, <2>2, <3>1 DEF Once, Announcing, Announced
    <3> QED BY <1>0, <1>1, <2>1, <2>2, <3>2 DEF MakePort, TypeOK, EventType
  <2>3. CASE HandleInbound(ev.port, e, ev.msg) BY <2>3 DEF HandleInbound
  <2>4. CASE CloseEnd(ev.port, e)
    BY <1>0, <1>1, <2>1, <2>4 DEF CloseEnd, TypeOK, EventType
  <2> QED BY <1>6, <2>2, <2>3, <2>4 DEF Deliver
<1>7. CASE UNCHANGED vars BY <1>7 DEF vars, endVars
<1> QED BY <1>2, <1>3, <1>4, <1>5, <1>6, <1>7 DEF Next, Run, Page

\* No second announcement revives a port the worker's end of which was closed.
THEOREM ClosedForGood == Spec => NoRevival
<1>1. Inv /\ [Next]_vars =>
        [\A p \in PortIds : end[p]["target"] = "closed" => end'[p]["target"] # "open"]_vars
  BY ClosedStaysClosed
<1> QED BY <1>1, Invariance, PTL DEF Spec, NoRevival

-----------------------------------------------------------------------------

\* A script queued in a page, and an item of what the ends keep, that is m.
Holds(m, e, n)    == n \in DOMAIN events[e] /\ events[e][n].msg = m
In(f, m, p, e, n) == n \in DOMAIN f[p][e] /\ f[p][e][n] = m

\* A message is in one place, which is on its way from the end that posted it
\* to the other one.
OnePlace(m) ==
  /\ \A c, d \in cmds : c.msg = m /\ d.msg = m => c = d
  /\ \A e \in Ends, n, k \in Nat : Holds(m, e, n) /\ Holds(m, e, k) => n = k
  /\ \A p \in PortIds, e \in Ends, n, k \in Nat :
       /\ In(buffer, m, p, e, n) /\ In(buffer, m, p, e, k) => n = k
       /\ In(heard, m, p, e, n) /\ In(heard, m, p, e, k) => n = k
InCommand(m) == \E c \in cmds : c.msg = m
InQueue(m)   == \E e \in Ends, n \in Nat : Holds(m, e, n)
Within(f, m) == \E p \in PortIds, e \in Ends, n \in Nat : In(f, m, p, e, n)
OneKind(m) ==
  /\ InCommand(m) => ~InQueue(m) /\ ~Within(buffer, m) /\ ~Within(heard, m)
  /\ InQueue(m) => ~Within(buffer, m) /\ ~Within(heard, m)
  /\ Within(buffer, m) => ~Within(heard, m)
OnItsWay(m) ==
  /\ \A c \in cmds : c.msg = m => posted[m] = <<c.port, c.by>>
  /\ \A e \in Ends, n \in Nat : Holds(m, e, n) => posted[m] = <<events[e][n].port, Peer(e)>>
  /\ \A p \in PortIds, e \in Ends, n \in Nat :
       In(buffer, m, p, e, n) \/ In(heard, m, p, e, n) => posted[m] = <<p, Peer(e)>>
Single(m) == OnePlace(m) /\ OneKind(m) /\ OnItsWay(m)

LEMMA Ends2 ==
  /\ Ends = {"opener", "target"} /\ "opener" \in Ends /\ "target" \in Ends
  /\ \A e \in Ends : Peer(e) \in Ends /\ Peer(Peer(e)) = e
BY DEF Ends, Peer

\* A message in its one place has one copy.
LEMMA SingleCopy ==
  ASSUME TypeOK, NEW m \in Msgs, Single(m)
  PROVE  /\ \A v, w \in Copies(m) : v = w
         /\ \A w \in Places(heard, m) : posted[m] = <<w[1], Peer(w[2])>>
<1>1. \A w \in Queued(m) : \E e \in Ends, n \in Nat : w = <<e, n>> /\ Holds(m, e, n)
  <2>1. \A e \in Ends : \A n : n \in DOMAIN events[e] => n \in Nat BY DEF TypeOK
  <2> QED BY <2>1 DEF Queued, Holds
<1>2. ASSUME NEW f \in [PortIds -> [Ends -> Seq(Msgs)]]
      PROVE  \A w \in Places(f, m) :
               \E p \in PortIds, e \in Ends, n \in Nat : w = <<p, e, n>> /\ In(f, m, p, e, n)
  <2>1. \A p \in PortIds, e \in Ends : \A n : n \in DOMAIN f[p][e] => n \in Nat OBVIOUS
  <2> QED BY <2>1 DEF Places, In
<1>3. /\ \A w \in Places(buffer, m) : \E p \in PortIds, e \in Ends, n \in Nat :
           w = <<p, e, n>> /\ In(buffer, m, p, e, n)
      /\ \A w \in Places(heard, m) : \E p \in PortIds, e \in Ends, n \in Nat :
           w = <<p, e, n>> /\ In(heard, m, p, e, n)
  BY <1>2 DEF TypeOK
<1>4. \A v, w \in Carried(m) : v = w BY DEF Carried, Single, OnePlace
<1>5. \A v, w \in Queued(m) : v = w
  BY <1>1, Ends2 DEF Single, OnePlace, OnItsWay
<1>6. \A v, w \in Places(buffer, m) : v = w
  BY <1>3, Ends2 DEF Single, OnePlace, OnItsWay
<1>7. \A v, w \in Places(heard, m) : v = w
  BY <1>3, Ends2 DEF Single, OnePlace, OnItsWay
<1>8. /\ Carried(m) # {} => InCommand(m)
      /\ Queued(m) # {} => InQueue(m)
      /\ Places(buffer, m) # {} => Within(buffer, m)
      /\ Places(heard, m) # {} => Within(heard, m)
  BY <1>1, <1>3 DEF Carried, InCommand, InQueue, Within
<1>9. \A v, w \in Copies(m) : v = w
  BY <1>4, <1>5, <1>6, <1>7, <1>8 DEF Copies, Single, OneKind
<1>10. \A w \in Places(heard, m) : posted[m] = <<w[1], Peer(w[2])>>
  BY <1>3 DEF Single, OnItsWay
<1> QED BY <1>9, <1>10

\* Where the items are after one was appended to what an end has.
LEMMA AppendPlaces ==
  ASSUME NEW s \in Seq(Msgs), NEW m \in Msgs
  PROVE  /\ Append(s, m) \in Seq(Msgs)
         /\ \A n \in DOMAIN s : n \in DOMAIN Append(s, m) /\ Append(s, m)[n] = s[n]
         /\ DOMAIN Append(s, m) = DOMAIN s \cup {Len(s) + 1} /\ Append(s, m)[Len(s) + 1] = m
         /\ DOMAIN s \subseteq Nat /\ Len(s) + 1 \in Nat /\ Len(s) + 1 \notin DOMAIN s
<1> DEFINE t == Append(s, m)
<1>1. t \in Seq(Msgs) /\ Len(t) = Len(s) + 1 /\ t[Len(s) + 1] = m
      /\ \A n \in 1 .. Len(s) : t[n] = s[n]
  BY AppendProperties
<1>2. DOMAIN s = 1 .. Len(s) /\ DOMAIN t = 1 .. Len(t) /\ Len(s) \in Nat
  BY <1>1, LenProperties
<1> QED BY <1>1, <1>2

-----------------------------------------------------------------------------

\* A command that goes on or is invoked again carries what it carried.
LEMMA SameMessage ==
  ASSUME NEW c \in CommandType, NEW at
  PROVE  LET d == [c EXCEPT !.at = at]
             a == [c EXCEPT !.try = 2, !.at = "sent"]
             r == [c EXCEPT !.try = 2]
         IN  d.msg = c.msg /\ a.msg = c.msg /\ r.msg = c.msg
BY DEF CommandType

\* A command moves on, alone.
LEMMA MoveSingle ==
  ASSUME NEW m, Single(m), NEW c \in cmds, NEW d, d.msg = c.msg, d.port = c.port, d.by = c.by,
         cmds' = (cmds \ {c}) \cup {d} \/ cmds' = cmds \ {c},
         UNCHANGED <<events, buffer, heard, posted>>
  PROVE  Single(m)'
<1>1. \A x \in cmds' : x \in cmds \/ x = d OBVIOUS
<1>2. OnePlace(m)' BY DEF Single, OnePlace, Holds, In
<1>3. InCommand(m)' => InCommand(m) BY <1>1 DEF InCommand
<1>4. OneKind(m)' BY <1>3 DEF Single, OneKind, InQueue, Within, Holds, In
<1>5. OnItsWay(m)' BY <1>1 DEF Single, OnItsWay, Holds, In
<1> QED BY <1>2, <1>4, <1>5 DEF Single

\* A rejected command.
LEMMA RejectSingle ==
  ASSUME TypeOK, NEW m \in Msgs, Single(m), NEW c \in cmds, Reject(c)
  PROVE  Single(m)'
<1>1. c \in CommandType BY DEF TypeOK
<1> DEFINE d == [c EXCEPT !.try = 2, !.at = "sent"]
<1>2. d.msg = c.msg /\ d.port = c.port /\ d.by = c.by BY <1>1, SameCommand, SameMessage
<1>3. cmds' = (cmds \ {c}) \cup {d} \/ cmds' = cmds \ {c} BY DEF Reject, Again, Finish
<1>4. UNCHANGED <<events, buffer, heard, posted>> BY DEF Reject, CloseEnd, endVars
<1> HIDE DEF d
<1> QED BY <1>2, <1>3, <1>4, MoveSingle

\* A command ends and leaves a script behind, with its message or with none.
LEMMA EvalSingle ==
  ASSUME TypeOK, NEW m \in Msgs, Single(m), NEW c \in cmds, cmds' = cmds \ {c},
         NEW e \in Ends, NEW ev \in EventType, Eval(e, ev),
         ev.msg = m => c.msg = m /\ ev.port = c.port /\ e = Peer(c.by),
         UNCHANGED <<buffer, heard, posted>>
  PROVE  Single(m)'
<1>1. /\ \A f \in Ends \ {e} : events'[f] = events[f]
      /\ \A n \in DOMAIN events[e] : n \in DOMAIN events'[e] /\ events'[e][n] = events[e][n]
  BY EvalPlaces
<1>2. PICK k \in Nat : /\ k \notin DOMAIN events[e] /\ DOMAIN events'[e] = DOMAIN events[e] \cup {k}
                       /\ events'[e][k] = ev
  BY EvalPlaces
<1>3. c.by \in Ends BY DEF TypeOK, CommandType
<1>4. CASE ev.msg # m
  <2>1. \A f \in Ends, n \in Nat :
          Holds(m, f, n)' => Holds(m, f, n) /\ events'[f][n] = events[f][n]
    BY <1>1, <1>2, <1>4 DEF Holds
  <2>2. OnePlace(m)' BY <2>1 DEF Single, OnePlace, In
  <2>3. (InCommand(m)' => InCommand(m)) /\ (InQueue(m)' => InQueue(m))
    BY <2>1 DEF InCommand, InQueue
  <2>4. OneKind(m)' BY <2>3 DEF Single, OneKind, Within, In
  <2>5. OnItsWay(m)' BY <2>1 DEF Single, OnItsWay, In
  <2> QED BY <2>2, <2>4, <2>5 DEF Single
<1>5. CASE ev.msg = m
  <2>1. InCommand(m) BY <1>5 DEF InCommand
  <2>2. ~InQueue(m) /\ ~Within(buffer, m) /\ ~Within(heard, m) BY <2>1 DEF Single, OneKind
  <2>3. \A f \in Ends, n \in Nat : Holds(m, f, n)' => f = e /\ n = k
    BY <1>1, <1>2, <2>2 DEF Holds, InQueue
  <2>4. ~InCommand(m)' BY <1>5 DEF InCommand, Single, OnePlace
  <2>5. ~Within(buffer, m)' /\ ~Within(heard, m)' BY <2>2 DEF Within, In
  <2>6. OnePlace(m)' BY <2>3, <2>4, <2>5 DEF OnePlace, InCommand, Within
  <2>7. OneKind(m)' BY <2>4, <2>5 DEF OneKind
  <2>8. posted'[m] = <<events'[e][k].port, Peer(e)>>
    BY <1>2, <1>3, <1>5, Ends2 DEF Single, OnItsWay
  <2>9. OnItsWay(m)' BY <2>3, <2>4, <2>5, <2>8 DEF OnItsWay, InCommand, Within
  <2> QED BY <2>6, <2>7, <2>9 DEF Single
<1> QED BY <1>4, <1>5

\* A handler's step.
LEMMA HandlerSingle ==
  ASSUME TypeOK, NEW m \in Msgs, Single(m), NEW c \in cmds, Handle(c)
  PROVE  Single(m)'
<1>1. c \in CommandType BY DEF TypeOK
<1>2. c.port \in PortIds /\ c.msg \in Msgs \cup {None} /\ c.by \in Ends /\ None # m
  BY <1>1, PortsAssumption DEF CommandType
<1> DEFINE d == [c EXCEPT !.at = "routed"]
<1>3. d.msg = c.msg /\ d.port = c.port /\ d.by = c.by BY <1>1, SameCommand, SameMessage
<1>4. Advance(c, "routed") => cmds' = (cmds \ {c}) \cup {d} BY DEF Advance
<1> HIDE DEF d
<1>5. CASE Reject(c) BY <1>5, RejectSingle
<1>6. CASE RegisterPort(c) \/ PostRoute(c) \/ RemovePort(c)
  BY <1>3, <1>4, <1>6, MoveSingle DEF RegisterPort, PostRoute, RemovePort, endVars
<1>7. CASE DisconnectUnknown(c)
  BY <1>3, <1>7, MoveSingle DEF DisconnectUnknown, Finish, endVars
<1>8. CASE Announce(c)
  <2>1. LET ev == Event("connect", c.port, None) IN ev \in EventType /\ ev.msg = None
    BY <1>2 DEF Event, EventType
  <2> QED BY <1>2, <1>8, <2>1, Ends2, EvalSingle DEF Announce, Finish, endVars
<1>9. CASE PostDispatch(c)
  <2>1. LET ev == Event("message", c.port, c.msg) IN
          ev \in EventType /\ ev.msg = c.msg /\ ev.port = c.port
    BY <1>1, <1>2, <1>9 DEF Event, EventType, CommandType, PostDispatch
  <2> QED BY <1>2, <1>9, <2>1, Ends2, EvalSingle DEF PostDispatch, Finish, endVars
<1>10. CASE NotifyPeer(c)
  <2>1. LET ev == Event("disconnect", c.port, None) IN ev \in EventType /\ ev.msg = None
    BY <1>2 DEF Event, EventType
  <2>2. cmds' = cmds \ {c} /\ UNCHANGED <<buffer, heard, posted>>
    BY <1>10 DEF NotifyPeer, Finish, endVars
  <2>3. CASE Eval(Peer(c.by), Event("disconnect", c.port, None))
    BY <1>2, <2>1, <2>2, <2>3, Ends2, EvalSingle
  <2>4. CASE UNCHANGED events BY <1>3, <2>2, <2>4, MoveSingle
  <2> QED BY <1>10, <2>3, <2>4 DEF NotifyPeer
<1> QED
  BY <1>5, <1>6, <1>7, <1>8, <1>9, <1>10
  DEF Handle, ConnectNoReceiver, AnnounceFails, PostUnknown, PostDispatchFails

\* A message that was not posted is nowhere.
LEMMA Unposted ==
  ASSUME NEW m \in Msgs, Single(m), posted[m] = None, TypeOK
  PROVE  ~InCommand(m) /\ ~InQueue(m) /\ ~Within(buffer, m) /\ ~Within(heard, m)
<1>1. \A p \in PortIds, e \in Ends : <<p, e>> # None BY PortsAssumption
<1>2. \A c \in cmds : c.port \in PortIds /\ c.by \in Ends BY DEF TypeOK, CommandType
<1>3. \A e \in Ends : \A n \in DOMAIN events[e] : events[e][n].port \in PortIds
  <2> SUFFICES ASSUME NEW e \in Ends, NEW n \in DOMAIN events[e]
               PROVE  events[e][n].port \in PortIds
    OBVIOUS
  <2>1. events[e] \in Seq(EventType) BY DEF TypeOK
  <2>2. events[e][n] \in EventType BY <2>1
  <2> QED BY <2>2 DEF EventType
<1>4. ~InCommand(m) BY <1>1, <1>2 DEF Single, OnItsWay, InCommand
<1>5. ~InQueue(m) BY <1>1, <1>3, Ends2 DEF Single, OnItsWay, InQueue, Holds
<1> QED BY <1>1, <1>4, <1>5, Ends2 DEF Single, OnItsWay, Within

\* The pages' own calls.
LEMMA ScriptSingle ==
  ASSUME TypeOK, NEW m \in Msgs, Single(m), Script
  PROVE  Single(m)'
<1>1. ASSUME NEW p \in PortIds, NEW e \in Ends, NEW op, cmds' = cmds \cup {Command(op, p, e, None)},
             UNCHANGED <<events, buffer, heard, posted>>
      PROVE  Single(m)'
  <2>1. Command(op, p, e, None).msg # m BY PortsAssumption DEF Command
  <2>2. OnePlace(m)' BY <1>1, <2>1 DEF Single, OnePlace, Holds, In
  <2>3. InCommand(m)' => InCommand(m) BY <1>1, <2>1 DEF InCommand
  <2>4. OneKind(m)' BY <1>1, <2>3 DEF Single, OneKind, InQueue, Within, Holds, In
  <2>5. OnItsWay(m)' BY <1>1, <2>1 DEF Single, OnItsWay, Holds, In
  <2> QED BY <2>2, <2>4, <2>5 DEF Single
<1>2. ASSUME NEW p \in PortIds, NEW e \in Ends, NEW q \in Msgs, PostMessage(p, e, q)
      PROVE  Single(m)'
  <2> DEFINE c == Command("post", p, e, q)
  <2>1. cmds' = cmds \cup {c} /\ UNCHANGED <<events, buffer, heard>>
        /\ posted[q] = None /\ posted' = [posted EXCEPT ![q] = <<p, e>>]
    BY <1>2 DEF PostMessage, Invoke, endVars
  <2>2. c.msg = q /\ c.port = p /\ c.by = e BY DEF Command
  <2> HIDE DEF c
  <2>3. CASE q = m
    <3>1. ~InCommand(m) /\ ~InQueue(m) /\ ~Within(buffer, m) /\ ~Within(heard, m)
      BY <2>1, <2>3, Unposted
    <3>2. ~InQueue(m)' /\ ~Within(buffer, m)' /\ ~Within(heard, m)'
      BY <2>1, <3>1 DEF InQueue, Within, Holds, In
    <3>3. \A d \in cmds' : d.msg = m => d = c BY <2>1, <3>1 DEF InCommand
    <3>4. posted'[m] = <<p, e>> BY <2>1, <2>3 DEF TypeOK
    <3>5. OnePlace(m)' BY <3>2, <3>3 DEF OnePlace, InQueue, Within
    <3>6. OneKind(m)' BY <3>2 DEF OneKind
    <3>7. OnItsWay(m)' BY <2>2, <3>2, <3>3, <3>4 DEF OnItsWay, InQueue, Within
    <3> QED BY <3>5, <3>6, <3>7 DEF Single
  <2>4. CASE q # m
    <3>1. posted'[m] = posted[m] BY <2>1, <2>4 DEF TypeOK
    <3>2. OnePlace(m)' BY <2>1, <2>2, <2>4 DEF Single, OnePlace, Holds, In
    <3>3. InCommand(m)' => InCommand(m) BY <2>1, <2>2, <2>4 DEF InCommand
    <3>4. OneKind(m)' BY <2>1, <3>3 DEF Single, OneKind, InQueue, Within, Holds, In
    <3>5. OnItsWay(m)' BY <2>1, <2>2, <2>4, <3>1 DEF Single, OnItsWay, Holds, In
    <3> QED BY <3>2, <3>4, <3>5 DEF Single
  <2> QED BY <2>3, <2>4
<1>3. ASSUME NEW p \in PortIds, NEW e \in Ends, AddListener(p, e) PROVE Single(m)'
  <2> DEFINE b == buffer[p][e]
             h == heard[p][e]
  <2>1. b \in Seq(Msgs) /\ h \in Seq(Msgs) BY DEF TypeOK
  <2>2. /\ heard' = [heard EXCEPT ![p][e] = h \o b] /\ buffer' = [buffer EXCEPT ![p][e] = <<>>]
        /\ UNCHANGED <<cmds, events, posted>>
    BY <1>3 DEF AddListener
  <2>3. /\ \A q \in PortIds, f \in Ends : q # p \/ f # e =>
             heard'[q][f] = heard[q][f] /\ buffer'[q][f] = buffer[q][f]
        /\ heard'[p][e] = h \o b /\ buffer'[p][e] = <<>>
    BY <2>2 DEF TypeOK
  <2>4. \A n \in Nat : n \in DOMAIN (h \o b) =>
           \/ n \in DOMAIN h /\ (h \o b)[n] = h[n]
           \/ n > Len(h) /\ n - Len(h) \in DOMAIN b /\ (h \o b)[n] = b[n - Len(h)]
    <3>1. /\ Len(h \o b) = Len(h) + Len(b) /\ h \o b \in Seq(Msgs)
          /\ \A i \in 1 .. Len(h) + Len(b) :
               (h \o b)[i] = IF i <= Len(h) THEN h[i] ELSE b[i - Len(h)]
      BY <2>1, ConcatProperties
    <3>2. /\ DOMAIN h = 1 .. Len(h) /\ DOMAIN b = 1 .. Len(b)
          /\ DOMAIN (h \o b) = 1 .. Len(h) + Len(b) /\ Len(h) \in Nat /\ Len(b) \in Nat
      BY <2>1, <3>1, LenProperties
    <3> HIDE DEF h, b
    <3> QED BY <3>1, <3>2
  <2>5. \A n : n \in DOMAIN h => n <= Len(h) /\ n \in Nat BY <2>1, LenProperties
  <2>6. Len(h) \in Nat BY <2>1, LenProperties
  <2> HIDE DEF b, h
  <2>7. \A q \in PortIds, f \in Ends, n \in Nat :
          /\ In(buffer, m, q, f, n)' => (q # p \/ f # e) /\ In(buffer, m, q, f, n)
          /\ In(heard, m, q, f, n)' =>
               \/ In(heard, m, q, f, n)
               \/ q = p /\ f = e /\ n > Len(h) /\ In(buffer, m, p, e, n - Len(h))
    <3> SUFFICES ASSUME NEW q \in PortIds, NEW f \in Ends, NEW n \in Nat
                 PROVE  /\ In(buffer, m, q, f, n)' => (q # p \/ f # e) /\ In(buffer, m, q, f, n)
                        /\ In(heard, m, q, f, n)' =>
                             \/ In(heard, m, q, f, n)
                             \/ q = p /\ f = e /\ n > Len(h) /\ In(buffer, m, p, e, n - Len(h))
      OBVIOUS
    <3>1. CASE q # p \/ f # e BY <2>3, <3>1 DEF In
    <3>2. CASE q = p /\ f = e
      <4>1. ~In(buffer, m, q, f, n)' BY <2>3, <3>2 DEF In
      <4>2. ASSUME In(heard, m, q, f, n)'
            PROVE  In(heard, m, q, f, n) \/ (n > Len(h) /\ In(buffer, m, p, e, n - Len(h)))
        BY <2>3, <2>4, <3>2, <4>2 DEF In, h, b
      <4> QED BY <3>2, <4>1, <4>2
    <3> QED BY <3>1, <3>2
  <2>8. Within(buffer, m)' => Within(buffer, m) BY <2>7 DEF Within
  <2>9. Within(heard, m)' => Within(heard, m) \/ Within(buffer, m)
    <3>1. \A n \in Nat : n > Len(h) => n - Len(h) \in Nat BY <2>6
    <3> QED BY <2>7, <3>1 DEF Within
  <2>10. Within(heard, m)' => ~Within(buffer, m)'
    <3> SUFFICES ASSUME Within(heard, m)', Within(buffer, m)' PROVE FALSE OBVIOUS
    <3>1. PICK q \in PortIds, f \in Ends, n \in Nat : In(buffer, m, q, f, n)' BY DEF Within
    <3>2. (q # p \/ f # e) /\ In(buffer, m, q, f, n) BY <2>7, <3>1
    <3>3. posted[m] = <<q, Peer(f)>> BY <3>2 DEF Single, OnItsWay
    <3>4. ~Within(heard, m) BY <3>2 DEF Single, OneKind, Within
    <3>5. PICK k \in Nat : k > Len(h) /\ In(buffer, m, p, e, k - Len(h))
      BY <2>7, <3>4 DEF Within
    <3>6. posted[m] = <<p, Peer(e)>> BY <2>6, <3>5 DEF Single, OnItsWay
    <3> QED BY <3>2, <3>3, <3>6, Ends2
  <2>11. InCommand(m)' = InCommand(m) /\ InQueue(m)' = InQueue(m)
    BY <2>2 DEF InCommand, InQueue, Holds
  <2>12. OneKind(m)' BY <2>8, <2>9, <2>10, <2>11 DEF Single, OneKind
  <2>13. OnItsWay(m)'
    <3>1. \A q \in PortIds, f \in Ends, n \in Nat :
            In(buffer, m, q, f, n)' \/ In(heard, m, q, f, n)' => posted'[m] = <<q, Peer(f)>>
      BY <2>2, <2>6, <2>7 DEF Single, OnItsWay
    <3> QED BY <2>2, <3>1 DEF Single, OnItsWay, Holds
  <2>14. OnePlace(m)'
    <3>1. \A q \in PortIds, f \in Ends, n, k \in Nat :
            In(buffer, m, q, f, n)' /\ In(buffer, m, q, f, k)' => n = k
      BY <2>7 DEF Single, OnePlace
    <3>2. ASSUME NEW q \in PortIds, NEW f \in Ends, NEW n \in Nat, NEW k \in Nat,
                 In(heard, m, q, f, n)', In(heard, m, q, f, k)'
          PROVE  n = k
      <4>1. CASE In(heard, m, q, f, n) \/ In(heard, m, q, f, k)
        <5>1. ~Within(buffer, m) BY <4>1 DEF Single, OneKind, Within
        <5>2. In(heard, m, q, f, n) /\ In(heard, m, q, f, k)
          BY <2>6, <2>7, <3>2, <5>1 DEF Within
        <5> QED BY <5>2 DEF Single, OnePlace
      <4>2. CASE ~In(heard, m, q, f, n) /\ ~In(heard, m, q, f, k)
        <5>1. /\ n > Len(h) /\ In(buffer, m, p, e, n - Len(h))
              /\ k > Len(h) /\ In(buffer, m, p, e, k - Len(h))
          BY <2>7, <3>2, <4>2
        <5>2. n - Len(h) \in Nat /\ k - Len(h) \in Nat BY <2>6, <5>1
        <5>3. n - Len(h) = k - Len(h) BY <5>1, <5>2 DEF Single, OnePlace
        <5> QED BY <2>6, <5>3
      <4> QED BY <4>1, <4>2
    <3> QED BY <2>2, <3>1, <3>2 DEF Single, OnePlace, Holds
  <2> QED BY <2>12, <2>13, <2>14 DEF Single
<1>4. ASSUME NEW p \in PortIds, NEW e \in Ends, RemoveListener(p, e) PROVE Single(m)'
  BY <1>4
  DEF RemoveListener, Single, OnePlace, OneKind, OnItsWay, InCommand, InQueue, Within, Holds, In
<1>5. ASSUME NEW p \in PortIds, Connect(p) PROVE Single(m)'
  BY <1>1, <1>5, Ends2 DEF Connect, Invoke
<1>6. ASSUME NEW p \in PortIds, NEW e \in Ends, Disconnect(p, e) PROVE Single(m)'
  BY <1>1, <1>6 DEF Disconnect, Invoke
<1> QED BY <1>2, <1>3, <1>4, <1>5, <1>6 DEF Script

\* Scripts, and what the ends keep, may go; what is left stays where it was or
\* one place nearer to the front.
LEMMA DropSingle ==
  ASSUME TypeOK, NEW m \in Msgs, Single(m), UNCHANGED posted,
         NEW r, cmds' = cmds \/ cmds' = NoRetry(r),
         \A p \in PortIds, e \in Ends, n \in Nat :
           /\ In(buffer, m, p, e, n)' => In(buffer, m, p, e, n)
           /\ In(heard, m, p, e, n)' => In(heard, m, p, e, n),
         \A e \in Ends :
           \/ \A n \in Nat :
                Holds(m, e, n)' => Holds(m, e, n) /\ events'[e][n] = events[e][n]
           \/ \A n \in Nat :
                Holds(m, e, n)' => Holds(m, e, n + 1) /\ events'[e][n] = events[e][n + 1]
  PROVE  Single(m)'
<1> DEFINE Img(c) == IF cmds' # cmds /\ c.by = r THEN [c EXCEPT !.try = 2] ELSE c
<1>0. \A c \in cmds : Img(c).msg = c.msg /\ Img(c).port = c.port /\ Img(c).by = c.by
  BY SameCommand, SameMessage DEF TypeOK
<1>1. \A d \in cmds' : \E c \in cmds : d = Img(c)
  <2>1. CASE cmds' = cmds BY <2>1
  <2>2. CASE cmds' # cmds BY <2>2 DEF NoRetry
  <2> QED BY <2>1, <2>2
<1> HIDE DEF Img
<1>2. \A c, d \in cmds' : c.msg = m /\ d.msg = m => c = d
  BY <1>0, <1>1 DEF Single, OnePlace
<1>3. \A e \in Ends, n, k \in Nat : Holds(m, e, n)' /\ Holds(m, e, k)' => n = k
  BY DEF Single, OnePlace
<1>4. (InCommand(m)' => InCommand(m)) /\ (InQueue(m)' => InQueue(m))
      /\ (Within(buffer, m)' => Within(buffer, m)) /\ (Within(heard, m)' => Within(heard, m))
  BY <1>0, <1>1 DEF InCommand, InQueue, Within
<1>5. OneKind(m)' BY <1>4 DEF Single, OneKind
<1>6. OnePlace(m)' BY <1>2, <1>3 DEF Single, OnePlace
<1>7. OnItsWay(m)' BY <1>0, <1>1 DEF Single, OnItsWay
<1> QED BY <1>5, <1>6, <1>7 DEF Single

\* An end gets m at one place of what it keeps or heard, and nothing else of it.
Gets(f, g, m, p, e) ==
  \E k \in Nat : \A q \in PortIds, x \in Ends, n \in Nat :
    In(g, m, q, x, n) => In(f, m, q, x, n) \/ (q = p /\ x = e /\ n = k)

\* The message of a script arrives at an end, which keeps it or hears it.
LEMMA ArriveSingle ==
  ASSUME TypeOK, NEW m \in Msgs, Single(m), NEW e \in Ends, Holds(m, e, 1),
         NEW p \in PortIds, events[e][1].port = p, UNCHANGED <<cmds, posted>>,
         \A f \in Ends \ {e} : events'[f] = events[f],
         \A n \in Nat : Holds(m, e, n)' => n \in Nat \ {0} /\ Holds(m, e, n + 1),
         \/ UNCHANGED heard /\ Gets(buffer, buffer', m, p, e)
         \/ UNCHANGED buffer /\ Gets(heard, heard', m, p, e)
  PROVE  Single(m)'
<1>1. InQueue(m) BY DEF InQueue
<1>2. ~InCommand(m) /\ ~Within(buffer, m) /\ ~Within(heard, m) BY <1>1 DEF Single, OneKind
<1>3. posted[m] = <<p, Peer(e)>> BY DEF Single, OnItsWay
<1>4. \A n \in Nat : ~Holds(m, e, n)' BY DEF Single, OnePlace
<1>5. \A f \in Ends \ {e}, n \in Nat : ~Holds(m, f, n)'
  <2>1. \A f \in Ends \ {e}, n \in Nat : ~Holds(m, f, n)
    BY <1>3, Ends2 DEF Single, OnItsWay
  <2> QED BY <2>1 DEF Holds
<1>6. ~InQueue(m)' /\ ~InCommand(m)' BY <1>2, <1>4, <1>5 DEF InQueue, InCommand
<1>7. \E k \in Nat :
        \/ ~Within(heard, m)' /\ \A q \in PortIds, f \in Ends, n \in Nat :
             In(buffer, m, q, f, n)' => q = p /\ f = e /\ n = k
        \/ ~Within(buffer, m)' /\ \A q \in PortIds, f \in Ends, n \in Nat :
             In(heard, m, q, f, n)' => q = p /\ f = e /\ n = k
  <2>1. UNCHANGED heard => ~Within(heard, m)' BY <1>2 DEF Within, In
  <2>2. UNCHANGED buffer => ~Within(buffer, m)' BY <1>2 DEF Within, In
  <2> QED BY <1>2, <2>1, <2>2 DEF Within, Gets, In
<1>8. OneKind(m)' BY <1>6, <1>7 DEF OneKind
<1>9. OnePlace(m)' BY <1>6, <1>7 DEF OnePlace, InQueue, InCommand, Within
<1>10. OnItsWay(m)' BY <1>3, <1>6, <1>7 DEF OnItsWay, InQueue, InCommand, Within
<1> QED BY <1>8, <1>9, <1>10 DEF Single

\* The events in the pages.
LEMMA PageSingle ==
  ASSUME TypeOK, NEW m \in Msgs, Single(m), Page
  PROVE  Single(m)'
<1>1. CASE OpenPage \/ Bootstrap
  BY <1>1
  DEF OpenPage, Bootstrap, endVars, Single, OnePlace, OneKind, OnItsWay, InCommand, InQueue,
      Within, Holds, In
<1>2. ASSUME NEW x \in Ends, (ClosePage /\ x = "target") \/ (Navigate /\ x = "opener")
      PROVE  Single(m)'
  <2>1. /\ cmds' = NoRetry(x) /\ buffer' = Without(x, buffer, <<>>)
        /\ events' = [events EXCEPT ![x] = <<>>] /\ UNCHANGED <<posted, heard>>
    BY <1>2 DEF ClosePage, Navigate
  <2>2. \A p \in PortIds, e \in Ends :
          buffer'[p][e] = IF e = x THEN <<>> ELSE buffer[p][e]
    BY <2>1 DEF Without, TypeOK
  <2>3. \A e \in Ends : events'[e] = IF e = x THEN <<>> ELSE events[e] BY <2>1 DEF TypeOK
  <2>4. \A n \in Nat : n \notin DOMAIN <<>> OBVIOUS
  <2>5. \A p \in PortIds, e \in Ends, n \in Nat :
          /\ In(buffer, m, p, e, n)' => In(buffer, m, p, e, n)
          /\ In(heard, m, p, e, n)' => In(heard, m, p, e, n)
    BY <2>1, <2>2, <2>4 DEF In
  <2>6. \A e \in Ends, n \in Nat : Holds(m, e, n)' => Holds(m, e, n) /\ events'[e][n] = events[e][n]
    BY <2>3, <2>4 DEF Holds
  <2> QED BY <2>1, <2>5, <2>6, DropSingle
<1>3. ASSUME NEW e \in Ends, events[e] # <<>>, events' = [events EXCEPT ![e] = Tail(@)]
      PROVE  /\ \A f \in Ends \ {e} : events'[f] = events[f]
             /\ \A n \in Nat : Holds(m, e, n)' =>
                  n \in Nat \ {0} /\ Holds(m, e, n + 1) /\ events'[e][n] = events[e][n + 1]
             /\ Head(events[e]) = events[e][1] /\ 1 \in DOMAIN events[e]
  BY <1>3, TakePlaces DEF Holds
<1>4. ASSUME NEW e \in Ends, events[e] # <<>>, events' = [events EXCEPT ![e] = Tail(@)],
             UNCHANGED <<posted, cmds>>,
             \A p \in PortIds, f \in Ends, n \in Nat :
               /\ In(buffer, m, p, f, n)' => In(buffer, m, p, f, n)
               /\ In(heard, m, p, f, n)' => In(heard, m, p, f, n)
      PROVE  Single(m)'
  <2>1. \A f \in Ends :
          \/ \A n \in Nat : Holds(m, f, n)' => Holds(m, f, n) /\ events'[f][n] = events[f][n]
          \/ \A n \in Nat : Holds(m, f, n)' => Holds(m, f, n + 1) /\ events'[f][n] = events[f][n + 1]
    BY <1>3, <1>4 DEF Holds
  <2> QED BY <1>4, <2>1, DropSingle
<1>5. CASE DropEvent
  <2>1. \A p \in PortIds, f \in Ends, n \in Nat :
          /\ In(buffer, m, p, f, n)' => In(buffer, m, p, f, n)
          /\ In(heard, m, p, f, n)' => In(heard, m, p, f, n)
    BY <1>5 DEF DropEvent, endVars, In
  <2> QED BY <1>4, <1>5, <2>1, Ends2 DEF DropEvent, endVars
<1>6. ASSUME NEW e \in Ends, Deliver(e) PROVE Single(m)'
  <2> DEFINE ev == events[e][1]
             p  == ev.port
             q  == ev.msg
  <2>1. /\ events[e] # <<>> /\ events' = [events EXCEPT ![e] = Tail(@)]
        /\ UNCHANGED <<cmds, posted>>
    BY <1>6 DEF Deliver
  <2>2. /\ ev = Head(events[e]) /\ ev \in EventType /\ p \in PortIds
        /\ (ev.kind = "message" => q \in Msgs)
        /\ (q = m => Holds(m, e, 1))
    <3>1. ev = Head(events[e]) /\ ev \in EventType /\ 1 \in DOMAIN events[e]
      BY <1>3, <2>1, HeadTailProperties DEF TypeOK
    <3> QED BY <3>1 DEF EventType, Holds
  <2>3. /\ \A f \in Ends \ {e} : events'[f] = events[f]
        /\ \A n \in Nat : Holds(m, e, n)' => n \in Nat \ {0} /\ Holds(m, e, n + 1)
    BY <1>3, <2>1
  <2>4. events[e][1].port = p OBVIOUS
  <2> HIDE DEF p, q
  <2>5. ASSUME UNCHANGED <<buffer, heard>> PROVE Single(m)'
    <3>1. \A x \in PortIds, f \in Ends, n \in Nat :
            /\ In(buffer, m, x, f, n)' => In(buffer, m, x, f, n)
            /\ In(heard, m, x, f, n)' => In(heard, m, x, f, n)
      BY <2>5 DEF In
    <3> QED BY <1>4, <2>1, <3>1
  <2>6. ASSUME q \in Msgs, buffer' = [buffer EXCEPT ![p][e] = Append(@, q)], UNCHANGED heard
        PROVE  Single(m)'
    <3>1. PICK k \in Nat :
            /\ \A n \in DOMAIN buffer[p][e] : Append(buffer[p][e], q)[n] = buffer[p][e][n]
            /\ DOMAIN Append(buffer[p][e], q) = DOMAIN buffer[p][e] \cup {k}
            /\ Append(buffer[p][e], q)[k] = q
      <4>1. buffer[p][e] \in Seq(Msgs) BY <2>2 DEF TypeOK
      <4> QED BY <2>6, <4>1, AppendPlaces
    <3>2. /\ buffer'[p][e] = Append(buffer[p][e], q)
          /\ \A x \in PortIds, f \in Ends : x # p \/ f # e => buffer'[x][f] = buffer[x][f]
      BY <2>2, <2>6 DEF TypeOK
    <3>3. \A x \in PortIds, f \in Ends, n \in Nat :
            /\ In(buffer, m, x, f, n)' =>
                 In(buffer, m, x, f, n) \/ (q = m /\ x = p /\ f = e /\ n = k)
            /\ In(heard, m, x, f, n)' => In(heard, m, x, f, n)
      BY <2>6, <3>1, <3>2 DEF In
    <3>4. CASE q = m
      <4>1. UNCHANGED heard /\ Gets(buffer, buffer', m, p, e)
        BY <2>6, <3>3 DEF Gets, In
      <4>2. Holds(m, e, 1) BY <2>2, <3>4
      <4> QED BY <2>1, <2>2, <2>3, <2>4, <4>1, <4>2, ArriveSingle
    <3>5. CASE q # m BY <1>4, <2>1, <3>3, <3>5
    <3> QED BY <3>4, <3>5
  <2>7. ASSUME q \in Msgs, heard' = [heard EXCEPT ![p][e] = Append(@, q)], UNCHANGED buffer
        PROVE  Single(m)'
    <3>1. PICK k \in Nat :
            /\ \A n \in DOMAIN heard[p][e] : Append(heard[p][e], q)[n] = heard[p][e][n]
            /\ DOMAIN Append(heard[p][e], q) = DOMAIN heard[p][e] \cup {k}
            /\ Append(heard[p][e], q)[k] = q
      <4>1. heard[p][e] \in Seq(Msgs) BY <2>2 DEF TypeOK
      <4> QED BY <2>7, <4>1, AppendPlaces
    <3>2. /\ heard'[p][e] = Append(heard[p][e], q)
          /\ \A x \in PortIds, f \in Ends : x # p \/ f # e => heard'[x][f] = heard[x][f]
      BY <2>2, <2>7 DEF TypeOK
    <3>3. \A x \in PortIds, f \in Ends, n \in Nat :
            /\ In(heard, m, x, f, n)' =>
                 In(heard, m, x, f, n) \/ (q = m /\ x = p /\ f = e /\ n = k)
            /\ In(buffer, m, x, f, n)' => In(buffer, m, x, f, n)
      BY <2>7, <3>1, <3>2 DEF In
    <3>4. CASE q = m
      <4>1. UNCHANGED buffer /\ Gets(heard, heard', m, p, e)
        BY <2>7, <3>3 DEF Gets, In
      <4>2. Holds(m, e, 1) BY <2>2, <3>4
      <4> QED BY <2>1, <2>2, <2>3, <2>4, <4>1, <4>2, ArriveSingle
    <3>5. CASE q # m BY <1>4, <2>1, <3>3, <3>5
    <3> QED BY <3>4, <3>5
  <2>8. CASE ev.kind = "message" /\ HandleInbound(p, e, q)
    BY <2>2, <2>5, <2>6, <2>7, <2>8 DEF HandleInbound
  <2>9. CASE MakePort(p)
    <3>1. \A x \in PortIds, f \in Ends : buffer'[x][f] = buffer[x][f] \/ buffer'[x][f] = <<>>
      BY <2>2, <2>9, Ends2 DEF MakePort, TypeOK
    <3>2. \A n \in Nat : n \notin DOMAIN <<>> OBVIOUS
    <3>3. \A x \in PortIds, f \in Ends, n \in Nat :
            /\ In(buffer, m, x, f, n)' => In(buffer, m, x, f, n)
            /\ In(heard, m, x, f, n)' => In(heard, m, x, f, n)
      BY <2>9, <3>1, <3>2 DEF MakePort, In
    <3> QED BY <1>4, <2>1, <3>3
  <2>10. CASE CloseEnd(p, e) BY <2>5, <2>10 DEF CloseEnd
  <2> QED BY <1>6, <2>2, <2>8, <2>9, <2>10 DEF Deliver, p, q
<1> QED BY <1>1, <1>2, <1>5, <1>6, Ends2 DEF Page

\* No retry, replay or restart duplicates a message or turns it back.
THEOREM HeardAtMostOnce == Spec => []AtMostOnce
<1> DEFINE Singles == \A m \in Msgs : Single(m)
<1>1. Init => Singles
  <2> SUFFICES ASSUME Init, NEW m \in Msgs PROVE Single(m) OBVIOUS
  <2>1. ~InCommand(m) /\ ~InQueue(m) /\ ~Within(buffer, m) /\ ~Within(heard, m)
    BY DEF Init, NoPorts, InCommand, InQueue, Within, Holds, In
  <2> QED BY <2>1 DEF Single, OnePlace, OneKind, OnItsWay, InCommand, InQueue, Within
<1>2. TypeOK /\ Singles /\ [Next]_vars => Singles'
  <2> SUFFICES ASSUME TypeOK, Singles, [Next]_vars, NEW m \in Msgs PROVE Single(m)' OBVIOUS
  <2>1. CASE Script BY <2>1, ScriptSingle
  <2>2. CASE Run BY <2>2, HandlerSingle DEF Run
  <2>3. CASE Page BY <2>3, PageSingle
  <2>4. CASE UNCHANGED vars
    BY <2>4
    DEF vars, endVars, Single, OnePlace, OneKind, OnItsWay, InCommand, InQueue, Within, Holds, In
  <2> QED BY <2>1, <2>2, <2>3, <2>4 DEF Next
<1>3. TypeOK /\ Singles => AtMostOnce BY SingleCopy DEF AtMostOnce
<1> QED BY <1>1, <1>2, <1>3, TypeCorrect, PTL DEF Spec
=============================================================================
