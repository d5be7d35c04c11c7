------------------------------- MODULE Ports -------------------------------
(***************************************************************************)
(* chrome.runtime.connect: long-lived ports between a content page and the *)
(* background worker's page (the ports table of src/ipc/router.rs, the     *)
(* three extensions_runtime_connect / port_post / port_disconnect          *)
(* commands, and makePort with its callers in the shim's runtime.ts).      *)
(*                                                                         *)
(* A page invokes commands and goes on.  Each invoke is a task of its own  *)
(* on the async runtime, so the commands of one page run in any order; a   *)
(* command that fails is invoked once more.  The scripts evaluated in one  *)
(* page run in order.                                                      *)
(***************************************************************************)
EXTENDS Naturals, Sequences

CONSTANTS
  PortIds,   \* ports the content page may open
  Msgs,      \* messages that may be posted, each by one end of one port
  MaxPages,  \* how many pages the worker's window may load (a bound)
  None

Ends == {"opener", "target"}
Peer(e) == IF e = "opener" THEN "target" ELSE "opener"

ASSUME PortsAssumption == MaxPages \in Nat /\ None \notin Msgs \cup (PortIds \X Ends)

VARIABLES
  route,    \* Router.ports: the ports with a PortRoute
  cmds,     \* commands invoked and not finished
  end,      \* each end of each port: none, open, closed, gone with its page
  ear,      \* whether an end's onMessage has a listener
  buffer,   \* messages an end keeps for its first listener
  heard,    \* messages an end's listener got, in order
  events,   \* scripts queued in the content page and in the worker's page
  page,     \* the worker's page: none, blank (no bootstrap yet), wired
  pages,    \* pages loaded so far
  posted    \* who posted each message

endVars == <<end, ear, buffer, heard>>
vars    == <<route, cmds, endVars, events, page, pages, posted>>

\* A script: window.__extEventDispatch(kind, ...).
Event(kind, p, m) == [kind |-> kind, port |-> p, msg |-> m]

Invoke(c)      == cmds' = cmds \cup {c}
Finish(c)      == cmds' = cmds \ {c}
Advance(c, at) == cmds' = (cmds \ {c}) \cup {[c EXCEPT !.at = at]}
Eval(e, ev)    == events' = [events EXCEPT ![e] = Append(@, ev)]

\* get_webview_window: a content page that goes away leaves its window to the next.
HasWebview(e) == e = "opener" \/ page # "none"

-----------------------------------------------------------------------------
(* Mutants of what follows. *)

\* The count of invocations starts one too low.
CommandFromZero(op, p, e, m) ==
  [op |-> op, port |-> p, by |-> e, msg |-> m, try |-> 0, at |-> "sent"]

\* What a listener missed is kept after it was replayed to it.
HearAgain(p, e) ==
  /\ end[p][e] \in {"open", "closed"} /\ ~ear[p][e]
  /\ ear' = [ear EXCEPT ![p][e] = TRUE]
  /\ heard' = [heard EXCEPT ![p][e] = @ \o buffer[p][e]]
  /\ UNCHANGED <<route, cmds, end, buffer, events, page, pages, posted>>

\* A connect that failed leaves the opener's port as it is.
CloseNothing(p, e) == UNCHANGED endVars

\* A failed invoke is retried for ever.
AgainForEver(c) == cmds' = (cmds \ {c}) \cup {[c EXCEPT !.at = "sent"]}

\* A connect that has been announced is invoked again.
AnnounceAgain(c) ==
  /\ c.op = "connect" /\ c.at = "routed" /\ page # "none"
  /\ Eval("target", Event("connect", c.port, None))
  /\ IF c.try = 1
     THEN cmds' = (cmds \ {c}) \cup {[c EXCEPT !.try = 2, !.at = "sent"]}
     ELSE Finish(c)
  /\ UNCHANGED <<route, endVars, page, pages, posted>>

\* The route goes and nobody is told.
RemoveSilently(c) ==
  /\ c.op = "disconnect" /\ c.at = "sent" /\ c.port \in route
  /\ route' = route \ {c.port} /\ Finish(c)
  /\ UNCHANGED <<endVars, events, page, pages, posted>>

-----------------------------------------------------------------------------
(* Calls of the pages' own code: makePort and the methods of a Port. *)

\* A command: what it does, on which port, invoked by which end, the message it
\* carries, how often it was invoked, and where its handler stands.
Command(op, p, e, m) == [op |-> op, port |-> p, by |-> e, msg |-> m, try |-> 1, at |-> "sent"]

NoPorts ==
  /\ route = {} /\ cmds = {} /\ posted = [m \in Msgs |-> None]
  /\ end    = [p \in PortIds |-> [e \in Ends |-> "none"]]
  /\ ear    = [p \in PortIds |-> [e \in Ends |-> FALSE]]
  /\ buffer = [p \in PortIds |-> [e \in Ends |-> <<>>]]
  /\ heard  = [p \in PortIds |-> [e \in Ends |-> <<>>]]
  /\ events = [e \in Ends |-> <<>>]

Init == NoPorts /\ page = "none" /\ pages = 0

Connect(p) ==
  /\ end[p]["opener"] = "none"
  /\ end' = [end EXCEPT ![p]["opener"] = "open"]
  /\ Invoke(Command("connect", p, "opener", None))
  /\ UNCHANGED <<route, ear, buffer, heard, events, page, pages, posted>>

PostMessage(p, e, m) ==
  /\ end[p][e] = "open" /\ posted[m] = None
  /\ posted' = [posted EXCEPT ![m] = <<p, e>>]
  /\ Invoke(Command("post", p, e, m))
  /\ UNCHANGED <<route, endVars, events, page, pages>>

Disconnect(p, e) ==
  /\ end[p][e] = "open"
  /\ end' = [end EXCEPT ![p][e] = "closed"]
  /\ Invoke(Command("disconnect", p, e, None))
  /\ UNCHANGED <<route, ear, buffer, heard, events, page, pages, posted>>

\* port.onMessage.addListener: the first listener gets what was buffered.
AddListener(p, e) ==
  /\ end[p][e] \in {"open", "closed"} /\ ~ear[p][e]
  /\ ear' = [ear EXCEPT ![p][e] = TRUE]
  /\ heard' = [heard EXCEPT ![p][e] = @ \o buffer[p][e]]
  /\ buffer' = [buffer EXCEPT ![p][e] = <<>>]
  /\ UNCHANGED <<route, cmds, end, events, page, pages, posted>>

\* removeListener of the last one: messages are buffered again.
RemoveListener(p, e) ==
  /\ end[p][e] \in {"open", "closed"} /\ ear[p][e]
  /\ ear' = [ear EXCEPT ![p][e] = FALSE]
  /\ UNCHANGED <<route, cmds, end, buffer, heard, events, page, pages, posted>>

-----------------------------------------------------------------------------
(* The commands' handlers. *)

CloseEnd(p, e) ==
  /\ end' = [end EXCEPT ![p][e] = IF @ = "open" THEN "closed" ELSE @]
  /\ UNCHANGED <<ear, buffer, heard>>

\* The invoke is rejected: invokeWithRetry sends it once more, and a connect
\* that failed twice disconnects the opener's port.
Again(c) == cmds' = (cmds \ {c}) \cup {[c EXCEPT !.try = 2, !.at = "sent"]}

Reject(c) ==
  /\ \/ c.try = 1 /\ Again(c) /\ UNCHANGED endVars
     \/ /\ c.try = 2 /\ Finish(c)
        /\ IF c.op = "connect" THEN CloseEnd(c.port, "opener") ELSE UNCHANGED endVars
  /\ UNCHANGED <<route, events, page, pages, posted>>

ConnectNoReceiver(c) ==
  c.op = "connect" /\ c.at = "sent" /\ page = "none" /\ Reject(c)

RegisterPort(c) ==
  /\ c.op = "connect" /\ c.at = "sent" /\ page # "none"
  /\ route' = route \cup {c.port}
  /\ Advance(c, "routed")
  /\ UNCHANGED <<endVars, events, page, pages, posted>>

Announce(c) ==
  /\ c.op = "connect" /\ c.at = "routed" /\ page # "none"
  /\ Eval("target", Event("connect", c.port, None))
  /\ Finish(c)
  /\ UNCHANGED <<route, endVars, page, pages, posted>>

\* The window closed since it was looked up; the route stays.
AnnounceFails(c) ==
  c.op = "connect" /\ c.at = "routed" /\ page = "none" /\ Reject(c)

\* "unknown port".
PostUnknown(c) ==
  c.op = "post" /\ c.at = "sent" /\ c.port \notin route /\ Reject(c)

PostRoute(c) ==
  /\ c.op = "post" /\ c.at = "sent" /\ c.port \in route
  /\ Advance(c, "routed")
  /\ UNCHANGED <<route, endVars, events, page, pages, posted>>

PostDispatch(c) ==
  /\ c.op = "post" /\ c.at = "routed" /\ HasWebview(Peer(c.by))
  /\ Eval(Peer(c.by), Event("message", c.port, c.msg))
  /\ Finish(c)
  /\ UNCHANGED <<route, endVars, page, pages, posted>>

PostDispatchFails(c) ==
  c.op = "post" /\ c.at = "routed" /\ ~HasWebview(Peer(c.by)) /\ Reject(c)

RemovePort(c) ==
  /\ c.op = "disconnect" /\ c.at = "sent" /\ c.port \in route
  /\ route' = route \ {c.port}
  /\ Advance(c, "routed")
  /\ UNCHANGED <<endVars, events, page, pages, posted>>

\* Best effort: a peer that is gone is not an error.
NotifyPeer(c) ==
  /\ c.op = "disconnect" /\ c.at = "routed"
  /\ IF HasWebview(Peer(c.by))
     THEN Eval(Peer(c.by), Event("disconnect", c.port, None))
     ELSE UNCHANGED events
  /\ Finish(c)
  /\ UNCHANGED <<route, endVars, page, pages, posted>>

DisconnectUnknown(c) ==
  /\ c.op = "disconnect" /\ c.at = "sent" /\ c.port \notin route
  /\ Finish(c)
  /\ UNCHANGED <<route, endVars, events, page, pages, posted>>

Handle(c) ==
  \/ ConnectNoReceiver(c) \/ RegisterPort(c) \/ Announce(c) \/ AnnounceFails(c)
  \/ PostUnknown(c) \/ PostRoute(c) \/ PostDispatch(c) \/ PostDispatchFails(c)
  \/ RemovePort(c) \/ NotifyPeer(c) \/ DisconnectUnknown(c)

-----------------------------------------------------------------------------
(* The events in a page. *)

\* handleInboundConnect: makePort.
MakePort(p) ==
  /\ end' = [end EXCEPT ![p]["target"] = "open"]
  /\ ear' = [ear EXCEPT ![p]["target"] = FALSE]
  /\ buffer' = [buffer EXCEPT ![p]["target"] = <<>>]
  /\ UNCHANGED heard

\* handlePortInbound: an unknown or disconnected port drops the message.
HandleInbound(p, e, m) ==
  /\ UNCHANGED <<end, ear>>
  /\ \/ /\ end[p][e] = "open" /\ ear[p][e]
        /\ heard' = [heard EXCEPT ![p][e] = Append(@, m)]
        /\ UNCHANGED buffer
     \/ /\ end[p][e] = "open" /\ ~ear[p][e]
        /\ buffer' = [buffer EXCEPT ![p][e] = Append(@, m)]
        /\ UNCHANGED heard
     \/ end[p][e] # "open" /\ UNCHANGED <<buffer, heard>>

Wired(e) == e = "opener" \/ page = "wired"

Deliver(e) ==
  /\ events[e] # <<>> /\ Wired(e)
  /\ LET ev == Head(events[e]) IN
       \/ ev.kind = "connect" /\ MakePort(ev.port)
       \/ ev.kind = "message" /\ HandleInbound(ev.port, e, ev.msg)
       \/ ev.kind = "disconnect" /\ CloseEnd(ev.port, e)
  /\ events' = [events EXCEPT ![e] = Tail(@)]
  /\ UNCHANGED <<route, cmds, page, pages, posted>>

\* A page without the dispatcher drops the event.
DropEvent ==
  /\ page = "blank" /\ events["target"] # <<>>
  /\ events' = [events EXCEPT !["target"] = Tail(@)]
  /\ UNCHANGED <<route, cmds, endVars, page, pages, posted>>

\* The lifecycle manager builds the window, its initialization script installs
\* the dispatcher and the shim, and the manager closes the window: the worker's
\* ends and events go with it, and nobody retries for it.
OpenPage ==
  /\ page = "none" /\ pages < MaxPages
  /\ page' = "blank" /\ pages' = pages + 1
  /\ UNCHANGED <<route, cmds, endVars, events, posted>>

Bootstrap ==
  /\ page = "blank" /\ page' = "wired"
  /\ UNCHANGED <<route, cmds, endVars, events, pages, posted>>

NoRetry(e)         == {IF c.by = e THEN [c EXCEPT !.try = 2] ELSE c : c \in cmds}
Without(e, f, v)   == [p \in PortIds |-> [f[p] EXCEPT ![e] = v]]

ClosePage ==
  /\ page # "none" /\ page' = "none"
  /\ end' = Without("target", end, "none") /\ ear' = Without("target", ear, FALSE)
  /\ buffer' = Without("target", buffer, <<>>)
  /\ events' = [events EXCEPT !["target"] = <<>>]
  /\ cmds' = NoRetry("target")
  /\ UNCHANGED <<route, heard, pages, posted>>

\* The content page navigates away with its ports; nobody tells the router.
\* (The next page's ports have ids of their own: none is opened under an old one.)
Navigate ==
  /\ \E p \in PortIds : end[p]["opener"] \in {"open", "closed"}
  /\ end' = Without("opener", end, "gone") /\ ear' = Without("opener", ear, FALSE)
  /\ buffer' = Without("opener", buffer, <<>>)
  /\ events' = [events EXCEPT !["opener"] = <<>>]
  /\ cmds' = NoRetry("opener")
  /\ UNCHANGED <<route, heard, page, pages, posted>>

-----------------------------------------------------------------------------

Script ==
  \/ \E p \in PortIds : Connect(p)
  \/ \E p \in PortIds, e \in Ends :
       \/ Disconnect(p, e) \/ AddListener(p, e) \/ RemoveListener(p, e)
       \/ \E m \in Msgs : PostMessage(p, e, m)

Run  == \E c \in cmds : Handle(c)
Page == OpenPage \/ Bootstrap \/ ClosePage \/ Navigate \/ DropEvent \/ \E e \in Ends : Deliver(e)

Next == Script \/ Run \/ Page

Spec == Init /\ [][Next]_vars

\* Commands are scheduled and the content page runs its scripts; nothing is
\* assumed of the worker or of the pages' own code.
FairSpec == Spec /\ WF_vars(Run) /\ WF_vars(Deliver("opener"))

-----------------------------------------------------------------------------
(* Properties. *)

CommandType ==
  {c \in [op : {"connect", "post", "disconnect"}, port : PortIds, by : Ends,
          msg : Msgs \cup {None}, try : 1 .. 2, at : {"sent", "routed"}] :
     c.op = "post" => c.msg \in Msgs}
EventType ==
  {ev \in [kind : {"connect", "message", "disconnect"}, port : PortIds,
           msg : Msgs \cup {None}] :
     ev.kind = "message" => ev.msg \in Msgs}

\* Every variable holds a value of its type.
TypeOK ==
  /\ route \subseteq PortIds /\ cmds \subseteq CommandType
  /\ end \in [PortIds -> [Ends -> {"none", "open", "closed", "gone"}]]
  /\ ear \in [PortIds -> [Ends -> BOOLEAN]]
  /\ buffer \in [PortIds -> [Ends -> Seq(Msgs)]]
  /\ heard \in [PortIds -> [Ends -> Seq(Msgs)]]
  /\ events \in [Ends -> Seq(EventType)]
  /\ page \in {"none", "blank", "wired"} /\ pages \in 0 .. MaxPages
  /\ posted \in [Msgs -> {None} \cup PortIds \X Ends]

\* Where a message is: in a command, in a page's queue, in an end's buffer, or
\* heard.
Carried(m) == {c \in cmds : c.msg = m}
Queued(m)  ==
  UNION {{<<e, n>> : n \in {k \in DOMAIN events[e] : events[e][k].msg = m}} : e \in Ends}
Places(f, m) ==
  UNION {{<<p, e, n>> : n \in {k \in DOMAIN f[p][e] : f[p][e][k] = m}} : p \in PortIds, e \in Ends}
Copies(m) ==
  ({"carried"} \X Carried(m)) \cup ({"queued"} \X Queued(m))
  \cup ({"kept"} \X Places(buffer, m)) \cup ({"heard"} \X Places(heard, m))

\* Retries, a buffer replayed to a late listener and a worker that restarts
\* never duplicate a message, and it is only ever heard at the other end of the
\* port it was posted on.
AtMostOnce ==
  \A m \in Msgs :
    /\ \A v, w \in Copies(m) : v = w
    /\ \A w \in Places(heard, m) : posted[m] = <<w[1], Peer(w[2])>>

\* A port its opener believes open has a route, or is still being connected, or
\* is about to hear that the other end disconnected: it is never left open with
\* nothing behind it.
Connects(c, p)       == c.op = "connect" /\ c.port = p
Disconnects(c, p, e) == c.op = "disconnect" /\ c.port = p /\ c.by = e
AccountedFor(p) ==
  end[p]["opener"] = "open" =>
    \/ p \in route
    \/ \E c \in cmds : Connects(c, p)
    \/ \E c \in cmds : Disconnects(c, p, "target") /\ c.at = "routed"
    \/ \E n \in DOMAIN events["opener"] :
         events["opener"][n].kind = "disconnect" /\ events["opener"][n].port = p
OpenOpenerIsRouted == \A p \in PortIds : AccountedFor(p)

\* A worker's end that was disconnected stays so as long as its page is there:
\* no second announcement of the port revives it.
NoRevival ==
  [][\A p \in PortIds : end[p]["target"] = "closed" => end'[p]["target"] # "open"]_vars

\* When the worker disconnects a port, the opener's end is told in the end,
\* whatever happens to the worker's page meanwhile.
CloseReachesOpener ==
  \A p \in PortIds : end[p]["target"] = "closed" ~> end[p]["opener"] # "open"

\* A connect always comes to an end: the port is routed or the opener knows it
\* is not.
ConnectSettles ==
  \A p \in PortIds :
    end[p]["opener"] = "open" ~> p \in route \/ end[p]["opener"] # "open"
=============================================================================
