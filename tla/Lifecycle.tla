----------------------------- MODULE Lifecycle -----------------------------
(***************************************************************************)
(* The lifecycle manager (src/lifecycle/manager.rs): concurrent install,   *)
(* reload, enable, disable and uninstall calls over entries that live      *)
(* behind one tokio mutex each, the hidden background windows they spawn   *)
(* and tear down, and what every transition publishes afterwards: the      *)
(* resource root, the lifecycle events, the state file and the registry    *)
(* projection.  Boot, the watchdog sweep and application exit are          *)
(* processes of the same system.                                           *)
(*                                                                         *)
(* One atomic step is the code between two awaits, or a call on shared     *)
(* state that another thread can interleave with.                          *)
(***************************************************************************)
EXTENDS Naturals, FiniteSets

CONSTANTS
  Ids,         \* extension ids
  Dirs,        \* directories holding unpacked extensions
  Labels,      \* window labels
  LabelOf,     \* the label bg_window_label gives an id
  Objs,        \* entry objects; |Objs| - |Ids| bounds a lifetime's uninstalls
  Callers,     \* host commands that may be in flight at once
  MaxBusy,     \* how many processes may be in flight at once (a bound)
  Ops,         \* the operations the environment performs
  Manifests,   \* what a developer may leave in a directory
  FirstDisk,   \* what the directories hold at first
  Registering, \* ids whose worker registers dynamic content scripts
  SlowClose,   \* whether a requested close may outlive the ceilings
  None

Procs    == Callers \cup {"boot", "dog", "main"}
Sweepers == {"boot", "dog"}
States == {"installed", "running", "stopping", "stopped", "uninstalling"}
Absent == [st |-> "free", ext |-> None]

ASSUME ConstantsAssumption ==
  /\ LabelOf \in [Ids -> Labels]
  /\ MaxBusy \in Nat
  /\ Manifests \subseteq [id : Ids, sw : BOOLEAN] \cup {None}
  /\ FirstDisk \in [Dirs -> Manifests]
  /\ Callers \cap {"boot", "dog", "main"} = {}
  /\ None \notin Ids \cup Dirs \cup Labels \cup Objs \cup Procs
  /\ None \notin [dir : Dirs, enabled : BOOLEAN]

VARIABLES
  disk,     \* the manifest each directory holds
  entries,  \* the manager's map: id -> entry object
  heap,     \* the entry objects, kept alive by the map and by running calls
  lock,     \* each entry's mutex: its holder
  win,      \* Tauri's window registrar: label -> window
  roots,    \* ResourceRegistry: id -> directory served over extres://
  scripts,  \* ids with dynamic content scripts in DynamicScriptStore
  flying,   \* each id's registerContentScripts call: posted, resolved
  registry, \* ExtensionRegistry: the directory projected for each id
  store,    \* state.json: id -> persisted row
  view,     \* what an observer of the lifecycle events believes of each id
  unsaved,  \* history: ids whose row is not theirs since a save or a load failed
  fresh,    \* history: the entries started since each sweep in flight began
  pc, op, ref, loc  \* each process: next step, operation, entry held, locals

envVars   == <<disk, store, unsaved, fresh>>
entryVars == <<entries, heap, lock>>
outVars   == <<win, roots, scripts, flying, registry, view>>
procVars  == <<pc, op, ref, loc>>
vars      == <<envVars, entryVars, outVars, procVars>>

Entry == [id : Ids \cup {None}, dir : Dirs \cup {None}, enabled : BOOLEAN,
          st : States, hdl : Labels \cup {None}]
Row   == [dir : Dirs, enabled : BOOLEAN]
Rows  == [Ids -> Row \cup {None}]
Local == [id : Ids \cup {None}, dir : Dirs \cup {None}, sw : BOOLEAN,
          hdl : Labels \cup {None}, freed : BOOLEAN,
          walk : {"none", "rows", "project", "known", "shutdown"},
          todo : SUBSET Ids, rows : Rows, labels : SUBSET Labels,
          restore : SUBSET (Ids \X Dirs)]

Steps == {"idle", "parse", "peek", "entry", "lock", "teardown", "root", "await1",
          "build1", "await2", "build2", "built", "adopt", "commit", "remove",
          "unroot", "emit", "persist", "project", "walk", "visit", "sweep",
          "reap", "restore", "exited"}

Unused  == [id |-> None, dir |-> None, enabled |-> TRUE, st |-> "installed",
            hdl |-> None]
NoRows  == [i \in Ids |-> None]
NoLocal == [id |-> None, dir |-> None, sw |-> FALSE, hdl |-> None,
            freed |-> FALSE, walk |-> "none", todo |-> {}, rows |-> NoRows,
            labels |-> {}, restore |-> {}]

-----------------------------------------------------------------------------
(* Mutants of the helpers below (a mutant is the code with a plausible bug;  *)
(* the runs must tell it from the code): label waits with a zero ceiling; a  *)
(* mutex that is dropped before the teardown is awaited, or never dropped.   *)

ZeroCeiling(l)  == win[l].st # "free"
TakeAndDrop(t)  == lock[ref[t]] = None /\ UNCHANGED lock
NeverUnlock(t)  == UNCHANGED lock

(* Helpers. *)

Known       == {i \in Ids : entries[i] # None}
Running(o)  == heap[o].st = "running"
Free(l)     == win[l].st = "free"
Busy        == {t \in Procs : pc[t] # "idle"}
MainPumps   == pc["main"] = "idle"
Mine(t)     == heap[ref[t]]
LabelFor(t) == LabelOf[loc[t].id]

\* reload keeps DashMap's shard guard over its key while it waits for the
\* entry mutex, so entry() and remove() on that key block.
ShardHeld(i) == \E t \in Procs : pc[t] = "peek" /\ loc[t].id = i

\* window.close(): the registrar keeps the label until the event loop has
\* processed the close; closing an absent window is a no-op.
CloseRequested(l) ==
  IF l = None \/ Free(l) THEN win ELSE [win EXCEPT ![l].st = "closing"]

\* A bounded wait for a label gives up: nothing is closing the window, or its
\* teardown outlives the ceiling, as it does when the main thread does not pump.
CeilingHit(l) ==
  win[l].st = "open" \/ (win[l].st = "closing" /\ (SlowClose \/ ~MainPumps))

At(t, p, ops)  == pc[t] = p /\ op[t] \in ops
Goto(t, p)     == pc' = [pc EXCEPT ![t] = p]
SetEntry(t, e) == heap' = [heap EXCEPT ![ref[t]] = e]
Take(t)        == lock[ref[t]] = None /\ lock' = [lock EXCEPT ![ref[t]] = t]
Unlock(t)      == lock' = [lock EXCEPT ![ref[t]] = None]
See(i, v)      == view' = [view EXCEPT ![i] = v]

\* A call returns; boot goes on with its next row.
Return(t) ==
  /\ Goto(t, IF t = "boot" THEN "restore" ELSE "idle")
  /\ op'  = [op EXCEPT ![t] = "none"]
  /\ ref' = [ref EXCEPT ![t] = None]
  /\ loc' = [loc EXCEPT ![t] = [NoLocal EXCEPT !.restore = loc[t].restore]]

\* Every walk over the entries starts from a snapshot of the ids.
StartWalk(t, kind) ==
  /\ Goto(t, "walk")
  /\ loc' = [loc EXCEPT ![t] = [@ EXCEPT !.walk = kind, !.todo = Known]]

\* What a fresh process starts from; boot's task is already spawned.
FreshPc == [t \in Procs |-> IF t = "boot" THEN "sweep" ELSE "idle"]
FreshOp == [t \in Procs |-> IF t = "boot" THEN "boot" ELSE "none"]
Nothing == [i \in Ids |-> None]

Init ==
  /\ disk = FirstDisk /\ store = NoRows
  /\ unsaved = {} /\ fresh = [s \in Sweepers |-> {}]
  /\ entries = Nothing /\ roots = Nothing /\ registry = Nothing
  /\ heap = [o \in Objs |-> Unused] /\ lock = [o \in Objs |-> None]
  /\ win = [l \in Labels |-> Absent]
  /\ view = [i \in Ids |-> "absent"]
  /\ scripts = {} /\ flying = [i \in Ids |-> "none"]
  /\ pc = FreshPc /\ op = FreshOp
  /\ ref = [t \in Procs |-> None] /\ loc = [t \in Procs |-> NoLocal]

-----------------------------------------------------------------------------
(* Calls from the host. *)

\* Without "early" in Ops the host makes its first call when boot is over.
MayCall(t, o) ==
  /\ pc[t] = "idle" /\ o \in Ops /\ Cardinality(Busy) < MaxBusy
  /\ pc["boot"] = "idle" \/ "early" \in Ops

\* The bound Objs: an uninstall starts only if the entries that may be added
\* before and after it still have an object each.
MayUninstall ==
  Cardinality({o \in Objs : heap[o].id = None}) >
    Cardinality(Ids \ Known) + Cardinality({t \in Procs :
      op[t] = "uninstall" /\ pc[t] \in {"lock", "teardown", "remove"}})

CallInstall(t, d) ==
  /\ MayCall(t, "install")
  /\ op'  = [op EXCEPT ![t] = "install"]
  /\ loc' = [loc EXCEPT ![t].dir = d]
  /\ Goto(t, "parse")
  /\ UNCHANGED <<envVars, entryVars, outVars, ref>>

\* uninstall, disable, enable: an unknown id is an error, and the entry's Arc
\* is cloned out of the map before its mutex is awaited.
CallOn(t, o, i) ==
  /\ MayCall(t, o) /\ entries[i] # None /\ (o = "uninstall" => MayUninstall)
  /\ op'  = [op EXCEPT ![t] = o]
  /\ ref' = [ref EXCEPT ![t] = entries[i]]
  /\ loc' = [loc EXCEPT ![t].id = i]
  /\ Goto(t, IF o = "reload" THEN "peek" ELSE "lock")
  /\ UNCHANGED <<envVars, entryVars, outVars>>

Peek(t) ==
  /\ pc[t] = "peek" /\ lock[ref[t]] = None
  /\ loc' = [loc EXCEPT ![t] = [@ EXCEPT !.dir = Mine(t).dir, !.id = None]]
  /\ ref' = [ref EXCEPT ![t] = None]
  /\ Goto(t, "parse")
  /\ UNCHANGED <<envVars, entryVars, outVars, op>>

-----------------------------------------------------------------------------
(* install_or_reload. *)

ParseFails(t) ==
  /\ pc[t] = "parse" /\ disk[loc[t].dir] = None
  /\ Return(t)
  /\ UNCHANGED <<envVars, entryVars, outVars>>

Parse(t) ==
  /\ pc[t] = "parse"
  /\ LET m == disk[loc[t].dir] IN
       /\ m # None
       /\ loc' = [loc EXCEPT ![t] = [@ EXCEPT !.id = m.id, !.sw = m.sw]]
  /\ Goto(t, "entry")
  /\ UNCHANGED <<envVars, entryVars, outVars, op, ref>>

EntryFound(t) ==
  /\ pc[t] = "entry" /\ ~ShardHeld(loc[t].id)
  /\ entries[loc[t].id] # None
  /\ ref' = [ref EXCEPT ![t] = entries[loc[t].id]]
  /\ Goto(t, "lock")
  /\ UNCHANGED <<envVars, entryVars, outVars, op, loc>>

EntryAdded(t, o) ==
  /\ pc[t] = "entry" /\ ~ShardHeld(loc[t].id)
  /\ entries[loc[t].id] = None /\ heap[o].id = None
  /\ entries' = [entries EXCEPT ![loc[t].id] = o]
  /\ heap' = [heap EXCEPT ![o] = [Unused EXCEPT !.id = loc[t].id,
                                                !.dir = loc[t].dir]]
  /\ ref' = [ref EXCEPT ![t] = o]
  /\ Goto(t, "lock")
  /\ UNCHANGED <<envVars, lock, outVars, op, loc>>

\* A reload first stops the running worker: begin_stopping moves the handle
\* out of the entry, and shutdown asks the window to close.
InstallOverRunning(t) ==
  /\ At(t, "lock", {"install", "reload"}) /\ Take(t) /\ Mine(t).st = "running"
  /\ SetEntry(t, [Mine(t) EXCEPT !.dir = loc[t].dir, !.st = "stopping",
                                 !.hdl = None])
  /\ win' = CloseRequested(Mine(t).hdl)
  /\ loc' = [loc EXCEPT ![t].hdl = Mine(t).hdl]
  /\ Goto(t, "teardown")
  /\ UNCHANGED <<envVars, entries, roots, scripts, flying, registry, view,
                 op, ref>>

InstallOverIdle(t) ==
  /\ At(t, "lock", {"install", "reload"}) /\ Take(t) /\ Mine(t).st # "running"
  /\ SetEntry(t, [Mine(t) EXCEPT !.dir = loc[t].dir])
  /\ Goto(t, "root")
  /\ UNCHANGED <<envVars, entries, outVars, op, ref, loc>>

-----------------------------------------------------------------------------
(* uninstall, disable, enable, up to the worker's teardown. *)

\* Mutant: the state is overwritten before the handle is taken out of it.
UninstallDropsHandle(t) ==
  /\ At(t, "lock", {"uninstall"}) /\ Take(t)
  /\ SetEntry(t, [Mine(t) EXCEPT !.st = "uninstalling", !.hdl = None])
  /\ Goto(t, "teardown")
  /\ UNCHANGED <<envVars, entries, outVars, op, ref, loc>>

\* Mutant: the entry is removed from the map before its worker is torn down.
RemoveFirst(t) ==
  /\ At(t, "lock", {"uninstall"}) /\ Take(t)
  /\ SetEntry(t, [Mine(t) EXCEPT !.st = "uninstalling", !.hdl = None])
  /\ entries' = [entries EXCEPT ![loc[t].id] = None]
  /\ win' = CloseRequested(Mine(t).hdl)
  /\ loc' = [loc EXCEPT ![t].hdl = Mine(t).hdl]
  /\ Goto(t, "teardown")
  /\ UNCHANGED <<envVars, roots, scripts, flying, registry, view, op, ref>>

UninstallLocks(t) ==
  /\ At(t, "lock", {"uninstall"}) /\ Take(t)
  /\ SetEntry(t, [Mine(t) EXCEPT !.st = "uninstalling", !.hdl = None])
  /\ win' = CloseRequested(Mine(t).hdl)
  /\ loc' = [loc EXCEPT ![t].hdl = Mine(t).hdl]
  /\ Goto(t, "teardown")
  /\ UNCHANGED <<envVars, entries, roots, scripts, flying, registry, view,
                 op, ref>>

DisableLocks(t) ==
  /\ At(t, "lock", {"disable"}) /\ Take(t) /\ Mine(t).st = "running"
  /\ SetEntry(t, [Mine(t) EXCEPT !.st = "stopping", !.hdl = None])
  /\ win' = CloseRequested(Mine(t).hdl)
  /\ loc' = [loc EXCEPT ![t].hdl = Mine(t).hdl]
  /\ Goto(t, "teardown")
  /\ UNCHANGED <<envVars, entries, roots, scripts, flying, registry, view,
                 op, ref>>

\* Nothing to stop: only the flag changes, and the mutex is released at once.
DisableIdle(t) ==
  /\ At(t, "lock", {"disable"}) /\ lock[ref[t]] = None
  /\ Mine(t).st # "running"
  /\ SetEntry(t, [Mine(t) EXCEPT !.enabled = FALSE])
  /\ Goto(t, "emit")
  /\ UNCHANGED <<envVars, entries, lock, outVars, op, ref, loc>>

\* enable of a running entry returns without persisting or emitting.
EnableRunning(t) ==
  /\ At(t, "lock", {"enable"}) /\ lock[ref[t]] = None
  /\ Mine(t).st = "running"
  /\ SetEntry(t, [Mine(t) EXCEPT !.enabled = TRUE])
  /\ Return(t)
  /\ UNCHANGED <<envVars, entries, lock, outVars>>

EnableFails(t) ==
  /\ At(t, "lock", {"enable"}) /\ lock[ref[t]] = None
  /\ Mine(t).st # "running" /\ disk[Mine(t).dir] = None
  /\ Return(t)
  /\ UNCHANGED <<envVars, entryVars, outVars>>

EnableLocks(t) ==
  /\ At(t, "lock", {"enable"}) /\ Take(t) /\ Mine(t).st # "running"
  /\ disk[Mine(t).dir] # None
  /\ loc' = [loc EXCEPT ![t] = [@ EXCEPT !.dir = Mine(t).dir,
                                         !.sw = disk[Mine(t).dir].sw]]
  /\ Goto(t, "root")
  /\ UNCHANGED <<envVars, entries, heap, outVars, op, ref>>

-----------------------------------------------------------------------------
(* The teardown wait of BackgroundHandle::shutdown, and what follows it. *)

TornDown(t) ==
  /\ pc[t] = "teardown"
  /\ loc[t].hdl \in {None} \cup {l \in Labels : Free(l) \/ CeilingHit(l)}

ReloadStopped(t) ==
  /\ TornDown(t) /\ op[t] \in {"install", "reload"}
  /\ scripts' = scripts \ {Mine(t).id}
  /\ SetEntry(t, [Mine(t) EXCEPT !.st = "stopped"])
  /\ Goto(t, "root")
  /\ UNCHANGED <<envVars, entries, lock, win, roots, flying, registry, view,
                 op, ref, loc>>

\* Mutant: the entry stays enabled, and a later boot would start it.
KeepEnabled(t) ==
  /\ TornDown(t) /\ op[t] = "disable"
  /\ scripts' = scripts \ {Mine(t).id}
  /\ SetEntry(t, [Mine(t) EXCEPT !.st = "stopped"])
  /\ See(Mine(t).id, "stopped")
  /\ Unlock(t)
  /\ Goto(t, "emit")
  /\ UNCHANGED <<envVars, entries, win, roots, flying, registry, op, ref, loc>>

DisableStopped(t) ==
  /\ TornDown(t) /\ op[t] = "disable"
  /\ scripts' = scripts \ {Mine(t).id}
  /\ SetEntry(t, [Mine(t) EXCEPT !.st = "stopped", !.enabled = FALSE])
  /\ See(Mine(t).id, "stopped")
  /\ Unlock(t)
  /\ Goto(t, "emit")
  /\ UNCHANGED <<envVars, entries, win, roots, flying, registry, op, ref, loc>>

\* Mutant: the mutex is still held when the entry is removed from the map.
RemoveLocked(t) ==
  /\ TornDown(t) /\ op[t] = "uninstall"
  /\ Goto(t, "remove")
  /\ UNCHANGED <<envVars, entryVars, outVars, op, ref, loc>>

UninstallStopped(t) ==
  /\ TornDown(t) /\ op[t] = "uninstall"
  /\ Unlock(t)
  /\ Goto(t, "remove")
  /\ UNCHANGED <<envVars, entries, heap, outVars, op, ref, loc>>

\* The removal is by id: it drops whatever entry the map holds by now.
Remove(t) ==
  /\ pc[t] = "remove" /\ ~ShardHeld(loc[t].id)
  /\ entries' = [entries EXCEPT ![loc[t].id] = None]
  /\ Goto(t, "unroot")
  /\ UNCHANGED <<envVars, heap, lock, outVars, op, ref, loc>>

\* Mutant: uninstall emits no event.
UnrootSilently(t) ==
  /\ pc[t] = "unroot"
  /\ roots' = [roots EXCEPT ![loc[t].id] = None]
  /\ Goto(t, "persist")
  /\ UNCHANGED <<envVars, entryVars, win, scripts, flying, registry, view,
                 op, ref, loc>>

Unroot(t) ==
  /\ pc[t] = "unroot"
  /\ roots' = [roots EXCEPT ![loc[t].id] = None]
  /\ See(loc[t].id, "absent")
  /\ Goto(t, "persist")
  /\ UNCHANGED <<envVars, entryVars, win, scripts, flying, registry,
                 op, ref, loc>>

-----------------------------------------------------------------------------
(* try_spawn and Webview2Backend::spawn_background, under the entry mutex. *)

PublishRoot(t) ==
  /\ pc[t] = "root"
  /\ roots' = [roots EXCEPT ![loc[t].id] = loc[t].dir]
  /\ loc' = [loc EXCEPT ![t].hdl = None]
  /\ Goto(t, IF loc[t].sw THEN "await1" ELSE "commit")
  /\ UNCHANGED <<envVars, entryVars, win, scripts, flying, registry, view,
                 op, ref>>

FirstAwait(t) ==
  /\ pc[t] = "await1" /\ (Free(LabelFor(t)) \/ CeilingHit(LabelFor(t)))
  /\ Goto(t, "build1")
  /\ UNCHANGED <<envVars, entryVars, outVars, op, ref, loc>>

\* The build runs on the main thread; the caller's thread blocks on it.
Build(t) ==
  /\ pc[t] \in {"build1", "build2"} /\ MainPumps /\ Free(LabelFor(t))
  /\ win' = [win EXCEPT ![LabelFor(t)] = [st |-> "open", ext |-> loc[t].id]]
  /\ Goto(t, "built")
  /\ UNCHANGED <<envVars, entryVars, roots, scripts, flying, registry, view,
                 op, ref, loc>>

\* Any build error but AlreadyExists: the entry runs without a worker.
BuildFails(t) ==
  /\ pc[t] \in {"build1", "build2"} /\ MainPumps /\ "buildfail" \in Ops
  /\ Goto(t, "commit")
  /\ UNCHANGED <<envVars, entryVars, outVars, op, ref, loc>>

LabelTaken(t) ==
  /\ pc[t] = "build1" /\ MainPumps /\ ~Free(LabelFor(t))
  /\ Goto(t, "await2")
  /\ UNCHANGED <<envVars, entryVars, outVars, op, ref, loc>>

SecondAwait(t) ==
  /\ pc[t] = "await2" /\ (Free(LabelFor(t)) \/ CeilingHit(LabelFor(t)))
  /\ loc' = [loc EXCEPT ![t].freed = Free(LabelFor(t))]
  /\ Goto(t, "build2")
  /\ UNCHANGED <<envVars, entryVars, outVars, op, ref>>

\* Taken again: adopt the window if it never left, fail otherwise.
StillTaken(t) ==
  /\ pc[t] = "build2" /\ MainPumps /\ ~Free(LabelFor(t))
  /\ Goto(t, IF loc[t].freed THEN "commit" ELSE "adopt")
  /\ UNCHANGED <<envVars, entryVars, outVars, op, ref, loc>>

\* Mutant: the extension's id is returned for its window's label.
TakeId(t) ==
  /\ pc[t] \in {"built", "adopt"}
  /\ loc' = [loc EXCEPT ![t].hdl = loc[t].id]
  /\ Goto(t, "commit")
  /\ UNCHANGED <<envVars, entryVars, outVars, op, ref>>

\* Both exits look the window up once more before returning its handle.
TakeHandle(t) ==
  /\ pc[t] \in {"built", "adopt"}
  /\ loc' = [loc EXCEPT ![t].hdl = IF Free(LabelFor(t)) THEN None
                                   ELSE LabelFor(t)]
  /\ Goto(t, "commit")
  /\ UNCHANGED <<envVars, entryVars, outVars, op, ref>>

\* History: an entry is started beside the sweeps in flight.
Sweeping(s)   == loc[s].walk = "known"
NoteStart(o)  == fresh' =
  [s \in Sweepers |-> IF Sweeping(s) THEN fresh[s] \cup {o} ELSE fresh[s]]
ForgetStarts(t) == fresh' = [fresh EXCEPT ![t] = {}]

\* The entry runs; install emits its events before it drops the mutex.
CommitInstall(t) ==
  /\ At(t, "commit", {"install", "reload"})
  /\ SetEntry(t, [Mine(t) EXCEPT !.st = "running", !.hdl = loc[t].hdl,
                                 !.enabled = TRUE])
  /\ See(loc[t].id, "running")
  /\ Unlock(t) /\ NoteStart(ref[t])
  /\ Goto(t, "persist")
  /\ UNCHANGED <<disk, store, unsaved, entries, win, roots, scripts, flying, registry,
                 op, ref, loc>>

CommitEnable(t) ==
  /\ At(t, "commit", {"enable"})
  /\ SetEntry(t, [Mine(t) EXCEPT !.st = "running", !.hdl = loc[t].hdl,
                                 !.enabled = TRUE])
  /\ Unlock(t) /\ NoteStart(ref[t])
  /\ Goto(t, "emit")
  /\ UNCHANGED <<disk, store, unsaved, entries, outVars, op, ref, loc>>

\* Mutant: a call returns once its event is out, and leaves the file as it was.
EmitUnsaved(t) ==
  /\ pc[t] = "emit"
  /\ See(loc[t].id, IF op[t] = "enable" THEN "running" ELSE "stopped")
  /\ Return(t)
  /\ UNCHANGED <<envVars, entryVars, win, roots, scripts, flying, registry>>

\* disable and enable emit after dropping the mutex.
EmitLate(t) ==
  /\ pc[t] = "emit"
  /\ See(loc[t].id, IF op[t] = "enable" THEN "running" ELSE "stopped")
  /\ Goto(t, "persist")
  /\ UNCHANGED <<envVars, entryVars, win, roots, scripts, flying, registry,
                 op, ref, loc>>

-----------------------------------------------------------------------------
(* The tail of every transition: persist, then reproject; and the walk     *)
(* over the entries they share with reconcile_orphans and shutdown_all.    *)

BeginPersist(t) ==
  /\ pc[t] = "persist"
  /\ StartWalk(t, "rows")
  /\ ref' = [ref EXCEPT ![t] = None]
  /\ UNCHANGED <<envVars, entryVars, outVars, op>>

WalkNext(t, i) ==
  /\ pc[t] = "walk" /\ i \in loc[t].todo
  /\ loc' = [loc EXCEPT ![t].todo = @ \ {i}]
  /\ IF entries[i] = None
       THEN UNCHANGED <<pc, ref>>
       ELSE ref' = [ref EXCEPT ![t] = entries[i]] /\ Goto(t, "visit")
  /\ UNCHANGED <<envVars, entryVars, outVars, op>>

Visiting(t, kind) ==
  /\ pc[t] = "visit" /\ loc[t].walk = kind /\ lock[ref[t]] = None
  /\ Goto(t, "walk")
  /\ ref' = [ref EXCEPT ![t] = None]
Walked(t, kind) == pc[t] = "walk" /\ loc[t].walk = kind /\ loc[t].todo = {}

CollectRow(t) ==
  /\ Visiting(t, "rows")
  /\ loc' = [loc EXCEPT ![t].rows[Mine(t).id] =
                [dir |-> Mine(t).dir, enabled |-> Mine(t).enabled]]
  /\ UNCHANGED <<envVars, entryVars, outVars, op>>

\* store.save replaces the file with the rows collected,
Save(t) ==
  /\ Walked(t, "rows")
  /\ store' = loc[t].rows /\ unsaved' = {}
  /\ loc' = [loc EXCEPT ![t].rows = NoRows]
  /\ Goto(t, "project")
  /\ UNCHANGED <<disk, fresh, entryVars, outVars, op, ref>>

\* Mutant: a save that fails has already taken the file away.
SaveTruncates(t) ==
  /\ Walked(t, "rows") /\ "savefail" \in Ops
  /\ store' = NoRows /\ unsaved' = unsaved \cup {loc[t].id}
  /\ loc' = [loc EXCEPT ![t].rows = NoRows]
  /\ Goto(t, "project")
  /\ UNCHANGED <<disk, fresh, entryVars, outVars, op, ref>>

\* ... or fails and leaves it alone: the call warns, goes on and reports success.
SaveFails(t) ==
  /\ Walked(t, "rows") /\ "savefail" \in Ops
  /\ unsaved' = unsaved \cup {loc[t].id}
  /\ loc' = [loc EXCEPT ![t].rows = NoRows]
  /\ Goto(t, "project")
  /\ UNCHANGED <<disk, store, fresh, entryVars, outVars, op, ref>>

\* project_into_registry: snapshot the ids, drop what the map lost.
Prune(t) ==
  /\ pc[t] = "project"
  /\ registry' = [i \in Ids |-> IF entries[i] = None THEN None ELSE registry[i]]
  /\ StartWalk(t, "project")
  /\ UNCHANGED <<envVars, entryVars, win, roots, scripts, flying, view, op, ref>>

Project(t) ==
  /\ Visiting(t, "project")
  /\ registry' = [registry EXCEPT ![Mine(t).id] = Mine(t).dir]
  /\ UNCHANGED <<envVars, entryVars, win, roots, scripts, flying, view, op, loc>>

EndProject(t) ==
  /\ Walked(t, "project") /\ op[t] # "uninstall"
  /\ Return(t)
  /\ UNCHANGED <<envVars, entryVars, outVars>>

\* extensions_unload drops the dynamic scripts after uninstall returned.
EndUninstall(t) ==
  /\ Walked(t, "project") /\ op[t] = "uninstall"
  /\ scripts' = scripts \ {loc[t].id}
  /\ Return(t)
  /\ UNCHANGED <<envVars, entryVars, win, roots, flying, registry, view>>

-----------------------------------------------------------------------------
(* reconcile_orphans, run at boot and by the watchdog. *)

Sweep(t) ==
  /\ \/ t = "boot" /\ pc[t] = "sweep" /\ UNCHANGED op
     \/ t = "dog" /\ MayCall(t, "sweep") /\ op' = [op EXCEPT ![t] = "sweep"]
  /\ StartWalk(t, "known")
  /\ UNCHANGED <<envVars, entryVars, outVars, ref>>

\* Mutant: the test of the handle is the wrong way round.
NoteNothing(t) ==
  /\ Visiting(t, "known")
  /\ loc' = [loc EXCEPT ![t].labels =
                IF Running(ref[t]) THEN @ ELSE @ \cup ({Mine(t).hdl} \ {None})]
  /\ UNCHANGED <<envVars, entryVars, outVars, op>>

NoteLabel(t) ==
  /\ Visiting(t, "known")
  /\ loc' = [loc EXCEPT ![t].labels =
                IF Running(ref[t]) THEN @ \cup ({Mine(t).hdl} \ {None}) ELSE @]
  /\ UNCHANGED <<envVars, entryVars, outVars, op>>

\* Mutant: any label an extension could have counts as owned.
ListForeign(t) ==
  /\ Walked(t, "known")
  /\ loc' = [loc EXCEPT ![t].labels =
       {l \in Labels : ~Free(l)} \ {LabelOf[i] : i \in Ids}]
  /\ Goto(t, "reap")
  /\ UNCHANGED <<envVars, entryVars, outVars, op, ref>>

\* The registrar is listed after the walk; labels becomes the strays.
ListWindows(t) ==
  /\ Walked(t, "known")
  /\ loc' = [loc EXCEPT ![t].labels = {l \in Labels : ~Free(l)} \ @]
  /\ Goto(t, "reap")
  /\ UNCHANGED <<envVars, entryVars, outVars, op, ref>>

Reap(t, l) ==
  /\ pc[t] = "reap" /\ l \in loc[t].labels
  /\ win' = CloseRequested(l)
  /\ loc' = [loc EXCEPT ![t].labels = @ \ {l}]
  /\ UNCHANGED <<envVars, entryVars, roots, scripts, flying, registry, view,
                 pc, op, ref>>

EndSweep(t) ==
  /\ pc[t] = "reap" /\ loc[t].labels = {} /\ t = "dog"
  /\ Return(t) /\ ForgetStarts(t)
  /\ UNCHANGED <<disk, store, unsaved, entryVars, outVars>>

\* Mutant: the filter on the enabled flag is inverted.
LoadDisabled(t) ==
  /\ pc[t] = "reap" /\ loc[t].labels = {} /\ t = "boot"
  /\ loc' = [loc EXCEPT ![t] = [NoLocal EXCEPT !.restore =
       {<<i, store[i].dir>> : i \in {j \in Ids : store[j] # None /\ ~store[j].enabled}}]]
  /\ Goto(t, "restore") /\ ForgetStarts(t)
  /\ UNCHANGED <<disk, store, unsaved, entryVars, outVars, op, ref>>

\* boot_restore reinstalls the rows that were last enabled, one at a time.
LoadStore(t) ==
  /\ pc[t] = "reap" /\ loc[t].labels = {} /\ t = "boot"
  /\ loc' = [loc EXCEPT ![t] = [NoLocal EXCEPT !.restore =
       {<<i, store[i].dir>> : i \in {j \in Ids : store[j] # None /\ store[j].enabled}}]]
  /\ Goto(t, "restore") /\ ForgetStarts(t)
  /\ UNCHANGED <<disk, store, unsaved, entryVars, outVars, op, ref>>

\* The file cannot be read or decoded: boot gives up and restores nothing.
LoadFails(t) ==
  /\ pc[t] = "reap" /\ loc[t].labels = {} /\ t = "boot" /\ "loadfail" \in Ops
  /\ unsaved' = unsaved \cup {i \in Ids : store[i] # None}
  /\ loc' = [loc EXCEPT ![t] = NoLocal]
  /\ Goto(t, "restore") /\ ForgetStarts(t)
  /\ UNCHANGED <<disk, store, entryVars, outVars, op, ref>>

\* Mutant: the rows after the first are dropped.
RestoreFirst(t, r) ==
  /\ pc[t] = "restore" /\ r \in loc[t].restore
  /\ op'  = [op EXCEPT ![t] = "install"]
  /\ loc' = [loc EXCEPT ![t] = [@ EXCEPT !.dir = r[2], !.restore = {}]]
  /\ Goto(t, "parse")
  /\ UNCHANGED <<envVars, entryVars, outVars, ref>>

RestoreNext(t, r) ==
  /\ pc[t] = "restore" /\ r \in loc[t].restore
  /\ op'  = [op EXCEPT ![t] = "install"]
  /\ loc' = [loc EXCEPT ![t] = [@ EXCEPT !.dir = r[2],
                                         !.restore = loc[t].restore \ {r}]]
  /\ Goto(t, "parse")
  /\ UNCHANGED <<envVars, entryVars, outVars, ref>>

RestoreDone(t) ==
  /\ pc[t] = "restore" /\ loc[t].restore = {}
  /\ Goto(t, "idle")
  /\ op' = [op EXCEPT ![t] = "none"]
  /\ UNCHANGED <<envVars, entryVars, outVars, ref, loc>>

-----------------------------------------------------------------------------
(* Application exit: shutdown_all under block_on on the main thread.  Until *)
(* it returns the event loop neither processes closes nor runs builds.      *)

ExitRequested ==
  /\ MainPumps /\ "exit" \in Ops
  /\ op' = [op EXCEPT !["main"] = "exit"]
  /\ StartWalk("main", "shutdown")
  /\ UNCHANGED <<envVars, entryVars, outVars, ref>>

ShutdownVisit(t) ==
  /\ Visiting(t, "shutdown")
  /\ IF Running(ref[t])
       THEN /\ SetEntry(t, [Mine(t) EXCEPT !.st = "stopped", !.hdl = None])
            /\ win' = CloseRequested(Mine(t).hdl)
            /\ scripts' = scripts \ {Mine(t).id}
            /\ See(Mine(t).id, "stopped")
       ELSE UNCHANGED <<heap, win, scripts, view>>
  /\ UNCHANGED <<envVars, entries, lock, roots, flying, registry, op, loc>>

ExitDone(t) ==
  /\ Walked(t, "shutdown")
  /\ Goto(t, "exited")
  /\ UNCHANGED <<envVars, entryVars, outVars, op, ref, loc>>

-----------------------------------------------------------------------------
(* The environment: the event loop, workers, developers, crashes. *)

Destroyed(l) ==
  /\ MainPumps /\ win[l].st = "closing"
  /\ win' = [win EXCEPT ![l] = Absent]
  /\ UNCHANGED <<envVars, entryVars, roots, scripts, flying, registry, view,
                 procVars>>

\* chrome.scripting.registerContentScripts: a live worker posts the call; by
\* the time its source directory is resolved the worker may be gone, and more
\* so when the scripts are stored.  Only an extension that neither the
\* registry nor, under its mutex, the manager has is refused.
RegisterCalled(i) ==
  /\ i \in Registering /\ flying[i] = "none"
  /\ \E l \in Labels : win[l].st = "open" /\ win[l].ext = i
  /\ flying' = [flying EXCEPT ![i] = "posted"]
  /\ UNCHANGED <<envVars, entryVars, win, roots, scripts, registry, view,
                 procVars>>

RegisterResolved(i) ==
  /\ flying[i] = "posted"
  /\ registry[i] = None /\ i \in Known => lock[entries[i]] = None
  /\ flying' = [flying EXCEPT ![i] =
                 IF registry[i] = None /\ i \notin Known THEN "none" ELSE "resolved"]
  /\ UNCHANGED <<envVars, entryVars, win, roots, scripts, registry, view,
                 procVars>>

RegisterServed(i) ==
  /\ flying[i] = "resolved"
  /\ scripts' = scripts \cup {i}
  /\ flying' = [flying EXCEPT ![i] = "none"]
  /\ UNCHANGED <<envVars, entryVars, win, roots, registry, view, procVars>>

EditDisk(d, m) ==
  /\ "edit" \in Ops /\ disk[d] # m
  /\ disk' = [disk EXCEPT ![d] = m]
  /\ UNCHANGED <<store, unsaved, fresh, entryVars, outVars, procVars>>

\* The process ends, by a crash or after exit, and is started again.
Restart ==
  /\ "crash" \in Ops \/ pc["main"] = "exited"
  /\ entries' = Nothing /\ roots' = Nothing /\ registry' = Nothing
  /\ heap' = [o \in Objs |-> Unused] /\ lock' = [o \in Objs |-> None]
  /\ win' = [l \in Labels |-> Absent]
  /\ view' = [i \in Ids |-> "absent"]
  /\ scripts' = {} /\ flying' = [i \in Ids |-> "none"]
  /\ pc' = FreshPc /\ op' = FreshOp
  /\ ref' = [t \in Procs |-> None] /\ loc' = [t \in Procs |-> NoLocal]
  /\ unsaved' = {} /\ fresh' = [s \in Sweepers |-> {}]
  /\ UNCHANGED <<disk, store>>

Advance(t) ==
  \/ Peek(t) \/ ParseFails(t) \/ Parse(t) \/ EntryFound(t)
  \/ \E o \in Objs : EntryAdded(t, o)
  \/ InstallOverRunning(t) \/ InstallOverIdle(t) \/ UninstallLocks(t)
  \/ DisableLocks(t) \/ DisableIdle(t)
  \/ EnableRunning(t) \/ EnableFails(t) \/ EnableLocks(t)
  \/ ReloadStopped(t) \/ DisableStopped(t) \/ UninstallStopped(t)
  \/ Remove(t) \/ Unroot(t) \/ PublishRoot(t) \/ FirstAwait(t) \/ Build(t)
  \/ BuildFails(t) \/ LabelTaken(t) \/ SecondAwait(t) \/ StillTaken(t)
  \/ TakeHandle(t) \/ CommitInstall(t) \/ CommitEnable(t) \/ EmitLate(t)
  \/ BeginPersist(t) \/ \E i \in Ids : WalkNext(t, i)
  \/ CollectRow(t) \/ Save(t) \/ SaveFails(t) \/ Prune(t) \/ Project(t)
  \/ EndProject(t) \/ EndUninstall(t)
  \/ NoteLabel(t) \/ ListWindows(t) \/ \E l \in Labels : Reap(t, l)
  \/ EndSweep(t) \/ LoadStore(t) \/ LoadFails(t)
  \/ \E r \in Ids \X Dirs : RestoreNext(t, r)
  \/ RestoreDone(t) \/ ShutdownVisit(t) \/ ExitDone(t)

Call(t) ==
  \/ \E d \in Dirs : CallInstall(t, d)
  \/ \E i \in Ids, o \in {"uninstall", "disable", "enable", "reload"} :
       CallOn(t, o, i)

Environment ==
  \/ \E l \in Labels : Destroyed(l)
  \/ \E i \in Ids : RegisterCalled(i) \/ RegisterResolved(i) \/ RegisterServed(i)
  \/ \E d \in Dirs, m \in Manifests : EditDisk(d, m)

Next ==
  \/ /\ pc["main"] # "exited"
     /\ \/ \E t \in Procs : Advance(t)
        \/ \E t \in Callers : Call(t)
        \/ \E t \in Sweepers : Sweep(t)
        \/ ExitRequested
        \/ Environment
  \/ Restart

Spec == Init /\ [][Next]_vars

(* What the event loop, the scheduler and the locks guarantee: a process    *)
(* whose next step keeps becoming possible takes it (tokio's mutex is FIFO, *)
(* the shard lock is fair), requested closes are processed while the main   *)
(* thread pumps, and the watchdog's interval keeps ticking.                 *)
Fairness ==
  /\ \A t \in Procs : SF_vars(
       pc["main"] # "exited" /\ (Advance(t) \/ (t \in Sweepers /\ Sweep(t))))
  /\ \A l \in Labels : WF_vars(pc["main"] # "exited" /\ Destroyed(l))

FairSpec == Spec /\ Fairness

-----------------------------------------------------------------------------
(* The manager's own health check, invariants() and diagnostics(): here what *)
(* they return when no transition runs beside them.                         *)

\* snapshot_facts: what the walk over the entries reads under each mutex.
EntryFacts ==
  {[id |-> e.id, source_dir |-> e.dir, enabled |-> e.enabled, state |-> e.st,
    bg_label |-> IF e.st = "running" THEN e.hdl ELSE None] :
     e \in {heap[entries[i]] : i \in Known}}
LiveWindows == {l \in Labels : ~Free(l)}

\* check_invariants: each rule with the extension it is broken for.
CheckInvariants(facts, live) ==
  {<<"unique_source_dir", f.id>> : f \in {f \in facts :
     \E g \in facts \ {f} : g.source_dir = f.source_dir}} \cup
  {<<"unique_bg_label", f.id>> : f \in {f \in facts :
     f.bg_label # None /\ \E g \in facts \ {f} : g.bg_label = f.bg_label}} \cup
  {<<"state_consistency", f.id>> : f \in {f \in facts :
     f.bg_label \notin live \cup {None}}} \cup
  {<<"enabled_matches_state", f.id>> : f \in {f \in facts :
     f.enabled /\ f.state = "stopped"}}

Invariants ==
  CheckInvariants(EntryFacts, LiveWindows) \cup
  {<<"no_uninstalling_persist", f.id>> : f \in {f \in EntryFacts :
     f.state = "uninstalling" /\ store[f.id] # None}}

\* count_bg_windows_orphaned counts these.
Orphans == LiveWindows \ {f.bg_label : f \in EntryFacts}

-----------------------------------------------------------------------------
(* Properties. *)

\* Every variable holds a value of its type.
TypeOK ==
  /\ disk \in [Dirs -> Manifests] /\ store \in Rows
  /\ unsaved \subseteq Ids /\ fresh \in [Sweepers -> SUBSET Objs]
  /\ entries \in [Ids -> Objs \cup {None}]
  /\ heap \in [Objs -> Entry]
  /\ lock \in [Objs -> Procs \cup {None}]
  /\ win \in [Labels -> [st : {"free", "open", "closing"}, ext : Ids \cup {None}]]
  /\ roots \in [Ids -> Dirs \cup {None}]
  /\ registry \in [Ids -> Dirs \cup {None}]
  /\ scripts \subseteq Ids /\ flying \in [Ids -> {"none", "posted", "resolved"}]
  /\ view \in [Ids -> {"absent", "running", "stopped"}]
  /\ pc \in [Procs -> Steps] /\ op \in [Procs -> {"none", "boot", "sweep", "exit",
       "install", "uninstall", "disable", "enable", "reload"}]
  /\ ref \in [Procs -> Objs \cup {None}]
  /\ loc \in [Procs -> Local]

\* Whoever takes an entry's mutex finds a settled state: no stop is half
\* done, a running entry is enabled, and a stopped one was disabled (or the
\* application is exiting).
SettledAt(o) ==
  /\ heap[o].st # "stopping"
  /\ Running(o) => heap[o].enabled
  /\ heap[o].st = "stopped" => ~heap[o].enabled \/ ~MainPumps
SettledEntries == \A o \in Objs : lock[o] = None => SettledAt(o)

\* No transition drops a worker's handle without asking its window to close:
\* an open window always has an entry, or a spawn about to finish, to close it.
Owner(l, o)   == Running(o) /\ heap[o].hdl = l
Spawner(l, t) == \/ pc[t] = "built" /\ LabelFor(t) = l
                 \/ pc[t] = "commit" /\ loc[t].hdl = l
OpenWindowOwned ==
  \A l \in Labels : win[l].st = "open" =>
    (\E o \in Objs : Owner(l, o)) \/ (\E t \in Procs : Spawner(l, t))

\* What makes the two above inductive.  A process between its first and its
\* last step under an entry's mutex is that mutex's holder, and holders and
\* entries in transition are the same thing seen from two sides; the map, the
\* calls and the objects agree on which objects are in use; and the main
\* thread, once it exits, does nothing else.
Holding == {"teardown", "root", "await1", "build1", "await2", "build2", "built",
            "adopt", "commit"}
CallWellformed(t) ==
  /\ pc[t] \in {"peek", "lock", "visit"} \cup Holding => ref[t] \in Objs
  /\ pc[t] \in {"peek", "entry", "lock", "remove", "unroot", "emit"} \cup Holding
       => loc[t].id \in Ids
  /\ pc[t] = "persist" \/ (pc[t] \in {"walk", "visit"} /\ loc[t].walk = "rows")
       => loc[t].id \in Ids
  /\ pc[t] \in {"parse", "entry"} => loc[t].dir \in Dirs
  /\ pc[t] = "lock" /\ op[t] \in {"install", "reload"} => loc[t].dir \in Dirs
  /\ ref[t] # None => heap[ref[t]].id # None
EntryWellformed(o) ==
  IF heap[o].id = None THEN heap[o] = Unused ELSE heap[o].dir \in Dirs
Wellformed ==
  /\ \A t \in Procs : CallWellformed(t)
  /\ \A o \in Objs : EntryWellformed(o)
  /\ \A i \in Ids : entries[i] # None => heap[entries[i]].id = i
MutexDiscipline ==
  /\ \A t \in Procs : pc[t] \in Holding => lock[ref[t]] = t
  /\ \A o \in Objs : lock[o] # None =>
       pc[lock[o]] \in Holding /\ ref[lock[o]] = o /\ ~Running(o)
  /\ \A t \in Procs : pc[t] = "teardown" /\ op[t] = "uninstall" =>
       heap[ref[t]].st = "uninstalling"
MainExits ==
  /\ pc["main"] \in {"idle", "walk", "visit", "exited"}
  /\ pc["main"] \in {"walk", "visit"} => loc["main"].walk = "shutdown"
  /\ \A t \in Procs : loc[t].walk = "shutdown" => t = "main"
IInv == TypeOK /\ Wellformed /\ MutexDiscipline /\ MainExits
          /\ SettledEntries /\ OpenWindowOwned

\* state_consistency: an installed running entry's window exists.
StateConsistency ==
  \A i \in Known : LET e == heap[entries[i]] IN
    e.st = "running" /\ e.hdl # None => ~Free(e.hdl)

\* A sweep collects the labels it must spare entry by entry, and lists the
\* windows afterwards, while calls go on: it never comes to reap the worker of an
\* installed running entry, unless that entry was started since the sweep began.
SweepSparesRunning ==
  \A s \in Sweepers : pc[s] = "reap" =>
    \A i \in Known : Running(entries[i]) /\ heap[entries[i]].hdl \in loc[s].labels =>
      entries[i] \in fresh[s]

Quiet == Busy = {}

\* When no call is in flight, what was published is up to date: the store has
\* every installed extension's row, but for those whose own save was the one that
\* failed since the last that did not; the registry exactly their directories,
QuietPublished ==
  Quiet =>
    /\ \A i \in Known \ unsaved :
         store[i] = [dir |-> heap[entries[i]].dir, enabled |-> heap[entries[i]].enabled]
    /\ \A i \in Ids :
         registry[i] = IF i \in Known THEN heap[entries[i]].dir ELSE None

\* ... diagnostics() finds nothing to report and no orphan to count,
QuietReport == Quiet => Invariants = {} /\ Orphans = {}

\* ... and an observer of the events knows who runs.
QuietView ==
  Quiet => \A i \in Ids :
    (view[i] = "running") <=> (i \in Known /\ Running(entries[i]))

\* The store forgets an extension only when that extension is uninstalled.
StoreKeepsInstalled ==
  [][\A i \in Ids : store[i] # None /\ store'[i] = None =>
       \E t \in Procs : op[t] = "uninstall" /\ loc[t].id = i]_vars

\* ... and an enabled row goes missing only then, or when its uninstall could not be
\* saved before, or boot could not load it, or boot still has it on its list: what
\* boot was to start again is in the file again once boot is over.
StoreKeepsEnabled ==
  [][\A i \in Ids : store[i] # None /\ store'[i] = None /\ store[i].enabled =>
       \/ \E t \in Procs : op[t] = "uninstall" /\ loc[t].id = i
       \/ \E d \in Dirs : <<i, d>> \in loc["boot"].restore
       \/ i \in unsaved]_vars

\* ... and every extension the store has as enabled runs, after a boot too: a
\* call whose save failed, or a load that did, is answerable for all others.
QuietRestored ==
  Quiet => \A i \in Ids \ unsaved : store[i] # None /\ store[i].enabled =>
    i \in Known /\ Running(entries[i])

\* The file is behind at any moment, and after a crash at any moment, for those
\* of the installed extensions whose own save failed, and for at most one other: the
\* one the call under way changes.  No failed save touches another's row.
InStep(i) == i \in Known => store[i] =
  [dir |-> heap[entries[i]].dir, enabled |-> heap[entries[i]].enabled]
AtMostOneBehind == \A i, j \in Ids \ unsaved : InStep(i) \/ InStep(j) \/ i = j

\* The host sees an extension through the entry the map has for its id, and
\* the entries follow the state machine of state.rs: one step at a time, the
\* worker taken along by each stop, and no way back from an uninstall.
EntryState  == [i \in Ids |-> IF i \in Known THEN heap[entries[i]].st ELSE "absent"]
EntryWorker == [i \in Ids |-> IF i \in Known THEN heap[entries[i]].hdl ELSE None]
Machine == INSTANCE ExtensionState WITH
  Workers <- Labels, state <- EntryState, worker <- EntryWorker
Implements == Machine!Spec

\* Who a process waits for: the holder of the mutex it is at, a reload that has
\* the shard it needs, or the main thread that is to build its window.
AwaitsMutex(t, u) == pc[t] \in {"peek", "lock", "visit"} /\ lock[ref[t]] = u
AwaitsShard(t, u) ==
  pc[t] \in {"entry", "remove"} /\ pc[u] = "peek" /\ loc[u].id = loc[t].id
AwaitsMain(t, u)  == pc[t] \in {"build1", "build2"} /\ u = "main" /\ ~MainPumps
WaitsFor(t, u)    == AwaitsMutex(t, u) \/ AwaitsShard(t, u) \/ AwaitsMain(t, u)

\* Processes that all wait for one another are stuck for good.  The locks never
\* bring that about by themselves: it takes an exit that waits for an entry whose
\* holder waits for the main thread.
OnlyExitDeadlocks ==
  \A S \in (SUBSET Procs) \ {{}} :
    (\A t \in S : \E u \in S : WaitsFor(t, u)) =>
      \E t \in S : AwaitsMutex("main", t) /\ AwaitsMain(t, "main")

\* Every call returns.
CallsReturn == \A t \in Callers : pc[t] # "idle" ~> pc[t] = "idle"

\* A window no running installed entry owns gets closed or finds its owner.
Orphaned(l) ==
  /\ win[l].st = "open"
  /\ ~\E i \in Known : Running(entries[i]) /\ heap[entries[i]].hdl = l
OrphansReaped == \A l \in Labels : Orphaned(l) ~> ~Orphaned(l)

\* An exit request leads to the end of the process.
ExitCompletes == pc["main"] = "walk" ~> pc["main"] = "exited"
=============================================================================
