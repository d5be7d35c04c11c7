# A TLA+ model of tauri-plugin-extensions

The plugin runs Manifest V3 browser extensions inside a Tauri application. This
directory models the parts of it where several tasks, windows, processes and
files meet, checks the models with TLC and proves the most important facts
with TLAPS. Paths below are relative to
`src/crates/tauri-plugin-extensions/src/`, unless they start with `src/`.

## The system

| Component | State it keeps | Operations | Talks to |
|---|---|---|---|
| Lifecycle manager (`lifecycle/manager.rs`, `state.rs`) | map id → entry, each entry behind a tokio mutex: directory, enabled flag, state, handle of its window | install_or_reload, uninstall, disable, enable, reload, boot_restore, reconcile_orphans, shutdown_all | all of the following |
| Background windows (`runtime/webview2.rs`, `background.rs`, `wait.rs`) | Tauri's window registrar, handles | spawn (await label, build, retry, adopt), shutdown (close, bounded wait) | the main thread's event loop |
| State store (`lifecycle/store.rs`) | `state.json`, `json.tmp` | load (decode), save (write, fsync, rename) | manager |
| Registry (`registry.rs`) | projection of the entries | upsert, remove, content_scripts_for_url | manager, injection |
| Resource scheme (`runtime/resources.rs`, handler in `lib.rs`) | directory and declared files served for each id | upsert, remove, requests by URL or by window label | manager, windows, pages |
| Dynamic scripts (`runtime/dynamic_scripts.rs`) | scripts registered by workers | register, get, unregister, drop | workers, manager, injection |
| Injection (`runtime/injection.rs`) | set of primed (window, URL) pairs | handle_page_load | registry, dynamic scripts, pages |
| Router (`ipc/router.rs`, commands in `lib.rs`) | pending requests, port routes | sendMessage, response, connect, post, disconnect | shims in pages and workers |
| chrome.runtime shim (`src/js-runtime/src/shared/runtime.ts`, `events.ts`, `tauri.ts`) | ports of a page, listeners, buffered events | sendMessage, connect, postMessage, disconnect, listeners | router |
| Storage (`storage/local.rs`, `session.rs`) | in-memory map and JSON file per extension | get, set, remove, clear | shims |
| Match patterns (`matcher/`) | none | parse, match | registry, dynamic scripts |
| Manifest, ids (`manifest/`, `registry.rs`) | none | parse, derive ids | manager |
| Plugin setup (`lib.rs`) | managed state | boot task, watchdog task, exit handler, commands | everything |

Hard behaviours: every manager method awaits in the middle of a transition, so
calls interleave there; the entry mutex covers a transition but neither the
removal from the map nor the events, the state file and the projection that
follow; building and closing windows needs the main thread; the process may die
anywhere and boot from its file; saves share a tmp file without a lock; a
request reads three tables one after the other while they change; commands of one
page are handled in any order; pages and workers come and go under the router.

## Modules

`Lifecycle` models the manager and what it drives, `ExtensionState` the state
machine of an extension it implements. `MCLifecycle` gives it small
instances. `LifecycleProofs` holds its theorems.

`SendMessage` models a request from a page through the router into the worker
and back, `Ports` the long-lived ports between a page and the worker;
`MCSendMessage` and `MCPorts` give them small instances, and
`SendMessageProofs` and `PortsProofs` hold the theorems about them.
`LocalStore` models chrome.storage.local on its file, over the data of
`StorageOps`; `StorageMap` is the map it implements; `MCLocalStore` and
`LocalStoreProofs` check and prove it. `Injection` models content scripts and
their two tables (`MCInjection`, `InjectionProofs`), `UrlPattern` the matching they rest on
(`UrlPatternProofs`), and `PatternText` the text of patterns, whose parse it is
started from (`MCUrlPattern`; its theorem is in `UrlPatternProofs` too). `Resources` models the extension-resource scheme
with the worker's page that boots from it (`MCResources`, `ResourcesProofs`). `StateFile` models the
state file under `Lifecycle`'s save and `StoreRegister` what it implements
(`MCStateFile`, `StateFileProofs`).

`Lifecycle` and `Resources` meet in what the manager publishes: `Resources` keeps
the order of `root`, spawn and projection of a call, and drops everything a request
cannot see. `Lifecycle`'s `store` is a `StoreRegister`, `Injection`'s matching is
`UrlPattern`'s verdict, and the worker's page of `SendMessage` and `Ports` is the
window `Lifecycle` opens and closes.

### SendMessage

*State.* `pending` is `Router.pending` and `chan` the value in a request's
oneshot; `sender` and `answer` are the state of each sendMessage command and
what its promise became. The worker's page is `none`, `blank` (the window is
there and has not run the bootstrap) or `wired`; `listeners`, `inbox` and
`holders` are its onMessage listeners, the scripts queued in it and the
listeners that kept a request's `sendResponse`; `replies` are the response
invokes on their way back.

*Actions.* `Call` to `Abandon` are the steps of the command: the lookup, the
registration, the dispatch, and the end by reply or timeout, which is two steps
(the receiver is dropped, then the entry) since a reply may come in between.
`Resolve` is the response phase. `Deliver` runs all of `handleInboundMessage`:
each listener picks what it does, and `Handle` derives from it who responds.
Listeners are registered and removed, and the page opened, bootstrapped and
closed, at any time.

*Abstractions.* The queue is a set because requests do not look at each other.
A reply is named by the listener that gave it. The response invoke cannot fail
(the command answers `ok` whether or not it found the request), so no retry is
modelled for it. `MaxPages` bounds how often the window loads.

### Ports

*State.* `route` is `Router.ports`. `end` is each end of each port in its page,
with its buffer, what its listener heard, and whether there is one (`ear`).
`cmds` is the set of commands invoked and not finished, each with its place in
the handler (`at`) and its count of invocations (`try`): being a set, it lets
commands be handled in any order, which is what tasks of the async runtime do.
`events` are the scripts queued in the two pages, in order.

*Actions.* A port's methods (`Connect`, `PostMessage`, `Disconnect`,
`AddListener`, `RemoveListener`) change the page and invoke a command. Each
handler looks at the table in one step and dispatches in another (`RegisterPort`
and `Announce`, `PostRoute` and `PostDispatch`, `RemovePort` and `NotifyPeer`).
A rejected command goes through `Reject`: invoked once more, then given up, and
a connect that is given up closes the opener's end. `Deliver` is a page
handling its next event. The worker's page behaves as in `SendMessage`; the
content page may navigate away, which nobody tells the router.

*Abstractions.* A page's retry is sent in the step in which its first invoke
fails. A content page that leaves is replaced in the same window at once. The
events `onConnect` and `onDisconnect` are seen through the state of the ends.
`posted` and `heard` record history for the properties.

### LocalStore and StorageMap

*State.* `store` is the handle the manager's map has for the extension, `cache`
and `lock` each handle's map and mutex. The file is split into names (`path`,
`tmp`), inodes they refer to, and what an inode holds (`blob`): a whole map,
nothing (`Blank`), or part of something (`Torn`). Each caller has the handle
and the open file it works with. `old` is the map before a write, kept for the
refinement.

*Actions.* `Find`, `NewHandle` and `Insert` are `for_extension`, which drops the
map's lock between its two accesses. `Lock` and `Load` are the mutex and the
lazy load; `UseMap` is what each of the four methods does with the map, the
change to the cache included. `Create`, `WriteSome`, `Sync` and `Rename` are
`persist`, each of which may fail (`IoError`) and leaves what it did. `Unload`
is `drop_extension`, `Crash` the end of the process at any moment.

*StorageMap* is the promise: one map, `visible` now and `durable` after a
restart, requests that take effect one at a time between call and return. The
code comes short of the plain promise in one way, which it states: a write that
fails may stay visible until the next restart, and the next write that succeeds
makes it durable. `LocalStore!Implements` maps `visible` to the map before the
write while one is in progress, then to the cache, else to what a load would
find, and `durable` to what a load would find.

*Constants.* `Faults` lets file operations fail. `Overlap` lets calls overlap
the first call of an extension or its unload; without it there is one handle.

*Abstractions.* One extension: every other has its own file and handle. What was
written is there after a crash of the process (`sync_all` is for the machine,
which is not modelled). A file two tasks write at once ends with the bytes of
either or a mixture. JSON encoding does not fail. `load` asks `path.exists()` first,
which answers no when the file's metadata cannot be read, and the map is then empty
(`storage/local.rs:41`); that error is not among the `Faults`.

### Injection

*State.* `registry` is the ExtensionRegistry (the rules of an extension are the
constant `Rules`), `dynamic` the scripts each extension registered, in order,
and `marks` the set of the BootstrapTracker. `doc` is the document each window
shows: whether it was primed, for whom it was configured, what `ran` in it, and
as history which sources of scripts were there from its start (`sure`).
`events` are the page loads Tauri has yet to report, and `job` the one being
handled.

*Actions.* `HandleEvent` is the first half of `handle_page_load`, with the reset
of the mark; `WalkStatic` and `WalkDynamic` visit one extension of a table, in
any order (DashMap iteration holds one shard at a time); `Select` filters,
sorts and may end the event; `Prime`, `PrimeFails` and `AlreadyPrimed` are the
bootstrap and `configure`; `Eval` and `EvalFails` one script each. The tables
change at any of these steps (`Upsert`, `RemoveExt`, `Register`, `Unregister`).

*Abstractions.* A request names the place of its file in its list (`nth`), so that a
file listed twice is two requests. A URL matches a rule or does not (`UrlPattern` says which). A
page does not leave its window nor change its URL while an event of it is
queued or handled; a script evaluated in a page that is going away is lost with
it. A page that rewrites its URL between the two events (`moved`) is exempt
from `PrimedFirst` and `IdentityKept`: marks are by URL, so it may be primed
twice or, at a URL marked before, not at all.

### UrlPattern

*State.* A `pattern`, a `url`, and how far the walk is: `at` (which component),
`part` (of the path) and `pos` (what of the path is used up). *Actions* are the
three comparisons of `matches` and, in `path_matches`, the first part, each
middle part and the last. Patterns are what `parse` returns. Characters are
single, `Dot` separates labels. `Denotes` says what a pattern means without an order.
Hosts are compared lowered: `url::Url` lowers those of web schemes itself and leaves
those of `chrome-extension` as they were written.

### PatternText

*State.* The `text` a pattern is parsed from, beside `UrlPattern`'s. *Operators.*
`Parse` is `MatchPattern::parse`: the scheme, the host with its wildcard, the
pieces of the path between stars, or a refusal. `Means` reads the same text as a
glob, one character after the other, in the documentation's grammar, and `WellFormed`
says which texts that grammar has. A refused text starts a behaviour too, one that is
over at once: there is no pattern to take to the URL. A scheme is a
word, with `"HTTP"` for all that are lowered; `Lower` lowers characters.

### Resources

*State.* `disk` is the package each directory holds, `life` where each extension is
in its lifecycle and the manifest parsed for it, `roots` the ResourceRegistry,
`registry` the ExtensionRegistry, `page` the worker's page in each background
window (how far its code is, and its onInstalled listeners) and `req` the request
being handled.

*Actions.* The handler is one action per table it reads: `FindByLabel`,
`NoSuchLabel`, `Split`, `GetRoot`, `NoRoot`, `GetLoaded`, `Resolve`, then `Check`
and `Read`, the two accesses to the disk, with a failure beside each.
`StartWorker`, `Import`, `Loaded` and `Activate` are the loader: the entry, what
the worker imports, the status that throws, the synthetic lifecycle. `TellInstalled`
and `AddListener` are the shim's onInstalled. `Install` to `Prune` are the
manager's publications, and `EditPackage` the developer.

*Abstractions.* A path is a sequence of segments; `Cleaned` (along `Walked`, a
recursive function) and `Encode` are what the URL parser makes of it. Ids are
hashes, so no file or directory of a package is named like one (`Paths`), and the
parser has nothing to escape in them; a reference may still climb out of its
extension's address into another's. A file is declared or not (globs are left out).
`EditPackage` keeps the package's id: a developer who changes the key that names it
makes another extension, which `Lifecycle`'s edits of the manifest cover. One
request is handled at a time: requests only read. A call on an extension finishes
before the next on it starts, as under the entry mutex; what the manager does
after it dropped the mutex is `Lifecycle`'s subject. The history variables of the
properties are `req.wants` (what the file is to a browser, where the extension is
the origin), `req.disturbed` and `page.early`.

### StateFile and StoreRegister

*State.* Names (`tmp`, `file`, and `older`, what the directory on the disk may still
say), what each inode holds (`data`), whether that has reached the disk
(`onDisk`), and each saver's step. `excused` are the inodes two saves worked on or
whose fsync was ignored.

*Actions.* `Begin` to `Return` are the calls of `save`, errors beside each; the
error of the fsync is dropped, as in the code. `Kill` ends the process, `PowerLoss`
the machine: what was not synced is torn and the directory may be an older one.
`Decoded` and `Load` are `load`, over documents of every shape and version.

*StoreRegister* is the trait's promise: a save replaces the rows in one step or says
that it failed, a kill keeps them, a power loss may bring back what had not
reached the disk. `Implements` maps its rows to what a load would give, and its
past to `older`; steps that make an excused file the state file are exempt.

### Lifecycle

*State.* `entries` is the DashMap, `heap` the entries it and running calls hold
(an `Arc` outlives its removal from the map), `lock` the tokio mutexes, `win`
the window registrar (`free`, `open`, or `closing`: close requested and not yet
processed), `roots`, `scripts`, `registry` and `store` the ResourceRegistry,
the dynamic scripts, the ExtensionRegistry and `state.json`; `disk` the
manifests in the directories, `view` what an observer of the lifecycle events
concludes, `flying` a worker's registerContentScripts call in flight. Each
process (a host call, the boot task, the watchdog, the main thread at exit) has
a program counter `pc`, the operation `op`, the entry it holds `ref` and its
locals `loc`. Two variables are history: `unsaved` holds the ids whose own save failed
since the last one that did not (and, after a failed load, those of all rows), `fresh`
the entries started since each sweep in flight began.

*Actions.* One atomic step is the code between two awaits, or one access to
state another thread can touch in between. Under the entry mutex the steps of
the spawn remain separate because windows change meanwhile. A call goes:

    install:   parse, entry, lock -> (teardown) -> root -> spawn -> commit
    uninstall: lock -> teardown -> remove from map -> unroot + event
    disable:   lock -> (teardown) -> event          enable: lock -> root -> spawn -> commit -> event
    then all:  persist (walk the entries, save) -> project (prune, walk, insert)

with `reload` peeking at the entry first, under the map's shard guard
(`ShardHeld`), and `spawn` being `await1`, `build1`, `await2`, `build2`,
`built`/`adopt`. Boot is a sweep, a load and one install per enabled row; the
watchdog is a sweep: collect owned labels, list the windows, close the rest.

*Failures of the store.* A save lands or fails (`Save`, `SaveFails`), as `StoreRegister`
has it with `Land` and `Fail`, and a load gives the rows or an error (`LoadStore`,
`LoadFails`), as `StateFile`'s refuses some files. All four callers of `persist` swallow
its error, so the call warns, goes on and reports success; boot gives up on a failed
load and restores nothing. What that leaves behind:

- the file lags for that id until the next save of any call, which writes all rows;
- if the process ends before that, an extension that was uninstalled is restored, and
  one that was installed, enabled or disabled is as it was before;
- after a failed load the first save drops every row the file had.

The properties about the file at rest (`QuietPublished`, `QuietRestored`,
`AtMostOneBehind`, `StoreKeepsEnabled`) exempt the ids in `unsaved` and no other: a
failed save costs no row but its own call's.

*Constants.* `SlowClose` says whether a close may outlive the bounded waits of
`wait.rs` while the main thread processes its events; once exit blocks that thread
they expire in any case (`CeilingHit`). `Ops` names the operations the environment performs. Bounds of the
model, not of the code: `MaxBusy` (calls in flight), `Objs` (entry objects over
a lifetime of the process, through `MayUninstall`).

*The state machine.* `ExtensionState` is what `state.rs` says of one extension:
absent, or in one of the states of the enum, with a worker only while it runs. Its
transitions carry the guards of `can_start` and `can_stop`, which the manager itself
never calls (only tests do): that it obeys them is to be shown. `Implements` maps
the state and the worker of an id to those of the entry the map has for it
(`EntryState`, `EntryWorker`); an entry that left the map while a call still holds it
is not seen. A failed spawn leaves the entry running without a worker (a comment at
`manager.rs:249-251` speaks of `Stopped { Crashed }`, which nothing sets).

*Waiting.* `WaitsFor` says who waits for whom: for the holder of an entry's mutex,
for the reload that keeps the map's shard guard over the same key while it waits for
the mutex, or for the main thread to build a window. `OnlyExitDeadlocks` speaks of
circles in it. A shard is its key here, and every process has a thread of its own:
a guard that blocks an executor thread other tasks need is not modelled.

*The health check.* `Invariants` is `check_invariants` with its rules by name,
`Orphans` what `diagnostics` counts, over the facts of the entries; the property
`QuietReport` says both are empty at rest.

*Abstractions.* Manifests are an id and whether a worker is declared and
readable. A window is its label and the extension in it. Events are what they
tell about who runs. Close requests do not fail. The store's save is one step, which lands or fails
(`StateFile` takes it apart).

## Runs

| Run | Expect | What it asks |
|---|---|---|
| `Lifecycle_calls` | pass | two overlapping calls of install, disable, enable, reload, the manifest edited and broken at any moment: windows of running entries stay, every call returns |
| `Lifecycle_restart` | pass | two extensions, calls in sequence, failures of builds, saves and loads, sweeps, crashes, exits and restarts anywhere: file, registry and observers agree at rest, the file is behind for one extension at most besides those whose save failed, the health check has nothing to say, the file comes back, and every extension follows the state machine |
| `Lifecycle_watchdog` | pass | installs and reloads racing uninstalls, slow teardowns, sweeps at any time: settled entries, owned windows, no sweep that reaps a running worker but a newly started one, no circle of waiting calls, and the window such a race loses is eventually closed |
| `Lifecycle_boot_forgets` | violation | boot forgets disabled extensions |
| `Lifecycle_exit_hang` | violation | exit waits for an install that waits for the main thread |
| `SendMessage_worker` | pass | three requests, two listeners, a worker that closes and comes back: one reply at most, an exact table, every sender gets an end |
| `Ports_delivery` | pass | a port under reordered and retried commands, worker restarts and navigation: at most once, never an open end on nothing, closes arrive |
| `LocalStore_durable` | pass | two callers, file errors, unloads and crashes: the file is never torn and the calls implement `StorageMap` |
| `Injection_pages` | pass | page loads under reloads, rewrites, loading and registration at every step: frames primed first, providers first, each script once and none left out |
| `UrlPattern_verdict` | pass | texts of patterns, malformed ones too, against every short URL: parse refuses what the grammar does not have, and parse and walk decide what any other text means |
| `Resources_requests` | pass | workers of each kind and web pages load files while extensions come, change and go: served exactly what the package in force allows; onInstalled is heard |
| `StateFile_saves` | pass | two saves, errors, kills, power losses, files of every schema: the file is whole and saves are atomic, but for the excused |

*Bounds.* The manager's entries interact only through the map, the label and
the file, so one extension with two overlapping calls shows every race on an
entry, and two extensions show what one does to the other's row, window and
projection. Two entry objects are an uninstall and a reinstall. Three
overlapping calls add no new pair of steps; `Lifecycle_calls` lets one of the two
callers reload, since two reloads wait for nothing that one does not, and
`Lifecycle_watchdog` gives one the installs and reloads and the other the
uninstalls, so that a reload under its guard meets an uninstall that removes the entry.
`Lifecycle_restart` allows one call at a time since what overlapping calls leave
behind is refuted (see below); crashes, boots, sweeps and failures still interleave
with it. It leaves out `reload`, an install under another name where calls do not
overlap. `RestartSpec` bounds what failures of the store are combined with: once a save
or a load failed, and until a save succeeds, no running worker is one whose build
failed, and none has content scripts registered (`Apart`). What a stale file does to
the calls, crashes, boots and sweeps that follow is all there, and so are failed builds
and scripts without a stale file; the theorems have no such bound.
`Lifecycle_calls` assumes closes finish within the ceilings (`SlowClose =
FALSE`): with slower ones an adopted window may vanish under a running entry,
which the code's own `state_consistency` rule reports.

Requests share only the page and its listeners, so `SendMessage_worker` takes
one pair of requests to the worker and one from it, and two listeners, enough
for two to compete for a `sendResponse`. Two pages are a restart. Ports share
only the queues of the pages, so `Ports_delivery` takes one port, and two
messages so that either end has one or one end has both.

`LocalStore_durable` takes two keys, one value besides absence, two callers and
one handle: a third caller would only queue behind the same mutex. Two inodes
are the file and its tmp.

`Injection_pages` has one window, since windows share nothing but the tables,
two URLs that are injected into and one that is not, an extension that declares
scripts (one file missing) and one that registers them, so either table comes
first in a walk. Its batches share an id. `UrlPattern_verdict` takes texts with every
form of scheme, host and refusal and up to five stars, over two letters and a
capital, which contains every way a leftmost choice or a split could be wrong about
two letters; hosts of `chrome-extension` have the capital too. `VerdictIsRight` and
`TextIsDecided` cover the rest.

`Resources_requests` has two extensions one character apart, one of which may hold a
classic worker in a directory, one at the root, a module or something else at any
moment; each way a worker names a file, with a step up and an escaped name; and
pages that ask for what is declared, what is not, and nothing. Two listeners
tell the first from the others. `StateFile_saves` takes two savers, which is what
it takes to share `json.tmp`, two inventories, and three inodes: the file, the tmp
file and the file before.

*Deadlock* is checked wherever the process cannot end; `CHECK_DEADLOCK FALSE`
stands in the runs with an exit (a process that exits may never be started
again), in `SendMessage` and `Ports`, which come to rest when every request or
message is used and the last page is closed, in `UrlPattern`, which ends with a
verdict, and in violation runs.

*Types.* `SendMessage`, `Injection` and `Resources` state a `TypeOK` that no run
checks; like that of `UrlPattern`, it is proved for all values of the constants.

*Fairness.* `FairSpec` gives strong fairness to each process' next step: tokio
schedules ready tasks, its mutex queues waiters in order, and a waiter whose
lock keeps being released gets it; the watchdog's interval keeps ticking; and
weak fairness to the event loop processing a close. Nothing is assumed of the
environment: no fairness on calls, edits, registrations, crashes, exits.

In `SendMessage` each sender's own steps are weakly fair (its task is scheduled
and its timer fires) and the worker owes nothing; in `Ports` handling commands
and the content page's event loop are weakly fair. That is enough for every
command because a command is handled in a bounded number of steps and the
model has finitely many.

## Proofs

`LifecycleProofs` proves, for all values of the constants that satisfy
`ConstantsAssumption`, and whatever `Ops` and `MaxBusy`:

- `TypeCorrect`: `Spec => []TypeOK`;
- `SettledUnderLock`: `Spec => []SettledEntries`;
- `WindowsOwned`: `Spec => []OpenWindowOwned`;
- `InductiveInvariant`: `Spec => []IInv`, from which the three follow;
- `SweepsSpare`: `Spec => []SweepSparesRunning`.

`SettledEntries` speaks of entries whose mutex is free, so it is not inductive:
it needs to know that whoever is between its first and last step under a mutex
holds it (`MutexDiscipline`), that the entries calls refer to exist
(`Wellformed`), and that only the exit walk stops enabled entries and then
nothing else runs on the main thread (`MainExits`). `OpenWindowOwned` needs the
same: a window's owner is an entry that can only be taken out of `running` by a
holder, who requests the close in the same step, or a spawn under a mutex.
`IInv` is the conjunction; it is no property of a run, its parts are. The proof classifies the steps: `Orderly` describes
what any step of one process may do to the locks, entries and windows;
`StartOrderly` and `AdvanceOrderly` show each action is orderly, and one lemma
per conjunct shows an orderly step preserves it. The environment, the initial
state and a restart are separate lemmas.

`SweepsSpare` needs no hypothesis: calls, uninstalls and slow closes go on between the
sweep's visits. `NInv` says of a sweep in flight that every installed entry with a
worker is noted (`Noted`): it was started since the sweep began, or the walk has yet to
come to its id or is at it, or its label is collected, and once the windows are listed
not among those to reap. An entry that runs on keeps its label and its id (`Starts`),
and only the sweep's own steps take it further (`GoesOn`).

Where nothing disturbs the windows of running entries it also proves that they stay:

- `RunningHasWindow`: `Undisturbed => (Spec => []StateConsistency)`.

`Undisturbed` is what `Lifecycle_calls` assumes as well, with exits, crashes, build
failures and more extensions added: no uninstall, no watchdog sweep and no call
before boot's end are among the operations, closes finish within the ceilings, and
ids have labels of their own. Without any one of these the property is false (see
below; an uninstall may leave two entries after one window). `WInv` adds to `IInv`
that entries stay in the map (`EntriesKept`), that a call works on the entry of its
id and its spawn finds the label free at last (`OwnCall`), that a running entry
names the window of its id (`OwnHandle`), that boot sweeps before the first window is
built (`FirstSweep`), and the converse of `OpenWindowOwned`, `OwnersLive`. The proof
is laid out like the other: `Own` says what a step of a process does to all
this, `AdvanceOwn` and `StartOwn` that every step does no more, and a lemma per
conjunct that it is preserved. The heart is `OneOwner`: of two owners of one window
both are under its id, so they are one entry, or one is a spawn that holds the mutex
of the other, which then does not run.

Where calls do not overlap (`OneAtATime`: `MaxBusy <= 1`) it proves what is left
once nothing is under way, with uninstalls, reloads, sweeps, build failures, exits
and crashes at any step:

- `PublishedWhenQuiet`: `OneAtATime => (Spec => []QuietPublished)`;
- `ViewWhenQuiet`: `OneAtATime => (Spec => []QuietView)`;
- `RestoredWhenQuiet`: `OneAtATime /\ NoEdits => (Spec => []QuietRestored)`;
- `KeepsEnabled`: `OneAtATime /\ NoEdits => (Spec => StoreKeepsEnabled)`.

Quiet states alone say nothing of the steps that lead there, so `QInv` says at every
step what is published: each id's row, its registry entry and what the events told
are those of its entry (`Published`), except for the id the one process in flight
works on (`Late`) and for rows in `unsaved`; and that process does its part (`Publishes`): it works on the entry
the map has, its emit tells what became of it, and of its tail, walk by walk, the
collected rows, the saved file and the projected directories are those of the entries
visited so far (`Tail0`). `RInv` adds who answers for an enabled row whose extension
is not installed (`Excused`): boot, which has yet to load it, has it on its list or
is installing it, or its uninstall, or a save or load that failed. This needs the row's directory to hold its
extension (`OnDisk`), which a developer's edit may change while nothing runs
(`NoEdits`): then boot's parse of the directory succeeds and yields that id.
`AdvanceParts` and `AdvanceAnswers` go through the
actions. Calls that overlap do break these properties: two tails interleave and an
older walk saves last. `ConstantsAssumption` says of `None` also that it is no row.

From `QInv` also follows what a crash at any moment can cost:

- `OneBehind`: `OneAtATime => (Spec => []AtMostOneBehind)`.

All entries but the one the call under way works on, and those whose own save failed,
are as their rows in the file say: of what is installed, a crash loses what these calls
did and nothing else. It speaks of installed entries; rows that boot has yet to restore
are `StoreKeepsEnabled`'s subject, which exempts them until boot is over.

The health check at rest needs what the windows do as well:

- `HealthyWhenQuiet`: `OneAtATime /\ NoEdits /\ CloseInTime /\ LabelsDiffer =>
  (Spec => []QuietReport)`.

`HInv` adds to `QInv` and `RInv` that the worker of a running entry is in the open
window of its id, and the map has that entry (`OwnWorker`); that the process in flight does its part
(`Tends`): its spawn finds the label free at once and has the window until it commits
(`Spawns`), its teardown has asked for the close (`TearsDown`), and its sweep reaps
no label of an entry (`Spares`); and that a window that is there is an entry's or
somebody is at it (`Attended`). `AdvanceTidy` goes through the actions, `NothingToReport`
from `HInv` at rest to each rule of the check. No hypothesis can be dropped: overlapping
calls leave two entries after one window, an edit lets two entries name one
directory, a close that outlives the ceilings takes an adopted window along, and two
ids with one label share a window. Exits do not disturb it: at rest the main thread
pumps, and while it does not nothing is said of windows no entry has.

That the manager follows the state machine needs less:

- `FollowsMachine`: `OneAtATime \/ "uninstall" \notin Ops => (Spec => Implements)`.

`SInv` adds to `IInv` that only running entries have a worker (`Bears`), that a
process under a mutex knows the state it left the entry in (`Phase`: stopping while
it waits for the teardown, installed or stopped while it spawns), and that an entry
the map still has while it is being uninstalled has a call that will remove it (`Leaving`). `Finds` is
what a call finds by either hypothesis: no entry it locks is being uninstalled, and
the one an uninstall removes is the one it marked. `Lawful` says that a step changes
one entry by one move of the machine (`Move`), adds one (`Appears`) or removes one
(`Vanishes`), `AdvanceLawful` that every action does no more, and `LawfulMaps` that the
machine then takes that step or stutters. Overlapping installs, reloads, enables and
disables are covered: the mutex is enough for them. Where an uninstall may overlap an
install it is not, and `Implements` is false (below).

`NoOtherDeadlock` (`Spec => []OnlyExitDeadlocks`) has no hypotheses. In a circle
somebody waits for a mutex, since neither the guard's holder nor the main thread
waits for anything else. Who holds a mutex waits for nothing but the main thread
(`HoldersWait`, from `MutexDiscipline`), so the circle contains a build and the main
thread, which waits for a mutex in turn: that of a call in its build. It is the
safety half of `CallsReturn`: with a scheduler that is fair, what is left to
go wrong is the exit of `Lifecycle_exit_hang`.

`SendMessageProofs` proves, for any sets of requests and listeners and any number
of pages, `TypeCorrect`, `TableMatchesSenders` (`[]PendingMatchesSenders`) and
`AtMostOneReply` (`[]OneReply`). Neither of the last two is inductive alone: a
reply finds a waiting sender and an empty oneshot because there was no reply
before it (`OneReply`), and there was none because a request leaves each place
when it enters the next and is only dispatched while its entry is there
(`PendingMatchesSenders`). Their conjunction with `TypeOK` is `Inv`, proved
request by request in `RequestStep`.

`PortsProofs` proves, for any sets of ports and messages and any number of pages,
`TypeCorrect`, `OpenersAreRouted` (`[]OpenOpenerIsRouted`) and `ClosedForGood`
(`NoRevival`). All three rest on `Inv`, that is `TypeOK`, `AccountedFor` and `Once` for every
port: the port is in at most one of its connect command, its queued announcement
and the worker's end (`OneConnect`, `Connecting`, `OneAnnouncement`,
`Announcing`), and a command or an end of the worker implies that the opener
connected before (`OpenerFirst`).
So a second invocation of connect never finds the first one's announcement
queued or its end closed, and only a disconnect of either end takes the route
of an open port away, which the opener then hears.

`LocalStoreProofs` proves, for any keys, values, requests, callers, handles and
inodes, and when calls do not overlap a first call or an unload (`~Overlap`, the
assumption without which TLC finds a torn file), `FileIsWhole`
(`[]FileWhole`) and `Implementation` (`Spec => Implements`). `Inv` adds to both
that whoever works on the file holds the mutex of the one handle (`MutexHeld`,
`OneHandle`), that the tmp file it writes is not the file (`Names`), and that
the tmp file holds the map it was given once it is synced (`TmpFile`). Each step
is then a step of `StorageMap` or a stutter: a get takes effect when it reads, a
write when its rename happens, a failed write when it gives up.

`UrlPatternProofs` proves, for any patterns, URLs and characters, `TypeCorrect`
and `VerdictIsRight` (`[]Verdict`). `Inv` says that what is left of the walk
decides the verdict: the pattern matches exactly if the parts from `part` on can
be placed at or behind `pos` (`RestDenotes`). The heart is `NextPart`: if they
can be placed at all, they can with the first of them at its leftmost place,
since the others lie behind where it ended anyway. `FirstPart`, `NoPart` and
`LastPart` are the other steps of the walk, and `HostMeaning` says that ending
in a dot and a domain is to lie below it, and that to be equal when lowered is to
differ in case at most. The walk is a state machine, so all this
needs no induction over sequences. `TextIsDecided` (`[]TextVerdict`) takes it to the
text: `parse` refuses exactly the texts the grammar does not have (`RefusedText`), what
it accepts is a pattern (`ParseType`), and that denotes the URLs the text means
(`TextMeaning`). For the path, `StarsAt` says that the pieces lie between one star
and the next, `RunStands` that a piece stands for itself and `StarStands` that a
star stands for anything; with them `PathMeaning` goes through the pieces from left
to right and has the glob reach a place exactly if the pieces up to it can be
placed there. For the host, `LiteralGlob` and `SuffixGlob` are the only globs a
host may be, and `HostTextMeaning` the wildcard with its bare domain. It assumes of
lowering that dots stay, nothing but a star becomes one, and twice is as good as once.

`StateFileProofs` proves, for any savers, rows and inodes, `Types` (`[]TypeOK`),
`FileIsWhole` (`[]FileWhole`) and `Implementation` (`Spec => Implements`). `Inv` adds
that a saver alone with `json.tmp` finds in it what its step says (nothing, its
document, its document after an fsync), that a file renamed or shared while it is
open is excused with all it may become, and that what the state file and the older
ones name is whole and had its fsync, unless excused. A rename is then `Land`, an error `Fail`, and every other step of a save
a stutter. The excuse is needed: TLC refutes both without it.

`InjectionProofs` proves, for any windows, extensions, rules and registrations,
`TypeCorrect`, `ChromePrimedFirst` (`[]PrimedFirst`), `ProvidersRunFirst`
(`[]ProvidersFirst`), `RunOnce` (`[]EachOnce`), `NoneLeftOut` (`[]AllInjected`) and
`OneIdentity` (`IdentityKept`). None is inductive alone. `Queues` says which page
loads are still to come of a document (a start, a finish or neither, and the job
that is being handled), `Marks` that a frame is marked exactly as long as it was
primed at its URL, `Scripts` that what ran, failed and is collected are disjoint
lists without repetition, in the order of worlds, and `Coverage` that every
script of a source that stayed is in what ran, what failed, what is collected, or
in a table the walk has yet to visit. The lists are built by `Keep`, a recursive
function; that it keeps exactly the elements asked for, once each and in order,
is a lemma (`KeepIs`) by induction over the length.

`ResourcesProofs` proves, for any extensions, packages, references and widths of
a label, `TypeCorrect`, `WorkersReadTheirOwn` (`[]OwnPackage`),
`WorkersFindTheirFiles` (`[]WorkerFindsItsFiles`), `PagesServed`
(`[]PagesGetDeclared`) and `InstallsHeard` (`[]InstalledHeard`). The conjuncts of
`Inv` are, besides `TypeOK`: what each table holds in each phase of an extension
(`Published`), what a window's page may be in each phase (`Windows`, which includes
`InstalledHeard`), that a request's address is what its reference comes to
(`Asked`), whose package a root leads to (`Owned`), and, for a request nothing has
disturbed, what it knows at each step of the handler (`WorkerRight`, `PageRight`).
The last two survive the manager's steps because those that change what they speak
of disturb the request (`Steady`). What addresses come to rests on `CleanedBehind`:
an id in front of a path stays in front of it, or is climbed over and gone, by
induction over the path.

Induction over numbers is at hand as the well-foundedness of `<` (lemma
`Induction` of three modules), and that a recursive function exists is proved
where one is used (`KeptExists`, `WalkExists`, `StandsExists`). What is out of reach are
RECURSIVE operators, theorems with an operator as a parameter, and anything about
fairness.

Only model-checked is what needs fairness: `OrphansReaped`, `Settles`,
`CloseReachesOpener`, `ConnectSettles`, `CallsReturn`. Every other property of the
passing runs is the subject of a theorem, some under hypotheses named above.

## What the violation runs say

1. **Boot forgets disabled extensions** (`manager.rs:494-511`, `873-888`).
2. **Exit can hang** (`lib.rs:323-337`, `webview2.rs:405-443`): block_on on the
   main thread against a build that needs the main thread.

The model refutes further expectations. The sweep may close a live worker: it
collects the owned labels before it lists the windows, and a window committed
in between is closed (`manager.rs:516-555`; `SweepSparesRunning` is what remains, and
`StateConsistency` fails as soon as the sweep is among the operations). Two first calls of local storage may end up
with two handles over one file, one of which renames the tmp file the other is
writing (`storage/local.rs:172-179`; `FileWhole` fails with `Overlap = TRUE` and
two handles). Two calls that persist at the same time
may save in the other order, and the older snapshot stays in the file
(`manager.rs:873-888`). A registerContentScripts call in flight when its worker
is stopped lands after the stop cleared the scripts (`lib.rs:707-746`). Under
overlapping install and uninstall of one id, an uninstall removes by id what a racing install has just published
(the map entry, the served root, whose worker then finds nothing served), an install that waits for the mutex starts the
worker of an entry the uninstall has marked and is about to remove (`manager.rs:256`;
`Uninstalling` is followed by `Running`, against `state.rs:23-24`, and `Implements` fails as soon as
two callers may do so), a projection that read an entry before its
removal reinserts it into the registry, and observers of disable and enable
overtaking each other end with the wrong view. They have one cause: the entry
mutex is dropped before the map, the roots, the events, the file and the
projection are updated.

Two overlapping saves of the state file do what two handles of local storage
do: they share `json.tmp`, and `state.json` may be renamed while the other save
writes it (`store.rs:190-198`; `FileWhole` fails without its first excuse). The
first post of a port is lost with both ends open if it is handled before the route
exists, or evaluated before the announcement (`lib.rs:814-888`): the buffer in
`src/js-runtime/src/shared/runtime.ts:82-114` saves only what arrives after the
port does. A worker in a directory misses the chunks its bundler names by the
address of the hidden window's document, which are re-rooted at the package's root
(`resources.rs:250-261`; `WorkerFindsItsFiles` excuses them), and a name the URL
parser escapes is looked for escaped (`lib.rs:108`). An `onInstalled` emitted
before a module worker is there is replayed to its first listener only
(`events.ts:31-51`).

Also met while reading. `bg_window_label` keeps 12 characters of an id, and ids of
unpacked extensions start with the nine characters `unpacked-`, so only three
letters of 16 tell two windows apart: with `Width = 1`, `Resources` has one
extension's worker adopted by another. The fsync of the state file goes through a
handle opened for reading (`store.rs:195`), and Windows flushes only handles opened
for writing; the error is dropped. A state file of a newer build is refused by boot
and then overwritten by the next save. `installed_at_unix` (`store.rs:61`) is the
time of the last save. A failed save is only warned about (`manager.rs:291-293`,
`329-331`, `352-354`, `398-400`): the host is told an extension is uninstalled that comes
back at the next start, unless some later save succeeds. `resources.rs:150-155` says a background window asking for
another extension's file is served what that extension declares, but the handler
takes the whole path to be in the window's own package (`lib.rs:148`).
`manager.rs:14-16` says a second concurrent install returns immediately, while it
reloads again.

## Plan

Done: `Lifecycle` with `ExtensionState`, `SendMessage`, `Ports`, `LocalStore` with
`StorageMap`, `Injection`, `UrlPattern`, `PatternText`, `Resources`, `StateFile` with
`StoreRegister`, and the proofs of all their safety properties. What would be worth adding, in this order:

1. An abstract port (two ends and a route) that `Ports` implements where commands are
   handled in the order they were invoked.
2. Which of the properties at rest survive overlapping calls on different extensions.
3. Session storage and the event bus, once they keep more than a map.

## Not modelled

- Manifest decoding, permissions and script compilation (`manifest/`): pure, and
  their outcome (an id, a worker, declared files, or an error) is an input here.
- Session storage (`storage/session.rs`) and the event bus (`ipc/bus.rs`): every
  call is one operation on a map, so nothing interleaves but the check-then-insert
  that `LocalStore` shows.
- `MatchPatternSet` and `glob.rs`: an any over patterns, and the walk of
  `UrlPattern` on one string.
- The chrome.storage shim's defaults, callbacks, `onChanged` and byte counts; the
  chrome.runtime shim's stubs and the buffer of `onConnect`; installation of the
  chrome object.
- The generated bundles of `embedded-js/`, the platform stubs, the example host
  and its canaries, logging, content types and counters.
