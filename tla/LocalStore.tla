----------------------------- MODULE LocalStore -----------------------------
(***************************************************************************)
(* One extension's chrome.storage.local (storage/local.rs): the handle the *)
(* manager keeps for it, the map the handle caches behind its mutex, and   *)
(* the file, written as a sibling tmp file that is renamed over it.        *)
(*                                                                         *)
(* A step is the code between two awaits.  A file is an inode with a name, *)
(* since a task goes on writing to the inode it opened whatever happens to *)
(* the name.  What ends with the process is lost in a Crash; what was      *)
(* written to a file stays.                                                *)
(***************************************************************************)
EXTENDS StorageOps

CONSTANTS
  Callers,    \* tasks that run storage commands, or extensions_unload
  Handles,    \* LocalStorage objects
  Inodes,     \* files under the names path and tmp, or open without a name
  Requests,   \* the requests callers make
  Faults,     \* whether file operations may fail
  Overlap,    \* whether calls may overlap the first one, or an unload
  None, Ok, Failed, Blank, Torn

ASSUME StoreAssumption ==
  /\ Requests \subseteq RequestType /\ Faults \in BOOLEAN /\ Overlap \in BOOLEAN
  /\ None \notin Callers \cup Handles \cup Inodes \cup Requests \cup Contents \cup {Ok, Failed}
  /\ Contents \cap {Ok, Failed, Blank, Torn} = {}

VARIABLES
  store,      \* LocalStorageManager.stores at this extension
  cache,      \* each handle's map, None until it is loaded
  lock,       \* who holds each handle's mutex
  path, tmp,  \* the inodes the two names refer to
  blob,       \* what each inode holds: a map, nothing, or part of something
  mixed,      \* inodes that more than one task opened for writing
  pc, req,    \* where each caller is, and its request
  hdl, fd,    \* the handle and the open tmp file of each caller
  answer,     \* what its call will return
  old         \* the map before its write, for the properties

memVars  == <<store, cache, lock>>
fileVars == <<path, tmp, blob, mixed>>
taskVars == <<pc, req, hdl, fd, answer, old>>
vars     == <<memVars, fileVars, taskVars>>

Idle(f) == [t \in Callers |-> f]

Init ==
  /\ store = None /\ path = None /\ tmp = None /\ mixed = {}
  /\ cache = [h \in Handles |-> None] /\ lock = [h \in Handles |-> None]
  /\ blob = [n \in Inodes |-> Blank]
  /\ pc = Idle("idle") /\ req = Idle(None) /\ hdl = Idle(None) /\ fd = Idle(None)
  /\ answer = Idle(None) /\ old = Idle(None)

Goto(t, l) == pc' = [pc EXCEPT ![t] = l]
OthersIdle(t) == \A u \in Callers \ {t} : pc[u] = "idle"

-----------------------------------------------------------------------------
(* A call: find the handle, lock it, load, use. *)

Invoke(t, r) ==
  /\ pc[t] = "idle" /\ (Overlap \/ store # None \/ OthersIdle(t))
  /\ req' = [req EXCEPT ![t] = r] /\ Goto(t, "find")
  /\ UNCHANGED <<memVars, fileVars, hdl, fd, answer, old>>

\* for_extension looks the handle up and, in another step, inserts one.
Find(t) ==
  /\ pc[t] = "find" /\ store # None
  /\ hdl' = [hdl EXCEPT ![t] = store] /\ Goto(t, "lock")
  /\ UNCHANGED <<memVars, fileVars, req, fd, answer, old>>

FreshHandle(h) == h # store /\ \A t \in Callers : hdl[t] # h
NewHandle(t, h) ==
  /\ pc[t] = "find" /\ store = None /\ FreshHandle(h)
  /\ hdl' = [hdl EXCEPT ![t] = h] /\ Goto(t, "insert")
  /\ cache' = [cache EXCEPT ![h] = None]
  /\ UNCHANGED <<store, lock, fileVars, req, fd, answer, old>>

Insert(t) ==
  /\ pc[t] = "insert" /\ store' = hdl[t] /\ Goto(t, "lock")
  /\ UNCHANGED <<cache, lock, fileVars, req, hdl, fd, answer, old>>

\* What a load makes of the file: no file and an empty one are an empty map.
Decoded == IF path = None \/ blob[path] = Blank THEN Nothing ELSE blob[path]

\* With the map m at hand: answer a get, or change the map and go on to persist.
UseMap(t, m) ==
  \/ /\ req[t].op = "get"
     /\ cache' = [cache EXCEPT ![hdl[t]] = m]
     /\ answer' = [answer EXCEPT ![t] = Selected(req[t], m)] /\ Goto(t, "done")
     /\ UNCHANGED old
  \/ /\ req[t].op # "get"
     /\ cache' = [cache EXCEPT ![hdl[t]] = Apply(req[t], m)]
     /\ old' = [old EXCEPT ![t] = m] /\ Goto(t, "create")
     /\ UNCHANGED answer

Loaded(t) == cache[hdl[t]] # None

\* Mutant: a write to a handle that is not loaded starts from an empty map.
LockUnloaded(t) ==
  /\ pc[t] = "lock" /\ lock[hdl[t]] = None
  /\ lock' = [lock EXCEPT ![hdl[t]] = t]
  /\ UseMap(t, IF Loaded(t) THEN cache[hdl[t]] ELSE Nothing)
  /\ UNCHANGED <<store, fileVars, req, hdl, fd>>

\* A clear does not load what it drops.
Lock(t) ==
  /\ pc[t] = "lock" /\ lock[hdl[t]] = None
  /\ lock' = [lock EXCEPT ![hdl[t]] = t]
  /\ \/ Loaded(t) /\ UseMap(t, cache[hdl[t]])
     \/ ~Loaded(t) /\ req[t].op = "clear" /\ UseMap(t, Decoded)
     \/ ~Loaded(t) /\ req[t].op # "clear" /\ Goto(t, "load") /\ UNCHANGED <<cache, answer, old>>
  /\ UNCHANGED <<store, fileVars, req, hdl, fd>>

Load(t) ==
  /\ pc[t] = "load" /\ Decoded # Torn /\ UseMap(t, Decoded)
  /\ UNCHANGED <<store, lock, fileVars, req, hdl, fd>>

-----------------------------------------------------------------------------
(* persist: create or truncate the tmp file, write, sync, rename. *)

FreshInode(n) == n \notin {path, tmp} /\ \A t \in Callers : fd[t] # n
Open(t, n) ==
  /\ fd' = [fd EXCEPT ![t] = n] /\ tmp' = n /\ blob' = [blob EXCEPT ![n] = Blank]
  /\ mixed' = IF \E u \in Callers : fd[u] = n THEN mixed \cup {n} ELSE mixed \ {n}

Create(t, n) ==
  /\ pc[t] = "create" /\ tmp \in {n, None} /\ (tmp = None => FreshInode(n))
  /\ Open(t, n) /\ Goto(t, "write")
  /\ UNCHANGED <<memVars, path, req, hdl, answer, old>>

\* Mutant: the file is renamed before its bytes are known to be there.
WriteUnsynced(t) ==
  /\ pc[t] = "write" /\ blob' = [blob EXCEPT ![fd[t]] = Torn]
  /\ fd' = [fd EXCEPT ![t] = None] /\ Goto(t, "rename")
  /\ UNCHANGED <<memVars, path, tmp, mixed, req, hdl, answer, old>>

\* Some of the bytes are in the file, and with sync_all the rest: the map, or
\* a mixture if another task truncated or wrote the same inode.
WriteSome(t) ==
  /\ pc[t] = "write" /\ blob' = [blob EXCEPT ![fd[t]] = Torn] /\ Goto(t, "sync")
  /\ UNCHANGED <<memVars, path, tmp, mixed, req, hdl, fd, answer, old>>

Sync(t) ==
  /\ pc[t] = "sync"
  /\ \E b \in {cache[hdl[t]]} \cup {Torn : n \in mixed \cap {fd[t]}} :
       blob' = [blob EXCEPT ![fd[t]] = b]
  /\ fd' = [fd EXCEPT ![t] = None] /\ Goto(t, "rename")
  /\ UNCHANGED <<memVars, path, tmp, mixed, req, hdl, answer, old>>

Rename(t) ==
  /\ pc[t] = "rename" /\ tmp # None
  /\ path' = tmp /\ tmp' = None
  /\ answer' = [answer EXCEPT ![t] = Ok] /\ Goto(t, "done")
  /\ UNCHANGED <<memVars, blob, mixed, req, hdl, fd, old>>

\* An error ends the call and leaves everything as it is, the changed map too.
IoError(t) ==
  /\ \/ pc[t] \in {"load", "create", "write", "sync", "rename"} /\ Faults
     \/ pc[t] = "load" /\ Decoded = Torn
     \/ pc[t] = "rename" /\ tmp = None
  /\ fd' = [fd EXCEPT ![t] = None]
  /\ answer' = [answer EXCEPT ![t] = Failed] /\ Goto(t, "done")
  /\ UNCHANGED <<memVars, fileVars, req, hdl, old>>

\* The guard is dropped and the command returns.
Return(t) ==
  /\ pc[t] = "done"
  /\ lock' = [lock EXCEPT ![hdl[t]] = None]
  /\ Goto(t, "idle") /\ req' = [req EXCEPT ![t] = None] /\ hdl' = [hdl EXCEPT ![t] = None]
  /\ answer' = [answer EXCEPT ![t] = None] /\ old' = [old EXCEPT ![t] = None]
  /\ UNCHANGED <<store, cache, fileVars, fd>>

-----------------------------------------------------------------------------

\* drop_extension after an uninstall: whoever holds the handle goes on with it.
Unload ==
  /\ store # None /\ store' = None
  /\ Overlap \/ \A t \in Callers : pc[t] = "idle"
  /\ UNCHANGED <<cache, lock, fileVars, taskVars>>

Crash ==
  /\ store' = None
  /\ cache' = [h \in Handles |-> None] /\ lock' = [h \in Handles |-> None]
  /\ pc' = Idle("idle") /\ req' = Idle(None) /\ hdl' = Idle(None) /\ fd' = Idle(None)
  /\ answer' = Idle(None) /\ old' = Idle(None)
  /\ UNCHANGED fileVars

Advance(t) ==
  \/ \E r \in Requests : Invoke(t, r)
  \/ Find(t) \/ Insert(t) \/ Lock(t) \/ Load(t) \/ WriteSome(t) \/ Sync(t)
  \/ Rename(t) \/ IoError(t) \/ Return(t)
  \/ \E h \in Handles : NewHandle(t, h)
  \/ \E n \in Inodes : Create(t, n)

Next == Unload \/ Crash \/ \E t \in Callers : Advance(t)

Spec == Init /\ [][Next]_vars

-----------------------------------------------------------------------------
(* Properties. *)

Stages == {"idle", "find", "insert", "lock", "load", "create", "write", "sync", "rename", "done"}

\* Every variable holds a value of its type.
TypeOK ==
  /\ store \in Handles \cup {None}
  /\ cache \in [Handles -> Contents \cup {None}] /\ lock \in [Handles -> Callers \cup {None}]
  /\ {path, tmp} \subseteq Inodes \cup {None} /\ mixed \subseteq Inodes
  /\ blob \in [Inodes -> Contents \cup {Blank, Torn}]
  /\ pc \in [Callers -> Stages] /\ req \in [Callers -> Requests \cup {None}]
  /\ hdl \in [Callers -> Handles \cup {None}] /\ fd \in [Callers -> Inodes \cup {None}]
  /\ answer \in [Callers -> Contents \cup {None, Ok, Failed}]
  /\ old \in [Callers -> Contents \cup {None}]

\* Whatever fails and wherever the process dies, the file is absent or holds a
\* whole map: no reader and no restart ever finds a torn or emptied one.
FileWhole == path # None => blob[path] \in Contents

\* The map callers see: what a write that has not come to its end started from,
\* or what is cached, or what a load would find.
Persisting(t) == pc[t] \in {"create", "write", "sync", "rename"}
Current ==
  IF \E t \in Callers : Persisting(t) /\ hdl[t] = store
  THEN old[CHOOSE t \in Callers : Persisting(t) /\ hdl[t] = store]
  ELSE IF store # None /\ cache[store] # None THEN cache[store] ELSE Decoded

\* Loads, the cache, the tmp file and the rename together behave as one map with
\* durable writes, each request taking effect at one moment of its call.
Map == INSTANCE StorageMap WITH visible <- Current, durable <- Decoded, call <- req
Implements == Map!Spec
=============================================================================
