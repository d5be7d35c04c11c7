-------------------------- MODULE LocalStoreProofs --------------------------
(***************************************************************************)
(* As long as no call overlaps the first one or an unload, the file is     *)
(* whole in every state and LocalStore implements StorageMap, for any      *)
(* callers, keys, values, handles and failures of file operations.         *)
(***************************************************************************)
EXTENDS LocalStore, TLAPS

USE StoreAssumption, DataAssumption

LEMMA ApplyType ==
  ASSUME NEW r \in Requests, NEW m \in Contents
  PROVE  Apply(r, m) \in Contents /\ Selected(r, m) \in Contents
BY DEF Apply, Selected, Contents, RequestType, Named

LEMMA NothingType == Nothing \in Contents
BY DEF Nothing, Contents

\* Who is past the lookup uses the one handle there is; whoever inserts it is
\* alone.
Using == {"lock", "load", "create", "write", "sync", "rename", "done"}
Held  == Using \ {"lock"}
OneHandle(t) ==
  /\ pc[t] \in Using => hdl[t] = store /\ store # None
  /\ pc[t] = "find" => store # None \/ OthersIdle(t)
  /\ pc[t] = "insert" => /\ store = None /\ OthersIdle(t)
                         /\ hdl[t] # None /\ cache[hdl[t]] = None
  /\ pc[t] \in {"idle", "find"} => hdl[t] = None

\* The mutex is held from Lock to Return.
MutexHeld == \A h \in Handles, t \in Callers : lock[h] = t <=> hdl[t] = h /\ pc[t] \in Held

\* A call, its answer, and the map its write started from.
Request(t) ==
  /\ req[t] # None <=> pc[t] # "idle"
  /\ answer[t] # None <=> pc[t] = "done"
  /\ pc[t] = "load" => cache[hdl[t]] = None /\ req[t].op # "clear"
  /\ Persisting(t) => /\ req[t].op # "get" /\ old[t] \in Contents
                      /\ cache[hdl[t]] = Apply(req[t], old[t])

\* Only the holder of the mutex has the tmp file open, and what it renames is
\* its map.
TmpFile(t) ==
  /\ pc[t] \in {"write", "sync"} => fd[t] = tmp /\ tmp # None
  /\ pc[t] \notin {"write", "sync"} => fd[t] = None
  /\ pc[t] = "rename" => tmp # None /\ blob[tmp] = cache[hdl[t]]
Names == mixed = {} /\ (path # None => path # tmp)

Inv ==
  /\ TypeOK /\ FileWhole /\ MutexHeld /\ Names
  /\ \A t \in Callers : OneHandle(t) /\ Request(t) /\ TmpFile(t)

\* The mutex excludes.
LEMMA Exclusion ==
  ASSUME Inv, NEW t \in Callers, NEW u \in Callers, pc[t] \in Held, pc[u] \in Held
  PROVE  t = u
<1>1. store \in Handles /\ hdl[t] = store /\ hdl[u] = store
  BY DEF Inv, TypeOK, OneHandle, Held
<1> QED BY <1>1 DEF Inv, MutexHeld

LEMMA DecodedType == ASSUME Inv PROVE Decoded \in Contents
BY NothingType DEF Inv, FileWhole, Decoded

LEMMA InitInv == Init => Inv
BY DEF Init, Inv, TypeOK, FileWhole, MutexHeld, Names, OneHandle, Request, TmpFile, Idle,
       Stages, Using, Held, Persisting

-----------------------------------------------------------------------------

LEMMA InvokeInv ==
  ASSUME Inv, ~Overlap, NEW t \in Callers, NEW r \in Requests, Invoke(t, r)
  PROVE  Inv'
<1> USE DEF Inv, Invoke, Goto, memVars, fileVars, taskVars
<1>1. TypeOK' BY DEF TypeOK, Stages
<1>2. FileWhole' /\ Names' BY DEF FileWhole, Names, TypeOK, TmpFile, OneHandle, Using, Request, Persisting
<1>3. MutexHeld' BY DEF TypeOK, MutexHeld, OneHandle, Using, Held
<1>4. ASSUME NEW u \in Callers PROVE OneHandle(u)'
  BY DEF TypeOK, OneHandle, OthersIdle, Using
<1>5. ASSUME NEW u \in Callers PROVE Request(u)'
  BY DEF TypeOK, Request, Persisting, OneHandle, Using, OthersIdle
<1>6. ASSUME NEW u \in Callers PROVE TmpFile(u)'
  BY DEF TypeOK, TmpFile, OneHandle, Using, OthersIdle, Names, Request, Persisting
<1> QED BY <1>1, <1>2, <1>3, <1>4, <1>5, <1>6

LEMMA FindInv ==
  ASSUME Inv, ~Overlap, NEW t \in Callers, Find(t)
  PROVE  Inv'
<1> USE DEF Inv, Find, Goto, memVars, fileVars, taskVars
<1>1. TypeOK' BY DEF TypeOK, Stages
<1>2. FileWhole' /\ Names' BY DEF FileWhole, Names, TypeOK, TmpFile, OneHandle, Using, Request, Persisting
<1>3. MutexHeld' BY DEF TypeOK, MutexHeld, OneHandle, Using, Held
<1>4. ASSUME NEW u \in Callers PROVE OneHandle(u)'
  BY DEF TypeOK, OneHandle, OthersIdle, Using
<1>5. ASSUME NEW u \in Callers PROVE Request(u)'
  BY DEF TypeOK, Request, Persisting, OneHandle, Using, OthersIdle
<1>6. ASSUME NEW u \in Callers PROVE TmpFile(u)'
  BY DEF TypeOK, TmpFile, OneHandle, Using, OthersIdle, Names, Request, Persisting
<1> QED BY <1>1, <1>2, <1>3, <1>4, <1>5, <1>6

LEMMA NewHandleInv ==
  ASSUME Inv, ~Overlap, NEW t \in Callers, NEW h \in Handles, NewHandle(t, h)
  PROVE  Inv'
<1> USE DEF Inv, NewHandle, FreshHandle, Goto, memVars, fileVars, taskVars
<1>1. TypeOK' BY DEF TypeOK, Stages
<1>2. FileWhole' /\ Names' BY DEF FileWhole, Names, TypeOK, TmpFile, OneHandle, Using, Request, Persisting
<1>3. MutexHeld' BY DEF TypeOK, MutexHeld, OneHandle, Using, Held
<1>4. ASSUME NEW u \in Callers PROVE OneHandle(u)'
  BY DEF TypeOK, OneHandle, OthersIdle, Using
<1>5. ASSUME NEW u \in Callers PROVE Request(u)'
  BY DEF TypeOK, Request, Persisting, OneHandle, Using, OthersIdle
<1>6. ASSUME NEW u \in Callers PROVE TmpFile(u)'
  BY DEF TypeOK, TmpFile, OneHandle, Using, OthersIdle, Names, Request, Persisting
<1> QED BY <1>1, <1>2, <1>3, <1>4, <1>5, <1>6

LEMMA InsertInv ==
  ASSUME Inv, ~Overlap, NEW t \in Callers, Insert(t)
  PROVE  Inv'
<1> USE DEF Inv, Insert, Goto, memVars, fileVars, taskVars
<1>1. TypeOK' BY DEF TypeOK, Stages
<1>2. FileWhole' /\ Names' BY DEF FileWhole, Names, TypeOK, TmpFile, OneHandle, Using, Request, Persisting
<1>3. MutexHeld' BY DEF TypeOK, MutexHeld, OneHandle, Using, Held
<1>4. ASSUME NEW u \in Callers PROVE OneHandle(u)'
  BY DEF TypeOK, OneHandle, OthersIdle, Using
<1>5. ASSUME NEW u \in Callers PROVE Request(u)'
  BY DEF TypeOK, Request, Persisting, OneHandle, Using, OthersIdle
<1>6. ASSUME NEW u \in Callers PROVE TmpFile(u)'
  BY DEF TypeOK, TmpFile, OneHandle, Using, OthersIdle, Names, Request, Persisting
<1> QED BY <1>1, <1>2, <1>3, <1>4, <1>5, <1>6

LEMMA WriteSomeInv ==
  ASSUME Inv, ~Overlap, NEW t \in Callers, WriteSome(t)
  PROVE  Inv'
<1>0. \A u \in Callers \ {t} : pc[u] \notin Held
  BY Exclusion DEF WriteSome, Held, Using
<1> USE DEF Inv, WriteSome, Goto, memVars, fileVars, taskVars
<1>1. TypeOK' BY DEF TypeOK, Stages
<1>2. FileWhole' /\ Names' BY DEF FileWhole, Names, TypeOK, TmpFile, OneHandle, Using, Request, Persisting
<1>3. MutexHeld' BY DEF TypeOK, MutexHeld, OneHandle, Using, Held
<1>4. ASSUME NEW u \in Callers PROVE OneHandle(u)'
  BY DEF TypeOK, OneHandle, OthersIdle, Using
<1>5. ASSUME NEW u \in Callers PROVE Request(u)'
  BY DEF TypeOK, Request, Persisting, OneHandle, Using, OthersIdle
<1>6. ASSUME NEW u \in Callers PROVE TmpFile(u)'
  BY <1>0 DEF Held, TypeOK, TmpFile, OneHandle, Using, OthersIdle, Names, Request, Persisting
<1> QED BY <1>1, <1>2, <1>3, <1>4, <1>5, <1>6

LEMMA RenameInv ==
  ASSUME Inv, ~Overlap, NEW t \in Callers, Rename(t)
  PROVE  Inv'
<1>0. \A u \in Callers \ {t} : pc[u] \notin Held
  BY Exclusion DEF Rename, Held, Using
<1> USE DEF Inv, Rename, Goto, memVars, fileVars, taskVars
<1>1. TypeOK' BY DEF TypeOK, Stages
<1>2. FileWhole' /\ Names'
  <2>1. blob[tmp] = Apply(req[t], old[t]) /\ req[t] \in Requests
    BY DEF TmpFile, Request, Persisting, TypeOK
  <2>2. blob[tmp] \in Contents BY <2>1, ApplyType DEF Request, Persisting
  <2> QED BY <2>2 DEF FileWhole, Names, TypeOK
<1>3. MutexHeld' BY DEF TypeOK, MutexHeld, OneHandle, Using, Held
<1>4. ASSUME NEW u \in Callers PROVE OneHandle(u)'
  BY DEF TypeOK, OneHandle, OthersIdle, Using
<1>5. ASSUME NEW u \in Callers PROVE Request(u)'
  BY DEF TypeOK, Request, Persisting, OneHandle, Using, OthersIdle
<1>6. ASSUME NEW u \in Callers PROVE TmpFile(u)'
  BY <1>0 DEF Held, TypeOK, TmpFile, OneHandle, Using, OthersIdle, Names, Request, Persisting
<1> QED BY <1>1, <1>2, <1>3, <1>4, <1>5, <1>6

LEMMA IoErrorInv ==
  ASSUME Inv, ~Overlap, NEW t \in Callers, IoError(t)
  PROVE  Inv'
<1> USE DEF Inv, IoError, Goto, memVars, fileVars, taskVars
<1>1. TypeOK' BY DEF TypeOK, Stages
<1>2. FileWhole' /\ Names' BY DEF FileWhole, Names, TypeOK, TmpFile, OneHandle, Using, Request, Persisting
<1>3. MutexHeld' BY DEF TypeOK, MutexHeld, OneHandle, Using, Held
<1>4. ASSUME NEW u \in Callers PROVE OneHandle(u)'
  BY DEF TypeOK, OneHandle, OthersIdle, Using
<1>5. ASSUME NEW u \in Callers PROVE Request(u)'
  BY DEF TypeOK, Request, Persisting, OneHandle, Using, OthersIdle
<1>6. ASSUME NEW u \in Callers PROVE TmpFile(u)'
  BY DEF TypeOK, TmpFile, OneHandle, Using, OthersIdle, Names, Request, Persisting
<1> QED BY <1>1, <1>2, <1>3, <1>4, <1>5, <1>6

LEMMA ReturnInv ==
  ASSUME Inv, ~Overlap, NEW t \in Callers, Return(t)
  PROVE  Inv'
<1> USE DEF Inv, Return, Goto, memVars, fileVars, taskVars
<1>1. TypeOK' BY DEF TypeOK, Stages
<1>2. FileWhole' /\ Names' BY DEF FileWhole, Names, TypeOK, TmpFile, OneHandle, Using, Request, Persisting
<1>3. MutexHeld' BY DEF TypeOK, MutexHeld, OneHandle, Using, Held
<1>4. ASSUME NEW u \in Callers PROVE OneHandle(u)'
  BY DEF TypeOK, OneHandle, OthersIdle, Using
<1>5. ASSUME NEW u \in Callers PROVE Request(u)'
  BY DEF TypeOK, Request, Persisting, OneHandle, Using, OthersIdle
<1>6. ASSUME NEW u \in Callers PROVE TmpFile(u)'
  BY DEF TypeOK, TmpFile, OneHandle, Using, OthersIdle, Names, Request, Persisting
<1> QED BY <1>1, <1>2, <1>3, <1>4, <1>5, <1>6

LEMMA CreateInv ==
  ASSUME Inv, ~Overlap, NEW t \in Callers, NEW n \in Inodes, Create(t, n)
  PROVE  Inv'
<1>0. \A u \in Callers \ {t} : pc[u] \notin Held
  BY Exclusion DEF Create, Held, Using
<1> USE DEF Inv, Create, Goto, memVars, fileVars, taskVars, Open, FreshInode
<1>1. TypeOK' BY DEF TypeOK, Stages
<1>2. FileWhole' /\ Names'
  BY <1>0 DEF FileWhole, Names, TypeOK, TmpFile, Held, Using
<1>3. MutexHeld' BY DEF TypeOK, MutexHeld, OneHandle, Using, Held
<1>4. ASSUME NEW u \in Callers PROVE OneHandle(u)'
  BY DEF TypeOK, OneHandle, OthersIdle, Using
<1>5. ASSUME NEW u \in Callers PROVE Request(u)'
  BY DEF TypeOK, Request, Persisting, OneHandle, Using, OthersIdle
<1>6. ASSUME NEW u \in Callers PROVE TmpFile(u)'
  BY <1>0 DEF Held, TypeOK, TmpFile, OneHandle, Using, OthersIdle, Names, Request, Persisting
<1> QED BY <1>1, <1>2, <1>3, <1>4, <1>5, <1>6

LEMMA SyncInv ==
  ASSUME Inv, ~Overlap, NEW t \in Callers, Sync(t)
  PROVE  Inv'
<1>0. \A u \in Callers \ {t} : pc[u] \notin Held
  BY Exclusion DEF Sync, Held, Using
<1> USE DEF Inv, Sync, Goto, memVars, fileVars, taskVars
<1>1. TypeOK'
  <2>1. cache[hdl[t]] = Apply(req[t], old[t]) /\ req[t] \in Requests /\ old[t] \in Contents
    BY DEF Request, Persisting, TypeOK
  <2>2. cache[hdl[t]] \in Contents BY <2>1, ApplyType
  <2> QED BY <2>2 DEF TypeOK, Stages
<1>2. FileWhole' /\ Names'
  BY <1>0 DEF FileWhole, Names, TypeOK, TmpFile, Held, Using
<1>3. MutexHeld' BY DEF TypeOK, MutexHeld, OneHandle, Using, Held
<1>4. ASSUME NEW u \in Callers PROVE OneHandle(u)'
  BY DEF TypeOK, OneHandle, OthersIdle, Using
<1>5. ASSUME NEW u \in Callers PROVE Request(u)'
  BY DEF TypeOK, Request, Persisting, OneHandle, Using, OthersIdle
<1>6. ASSUME NEW u \in Callers PROVE TmpFile(u)'
  BY <1>0 DEF Held, TypeOK, TmpFile, OneHandle, Using, OthersIdle, Names, Request, Persisting
<1> QED BY <1>1, <1>2, <1>3, <1>4, <1>5, <1>6

\* A get answers, and another request changes the map and goes on to persist.
LEMMA UseMapInv ==
  ASSUME Inv, NEW t \in Callers, NEW m \in Contents, UseMap(t, m),
         pc[t] \in {"lock", "load"},
         lock' = [lock EXCEPT ![hdl[t]] = t],
         pc[t] = "lock" => lock[hdl[t]] = None,
         UNCHANGED <<store, fileVars, req, hdl, fd>>
  PROVE  Inv'
<1> USE DEF Inv, UseMap, Goto, fileVars
<1>0. /\ req[t] \in Requests /\ hdl[t] = store /\ store \in Handles /\ pc'[t] \in Held
      /\ Apply(req[t], m) \in Contents /\ Selected(req[t], m) \in Contents
  <2>1. req[t] \in Requests BY DEF TypeOK, Request
  <2>2. Apply(req[t], m) \in Contents /\ Selected(req[t], m) \in Contents
    BY <2>1, ApplyType
  <2> QED BY <2>1, <2>2 DEF TypeOK, OneHandle, Using, Held
<1>1. \A u \in Callers \ {t} : pc[u] \notin Held /\ pc'[u] = pc[u]
  BY <1>0 DEF TypeOK, MutexHeld, OneHandle, Using, Held
<1>2. TypeOK' BY <1>0 DEF TypeOK, Stages
<1>3. FileWhole' /\ Names' BY DEF FileWhole, Names
<1>4. MutexHeld' BY <1>0, <1>1 DEF TypeOK, MutexHeld, OneHandle, Using, Held
<1>5. ASSUME NEW u \in Callers PROVE OneHandle(u)'
  BY <1>0 DEF TypeOK, OneHandle, OthersIdle, Using
<1>6. ASSUME NEW u \in Callers PROVE Request(u)'
  BY <1>0, <1>1 DEF TypeOK, Request, Persisting, Held, Using
<1>7. ASSUME NEW u \in Callers PROVE TmpFile(u)'
  BY <1>0, <1>1 DEF TypeOK, TmpFile, Held, Using
<1> QED BY <1>2, <1>3, <1>4, <1>5, <1>6, <1>7

LEMMA LockInv ==
  ASSUME Inv, ~Overlap, NEW t \in Callers, Lock(t)
  PROVE  Inv'
<1>0. hdl[t] = store /\ store \in Handles BY DEF Inv, Lock, TypeOK, OneHandle, Using
<1>1. CASE Loaded(t) /\ UseMap(t, cache[hdl[t]])
  <2>1. cache[hdl[t]] \in Contents BY <1>0, <1>1 DEF Loaded, Inv, TypeOK
  <2> QED BY <1>1, <2>1, UseMapInv DEF Lock
<1>2. CASE ~Loaded(t) /\ UseMap(t, Decoded)
  BY <1>2, DecodedType, UseMapInv DEF Lock
<1>3. CASE ~Loaded(t) /\ req[t].op # "clear" /\ Goto(t, "load") /\ UNCHANGED <<cache, answer, old>>
  <2> USE <1>0, <1>3 DEF Lock, Loaded, Goto, fileVars, Inv
  <2>1. TypeOK' BY DEF TypeOK, Stages
  <2>2. FileWhole' /\ Names' BY DEF FileWhole, Names
  <2>3. MutexHeld' BY DEF TypeOK, MutexHeld, OneHandle, Using, Held
  <2>4. ASSUME NEW u \in Callers PROVE OneHandle(u)'
    BY DEF TypeOK, OneHandle, OthersIdle, Using
  <2>5. ASSUME NEW u \in Callers PROVE Request(u)'
    BY DEF TypeOK, Request, Persisting
  <2>6. ASSUME NEW u \in Callers PROVE TmpFile(u)' BY DEF TypeOK, TmpFile
  <2> QED BY <2>1, <2>2, <2>3, <2>4, <2>5, <2>6
<1> QED BY <1>1, <1>2, <1>3 DEF Lock

LEMMA LoadInv ==
  ASSUME Inv, ~Overlap, NEW t \in Callers, Load(t)
  PROVE  Inv'
<1>1. hdl[t] = store /\ store \in Handles /\ lock[hdl[t]] = t
  BY DEF Inv, Load, TypeOK, OneHandle, Using, MutexHeld, Held
<1>2. lock' = [lock EXCEPT ![hdl[t]] = t] BY <1>1 DEF Load, Inv, TypeOK
<1> QED BY <1>1, <1>2, DecodedType, UseMapInv DEF Load

LEMMA UnloadInv ==
  ASSUME Inv, ~Overlap, Unload
  PROVE  Inv'
BY DEF Unload, Inv, memVars, fileVars, taskVars, TypeOK, FileWhole, Names, MutexHeld,
       OneHandle, Request, TmpFile, Using, Held, Persisting, OthersIdle

LEMMA CrashInv ==
  ASSUME Inv, Crash
  PROVE  Inv'
BY DEF Crash, Idle, Inv, memVars, fileVars, taskVars, TypeOK, FileWhole, Names, MutexHeld,
       OneHandle, Request, TmpFile, Using, Held, Persisting, OthersIdle, Stages

LEMMA NextInv ==
  ASSUME Inv, ~Overlap, [Next]_vars
  PROVE  Inv'
<1>1. CASE Unload BY <1>1, UnloadInv
<1>2. CASE Crash BY <1>2, CrashInv
<1>3. ASSUME NEW t \in Callers, Advance(t) PROVE Inv'
  BY <1>3, InvokeInv, FindInv, NewHandleInv, InsertInv, LockInv, LoadInv, CreateInv,
     WriteSomeInv, SyncInv, RenameInv, IoErrorInv, ReturnInv DEF Advance
<1>4. CASE UNCHANGED vars
  BY <1>4 DEF vars, Inv, memVars, fileVars, taskVars, TypeOK, FileWhole, Names, MutexHeld,
       OneHandle, Request, TmpFile, Persisting, OthersIdle
<1> QED BY <1>1, <1>2, <1>3, <1>4 DEF Next

\* Without overlap the invariant holds in every state.
THEOREM Invariance == ~Overlap => (Spec => []Inv)
<1> SUFFICES ASSUME ~Overlap PROVE Spec => []Inv OBVIOUS
<1>1. Inv /\ [Next]_vars => Inv' BY NextInv
<1> QED BY <1>1, InitInv, PTL DEF Spec

\* Without overlap every variable keeps its type.  (With it, a clear of a handle
\* that was not loaded may start from a torn file.)
THEOREM TypeCorrect == ~Overlap => (Spec => []TypeOK)
<1> SUFFICES ASSUME ~Overlap PROVE Spec => []TypeOK OBVIOUS
<1>1. Inv => TypeOK BY DEF Inv
<1> QED BY <1>1, Invariance, PTL

\* Without overlap the file is absent or whole in every state, whichever file
\* operations fail and wherever the process dies.
THEOREM FileIsWhole == ~Overlap => (Spec => []FileWhole)
<1> SUFFICES ASSUME ~Overlap PROVE Spec => []FileWhole OBVIOUS
<1>1. Inv => FileWhole BY DEF Inv
<1> QED BY <1>1, Invariance, PTL

-----------------------------------------------------------------------------

\* What callers see while a write persists, and what they see otherwise.
Settled == IF store # None /\ cache[store] # None THEN cache[store] ELSE Decoded

CurrentRight ==
  /\ \A t \in Callers : Persisting(t) => Current = old[t]
  /\ (\A t \in Callers : ~Persisting(t)) => Current = Settled

LEMMA CurrentIs == Inv => CurrentRight
<1> SUFFICES ASSUME Inv PROVE CurrentRight OBVIOUS
<1>1. ASSUME NEW t \in Callers, Persisting(t) PROVE Current = old[t]
  <2>1. \A u \in Callers : Persisting(u) => pc[u] \in Held /\ hdl[u] = store
    BY DEF Inv, OneHandle, Persisting, Held, Using
  <2>2. \A u \in Callers : Persisting(u) => u = t BY <1>1, <2>1, Exclusion
  <2> QED BY <1>1, <2>1, <2>2 DEF Current
<1>2. (\A t \in Callers : ~Persisting(t)) => Current = Settled BY DEF Current, Settled
<1> QED BY <1>1, <1>2 DEF CurrentRight

LEMMA CurrentIsNext == Inv' => CurrentRight'
BY CurrentIs, PTL

\* Nobody persists while the mutex is free or its holder is somewhere else.
LEMMA NobodyPersists ==
  ASSUME Inv, NEW t \in Callers, pc[t] \in {"lock", "load", "done"},
         pc[t] = "lock" => lock[hdl[t]] = None
  PROVE  \A u \in Callers : ~Persisting(u)
<1>1. hdl[t] = store /\ store \in Handles BY DEF Inv, TypeOK, OneHandle, Using
<1>2. ASSUME NEW u \in Callers, Persisting(u) PROVE FALSE
  <2>1. hdl[u] = store /\ pc[u] \in Held /\ pc[u] # pc[t]
    BY <1>2 DEF Inv, OneHandle, Persisting, Held, Using
  <2>2. lock[store] = u BY <1>1, <2>1 DEF Inv, MutexHeld
  <2>3. pc[t] # "lock" BY <1>1, <2>2
  <2> QED BY <2>1, <2>3, Exclusion DEF Held, Using
<1> QED BY <1>2

\* Steps that neither touch the handle's map nor the file leave what callers
\* see and what is durable alone.
LEMMA SameView ==
  ASSUME Inv, Inv', Settled' = Settled, UNCHANGED old,
         \A u \in Callers : Persisting(u)' <=> Persisting(u)
  PROVE  Current' = Current
<1>1. CASE \E u \in Callers : Persisting(u)
  <2>1. PICK u \in Callers : Persisting(u) BY <1>1
  <2> QED BY <2>1, CurrentIs, CurrentIsNext DEF CurrentRight
<1>2. CASE \A u \in Callers : ~Persisting(u)
  BY <1>2, CurrentIs, CurrentIsNext DEF CurrentRight
<1> QED BY <1>1, <1>2

\* The file keeps its content while only other inodes are written.
LEMMA SameFile ==
  ASSUME Inv, UNCHANGED path, path # None => blob'[path] = blob[path]
  PROVE  Decoded' = Decoded
BY DEF Decoded

LEMMA UseMapView ==
  ASSUME Inv, Inv', NEW t \in Callers, NEW m \in Contents, UseMap(t, m), m = Current,
         pc[t] \in {"lock", "load"}, \A u \in Callers : ~Persisting(u),
         UNCHANGED <<store, fileVars, req, hdl, fd>>
  PROVE  Map!Get(t) \/ UNCHANGED Map!vars
<1>0. /\ hdl[t] = store /\ store \in Handles /\ Decoded' = Decoded
      /\ req[t] # None /\ answer[t] = None
  BY SameFile DEF Inv, TypeOK, OneHandle, Request, Using, fileVars
<1>1. CASE req[t].op = "get"
  <2>1. \A u \in Callers : ~Persisting(u)'
    BY <1>1 DEF UseMap, Goto, Persisting, Inv, TypeOK
  <2>2. cache'[store] = m /\ m # None BY <1>0, <1>1 DEF UseMap, Inv, TypeOK
  <2>3. Current' = Current
    BY <1>0, <2>1, <2>2, CurrentIsNext DEF CurrentRight, Settled
  <2> QED BY <1>0, <1>1, <2>3 DEF Map!Get, Map!Pending, UseMap, Map!Selected, Selected, Map!Named, Named
<1>2. CASE req[t].op # "get"
  <2>1. Persisting(t)' /\ old'[t] = m /\ UNCHANGED answer
    BY <1>2 DEF UseMap, Goto, Persisting, Inv, TypeOK
  <2>2. Current' = Current BY <2>1, CurrentIsNext DEF CurrentRight
  <2> QED BY <1>0, <2>1, <2>2 DEF Map!vars
<1> QED BY <1>1, <1>2

-----------------------------------------------------------------------------
(* Every step is a step of StorageMap or leaves what it sees unchanged. *)

Step == Map!Next \/ UNCHANGED Map!vars

LEMMA StartStep ==
  ASSUME Inv, Inv', NEW t \in Callers,
         \/ \E r \in Requests : Invoke(t, r)
         \/ Find(t) \/ Insert(t) \/ \E h \in Handles : NewHandle(t, h)
  PROVE  Step
<1> USE DEF Goto, memVars, fileVars
<1>1. Decoded' = Decoded BY SameFile DEF Invoke, Find, Insert, NewHandle
<1>2. /\ UNCHANGED <<old, answer>>
      /\ \A u \in Callers : Persisting(u)' <=> Persisting(u)
  BY DEF Invoke, Find, Insert, NewHandle, Persisting, Inv, TypeOK
<1>3. Settled' = Settled
  BY <1>1 DEF Settled, Invoke, Find, Insert, NewHandle, FreshHandle, Inv, TypeOK, OneHandle
<1>4. Current' = Current BY <1>2, <1>3, SameView
<1>5. CASE \E r \in Requests : Invoke(t, r)
  <2>1. PICK r \in Requests : Invoke(t, r) BY <1>5
  <2>2. req[t] = None BY <2>1 DEF Invoke, Inv, Request
  <2>3. Map!Invoke(t, r) BY <1>1, <1>2, <1>4, <2>1, <2>2 DEF Map!Invoke, Invoke
  <2> QED BY <2>3 DEF Step, Map!Next
<1>6. CASE Find(t) \/ Insert(t) \/ \E h \in Handles : NewHandle(t, h)
  BY <1>1, <1>2, <1>4, <1>6 DEF Step, Map!vars, Find, Insert, NewHandle
<1> QED BY <1>5, <1>6

LEMMA LockStep ==
  ASSUME Inv, Inv', NEW t \in Callers, Lock(t) \/ Load(t)
  PROVE  Step
<1>1. \A u \in Callers : ~Persisting(u) BY NobodyPersists DEF Lock, Load
<1>2. Current = Settled BY <1>1, CurrentIs DEF CurrentRight
<1>3. hdl[t] = store /\ store \in Handles
  BY DEF Inv, OneHandle, TypeOK, Using, Lock, Load
<1>4. CASE Lock(t) /\ Loaded(t) /\ UseMap(t, cache[hdl[t]])
  <2>1. cache[hdl[t]] = Current /\ cache[hdl[t]] \in Contents
    BY <1>2, <1>3, <1>4 DEF Settled, Loaded, Inv, TypeOK
  <2> QED BY <1>1, <1>4, <2>1, UseMapView DEF Lock, Step, Map!Next
<1>5. CASE ~Loaded(t) /\ UseMap(t, Decoded)
  <2>1. Decoded = Current BY <1>2, <1>3, <1>5 DEF Settled, Loaded
  <2> QED BY <1>1, <1>5, <2>1, DecodedType, UseMapView DEF Lock, Load, Step, Map!Next
<1>6. CASE Lock(t) /\ Goto(t, "load") /\ UNCHANGED <<cache, answer, old>>
  <2>1. Decoded' = Decoded BY <1>6, SameFile DEF Lock, fileVars
  <2>2. \A u \in Callers : Persisting(u)' <=> Persisting(u)
    BY <1>6 DEF Lock, Goto, Persisting, Inv, TypeOK
  <2>3. Current' = Current BY <1>6, <2>1, <2>2, SameView DEF Lock, Settled
  <2> QED BY <1>6, <2>1, <2>3 DEF Step, Map!vars, Lock
<1>7. Load(t) => ~Loaded(t) /\ UseMap(t, Decoded) BY DEF Load, Inv, Request, Loaded
<1> QED BY <1>4, <1>5, <1>6, <1>7 DEF Lock

LEMMA PersistStep ==
  ASSUME Inv, Inv', NEW t \in Callers,
         WriteSome(t) \/ Sync(t) \/ \E n \in Inodes : Create(t, n)
  PROVE  Step
<1> USE DEF Goto, memVars
<1>1. UNCHANGED path /\ (path # None => blob'[path] = blob[path])
  BY DEF WriteSome, Sync, Create, Open, FreshInode, Inv, TypeOK, Names, TmpFile
<1>2. Decoded' = Decoded BY <1>1, SameFile
<1>3. \A u \in Callers : Persisting(u)' <=> Persisting(u)
  BY DEF WriteSome, Sync, Create, Persisting, Inv, TypeOK
<1>4. Current' = Current BY <1>2, <1>3, SameView DEF WriteSome, Sync, Create, Settled
<1> QED BY <1>2, <1>4 DEF Step, Map!vars, WriteSome, Sync, Create

LEMMA RenameStep ==
  ASSUME Inv, Inv', NEW t \in Callers, Rename(t)
  PROVE  Step
<1> USE DEF Goto, memVars
<1>1. /\ hdl[t] = store /\ store \in Handles /\ blob[tmp] = cache[store]
      /\ req[t] # None /\ req[t] \in Requests /\ req[t].op # "get" /\ answer[t] = None
      /\ old[t] \in Contents /\ cache[store] = Apply(req[t], old[t])
  BY DEF Rename, Inv, TypeOK, OneHandle, Using, TmpFile, Request, Persisting
<1>2. Current = old[t] BY CurrentIs DEF CurrentRight, Rename, Persisting
<1>3. \A u \in Callers : ~Persisting(u)'
  BY Exclusion DEF Rename, Persisting, Held, Using, Inv, TypeOK
<1>4. cache[store] \in Contents BY <1>1, ApplyType
<1>5. Current' = cache[store] BY <1>1, <1>3, <1>4, CurrentIsNext DEF CurrentRight, Settled, Rename
<1>6. Decoded' = cache[store]
  BY <1>1, <1>4 DEF Decoded, Rename, Inv, TypeOK
<1>7. Map!Write(t)
  BY <1>1, <1>2, <1>5, <1>6
  DEF Map!Write, Map!Pending, Rename, Map!Apply, Apply, Map!Named, Named
<1> QED BY <1>7 DEF Step, Map!Next

LEMMA ErrorStep ==
  ASSUME Inv, Inv', NEW t \in Callers, IoError(t)
  PROVE  Step
<1> USE DEF Goto, memVars, fileVars
<1>1. /\ hdl[t] = store /\ store \in Handles
      /\ req[t] # None /\ req[t] \in Requests /\ answer[t] = None
      /\ Persisting(t) \/ pc[t] = "load"
  BY DEF IoError, Inv, TypeOK, OneHandle, Using, Request, Persisting
<1>2. Decoded' = Decoded BY SameFile DEF IoError
<1>3. pc'[t] = "done" /\ \A u \in Callers \ {t} : pc[u] \notin Held /\ pc'[u] = pc[u]
  BY Exclusion DEF IoError, Held, Using, Inv, TypeOK
<1>4. \A u \in Callers : ~Persisting(u)' BY <1>3 DEF Persisting, Held, Using
<1>5. Current' = Settled
  BY <1>2, <1>4, CurrentIsNext DEF CurrentRight, Settled, IoError
<1>6. CASE Persisting(t)
  <2>1. Current = old[t] BY <1>6, CurrentIs DEF CurrentRight
  <2>2. /\ req[t].op # "get" /\ cache[store] = Apply(req[t], old[t])
        /\ cache[store] \in Contents
    BY <1>1, <1>6, ApplyType DEF Inv, Request
  <2>3. Current' = Apply(req[t], Current) BY <1>1, <1>5, <2>1, <2>2 DEF Settled
  <2>4. Map!Fail(t)
    BY <1>1, <1>2, <2>2, <2>3
    DEF Map!Fail, Map!Pending, IoError, Map!Apply, Apply, Map!Named, Named
  <2> QED BY <2>4 DEF Step, Map!Next
<1>7. CASE pc[t] = "load"
  <2>1. Current = Settled BY <1>7, NobodyPersists, CurrentIs DEF CurrentRight
  <2>2. Map!Fail(t)
    BY <1>1, <1>2, <1>5, <2>1 DEF Map!Fail, Map!Pending, IoError
  <2> QED BY <2>2 DEF Step, Map!Next
<1> QED BY <1>1, <1>6, <1>7

LEMMA ReturnStep ==
  ASSUME Inv, Inv', NEW t \in Callers, Return(t)
  PROVE  Step
<1> USE DEF Goto, fileVars
<1>1. Decoded' = Decoded BY SameFile DEF Return
<1>2. \A u \in Callers : ~Persisting(u) /\ ~Persisting(u)'
  BY NobodyPersists DEF Return, Persisting, Inv, TypeOK
<1>3. Current' = Current
  BY <1>1, <1>2, CurrentIs, CurrentIsNext DEF CurrentRight, Settled, Return
<1>4. Map!Return(t) BY <1>1, <1>3 DEF Map!Return, Return, Inv, Request
<1> QED BY <1>4 DEF Step, Map!Next

LEMMA ForgetStep ==
  ASSUME Inv, Inv', ~Overlap, Unload \/ Crash
  PROVE  Step
<1> USE DEF fileVars, taskVars
<1>1. Decoded' = Decoded BY SameFile DEF Unload, Crash
<1>2. \A u \in Callers : ~Persisting(u)' BY DEF Unload, Crash, Persisting, Idle
<1>3. Current' = Decoded
  BY <1>1, <1>2, CurrentIsNext DEF CurrentRight, Settled, Unload, Crash
<1>4. Map!Forget BY <1>1, <1>3 DEF Map!Forget, Unload, Crash, Idle
<1> QED BY <1>4 DEF Step, Map!Next

\* Without overlap the cache, the file and the lock together are one durable map,
\* on which each request takes effect at one moment between its call and return.
THEOREM Implementation == ~Overlap => (Spec => Implements)
<1> SUFFICES ASSUME ~Overlap PROVE Spec => Implements OBVIOUS
<1>1. Init => Map!Init
  <2> SUFFICES ASSUME Init PROVE Map!Init OBVIOUS
  <2>1. Decoded = Nothing BY DEF Init, Decoded
  <2>2. Current = Decoded BY DEF Init, Current, Persisting, Idle
  <2> QED BY <2>1, <2>2 DEF Map!Init, Init, Idle, Map!Nothing, Nothing
<1>2. Inv /\ Inv' /\ [Next]_vars => [Map!Next]_Map!vars
  <2> SUFFICES ASSUME Inv, Inv', [Next]_vars PROVE Step BY DEF Step
  <2>1. ASSUME NEW t \in Callers, Advance(t) PROVE Step
    BY <2>1, StartStep, LockStep, PersistStep, RenameStep, ErrorStep, ReturnStep DEF Advance
  <2>2. CASE Unload \/ Crash BY <2>2, ForgetStep
  <2>3. CASE UNCHANGED vars
    <3>1. UNCHANGED <<Current, Decoded, req, answer>>
      BY <2>3 DEF vars, memVars, fileVars, taskVars, Current, Persisting, Decoded
    <3> QED BY <3>1 DEF Step, Map!vars
  <2> QED BY <2>1, <2>2, <2>3 DEF Next
<1> QED BY <1>1, <1>2, Invariance, PTL DEF Spec, Implements, Map!Spec
=============================================================================
