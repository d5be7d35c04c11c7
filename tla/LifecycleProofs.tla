-------------------------- MODULE LifecycleProofs --------------------------
(***************************************************************************)
(* Type correctness of the lifecycle manager, the discipline of its entry  *)
(* mutexes, and the two invariants that rest on it: whoever takes an       *)
(* entry's mutex finds a settled state, and no open background window is   *)
(* without somebody who will close it.  What a sweep under way spares.     *)
(* Where calls do not overlap: what the state file, the registry, the      *)
(* event stream and the health check say once nothing is under way, over   *)
(* crashes and exits at any step.  Who waits for whom, and that each       *)
(* extension follows its state machine.                                    *)
(***************************************************************************)
EXTENDS Lifecycle, FiniteSetTheorems, TLAPS

(* Updates of a process's locals keep their type. *)

\* A call notes the id it was given or parsed.
LEMMA LocalId == \A r \in Local, i \in Ids \cup {None} : [r EXCEPT !.id = i] \in Local
BY DEF Local

\* A call notes the directory it installs.
LEMMA LocalDir == \A r \in Local, d \in Dirs \cup {None} : [r EXCEPT !.dir = d] \in Local
BY DEF Local

\* A call takes a worker's handle, out of an entry or from a spawn.
LEMMA LocalHdl == \A r \in Local, l \in Labels \cup {None} : [r EXCEPT !.hdl = l] \in Local
BY DEF Local

\* A spawn notes whether its second wait saw the label free.
LEMMA LocalFreed == \A r \in Local, b \in BOOLEAN : [r EXCEPT !.freed = b] \in Local
BY DEF Local

\* A reload keeps the entry's directory and forgets the id.
LEMMA LocalDirId ==
  \A r \in Local, d \in Dirs \cup {None}, i \in Ids \cup {None} :
    [r EXCEPT !.dir = d, !.id = i] \in Local
BY DEF Local

\* A parse yields an id and whether there is a worker.
LEMMA LocalIdSw ==
  \A r \in Local, i \in Ids, b \in BOOLEAN : [r EXCEPT !.id = i, !.sw = b] \in Local
BY DEF Local

\* An enable reads the entry's directory and its manifest.
LEMMA LocalDirSw ==
  \A r \in Local, d \in Dirs, b \in BOOLEAN : [r EXCEPT !.dir = d, !.sw = b] \in Local
BY DEF Local

\* A walk starts with a kind and the ids to visit.
LEMMA LocalWalk ==
  \A r \in Local, k \in {"rows", "project", "known", "shutdown"}, s \in SUBSET Ids :
    [r EXCEPT !.walk = k, !.todo = s] \in Local
BY DEF Local

\* A walk goes on to its next id.
LEMMA LocalTodo == \A r \in Local, i \in Ids : [r EXCEPT !.todo = @ \ {i}] \in Local
BY DEF Local

\* persist collects one entry's row.
LEMMA LocalRow == \A r \in Local, i \in Ids, w \in Row : [r EXCEPT !.rows[i] = w] \in Local
BY DEF Local, Rows

\* persist hands its rows to the store.
LEMMA LocalNoRows == \A r \in Local : [r EXCEPT !.rows = NoRows] \in Local
BY DEF Local, Rows, NoRows

\* A sweep notes labels.
LEMMA LocalLabels == \A r \in Local, s \in SUBSET Labels : [r EXCEPT !.labels = s] \in Local
BY DEF Local

\* Boot takes its next row.
LEMMA LocalRestoring ==
  \A r \in Local, d \in Dirs, s \in SUBSET (Ids \X Dirs) :
    [r EXCEPT !.dir = d, !.restore = s] \in Local
BY DEF Local

\* A returning call keeps only boot's remaining rows.
LEMMA LocalFresh ==
  \A s \in SUBSET (Ids \X Dirs) : [NoLocal EXCEPT !.restore = s] \in Local
BY DEF Local, NoLocal, NoRows, Rows

\* The fields of a well-typed record of locals are well-typed.
LEMMA LocalFields ==
  \A r \in Local : /\ r.id \in Ids \cup {None} /\ r.dir \in Dirs \cup {None}
                   /\ r.sw \in BOOLEAN /\ r.hdl \in Labels \cup {None}
                   /\ r.rows \in Rows /\ r.labels \in SUBSET Labels
                   /\ r.restore \in SUBSET (Ids \X Dirs)
BY DEF Local

Windows == [Labels -> [st : {"free", "open", "closing"}, ext : Ids \cup {None}]]

\* A close request keeps the registrar's type.
LEMMA CloseTyped ==
  ASSUME TypeOK, NEW l \in Labels \cup {None}
  PROVE  CloseRequested(l) \in Windows
BY DEF CloseRequested, TypeOK, Windows

\* What a process holds or waits for is an allocated entry with a directory.
LEMMA RefEntry ==
  ASSUME TypeOK, Wellformed, NEW t \in Procs,
         pc[t] \in {"peek", "lock", "visit"} \cup Holding
  PROVE  /\ ref[t] \in Objs /\ Mine(t) = heap[ref[t]] /\ Mine(t) \in Entry
         /\ Mine(t).id \in Ids /\ Mine(t).dir \in Dirs
         /\ Mine(t).hdl \in Labels \cup {None}
<1>1. ref[t] \in Objs BY DEF Wellformed, CallWellformed
<1>2. heap[ref[t]] \in Entry BY <1>1 DEF TypeOK
<1>3. heap[ref[t]].id # None BY <1>1, ConstantsAssumption DEF Wellformed, CallWellformed, TypeOK
<1> QED BY <1>1, <1>2, <1>3 DEF Mine, Entry, Wellformed, CallWellformed, EntryWellformed

\* The ids a walk snapshots are ids.
LEMMA KnownIds == TypeOK => Known \in SUBSET Ids
BY DEF Known

\* A step of a process under way keeps every variable's type.
LEMMA TypeAdvance ==
  ASSUME TypeOK, Wellformed, NEW t \in Procs, Advance(t)
  PROVE  TypeOK'
<1> USE DEF Goto, envVars, entryVars, outVars
<1>a. loc[t] \in Local BY DEF TypeOK
<1>b. /\ loc[t].id \in Ids \cup {None} /\ loc[t].dir \in Dirs \cup {None}
      /\ loc[t].sw \in BOOLEAN /\ loc[t].hdl \in Labels \cup {None}
      /\ loc[t].rows \in Rows /\ loc[t].labels \in SUBSET Labels
      /\ loc[t].restore \in SUBSET (Ids \X Dirs)
  BY <1>a, LocalFields
<1>c. pc[t] \in {"entry"} \cup Holding => LabelFor(t) \in Labels
  BY ConstantsAssumption DEF LabelFor, Wellformed, CallWellformed, EntryWellformed
<1>r. ASSUME Return(t) PROVE /\ pc' \in [Procs -> Steps] /\ loc' \in [Procs -> Local]
                             /\ op' = [op EXCEPT ![t] = "none"]
                             /\ ref' \in [Procs -> Objs \cup {None}]
  <2>1. [NoLocal EXCEPT !.restore = loc[t].restore] \in Local BY <1>b, LocalFresh
  <2> QED BY <2>1, <1>r DEF Return, TypeOK, Steps
<1>s. \A o \in Objs : NoteStart(o) => fresh' \in [Sweepers -> SUBSET Objs]
  BY DEF TypeOK, NoteStart
<1>f. ForgetStarts(t) => fresh' \in [Sweepers -> SUBSET Objs]
  BY DEF TypeOK, ForgetStarts
<1>1. CASE Peek(t)
  <2>1. /\ ref[t] \in Objs /\ Mine(t) = heap[ref[t]] /\ Mine(t) \in Entry
        /\ Mine(t).id \in Ids /\ Mine(t).dir \in Dirs /\ Mine(t).hdl \in Labels \cup {None}
    BY <1>1, RefEntry DEF Peek, Holding
  <2>2. [loc[t] EXCEPT !.dir = Mine(t).dir, !.id = None] \in Local
    BY <1>a, <2>1, LocalDirId
  <2> QED BY <1>1, <2>1, <2>2 DEF Peek, TypeOK, Steps
<1>2. CASE ParseFails(t)
  BY <1>2, <1>r DEF ParseFails, TypeOK, Steps
<1>3. CASE Parse(t)
  <2>1. loc[t].dir \in Dirs
    BY <1>3 DEF Parse, Wellformed, CallWellformed, EntryWellformed
  <2>2. disk[loc[t].dir] # None => disk[loc[t].dir].id \in Ids /\ disk[loc[t].dir].sw \in BOOLEAN
    BY <2>1, ConstantsAssumption DEF TypeOK
  <2>3. [loc[t] EXCEPT !.id = disk[loc[t].dir].id, !.sw = disk[loc[t].dir].sw] \in Local
    BY <1>3, <1>a, <2>1, <2>2, LocalIdSw DEF Parse
  <2> QED BY <1>3, <2>1, <2>2, <2>3 DEF Parse, TypeOK, Steps
<1>4. CASE EntryFound(t)
  <2>1. loc[t].id \in Ids
    BY <1>4 DEF EntryFound, Wellformed, CallWellformed, EntryWellformed
  <2> QED BY <1>4, <2>1 DEF EntryFound, TypeOK, Steps
<1>5. ASSUME NEW o \in Objs, EntryAdded(t, o) PROVE TypeOK'
  <2>1. loc[t].id \in Ids
    BY <1>5 DEF EntryAdded, Wellformed, CallWellformed, EntryWellformed
  <2>2. [Unused EXCEPT !.id = loc[t].id, !.dir = loc[t].dir] \in Entry
    BY <1>b DEF Entry, Unused, States
  <2> QED BY <1>5, <2>1, <2>2 DEF EntryAdded, TypeOK, Steps
<1>6. CASE InstallOverRunning(t)
  <2>1. /\ ref[t] \in Objs /\ Mine(t) = heap[ref[t]] /\ Mine(t) \in Entry
        /\ Mine(t).id \in Ids /\ Mine(t).dir \in Dirs /\ Mine(t).hdl \in Labels \cup {None}
    BY <1>6, RefEntry DEF InstallOverRunning, At, Holding
  <2>2. [Mine(t) EXCEPT !.dir = loc[t].dir, !.st = "stopping", !.hdl = None] \in Entry
    BY <1>b, <2>1 DEF Entry, States
  <2>3. [loc[t] EXCEPT !.hdl = Mine(t).hdl] \in Local
    BY <1>a, <2>1, <2>2, LocalHdl
  <2>4. CloseRequested(Mine(t).hdl) \in Windows
    BY <2>1, <2>2, <2>3, CloseTyped
  <2> QED BY <1>6, <2>1, <2>2, <2>3, <2>4 DEF InstallOverRunning, TypeOK, Steps, Take,
     SetEntry, Windows
<1>7. CASE InstallOverIdle(t)
  <2>1. /\ ref[t] \in Objs /\ Mine(t) = heap[ref[t]] /\ Mine(t) \in Entry
        /\ Mine(t).id \in Ids /\ Mine(t).dir \in Dirs /\ Mine(t).hdl \in Labels \cup {None}
    BY <1>7, RefEntry DEF InstallOverIdle, At, Holding
  <2>2. [Mine(t) EXCEPT !.dir = loc[t].dir] \in Entry
    BY <1>b, <2>1 DEF Entry, States
  <2> QED BY <1>7, <2>1, <2>2 DEF InstallOverIdle, TypeOK, Steps, Take, SetEntry
<1>8. CASE UninstallLocks(t)
  <2>1. /\ ref[t] \in Objs /\ Mine(t) = heap[ref[t]] /\ Mine(t) \in Entry
        /\ Mine(t).id \in Ids /\ Mine(t).dir \in Dirs /\ Mine(t).hdl \in Labels \cup {None}
    BY <1>8, RefEntry DEF UninstallLocks, At, Holding
  <2>2. [Mine(t) EXCEPT !.st = "uninstalling", !.hdl = None] \in Entry
    BY <1>b, <2>1 DEF Entry, States
  <2>3. [loc[t] EXCEPT !.hdl = Mine(t).hdl] \in Local
    BY <1>a, <2>1, <2>2, LocalHdl
  <2>4. CloseRequested(Mine(t).hdl) \in Windows
    BY <2>1, <2>2, <2>3, CloseTyped
  <2> QED BY <1>8, <2>1, <2>2, <2>3, <2>4 DEF UninstallLocks, TypeOK, Steps, Take,
     SetEntry, Windows
<1>9. CASE DisableLocks(t)
  <2>1. /\ ref[t] \in Objs /\ Mine(t) = heap[ref[t]] /\ Mine(t) \in Entry
        /\ Mine(t).id \in Ids /\ Mine(t).dir \in Dirs /\ Mine(t).hdl \in Labels \cup {None}
    BY <1>9, RefEntry DEF DisableLocks, At, Holding
  <2>2. [Mine(t) EXCEPT !.st = "stopping", !.hdl = None] \in Entry
    BY <1>b, <2>1 DEF Entry, States
  <2>3. [loc[t] EXCEPT !.hdl = Mine(t).hdl] \in Local
    BY <1>a, <2>1, <2>2, LocalHdl
  <2>4. CloseRequested(Mine(t).hdl) \in Windows
    BY <2>1, <2>2, <2>3, CloseTyped
  <2> QED BY <1>9, <2>1, <2>2, <2>3, <2>4 DEF DisableLocks, TypeOK, Steps, Take,
     SetEntry, Windows
<1>10. CASE DisableIdle(t)
  <2>1. /\ ref[t] \in Objs /\ Mine(t) = heap[ref[t]] /\ Mine(t) \in Entry
        /\ Mine(t).id \in Ids /\ Mine(t).dir \in Dirs /\ Mine(t).hdl \in Labels \cup {None}
    BY <1>10, RefEntry DEF DisableIdle, At, Holding
  <2>2. [Mine(t) EXCEPT !.enabled = FALSE] \in Entry
    BY <1>b, <2>1 DEF Entry, States
  <2> QED BY <1>10, <2>1, <2>2 DEF DisableIdle, TypeOK, Steps, SetEntry
<1>11. CASE EnableRunning(t)
  <2>1. /\ ref[t] \in Objs /\ Mine(t) = heap[ref[t]] /\ Mine(t) \in Entry
        /\ Mine(t).id \in Ids /\ Mine(t).dir \in Dirs /\ Mine(t).hdl \in Labels \cup {None}
    BY <1>11, RefEntry DEF EnableRunning, At, Holding
  <2>2. [Mine(t) EXCEPT !.enabled = TRUE] \in Entry
    BY <1>b, <2>1 DEF Entry, States
  <2> QED BY <1>11, <2>1, <2>2, <1>r DEF EnableRunning, TypeOK, Steps, SetEntry
<1>12. CASE EnableFails(t)
  BY <1>12, <1>r DEF EnableFails, TypeOK, Steps
<1>13. CASE EnableLocks(t)
  <2>1. /\ ref[t] \in Objs /\ Mine(t) = heap[ref[t]] /\ Mine(t) \in Entry
        /\ Mine(t).id \in Ids /\ Mine(t).dir \in Dirs /\ Mine(t).hdl \in Labels \cup {None}
    BY <1>13, RefEntry DEF EnableLocks, At, Holding
  <2>2. disk[Mine(t).dir] # None => disk[Mine(t).dir].sw \in BOOLEAN
    BY <2>1, ConstantsAssumption DEF TypeOK
  <2>3. [loc[t] EXCEPT !.dir = Mine(t).dir, !.sw = disk[Mine(t).dir].sw] \in Local
    BY <1>13, <1>a, <2>1, <2>2, LocalDirSw DEF EnableLocks
  <2> QED BY <1>13, <2>1, <2>2, <2>3 DEF EnableLocks, TypeOK, Steps, Take
<1>14. CASE ReloadStopped(t)
  <2>1. /\ ref[t] \in Objs /\ Mine(t) = heap[ref[t]] /\ Mine(t) \in Entry
        /\ Mine(t).id \in Ids /\ Mine(t).dir \in Dirs /\ Mine(t).hdl \in Labels \cup {None}
    BY <1>14, RefEntry DEF ReloadStopped, TornDown, Holding
  <2>2. [Mine(t) EXCEPT !.st = "stopped"] \in Entry
    BY <1>b, <2>1 DEF Entry, States
  <2> QED BY <1>14, <2>1, <2>2 DEF ReloadStopped, TypeOK, Steps, SetEntry
<1>15. CASE DisableStopped(t)
  <2>1. /\ ref[t] \in Objs /\ Mine(t) = heap[ref[t]] /\ Mine(t) \in Entry
        /\ Mine(t).id \in Ids /\ Mine(t).dir \in Dirs /\ Mine(t).hdl \in Labels \cup {None}
    BY <1>15, RefEntry DEF DisableStopped, TornDown, Holding
  <2>2. [Mine(t) EXCEPT !.st = "stopped", !.enabled = FALSE] \in Entry
    BY <1>b, <2>1 DEF Entry, States
  <2> QED BY <1>15, <2>1, <2>2 DEF DisableStopped, TypeOK, Steps, SetEntry, See, Unlock
<1>16. CASE UninstallStopped(t)
  BY <1>16 DEF UninstallStopped, TypeOK, Steps, Unlock
<1>17. CASE Remove(t)
  BY <1>17 DEF Remove, TypeOK, Steps
<1>18. CASE Unroot(t)
  BY <1>18, <1>b DEF Unroot, TypeOK, Steps, See
<1>19. CASE PublishRoot(t)
  <2>1. [loc[t] EXCEPT !.hdl = None] \in Local
    BY <1>a, LocalHdl
  <2> QED BY <1>19, <2>1, <1>b DEF PublishRoot, TypeOK, Steps
<1>20. CASE FirstAwait(t)
  BY <1>20 DEF FirstAwait, TypeOK, Steps
<1>21. CASE Build(t)
  BY <1>21, <1>b, <1>c DEF Build, TypeOK, Steps, Windows
<1>22. CASE BuildFails(t)
  BY <1>22 DEF BuildFails, TypeOK, Steps
<1>23. CASE LabelTaken(t)
  BY <1>23 DEF LabelTaken, TypeOK, Steps
<1>24. CASE SecondAwait(t)
  <2>1. [loc[t] EXCEPT !.freed = Free(LabelFor(t))] \in Local
    BY <1>a, LocalFreed DEF Free
  <2> QED BY <1>24, <2>1 DEF SecondAwait, TypeOK, Steps
<1>25. CASE StillTaken(t)
  BY <1>25 DEF StillTaken, TypeOK, Steps
<1>26. CASE TakeHandle(t)
  <2>1. LabelFor(t) \in Labels
    BY <1>26, <1>c DEF TakeHandle, Holding
  <2>2. [loc[t] EXCEPT !.hdl = IF Free(LabelFor(t)) THEN None ELSE LabelFor(t)] \in Local
    BY <1>a, <2>1, LocalHdl
  <2> QED BY <1>26, <2>1, <2>2 DEF TakeHandle, TypeOK, Steps
<1>27. CASE CommitInstall(t)
  <2>1. /\ ref[t] \in Objs /\ Mine(t) = heap[ref[t]] /\ Mine(t) \in Entry
        /\ Mine(t).id \in Ids /\ Mine(t).dir \in Dirs /\ Mine(t).hdl \in Labels \cup {None}
    BY <1>27, RefEntry DEF CommitInstall, At, Holding
  <2>2. [Mine(t) EXCEPT !.st = "running", !.hdl = loc[t].hdl, !.enabled = TRUE] \in Entry
    BY <1>b, <2>1 DEF Entry, States
  <2>3. fresh' \in [Sweepers -> SUBSET Objs]
    BY <1>27, <1>s, <2>1 DEF CommitInstall
  <2> QED BY <1>27, <2>1, <2>2, <2>3 DEF CommitInstall, TypeOK, Steps, SetEntry, See, Unlock
<1>28. CASE CommitEnable(t)
  <2>1. /\ ref[t] \in Objs /\ Mine(t) = heap[ref[t]] /\ Mine(t) \in Entry
        /\ Mine(t).id \in Ids /\ Mine(t).dir \in Dirs /\ Mine(t).hdl \in Labels \cup {None}
    BY <1>28, RefEntry DEF CommitEnable, At, Holding
  <2>2. [Mine(t) EXCEPT !.st = "running", !.hdl = loc[t].hdl, !.enabled = TRUE] \in Entry
    BY <1>b, <2>1 DEF Entry, States
  <2>3. fresh' \in [Sweepers -> SUBSET Objs]
    BY <1>28, <1>s, <2>1 DEF CommitEnable
  <2> QED BY <1>28, <2>1, <2>2, <2>3 DEF CommitEnable, TypeOK, Steps, SetEntry, See, Unlock
<1>29. CASE EmitLate(t)
  BY <1>29 DEF EmitLate, TypeOK, Steps, See
<1>30. CASE BeginPersist(t)
  <2>1. [loc[t] EXCEPT !.walk = "rows", !.todo = Known] \in Local
    BY <1>a, KnownIds, LocalWalk
  <2> QED BY <1>30, <2>1 DEF BeginPersist, TypeOK, Steps, StartWalk
<1>31. ASSUME NEW i \in Ids, WalkNext(t, i) PROVE TypeOK'
  <2>1. [loc[t] EXCEPT !.todo = @ \ {i}] \in Local
    BY <1>a, LocalTodo
  <2> QED BY <1>31, <2>1 DEF WalkNext, TypeOK, Steps
<1>32. CASE CollectRow(t)
  <2>1. /\ ref[t] \in Objs /\ Mine(t) = heap[ref[t]] /\ Mine(t) \in Entry
        /\ Mine(t).id \in Ids /\ Mine(t).dir \in Dirs /\ Mine(t).hdl \in Labels \cup {None}
    BY <1>32, RefEntry DEF CollectRow, Visiting
  <2>2. [dir |-> Mine(t).dir, enabled |-> Mine(t).enabled] \in Row
    BY <2>1 DEF Row, Entry
  <2>3. [loc[t] EXCEPT !.rows[Mine(t).id] = [dir |-> Mine(t).dir, enabled |-> Mine(t).enabled]] \in Local
    BY <1>a, <2>1, <2>2, LocalRow
  <2> QED BY <1>32, <2>1, <2>2, <2>3 DEF CollectRow, TypeOK, Steps, Visiting
<1>33. CASE Save(t)
  <2>1. [loc[t] EXCEPT !.rows = NoRows] \in Local
    BY <1>a, LocalNoRows
  <2> QED BY <1>33, <2>1, <1>b DEF Save, TypeOK, Steps
<1>47. CASE SaveFails(t)
  <2>1. [loc[t] EXCEPT !.rows = NoRows] \in Local
    BY <1>a, LocalNoRows
  <2>2. loc[t].id \in Ids
    BY <1>47 DEF SaveFails, Walked, Wellformed, CallWellformed
  <2> QED BY <1>47, <2>1, <2>2 DEF SaveFails, TypeOK, Steps
<1>34. CASE Prune(t)
  <2>1. [loc[t] EXCEPT !.walk = "project", !.todo = Known] \in Local
    BY <1>a, KnownIds, LocalWalk
  <2> QED BY <1>34, <2>1 DEF Prune, TypeOK, Steps, StartWalk
<1>35. CASE Project(t)
  <2>1. /\ ref[t] \in Objs /\ Mine(t) = heap[ref[t]] /\ Mine(t) \in Entry
        /\ Mine(t).id \in Ids /\ Mine(t).dir \in Dirs /\ Mine(t).hdl \in Labels \cup {None}
    BY <1>35, RefEntry DEF Project, Visiting
  <2> QED BY <1>35, <2>1 DEF Project, TypeOK, Steps, Visiting
<1>36. CASE EndProject(t)
  BY <1>36, <1>r DEF EndProject, TypeOK, Steps
<1>37. CASE EndUninstall(t)
  BY <1>37, <1>r DEF EndUninstall, TypeOK, Steps
<1>38. CASE NoteLabel(t)
  <2>1. /\ ref[t] \in Objs /\ Mine(t) = heap[ref[t]] /\ Mine(t) \in Entry
        /\ Mine(t).id \in Ids /\ Mine(t).dir \in Dirs /\ Mine(t).hdl \in Labels \cup {None}
    BY <1>38, RefEntry DEF NoteLabel, Visiting
  <2>2. \A s \in SUBSET Labels : [loc[t] EXCEPT !.labels = s] \in Local
    BY <1>a, LocalLabels
  <2>3. loc[t].labels \cup ({Mine(t).hdl} \ {None}) \in SUBSET Labels
    BY <1>b, <2>1, <2>2
  <2> QED BY <1>38, <2>1, <2>2, <2>3, <1>b DEF NoteLabel, TypeOK, Steps, Visiting
<1>39. CASE ListWindows(t)
  <2>1. [loc[t] EXCEPT !.labels = {l \in Labels : ~Free(l)} \ @] \in Local
    BY <1>a, LocalLabels
  <2> QED BY <1>39, <2>1 DEF ListWindows, TypeOK, Steps
<1>40. ASSUME NEW l \in Labels, Reap(t, l) PROVE TypeOK'
  <2>1. [loc[t] EXCEPT !.labels = @ \ {l}] \in Local
    BY <1>a, <1>b, LocalLabels
  <2>2. CloseRequested(l) \in Windows
    BY CloseTyped
  <2> QED BY <1>40, <2>1, <2>2 DEF Reap, TypeOK, Windows
<1>41. CASE EndSweep(t)
  <2>1. Return(t) /\ ForgetStarts(t) /\ UNCHANGED <<disk, store, unsaved, entryVars, outVars>>
    BY <1>41 DEF EndSweep
  <2> QED BY <2>1, <1>r, <1>f DEF TypeOK
<1>42. CASE LoadStore(t)
  <2>1. {<<i, store[i].dir>> : i \in {j \in Ids : store[j] # None /\ store[j].enabled}} \in SUBSET (Ids \X Dirs)
    <3>1. \A i \in Ids : store[i] # None => store[i].dir \in Dirs
      BY DEF TypeOK, Rows, Row
    <3> QED BY <3>1
  <2>2. [NoLocal EXCEPT !.restore = {<<i, store[i].dir>> : i \in {j \in Ids : store[j] # None /\ store[j].enabled}}] \in Local
    BY <2>1, LocalFresh
  <2>3. /\ loc' \in [Procs -> Local] /\ pc' = [pc EXCEPT ![t] = "restore"]
        /\ ForgetStarts(t) /\ UNCHANGED <<disk, store, unsaved, entryVars, outVars, op, ref>>
    BY <1>42, <2>2 DEF LoadStore, TypeOK
  <2> QED BY <2>3, <1>f DEF TypeOK, Steps
<1>48. CASE LoadFails(t)
  <2>1. NoLocal \in Local
    BY DEF Local, NoLocal, NoRows, Rows
  <2>2. {i \in Ids : store[i] # None} \subseteq Ids
    OBVIOUS
  <2> QED BY <1>48, <2>1, <2>2, <1>f DEF LoadFails, TypeOK, Steps
<1>43. ASSUME NEW r \in Ids \X Dirs, RestoreNext(t, r) PROVE TypeOK'
  <2>1. r[2] \in Dirs /\ loc[t].restore \ {r} \in SUBSET (Ids \X Dirs)
    BY <1>b
  <2>2. [loc[t] EXCEPT !.dir = r[2], !.restore = loc[t].restore \ {r}] \in Local
    BY <1>a, <2>1, LocalRestoring
  <2> QED BY <1>43, <2>2 DEF RestoreNext, TypeOK, Steps
<1>44. CASE RestoreDone(t)
  BY <1>44 DEF RestoreDone, TypeOK, Steps
<1>45. CASE ShutdownVisit(t)
  <2>1. /\ ref[t] \in Objs /\ Mine(t) = heap[ref[t]] /\ Mine(t) \in Entry
        /\ Mine(t).id \in Ids /\ Mine(t).dir \in Dirs /\ Mine(t).hdl \in Labels \cup {None}
    BY <1>45, RefEntry DEF ShutdownVisit, Visiting
  <2>2. [Mine(t) EXCEPT !.st = "stopped", !.hdl = None] \in Entry
    BY <1>b, <2>1 DEF Entry, States
  <2>3. CloseRequested(Mine(t).hdl) \in Windows
    BY <2>1, <2>2, CloseTyped
  <2>4. /\ heap' \in [Objs -> Entry] /\ win' \in Windows
        /\ scripts' \subseteq Ids /\ view' \in [Ids -> {"absent", "running", "stopped"}]
    <3> DEFINE e == [Mine(t) EXCEPT !.st = "stopped", !.hdl = None]
               w == CloseRequested(Mine(t).hdl)
    <3>1. \/ /\ heap' = [heap EXCEPT ![ref[t]] = e] /\ win' = w
             /\ scripts' = scripts \ {Mine(t).id} /\ view' = [view EXCEPT ![Mine(t).id] = "stopped"]
          \/ UNCHANGED <<heap, win, scripts, view>>
      BY <1>45 DEF ShutdownVisit, SetEntry, See
    <3>2. e \in Entry /\ w \in Windows BY <2>2, <2>3
    <3> HIDE DEF e, w
    <3>3. heap' \in [Objs -> Entry] BY <3>1, <3>2 DEF TypeOK
    <3>4. win' \in Windows BY <3>1, <3>2 DEF TypeOK, Windows
    <3>5. scripts' \subseteq Ids BY <3>1 DEF TypeOK
    <3>6. view' \in [Ids -> {"absent", "running", "stopped"}] BY <3>1 DEF TypeOK
    <3> QED BY <3>3, <3>4, <3>5, <3>6
  <2>5. /\ UNCHANGED <<disk, store, unsaved, fresh, entries, lock, roots, flying, registry, op, loc>>
        /\ pc' = [pc EXCEPT ![t] = "walk"] /\ ref' = [ref EXCEPT ![t] = None]
    BY <1>45 DEF ShutdownVisit, Visiting
  <2> QED BY <2>4, <2>5 DEF TypeOK, Steps, Windows
<1>46. CASE ExitDone(t)
  BY <1>46 DEF ExitDone, TypeOK, Steps
<1> QED BY <1>1, <1>2, <1>3, <1>4, <1>5, <1>6, <1>7, <1>8, <1>9, <1>10, <1>11, <1>12,
   <1>13, <1>14, <1>15, <1>16, <1>17, <1>18, <1>19, <1>20, <1>21, <1>22, <1>23, <1>24,
   <1>25, <1>26, <1>27, <1>28, <1>29, <1>30, <1>31, <1>32, <1>33, <1>34, <1>35, <1>36,
   <1>37, <1>38, <1>39, <1>40, <1>41, <1>42, <1>43, <1>44, <1>45, <1>46, <1>47, <1>48 DEF Advance

(* What a step of process t does, as far as the invariants can tell.        *)

\* Other processes are where they were.
Others(t) ==
  \A u \in Procs \ {t} : /\ pc'[u] = pc[u] /\ op'[u] = op[u]
                         /\ ref'[u] = ref[u] /\ loc'[u] = loc[u]

\* The main thread only exits, and only the main thread does.
MainPart(t) ==
  /\ t = "main" => /\ pc'[t] \in {"walk", "visit", "exited"}
                   /\ loc'[t].walk = "shutdown"
  /\ loc'[t].walk = "shutdown" => t = "main"

\* The map gains or loses entries of the right id only.
MapPart(t) ==
  \A i \in Ids : entries'[i] # None =>
    entries'[i] = entries[i] \/ heap'[entries'[i]].id = i

\* An open window was open, or has just been built; and whoever was to close
\* it still is, or has handed it to the entry.
WindowPart(t) ==
  \A l \in Labels : win'[l].st = "open" =>
    /\ win[l].st = "open" \/ Spawner(l, t)'
    /\ Spawner(l, t) => Spawner(l, t)' \/ \E o \in Objs : Owner(l, o)'
    /\ \A o \in Objs : Owner(l, o) => Owner(l, o)'

\* Entries and mutexes: nothing happens to them,
Neutral(t) ==
  /\ UNCHANGED <<heap, lock>>
  /\ pc'[t] \in Holding <=> pc[t] \in Holding
  /\ pc[t] \in Holding => ref'[t] = ref[t]
  /\ pc'[t] # "teardown"

\* ... or a fresh object becomes an entry,
Adds(t, o) ==
  /\ pc[t] \notin Holding /\ pc'[t] \notin Holding
  /\ heap[o].id = None /\ heap'[o].id # None /\ heap'[o].dir \in Dirs
  /\ heap'[o].st = "installed"
  /\ \A x \in Objs \ {o} : heap'[x] = heap[x]
  /\ UNCHANGED lock

\* ... or the process changes the entry it looks at, whose mutex it takes,
\* keeps, releases, or finds free and leaves free.
Changes(t, o) ==
  /\ o = ref[t]
  /\ heap[o].id # None /\ heap'[o].id = heap[o].id /\ heap'[o].dir \in Dirs
  /\ \A x \in Objs \ {o} : heap'[x] = heap[x] /\ lock'[x] = lock[x]
Takes(t, o) ==
  /\ pc[t] \notin Holding /\ pc'[t] \in Holding /\ ref'[t] = o
  /\ lock[o] = None /\ lock'[o] = t /\ ~Running(o)'
  /\ pc'[t] = "teardown" /\ op'[t] = "uninstall" => heap'[o].st = "uninstalling"
Keeps(t, o) ==
  /\ pc[t] \in Holding /\ pc'[t] \in Holding /\ pc'[t] # "teardown" /\ ref'[t] = o
  /\ lock[o] = t /\ lock'[o] = t /\ ~Running(o)'
Releases(t, o) ==
  /\ pc[t] \in Holding /\ pc'[t] \notin Holding
  /\ lock[o] = t /\ lock'[o] = None /\ SettledAt(o)'
Glances(t, o) ==
  /\ pc[t] \notin Holding /\ pc'[t] \notin Holding
  /\ lock[o] = None /\ lock'[o] = None /\ SettledAt(o)'
Touches(t, o) ==
  Changes(t, o) /\ (Takes(t, o) \/ Keeps(t, o) \/ Releases(t, o) \/ Glances(t, o))

EntryPart(t) == Neutral(t) \/ \E o \in Objs : Adds(t, o) \/ Touches(t, o)

Orderly(t) == /\ Others(t) /\ CallWellformed(t)' /\ MainPart(t) /\ MapPart(t)
              /\ WindowPart(t) /\ EntryPart(t)

\* A step that changes no window and no entry, outside the two steps of a
\* spawn that own a window, changes no owner.
LEMMA NoWindow ==
  ASSUME NEW t \in Procs, UNCHANGED <<win, heap>>, pc[t] \notin {"built", "commit"}
  PROVE  WindowPart(t)
BY DEF WindowPart, Spawner, Owner, Running

\* Nor does one that changes an entry that does not run.
LEMMA IdleEntry ==
  ASSUME NEW t \in Procs, UNCHANGED win, pc[t] \notin {"built", "commit"},
         NEW o \in Objs, ~Running(o), \A x \in Objs \ {o} : heap'[x] = heap[x]
  PROVE  WindowPart(t)
BY DEF WindowPart, Spawner, Owner, Running

\* Nor one that keeps the state and the handle of the entry it changes.
LEMMA KeptEntry ==
  ASSUME NEW t \in Procs, UNCHANGED win, pc[t] \notin {"built", "commit"},
         NEW o \in Objs, \A x \in Objs \ {o} : heap'[x] = heap[x],
         heap'[o].st = heap[o].st, heap'[o].hdl = heap[o].hdl
  PROVE  WindowPart(t)
<1>1. \A l \in Labels, x \in Objs : Owner(l, x) => Owner(l, x)'
  BY DEF Owner, Running
<1> QED BY <1>1 DEF WindowPart, Spawner

\* One that takes an entry out of the running state closes its window.
LEMMA ClosedEntry ==
  ASSUME TypeOK, NEW t \in Procs, pc[t] \notin {"built", "commit"},
         NEW o \in Objs, \A x \in Objs \ {o} : heap'[x] = heap[x],
         win' = CloseRequested(heap[o].hdl)
  PROVE  WindowPart(t)
<1> DEFINE h == heap[o].hdl
<1>a. h \in Labels \cup {None}
  BY DEF TypeOK, Entry
<1>b. \A l \in Labels : [win[l] EXCEPT !.st = "closing"].st = "closing"
  BY DEF TypeOK
<1>c. \A l \in Labels :
        win'[l] = IF l = h /\ h # None /\ win[h].st # "free"
                  THEN [win[l] EXCEPT !.st = "closing"] ELSE win[l]
  BY <1>a DEF CloseRequested, Free, TypeOK
<1>1. \A l \in Labels : win'[l].st = "open" => win[l].st = "open" /\ h # l
  BY <1>b, <1>c, ConstantsAssumption
<1>2. \A l \in Labels, x \in Objs : win'[l].st = "open" /\ Owner(l, x) => Owner(l, x)'
  BY <1>1 DEF Owner, Running
<1> QED BY <1>1, <1>2 DEF WindowPart, Spawner

\* A commit hands the spawned window over to an entry that had none.
LEMMA Handover ==
  ASSUME NEW t \in Procs, UNCHANGED win, pc[t] = "commit",
         NEW o \in Objs, ~Running(o), \A x \in Objs \ {o} : heap'[x] = heap[x],
         heap'[o].st = "running", heap'[o].hdl = loc[t].hdl
  PROVE  WindowPart(t)
<1>1. \A l \in Labels : Spawner(l, t) => Owner(l, o)'
  BY DEF Spawner, Owner, Running
<1>2. \A l \in Labels, x \in Objs : Owner(l, x) => Owner(l, x)'
  BY DEF Owner, Running
<1> QED BY <1>1, <1>2 DEF WindowPart

\* Every step of a process under way is orderly.
LEMMA AdvanceOrderly ==
  ASSUME TypeOK, Wellformed, MutexDiscipline, MainExits, SettledEntries,
         NEW t \in Procs, Advance(t)
  PROVE  Orderly(t)
<1> USE DEF Goto
<1>1. CASE Peek(t)
  <2>1. /\ pc[t] = "peek" /\ pc'[t] = "parse" /\ op'[t] = op[t]
        /\ ref'[t] = None
    BY <1>1 DEF Peek, TypeOK
  <2>2. loc'[t].dir = Mine(t).dir /\ loc'[t].walk = loc[t].walk
    BY <1>1 DEF Peek, TypeOK, Local
  <2>3. /\ ref[t] \in Objs /\ Mine(t) = heap[ref[t]] /\ Mine(t) \in Entry
        /\ Mine(t).id # None /\ Mine(t).dir \in Dirs
    BY <2>1, RefEntry, ConstantsAssumption DEF Holding
  <2>4. /\ Others(t) /\ MapPart(t)
        /\ UNCHANGED <<heap, lock, win>>
    BY <1>1 DEF Peek, Others, MapPart, TypeOK, entryVars, outVars
  <2>5. CallWellformed(t)' /\ MainPart(t)
    BY <2>1, <2>2, <2>3, <2>4 DEF CallWellformed, Wellformed, Holding, MainPart, MainExits
  <2>6. WindowPart(t) /\ EntryPart(t)
    BY <2>1, <2>4, NoWindow DEF EntryPart, Neutral, Holding
  <2> QED BY <2>4, <2>5, <2>6 DEF Orderly
<1>2. CASE ParseFails(t)
  <2>1. /\ pc[t] = "parse" /\ pc'[t] \in {"idle", "restore"}
        /\ ref'[t] = None
    BY <1>2 DEF ParseFails, Return, TypeOK
  <2>2. loc'[t].walk = "none"
    BY <1>2 DEF ParseFails, Return, TypeOK, Local, NoLocal
  <2>3. /\ Others(t) /\ MapPart(t)
        /\ UNCHANGED <<heap, lock, win>>
    BY <1>2 DEF ParseFails, Return, Others, MapPart, TypeOK, entryVars, outVars
  <2>4. CallWellformed(t)' /\ MainPart(t)
    BY <2>1, <2>2, <2>3 DEF CallWellformed, Wellformed, Holding, MainPart, MainExits
  <2>5. WindowPart(t) /\ EntryPart(t)
    BY <2>1, <2>3, NoWindow DEF EntryPart, Neutral, Holding
  <2> QED BY <2>3, <2>4, <2>5 DEF Orderly
<1>3. CASE Parse(t)
  <2>1. /\ pc[t] = "parse" /\ pc'[t] = "entry" /\ op'[t] = op[t]
        /\ ref'[t] = ref[t]
    BY <1>3 DEF Parse, TypeOK
  <2>2. loc'[t].id = disk[loc[t].dir].id /\ loc'[t].dir = loc[t].dir /\ loc'[t].walk = loc[t].walk
    BY <1>3 DEF Parse, TypeOK, Local
  <2>3. disk[loc[t].dir].id \in Ids
    BY <1>3, ConstantsAssumption DEF Parse, Wellformed, CallWellformed, TypeOK
  <2>4. /\ Others(t) /\ MapPart(t)
        /\ UNCHANGED <<heap, lock, win>>
    BY <1>3 DEF Parse, Others, MapPart, TypeOK, entryVars, outVars
  <2>5. CallWellformed(t)' /\ MainPart(t)
    BY <2>1, <2>2, <2>3, <2>4 DEF CallWellformed, Wellformed, Holding, MainPart, MainExits
  <2>6. WindowPart(t) /\ EntryPart(t)
    BY <2>1, <2>4, NoWindow DEF EntryPart, Neutral, Holding
  <2> QED BY <2>4, <2>5, <2>6 DEF Orderly
<1>4. CASE EntryFound(t)
  <2>1. /\ pc[t] = "entry" /\ pc'[t] = "lock" /\ op'[t] = op[t]
        /\ ref'[t] = entries[loc[t].id]
        /\ loc'[t] = loc[t]
    BY <1>4 DEF EntryFound, TypeOK
  <2>2. /\ loc[t].id \in Ids /\ entries[loc[t].id] \in Objs
        /\ heap[entries[loc[t].id]].id # None
    BY <1>4, ConstantsAssumption DEF EntryFound, Wellformed, CallWellformed, TypeOK
  <2>3. /\ Others(t) /\ MapPart(t)
        /\ UNCHANGED <<heap, lock, win>>
    BY <1>4 DEF EntryFound, Others, MapPart, TypeOK, entryVars, outVars
  <2>4. CallWellformed(t)' /\ MainPart(t)
    BY <2>1, <2>2, <2>3 DEF CallWellformed, Wellformed, Holding, MainPart, MainExits
  <2>5. WindowPart(t) /\ EntryPart(t)
    BY <2>1, <2>3, NoWindow DEF EntryPart, Neutral, Holding
  <2> QED BY <2>3, <2>4, <2>5 DEF Orderly
<1>5. ASSUME NEW o \in Objs, EntryAdded(t, o) PROVE Orderly(t)
  <2>1. /\ pc[t] = "entry" /\ pc'[t] = "lock" /\ op'[t] = op[t]
        /\ ref'[t] = o
        /\ loc'[t] = loc[t]
    BY <1>5 DEF EntryAdded, TypeOK
  <2>2. /\ loc[t].id \in Ids /\ loc[t].id # None /\ loc[t].dir \in Dirs
        /\ heap[o].id = None
        /\ heap' = [heap EXCEPT ![o] = [Unused EXCEPT !.id = loc[t].id, !.dir = loc[t].dir]]
    BY <1>5, <2>1, ConstantsAssumption DEF EntryAdded, Wellformed, CallWellformed
  <2>3. /\ heap'[o].id = loc[t].id /\ heap'[o].dir = loc[t].dir /\ heap'[o].st = "installed"
        /\ \A x \in Objs \ {o} : heap'[x] = heap[x]
    BY <2>2 DEF TypeOK, Unused
  <2>4. Others(t) /\ UNCHANGED lock
    BY <1>5 DEF EntryAdded, Others, TypeOK
  <2>5. MapPart(t)
    BY <1>5, <2>1, <2>2, <2>3 DEF EntryAdded, MapPart, TypeOK
  <2>6. CallWellformed(t)' /\ MainPart(t)
    BY <2>1, <2>2, <2>3 DEF CallWellformed, Holding, MainPart, MainExits
  <2>7. WindowPart(t)
    BY <1>5, <2>1, <2>2, <2>3, IdleEntry DEF EntryAdded, outVars, Wellformed,
       EntryWellformed, Unused, Running
  <2>8. EntryPart(t)
    BY <2>1, <2>2, <2>3, <2>4 DEF EntryPart, Adds, Holding
  <2> QED BY <2>4, <2>5, <2>6, <2>7, <2>8 DEF Orderly
<1>6. CASE InstallOverRunning(t)
  <2>1. /\ pc[t] = "lock" /\ pc'[t] = "teardown" /\ op'[t] = op[t]
        /\ ref'[t] = ref[t]
    BY <1>6 DEF InstallOverRunning, At, TypeOK
  <2>2. loc'[t].id = loc[t].id /\ loc'[t].dir = loc[t].dir /\ loc'[t].walk = loc[t].walk
    BY <1>6 DEF InstallOverRunning, At, TypeOK, Local
  <2>3. /\ ref[t] \in Objs /\ Mine(t) = heap[ref[t]] /\ Mine(t) \in Entry
        /\ Mine(t).id # None /\ Mine(t).dir \in Dirs
    BY <2>1, RefEntry, ConstantsAssumption DEF Holding
  <2>4. loc[t].dir \in Dirs
    BY <1>6, <2>1 DEF InstallOverRunning, At, Wellformed, CallWellformed
  <2>5. heap'[ref[t]] = [Mine(t) EXCEPT !.dir = loc[t].dir, !.st = "stopping", !.hdl = None]
    BY <1>6, <2>3 DEF InstallOverRunning, At, SetEntry, TypeOK
  <2>6. \A x \in Objs \ {ref[t]} : heap'[x] = heap[x]
    BY <1>6, <2>3 DEF InstallOverRunning, At, SetEntry, TypeOK
  <2>7. /\ heap'[ref[t]].id = Mine(t).id /\ heap'[ref[t]].dir = loc[t].dir
        /\ heap'[ref[t]].st = "stopping"
    BY <2>3, <2>5 DEF Entry
  <2>8. /\ lock[ref[t]] = None /\ lock'[ref[t]] = t
        /\ \A x \in Objs \ {ref[t]} : lock'[x] = lock[x]
    BY <1>6, <2>3 DEF InstallOverRunning, At, Take, TypeOK
  <2>9. Others(t) /\ MapPart(t)
    BY <1>6 DEF InstallOverRunning, At, Others, MapPart, TypeOK, entryVars
  <2>10. CallWellformed(t)' /\ MainPart(t)
    BY <1>6, <2>1, <2>2, <2>3, <2>4, <2>7 DEF InstallOverRunning, At, CallWellformed,
       Wellformed, Holding, MainPart, MainExits
  <2>11. WindowPart(t)
    BY <1>6, <2>1, <2>3, <2>6, ClosedEntry DEF InstallOverRunning
  <2>12. \A o \in Objs : o = ref[t] => Changes(t, o)
    BY <2>3, <2>4, <2>6, <2>7, <2>8 DEF Changes
  <2>13. \A o \in Objs : o = ref[t] => Takes(t, o)
    BY <1>6, <2>1, <2>3, <2>7, <2>8 DEF Takes, Holding, InstallOverRunning, At, Running
  <2> QED BY <2>3, <2>9, <2>10, <2>11, <2>12, <2>13 DEF Orderly, EntryPart, Touches
<1>7. CASE UninstallLocks(t)
  <2>1. /\ pc[t] = "lock" /\ pc'[t] = "teardown" /\ op'[t] = op[t]
        /\ ref'[t] = ref[t]
    BY <1>7 DEF UninstallLocks, At, TypeOK
  <2>2. loc'[t].id = loc[t].id /\ loc'[t].dir = loc[t].dir /\ loc'[t].walk = loc[t].walk
    BY <1>7 DEF UninstallLocks, At, TypeOK, Local
  <2>3. /\ ref[t] \in Objs /\ Mine(t) = heap[ref[t]] /\ Mine(t) \in Entry
        /\ Mine(t).id # None /\ Mine(t).dir \in Dirs
    BY <2>1, RefEntry, ConstantsAssumption DEF Holding
  <2>4. heap'[ref[t]] = [Mine(t) EXCEPT !.st = "uninstalling", !.hdl = None]
    BY <1>7, <2>3 DEF UninstallLocks, At, SetEntry, TypeOK
  <2>5. \A x \in Objs \ {ref[t]} : heap'[x] = heap[x]
    BY <1>7, <2>3 DEF UninstallLocks, At, SetEntry, TypeOK
  <2>6. /\ heap'[ref[t]].id = Mine(t).id /\ heap'[ref[t]].dir = Mine(t).dir
        /\ heap'[ref[t]].st = "uninstalling"
    BY <2>3, <2>4 DEF Entry
  <2>7. /\ lock[ref[t]] = None /\ lock'[ref[t]] = t
        /\ \A x \in Objs \ {ref[t]} : lock'[x] = lock[x]
    BY <1>7, <2>3 DEF UninstallLocks, At, Take, TypeOK
  <2>8. Others(t) /\ MapPart(t)
    BY <1>7 DEF UninstallLocks, At, Others, MapPart, TypeOK, entryVars
  <2>9. CallWellformed(t)' /\ MainPart(t)
    BY <1>7, <2>1, <2>2, <2>3, <2>6 DEF UninstallLocks, At, CallWellformed, Wellformed,
       Holding, MainPart, MainExits
  <2>10. WindowPart(t)
    BY <1>7, <2>1, <2>3, <2>5, ClosedEntry DEF UninstallLocks
  <2>11. \A o \in Objs : o = ref[t] => Changes(t, o)
    BY <2>3, <2>5, <2>6, <2>7 DEF Changes
  <2>12. \A o \in Objs : o = ref[t] => Takes(t, o)
    BY <1>7, <2>1, <2>3, <2>6, <2>7 DEF Takes, Holding, UninstallLocks, At, Running
  <2> QED BY <2>3, <2>8, <2>9, <2>10, <2>11, <2>12 DEF Orderly, EntryPart, Touches
<1>8. CASE DisableLocks(t)
  <2>1. /\ pc[t] = "lock" /\ pc'[t] = "teardown" /\ op'[t] = op[t]
        /\ ref'[t] = ref[t]
    BY <1>8 DEF DisableLocks, At, TypeOK
  <2>2. loc'[t].id = loc[t].id /\ loc'[t].dir = loc[t].dir /\ loc'[t].walk = loc[t].walk
    BY <1>8 DEF DisableLocks, At, TypeOK, Local
  <2>3. /\ ref[t] \in Objs /\ Mine(t) = heap[ref[t]] /\ Mine(t) \in Entry
        /\ Mine(t).id # None /\ Mine(t).dir \in Dirs
    BY <2>1, RefEntry, ConstantsAssumption DEF Holding
  <2>4. heap'[ref[t]] = [Mine(t) EXCEPT !.st = "stopping", !.hdl = None]
    BY <1>8, <2>3 DEF DisableLocks, At, SetEntry, TypeOK
  <2>5. \A x \in Objs \ {ref[t]} : heap'[x] = heap[x]
    BY <1>8, <2>3 DEF DisableLocks, At, SetEntry, TypeOK
  <2>6. /\ heap'[ref[t]].id = Mine(t).id /\ heap'[ref[t]].dir = Mine(t).dir
        /\ heap'[ref[t]].st = "stopping"
    BY <2>3, <2>4 DEF Entry
  <2>7. /\ lock[ref[t]] = None /\ lock'[ref[t]] = t
        /\ \A x \in Objs \ {ref[t]} : lock'[x] = lock[x]
    BY <1>8, <2>3 DEF DisableLocks, At, Take, TypeOK
  <2>8. Others(t) /\ MapPart(t)
    BY <1>8 DEF DisableLocks, At, Others, MapPart, TypeOK, entryVars
  <2>9. CallWellformed(t)' /\ MainPart(t)
    BY <1>8, <2>1, <2>2, <2>3, <2>6 DEF DisableLocks, At, CallWellformed, Wellformed,
       Holding, MainPart, MainExits
  <2>10. WindowPart(t)
    BY <1>8, <2>1, <2>3, <2>5, ClosedEntry DEF DisableLocks
  <2>11. \A o \in Objs : o = ref[t] => Changes(t, o)
    BY <2>3, <2>5, <2>6, <2>7 DEF Changes
  <2>12. \A o \in Objs : o = ref[t] => Takes(t, o)
    BY <1>8, <2>1, <2>3, <2>6, <2>7 DEF Takes, Holding, DisableLocks, At, Running
  <2> QED BY <2>3, <2>8, <2>9, <2>10, <2>11, <2>12 DEF Orderly, EntryPart, Touches
<1>9. CASE InstallOverIdle(t)
  <2>1. /\ pc[t] = "lock" /\ pc'[t] = "root" /\ op'[t] = op[t]
        /\ ref'[t] = ref[t]
        /\ loc'[t] = loc[t]
    BY <1>9 DEF InstallOverIdle, At, TypeOK
  <2>2. /\ ref[t] \in Objs /\ Mine(t) = heap[ref[t]] /\ Mine(t) \in Entry
        /\ Mine(t).id # None /\ Mine(t).dir \in Dirs
    BY <2>1, RefEntry, ConstantsAssumption DEF Holding
  <2>3. loc[t].dir \in Dirs
    BY <1>9, <2>1 DEF InstallOverIdle, At, Wellformed, CallWellformed
  <2>4. heap'[ref[t]] = [Mine(t) EXCEPT !.dir = loc[t].dir]
    BY <1>9, <2>2 DEF InstallOverIdle, At, SetEntry, TypeOK
  <2>5. \A x \in Objs \ {ref[t]} : heap'[x] = heap[x]
    BY <1>9, <2>2 DEF InstallOverIdle, At, SetEntry, TypeOK
  <2>6. /\ heap'[ref[t]].id = Mine(t).id /\ heap'[ref[t]].dir = loc[t].dir
        /\ heap'[ref[t]].st = Mine(t).st
    BY <2>2, <2>4 DEF Entry
  <2>7. /\ lock[ref[t]] = None /\ lock'[ref[t]] = t
        /\ \A x \in Objs \ {ref[t]} : lock'[x] = lock[x]
    BY <1>9, <2>2 DEF InstallOverIdle, At, Take, TypeOK
  <2>8. Others(t) /\ MapPart(t)
    BY <1>9 DEF InstallOverIdle, At, Others, MapPart, TypeOK, entryVars
  <2>9. CallWellformed(t)' /\ MainPart(t)
    BY <1>9, <2>1, <2>2, <2>3, <2>6 DEF InstallOverIdle, At, CallWellformed, Wellformed,
       Holding, MainPart, MainExits
  <2>10. WindowPart(t)
    BY <1>9, <2>1, <2>2, <2>5, IdleEntry DEF InstallOverIdle, outVars, Running
  <2>11. \A o \in Objs : o = ref[t] => Changes(t, o)
    BY <2>2, <2>3, <2>5, <2>6, <2>7 DEF Changes
  <2>12. \A o \in Objs : o = ref[t] => Takes(t, o)
    BY <1>9, <2>1, <2>2, <2>6, <2>7 DEF Takes, Holding, InstallOverIdle, At, Running
  <2> QED BY <2>2, <2>8, <2>9, <2>10, <2>11, <2>12 DEF Orderly, EntryPart, Touches
<1>10. CASE DisableIdle(t)
  <2>1. /\ pc[t] = "lock" /\ pc'[t] = "emit" /\ op'[t] = op[t]
        /\ ref'[t] = ref[t]
        /\ loc'[t] = loc[t]
    BY <1>10 DEF DisableIdle, At, TypeOK
  <2>2. /\ ref[t] \in Objs /\ Mine(t) = heap[ref[t]] /\ Mine(t) \in Entry
        /\ Mine(t).id # None /\ Mine(t).dir \in Dirs
    BY <2>1, RefEntry, ConstantsAssumption DEF Holding
  <2>3. heap'[ref[t]] = [Mine(t) EXCEPT !.enabled = FALSE]
    BY <1>10, <2>2 DEF DisableIdle, At, SetEntry, TypeOK
  <2>4. \A x \in Objs \ {ref[t]} : heap'[x] = heap[x]
    BY <1>10, <2>2 DEF DisableIdle, At, SetEntry, TypeOK
  <2>5. /\ heap'[ref[t]].id = Mine(t).id /\ heap'[ref[t]].dir = Mine(t).dir
        /\ heap'[ref[t]].st = Mine(t).st /\ heap'[ref[t]].enabled = FALSE
    BY <2>2, <2>3 DEF Entry
  <2>6. lock[ref[t]] = None /\ lock' = lock
    BY <1>10 DEF DisableIdle, At, entryVars
  <2>7. Others(t) /\ MapPart(t)
    BY <1>10 DEF DisableIdle, At, Others, MapPart, TypeOK, entryVars
  <2>8. CallWellformed(t)' /\ MainPart(t)
    BY <1>10, <2>1, <2>2, <2>5 DEF DisableIdle, At, CallWellformed, Wellformed, Holding,
       MainPart, MainExits
  <2>9. WindowPart(t)
    BY <1>10, <2>1, <2>2, <2>4, IdleEntry DEF DisableIdle, outVars, Running
  <2>10. \A o \in Objs : o = ref[t] => Changes(t, o)
    BY <2>2, <2>4, <2>5, <2>6 DEF Changes
  <2>11. \A o \in Objs : o = ref[t] => SettledAt(o)'
    BY <1>10, <2>1, <2>2, <2>5, <2>6 DEF SettledAt, DisableIdle, At, SettledEntries,
       Running
  <2>12. \A o \in Objs : o = ref[t] => Glances(t, o)
    BY <2>1, <2>2, <2>6, <2>11 DEF Glances, Holding
  <2> QED BY <2>2, <2>7, <2>8, <2>9, <2>10, <2>12 DEF Orderly, EntryPart, Touches
<1>11. CASE EnableRunning(t)
  <2>1. /\ pc[t] = "lock" /\ pc'[t] \in {"idle", "restore"}
        /\ ref'[t] = None
    BY <1>11 DEF EnableRunning, Return, At, TypeOK
  <2>2. loc'[t].walk = "none"
    BY <1>11 DEF EnableRunning, Return, At, TypeOK, Local, NoLocal
  <2>3. /\ ref[t] \in Objs /\ Mine(t) = heap[ref[t]] /\ Mine(t) \in Entry
        /\ Mine(t).id # None /\ Mine(t).dir \in Dirs
    BY <2>1, RefEntry, ConstantsAssumption DEF Holding
  <2>4. heap'[ref[t]] = [Mine(t) EXCEPT !.enabled = TRUE]
    BY <1>11, <2>3 DEF EnableRunning, Return, At, SetEntry, TypeOK
  <2>5. \A x \in Objs \ {ref[t]} : heap'[x] = heap[x]
    BY <1>11, <2>3 DEF EnableRunning, Return, At, SetEntry, TypeOK
  <2>6. /\ heap'[ref[t]].id = Mine(t).id /\ heap'[ref[t]].dir = Mine(t).dir
        /\ heap'[ref[t]].st = Mine(t).st /\ heap'[ref[t]].enabled = TRUE /\ heap'[ref[t]].hdl = Mine(t).hdl
    BY <2>3, <2>4 DEF Entry
  <2>7. lock[ref[t]] = None /\ lock' = lock
    BY <1>11 DEF EnableRunning, Return, At, entryVars
  <2>8. Others(t) /\ MapPart(t)
    BY <1>11 DEF EnableRunning, Return, At, Others, MapPart, TypeOK, entryVars
  <2>9. CallWellformed(t)' /\ MainPart(t)
    BY <1>11, <2>1, <2>2, <2>3, <2>6 DEF EnableRunning, Return, At, CallWellformed,
       Wellformed, Holding, MainPart, MainExits
  <2>10. WindowPart(t)
    BY <1>11, <2>1, <2>3, <2>5, <2>6, KeptEntry DEF EnableRunning, outVars
  <2>11. \A o \in Objs : o = ref[t] => Changes(t, o)
    BY <2>3, <2>5, <2>6, <2>7 DEF Changes
  <2>12. \A o \in Objs : o = ref[t] => SettledAt(o)'
    BY <1>11, <2>1, <2>3, <2>6, <2>7 DEF SettledAt, EnableRunning, Return, At,
       SettledEntries, Running
  <2>13. \A o \in Objs : o = ref[t] => Glances(t, o)
    BY <2>1, <2>3, <2>7, <2>12 DEF Glances, Holding
  <2> QED BY <2>3, <2>8, <2>9, <2>10, <2>11, <2>13 DEF Orderly, EntryPart, Touches
<1>12. CASE EnableFails(t)
  <2>1. /\ pc[t] = "lock" /\ pc'[t] \in {"idle", "restore"}
        /\ ref'[t] = None
    BY <1>12 DEF EnableFails, Return, At, TypeOK
  <2>2. loc'[t].walk = "none"
    BY <1>12 DEF EnableFails, Return, At, TypeOK, Local, NoLocal
  <2>3. /\ Others(t) /\ MapPart(t)
        /\ UNCHANGED <<heap, lock, win>>
    BY <1>12 DEF EnableFails, Return, At, Others, MapPart, TypeOK, entryVars, outVars
  <2>4. CallWellformed(t)' /\ MainPart(t)
    BY <2>1, <2>2, <2>3 DEF CallWellformed, Wellformed, Holding, MainPart, MainExits
  <2>5. WindowPart(t) /\ EntryPart(t)
    BY <2>1, <2>3, NoWindow DEF EntryPart, Neutral, Holding
  <2> QED BY <2>3, <2>4, <2>5 DEF Orderly
<1>13. CASE EnableLocks(t)
  <2>1. /\ pc[t] = "lock" /\ pc'[t] = "root" /\ op'[t] = op[t]
        /\ ref'[t] = ref[t]
    BY <1>13 DEF EnableLocks, At, TypeOK
  <2>2. loc'[t].id = loc[t].id /\ loc'[t].walk = loc[t].walk
    BY <1>13 DEF EnableLocks, At, TypeOK, Local
  <2>3. /\ ref[t] \in Objs /\ Mine(t) = heap[ref[t]] /\ Mine(t) \in Entry
        /\ Mine(t).id # None /\ Mine(t).dir \in Dirs
    BY <2>1, RefEntry, ConstantsAssumption DEF Holding
  <2>4. UNCHANGED <<heap, win>>
    BY <1>13 DEF EnableLocks, At, outVars
  <2>5. /\ lock[ref[t]] = None /\ lock'[ref[t]] = t
        /\ \A x \in Objs \ {ref[t]} : lock'[x] = lock[x]
    BY <1>13, <2>3 DEF EnableLocks, At, Take, TypeOK
  <2>6. Others(t) /\ MapPart(t)
    BY <1>13 DEF EnableLocks, At, Others, MapPart, TypeOK, entryVars
  <2>7. CallWellformed(t)' /\ MainPart(t)
    BY <1>13, <2>1, <2>2, <2>3, <2>4 DEF EnableLocks, At, CallWellformed, Wellformed,
       Holding, MainPart, MainExits
  <2>8. WindowPart(t)
    BY <2>1, <2>4, NoWindow
  <2>9. \A o \in Objs : o = ref[t] => Changes(t, o)
    BY <2>3, <2>4, <2>5 DEF Changes
  <2>10. \A o \in Objs : o = ref[t] => Takes(t, o)
    BY <1>13, <2>1, <2>3, <2>4, <2>5 DEF Takes, Holding, EnableLocks, At, Running, Mine
  <2> QED BY <2>3, <2>6, <2>7, <2>8, <2>9, <2>10 DEF Orderly, EntryPart, Touches
<1>14. CASE ReloadStopped(t)
  <2>1. /\ pc[t] = "teardown" /\ pc'[t] = "root" /\ op'[t] = op[t]
        /\ ref'[t] = ref[t]
        /\ loc'[t] = loc[t]
    BY <1>14 DEF ReloadStopped, TornDown, TypeOK
  <2>2. /\ ref[t] \in Objs /\ Mine(t) = heap[ref[t]] /\ Mine(t) \in Entry
        /\ Mine(t).id # None /\ Mine(t).dir \in Dirs
    BY <2>1, RefEntry, ConstantsAssumption DEF Holding
  <2>3. heap'[ref[t]] = [Mine(t) EXCEPT !.st = "stopped"]
    BY <1>14, <2>2 DEF ReloadStopped, TornDown, SetEntry, TypeOK
  <2>4. \A x \in Objs \ {ref[t]} : heap'[x] = heap[x]
    BY <1>14, <2>2 DEF ReloadStopped, TornDown, SetEntry, TypeOK
  <2>5. /\ heap'[ref[t]].id = Mine(t).id /\ heap'[ref[t]].dir = Mine(t).dir
        /\ heap'[ref[t]].st = "stopped"
    BY <2>2, <2>3 DEF Entry
  <2>6. lock[ref[t]] = t /\ lock' = lock /\ ~Running(ref[t])
    BY <1>14, <2>1, <2>2, ConstantsAssumption DEF ReloadStopped, TornDown,
       MutexDiscipline, Holding
  <2>7. Others(t) /\ MapPart(t)
    BY <1>14 DEF ReloadStopped, TornDown, Others, MapPart, TypeOK, entryVars
  <2>8. CallWellformed(t)' /\ MainPart(t)
    BY <1>14, <2>1, <2>2, <2>5 DEF ReloadStopped, TornDown, CallWellformed, Wellformed,
       Holding, MainPart, MainExits
  <2>9. WindowPart(t)
    BY <1>14, <2>1, <2>2, <2>4, <2>6, IdleEntry DEF ReloadStopped
  <2>10. \A o \in Objs : o = ref[t] => Changes(t, o)
    BY <2>2, <2>4, <2>5, <2>6 DEF Changes
  <2>11. \A o \in Objs : o = ref[t] => Keeps(t, o)
    BY <2>1, <2>2, <2>5, <2>6 DEF Keeps, Holding, Running
  <2> QED BY <2>2, <2>7, <2>8, <2>9, <2>10, <2>11 DEF Orderly, EntryPart, Touches
<1>15. CASE DisableStopped(t)
  <2>1. /\ pc[t] = "teardown" /\ pc'[t] = "emit" /\ op'[t] = op[t]
        /\ ref'[t] = ref[t]
        /\ loc'[t] = loc[t]
    BY <1>15 DEF DisableStopped, TornDown, TypeOK
  <2>2. /\ ref[t] \in Objs /\ Mine(t) = heap[ref[t]] /\ Mine(t) \in Entry
        /\ Mine(t).id # None /\ Mine(t).dir \in Dirs
    BY <2>1, RefEntry, ConstantsAssumption DEF Holding
  <2>3. heap'[ref[t]] = [Mine(t) EXCEPT !.st = "stopped", !.enabled = FALSE]
    BY <1>15, <2>2 DEF DisableStopped, TornDown, SetEntry, TypeOK
  <2>4. \A x \in Objs \ {ref[t]} : heap'[x] = heap[x]
    BY <1>15, <2>2 DEF DisableStopped, TornDown, SetEntry, TypeOK
  <2>5. /\ heap'[ref[t]].id = Mine(t).id /\ heap'[ref[t]].dir = Mine(t).dir
        /\ heap'[ref[t]].st = "stopped" /\ heap'[ref[t]].enabled = FALSE
    BY <2>2, <2>3 DEF Entry
  <2>6. /\ lock[ref[t]] = t /\ lock'[ref[t]] = None /\ ~Running(ref[t])
        /\ \A x \in Objs \ {ref[t]} : lock'[x] = lock[x]
    BY <1>15, <2>1, <2>2, ConstantsAssumption DEF DisableStopped, TornDown, Unlock,
       TypeOK, MutexDiscipline, Holding
  <2>7. Others(t) /\ MapPart(t)
    BY <1>15 DEF DisableStopped, TornDown, Others, MapPart, TypeOK, entryVars
  <2>8. CallWellformed(t)' /\ MainPart(t)
    BY <1>15, <2>1, <2>2, <2>5 DEF DisableStopped, TornDown, CallWellformed, Wellformed,
       Holding, MainPart, MainExits
  <2>9. WindowPart(t)
    BY <1>15, <2>1, <2>2, <2>4, <2>6, IdleEntry DEF DisableStopped
  <2>10. \A o \in Objs : o = ref[t] => Changes(t, o)
    BY <2>2, <2>4, <2>5, <2>6 DEF Changes
  <2>11. \A o \in Objs : o = ref[t] => SettledAt(o)'
    BY <1>15, <2>1, <2>2, <2>5, <2>6 DEF SettledAt, Running
  <2>12. \A o \in Objs : o = ref[t] => Releases(t, o)
    BY <2>1, <2>2, <2>6, <2>11 DEF Releases, Holding
  <2> QED BY <2>2, <2>7, <2>8, <2>9, <2>10, <2>12 DEF Orderly, EntryPart, Touches
<1>16. CASE UninstallStopped(t)
  <2>1. /\ pc[t] = "teardown" /\ pc'[t] = "remove" /\ op'[t] = op[t]
        /\ ref'[t] = ref[t]
        /\ loc'[t] = loc[t]
    BY <1>16 DEF UninstallStopped, TornDown, TypeOK
  <2>2. /\ ref[t] \in Objs /\ Mine(t) = heap[ref[t]] /\ Mine(t) \in Entry
        /\ Mine(t).id # None /\ Mine(t).dir \in Dirs
    BY <2>1, RefEntry, ConstantsAssumption DEF Holding
  <2>3. UNCHANGED <<heap, win>>
    BY <1>16 DEF UninstallStopped, TornDown, outVars
  <2>4. /\ lock[ref[t]] = t /\ lock'[ref[t]] = None /\ ~Running(ref[t])
        /\ \A x \in Objs \ {ref[t]} : lock'[x] = lock[x]
    BY <1>16, <2>1, <2>2, ConstantsAssumption DEF UninstallStopped, TornDown, Unlock,
       TypeOK, MutexDiscipline, Holding
  <2>5. Others(t) /\ MapPart(t)
    BY <1>16 DEF UninstallStopped, TornDown, Others, MapPart, TypeOK, entryVars
  <2>6. CallWellformed(t)' /\ MainPart(t)
    BY <1>16, <2>1, <2>2, <2>3 DEF UninstallStopped, TornDown, CallWellformed,
       Wellformed, Holding, MainPart, MainExits
  <2>7. WindowPart(t)
    BY <2>1, <2>3, NoWindow
  <2>8. \A o \in Objs : o = ref[t] => Changes(t, o)
    BY <2>2, <2>3, <2>4 DEF Changes
  <2>9. \A o \in Objs : o = ref[t] => SettledAt(o)'
    BY <1>16, <2>1, <2>2, <2>3, <2>4 DEF SettledAt, UninstallStopped, TornDown, Running,
       MutexDiscipline
  <2>10. \A o \in Objs : o = ref[t] => Releases(t, o)
    BY <2>1, <2>2, <2>4, <2>9 DEF Releases, Holding
  <2> QED BY <2>2, <2>5, <2>6, <2>7, <2>8, <2>10 DEF Orderly, EntryPart, Touches
<1>17. CASE Remove(t)
  <2>1. /\ pc[t] = "remove" /\ pc'[t] = "unroot" /\ op'[t] = op[t]
        /\ ref'[t] = ref[t]
        /\ loc'[t] = loc[t]
    BY <1>17 DEF Remove, TypeOK
  <2>2. /\ Others(t) /\ MapPart(t)
        /\ UNCHANGED <<heap, lock, win>>
    BY <1>17 DEF Remove, Others, MapPart, TypeOK, entryVars, outVars
  <2>3. CallWellformed(t)' /\ MainPart(t)
    BY <2>1, <2>2 DEF CallWellformed, Wellformed, Holding, MainPart, MainExits
  <2>4. WindowPart(t) /\ EntryPart(t)
    BY <2>1, <2>2, NoWindow DEF EntryPart, Neutral, Holding
  <2> QED BY <2>2, <2>3, <2>4 DEF Orderly
<1>18. CASE Unroot(t)
  <2>1. /\ pc[t] = "unroot" /\ pc'[t] = "persist" /\ op'[t] = op[t]
        /\ ref'[t] = ref[t]
        /\ loc'[t] = loc[t]
    BY <1>18 DEF Unroot, TypeOK
  <2>2. /\ Others(t) /\ MapPart(t)
        /\ UNCHANGED <<heap, lock, win>>
    BY <1>18 DEF Unroot, Others, MapPart, TypeOK, entryVars, outVars
  <2>3. CallWellformed(t)' /\ MainPart(t)
    BY <2>1, <2>2 DEF CallWellformed, Wellformed, Holding, MainPart, MainExits
  <2>4. WindowPart(t) /\ EntryPart(t)
    BY <2>1, <2>2, NoWindow DEF EntryPart, Neutral, Holding
  <2> QED BY <2>2, <2>3, <2>4 DEF Orderly
<1>19. CASE PublishRoot(t)
  <2>1. /\ pc[t] = "root" /\ pc'[t] = (IF loc[t].sw THEN "await1" ELSE "commit") /\ op'[t] = op[t]
        /\ ref'[t] = ref[t]
    BY <1>19 DEF PublishRoot, TypeOK
  <2>2. loc'[t].id = loc[t].id /\ loc'[t].dir = loc[t].dir /\ loc'[t].walk = loc[t].walk
    BY <1>19 DEF PublishRoot, TypeOK, Local
  <2>3. /\ Others(t) /\ MapPart(t)
        /\ UNCHANGED <<heap, lock, win>>
    BY <1>19 DEF PublishRoot, Others, MapPart, TypeOK, entryVars, outVars
  <2>4. CallWellformed(t)' /\ MainPart(t)
    BY <2>1, <2>2, <2>3 DEF CallWellformed, Wellformed, Holding, MainPart, MainExits
  <2>5. WindowPart(t) /\ EntryPart(t)
    BY <2>1, <2>3, NoWindow DEF EntryPart, Neutral, Holding
  <2> QED BY <2>3, <2>4, <2>5 DEF Orderly
<1>20. CASE FirstAwait(t)
  <2>1. /\ pc[t] = "await1" /\ pc'[t] = "build1" /\ op'[t] = op[t]
        /\ ref'[t] = ref[t]
        /\ loc'[t] = loc[t]
    BY <1>20 DEF FirstAwait, TypeOK
  <2>2. /\ Others(t) /\ MapPart(t)
        /\ UNCHANGED <<heap, lock, win>>
    BY <1>20 DEF FirstAwait, Others, MapPart, TypeOK, entryVars, outVars
  <2>3. CallWellformed(t)' /\ MainPart(t)
    BY <2>1, <2>2 DEF CallWellformed, Wellformed, Holding, MainPart, MainExits
  <2>4. WindowPart(t) /\ EntryPart(t)
    BY <2>1, <2>2, NoWindow DEF EntryPart, Neutral, Holding
  <2> QED BY <2>2, <2>3, <2>4 DEF Orderly
<1>21. CASE Build(t)
  <2>1. /\ pc[t] \in {"build1", "build2"} /\ pc'[t] = "built" /\ op'[t] = op[t]
        /\ ref'[t] = ref[t]
        /\ loc'[t] = loc[t]
    BY <1>21 DEF Build, TypeOK
  <2>2. /\ Others(t) /\ MapPart(t)
        /\ UNCHANGED <<heap, lock>>
    BY <1>21 DEF Build, Others, MapPart, TypeOK, entryVars, outVars
  <2>3. CallWellformed(t)' /\ MainPart(t)
    BY <2>1, <2>2 DEF CallWellformed, Wellformed, Holding, MainPart, MainExits
  <2>4. WindowPart(t)
    BY <1>21, <2>1, <2>2 DEF Build, WindowPart, Spawner, Owner, Running, LabelFor, TypeOK
  <2>5. EntryPart(t)
    BY <2>1, <2>2 DEF EntryPart, Neutral, Holding
  <2> QED BY <2>2, <2>3, <2>4, <2>5 DEF Orderly
<1>22. CASE BuildFails(t)
  <2>1. /\ pc[t] \in {"build1", "build2"} /\ pc'[t] = "commit" /\ op'[t] = op[t]
        /\ ref'[t] = ref[t]
        /\ loc'[t] = loc[t]
    BY <1>22 DEF BuildFails, TypeOK
  <2>2. /\ Others(t) /\ MapPart(t)
        /\ UNCHANGED <<heap, lock, win>>
    BY <1>22 DEF BuildFails, Others, MapPart, TypeOK, entryVars, outVars
  <2>3. CallWellformed(t)' /\ MainPart(t)
    BY <2>1, <2>2 DEF CallWellformed, Wellformed, Holding, MainPart, MainExits
  <2>4. WindowPart(t) /\ EntryPart(t)
    BY <2>1, <2>2, NoWindow DEF EntryPart, Neutral, Holding
  <2> QED BY <2>2, <2>3, <2>4 DEF Orderly
<1>23. CASE LabelTaken(t)
  <2>1. /\ pc[t] = "build1" /\ pc'[t] = "await2" /\ op'[t] = op[t]
        /\ ref'[t] = ref[t]
        /\ loc'[t] = loc[t]
    BY <1>23 DEF LabelTaken, TypeOK
  <2>2. /\ Others(t) /\ MapPart(t)
        /\ UNCHANGED <<heap, lock, win>>
    BY <1>23 DEF LabelTaken, Others, MapPart, TypeOK, entryVars, outVars
  <2>3. CallWellformed(t)' /\ MainPart(t)
    BY <2>1, <2>2 DEF CallWellformed, Wellformed, Holding, MainPart, MainExits
  <2>4. WindowPart(t) /\ EntryPart(t)
    BY <2>1, <2>2, NoWindow DEF EntryPart, Neutral, Holding
  <2> QED BY <2>2, <2>3, <2>4 DEF Orderly
<1>24. CASE SecondAwait(t)
  <2>1. /\ pc[t] = "await2" /\ pc'[t] = "build2" /\ op'[t] = op[t]
        /\ ref'[t] = ref[t]
    BY <1>24 DEF SecondAwait, TypeOK
  <2>2. loc'[t].id = loc[t].id /\ loc'[t].dir = loc[t].dir /\ loc'[t].walk = loc[t].walk
    BY <1>24 DEF SecondAwait, TypeOK, Local
  <2>3. /\ Others(t) /\ MapPart(t)
        /\ UNCHANGED <<heap, lock, win>>
    BY <1>24 DEF SecondAwait, Others, MapPart, TypeOK, entryVars, outVars
  <2>4. CallWellformed(t)' /\ MainPart(t)
    BY <2>1, <2>2, <2>3 DEF CallWellformed, Wellformed, Holding, MainPart, MainExits
  <2>5. WindowPart(t) /\ EntryPart(t)
    BY <2>1, <2>3, NoWindow DEF EntryPart, Neutral, Holding
  <2> QED BY <2>3, <2>4, <2>5 DEF Orderly
<1>25. CASE StillTaken(t)
  <2>1. /\ pc[t] = "build2" /\ pc'[t] = (IF loc[t].freed THEN "commit" ELSE "adopt") /\ op'[t] = op[t]
        /\ ref'[t] = ref[t]
        /\ loc'[t] = loc[t]
    BY <1>25 DEF StillTaken, TypeOK
  <2>2. /\ Others(t) /\ MapPart(t)
        /\ UNCHANGED <<heap, lock, win>>
    BY <1>25 DEF StillTaken, Others, MapPart, TypeOK, entryVars, outVars
  <2>3. CallWellformed(t)' /\ MainPart(t)
    BY <2>1, <2>2 DEF CallWellformed, Wellformed, Holding, MainPart, MainExits
  <2>4. WindowPart(t) /\ EntryPart(t)
    BY <2>1, <2>2, NoWindow DEF EntryPart, Neutral, Holding
  <2> QED BY <2>2, <2>3, <2>4 DEF Orderly
<1>26. CASE TakeHandle(t)
  <2>1. /\ pc[t] \in {"built", "adopt"} /\ pc'[t] = "commit" /\ op'[t] = op[t]
        /\ ref'[t] = ref[t]
    BY <1>26 DEF TakeHandle, TypeOK
  <2>2. loc'[t].id = loc[t].id /\ loc'[t].dir = loc[t].dir /\ loc'[t].walk = loc[t].walk /\ loc'[t].hdl = (IF Free(LabelFor(t)) THEN None ELSE LabelFor(t))
    BY <1>26 DEF TakeHandle, TypeOK, Local
  <2>3. /\ Others(t) /\ MapPart(t)
        /\ UNCHANGED <<heap, lock>>
    BY <1>26 DEF TakeHandle, Others, MapPart, TypeOK, entryVars, outVars
  <2>4. CallWellformed(t)' /\ MainPart(t)
    BY <2>1, <2>2, <2>3 DEF CallWellformed, Wellformed, Holding, MainPart, MainExits
  <2>5. WindowPart(t)
    BY <1>26, <2>1, <2>2, <2>3 DEF TakeHandle, WindowPart, Spawner, Owner, Running,
       Free, outVars
  <2>6. EntryPart(t)
    BY <2>1, <2>3 DEF EntryPart, Neutral, Holding
  <2> QED BY <2>3, <2>4, <2>5, <2>6 DEF Orderly
<1>27. CASE CommitInstall(t)
  <2>1. /\ pc[t] = "commit" /\ pc'[t] = "persist" /\ op'[t] = op[t]
        /\ ref'[t] = ref[t]
        /\ loc'[t] = loc[t]
    BY <1>27 DEF CommitInstall, At, TypeOK
  <2>2. /\ ref[t] \in Objs /\ Mine(t) = heap[ref[t]] /\ Mine(t) \in Entry
        /\ Mine(t).id # None /\ Mine(t).dir \in Dirs
    BY <2>1, RefEntry, ConstantsAssumption DEF Holding
  <2>3. heap'[ref[t]] = [Mine(t) EXCEPT !.st = "running", !.hdl = loc[t].hdl, !.enabled = TRUE]
    BY <1>27, <2>2 DEF CommitInstall, At, SetEntry, TypeOK
  <2>4. \A x \in Objs \ {ref[t]} : heap'[x] = heap[x]
    BY <1>27, <2>2 DEF CommitInstall, At, SetEntry, TypeOK
  <2>5. /\ heap'[ref[t]].id = Mine(t).id /\ heap'[ref[t]].dir = Mine(t).dir
        /\ heap'[ref[t]].st = "running" /\ heap'[ref[t]].hdl = loc[t].hdl /\ heap'[ref[t]].enabled = TRUE
    BY <2>2, <2>3 DEF Entry
  <2>6. /\ lock[ref[t]] = t /\ lock'[ref[t]] = None /\ ~Running(ref[t])
        /\ \A x \in Objs \ {ref[t]} : lock'[x] = lock[x]
    BY <1>27, <2>1, <2>2, ConstantsAssumption DEF CommitInstall, At, Unlock, TypeOK,
       MutexDiscipline, Holding
  <2>7. Others(t) /\ MapPart(t)
    BY <1>27 DEF CommitInstall, At, Others, MapPart, TypeOK, entryVars
  <2>8. CallWellformed(t)' /\ MainPart(t)
    BY <1>27, <2>1, <2>2, <2>5 DEF CommitInstall, At, CallWellformed, Wellformed,
       Holding, MainPart, MainExits
  <2>9. WindowPart(t)
    BY <1>27, <2>1, <2>2, <2>4, <2>5, <2>6, Handover DEF CommitInstall, outVars
  <2>10. \A o \in Objs : o = ref[t] => Changes(t, o)
    BY <2>2, <2>4, <2>5, <2>6 DEF Changes
  <2>11. \A o \in Objs : o = ref[t] => SettledAt(o)'
    BY <1>27, <2>1, <2>2, <2>5, <2>6 DEF SettledAt, Running
  <2>12. \A o \in Objs : o = ref[t] => Releases(t, o)
    BY <2>1, <2>2, <2>6, <2>11 DEF Releases, Holding
  <2> QED BY <2>2, <2>7, <2>8, <2>9, <2>10, <2>12 DEF Orderly, EntryPart, Touches
<1>28. CASE CommitEnable(t)
  <2>1. /\ pc[t] = "commit" /\ pc'[t] = "emit" /\ op'[t] = op[t]
        /\ ref'[t] = ref[t]
        /\ loc'[t] = loc[t]
    BY <1>28 DEF CommitEnable, At, TypeOK
  <2>2. /\ ref[t] \in Objs /\ Mine(t) = heap[ref[t]] /\ Mine(t) \in Entry
        /\ Mine(t).id # None /\ Mine(t).dir \in Dirs
    BY <2>1, RefEntry, ConstantsAssumption DEF Holding
  <2>3. heap'[ref[t]] = [Mine(t) EXCEPT !.st = "running", !.hdl = loc[t].hdl, !.enabled = TRUE]
    BY <1>28, <2>2 DEF CommitEnable, At, SetEntry, TypeOK
  <2>4. \A x \in Objs \ {ref[t]} : heap'[x] = heap[x]
    BY <1>28, <2>2 DEF CommitEnable, At, SetEntry, TypeOK
  <2>5. /\ heap'[ref[t]].id = Mine(t).id /\ heap'[ref[t]].dir = Mine(t).dir
        /\ heap'[ref[t]].st = "running" /\ heap'[ref[t]].hdl = loc[t].hdl /\ heap'[ref[t]].enabled = TRUE
    BY <2>2, <2>3 DEF Entry
  <2>6. /\ lock[ref[t]] = t /\ lock'[ref[t]] = None /\ ~Running(ref[t])
        /\ \A x \in Objs \ {ref[t]} : lock'[x] = lock[x]
    BY <1>28, <2>1, <2>2, ConstantsAssumption DEF CommitEnable, At, Unlock, TypeOK,
       MutexDiscipline, Holding
  <2>7. Others(t) /\ MapPart(t)
    BY <1>28 DEF CommitEnable, At, Others, MapPart, TypeOK, entryVars
  <2>8. CallWellformed(t)' /\ MainPart(t)
    BY <1>28, <2>1, <2>2, <2>5 DEF CommitEnable, At, CallWellformed, Wellformed,
       Holding, MainPart, MainExits
  <2>9. WindowPart(t)
    BY <1>28, <2>1, <2>2, <2>4, <2>5, <2>6, Handover DEF CommitEnable, outVars
  <2>10. \A o \in Objs : o = ref[t] => Changes(t, o)
    BY <2>2, <2>4, <2>5, <2>6 DEF Changes
  <2>11. \A o \in Objs : o = ref[t] => SettledAt(o)'
    BY <1>28, <2>1, <2>2, <2>5, <2>6 DEF SettledAt, Running
  <2>12. \A o \in Objs : o = ref[t] => Releases(t, o)
    BY <2>1, <2>2, <2>6, <2>11 DEF Releases, Holding
  <2> QED BY <2>2, <2>7, <2>8, <2>9, <2>10, <2>12 DEF Orderly, EntryPart, Touches
<1>29. CASE EmitLate(t)
  <2>1. /\ pc[t] = "emit" /\ pc'[t] = "persist" /\ op'[t] = op[t]
        /\ ref'[t] = ref[t]
        /\ loc'[t] = loc[t]
    BY <1>29 DEF EmitLate, TypeOK
  <2>2. /\ Others(t) /\ MapPart(t)
        /\ UNCHANGED <<heap, lock, win>>
    BY <1>29 DEF EmitLate, Others, MapPart, TypeOK, entryVars, outVars
  <2>3. CallWellformed(t)' /\ MainPart(t)
    BY <2>1, <2>2 DEF CallWellformed, Wellformed, Holding, MainPart, MainExits
  <2>4. WindowPart(t) /\ EntryPart(t)
    BY <2>1, <2>2, NoWindow DEF EntryPart, Neutral, Holding
  <2> QED BY <2>2, <2>3, <2>4 DEF Orderly
<1>30. CASE BeginPersist(t)
  <2>1. /\ pc[t] = "persist" /\ pc'[t] = "walk" /\ op'[t] = op[t]
        /\ ref'[t] = None
    BY <1>30 DEF BeginPersist, StartWalk, TypeOK
  <2>2. loc'[t].walk = "rows" /\ loc'[t].id = loc[t].id
    BY <1>30 DEF BeginPersist, StartWalk, TypeOK, Local
  <2>3. /\ Others(t) /\ MapPart(t)
        /\ UNCHANGED <<heap, lock, win>>
    BY <1>30 DEF BeginPersist, StartWalk, Others, MapPart, TypeOK, entryVars, outVars
  <2>4. CallWellformed(t)' /\ MainPart(t)
    BY <2>1, <2>2, <2>3 DEF CallWellformed, Wellformed, Holding, MainPart, MainExits
  <2>5. WindowPart(t) /\ EntryPart(t)
    BY <2>1, <2>3, NoWindow DEF EntryPart, Neutral, Holding
  <2> QED BY <2>3, <2>4, <2>5 DEF Orderly
<1>31. ASSUME NEW i \in Ids, WalkNext(t, i) PROVE Orderly(t)
  <2>1. /\ pc[t] = "walk" /\ pc'[t] \in {"walk", "visit"} /\ op'[t] = op[t]
        /\ \/ pc'[t] = "walk" /\ ref'[t] = ref[t]
           \/ ref'[t] = entries[i] /\ entries[i] # None
    BY <1>31 DEF WalkNext, TypeOK
  <2>2. loc'[t].walk = loc[t].walk /\ loc'[t].id = loc[t].id
    BY <1>31 DEF WalkNext, TypeOK, Local
  <2>3. entries[i] # None => entries[i] \in Objs /\ heap[entries[i]].id # None
    BY ConstantsAssumption DEF Wellformed, TypeOK
  <2>4. /\ Others(t) /\ MapPart(t)
        /\ UNCHANGED <<heap, lock, win>>
    BY <1>31 DEF WalkNext, Others, MapPart, TypeOK, entryVars, outVars
  <2>5. CallWellformed(t)' /\ MainPart(t)
    BY <2>1, <2>2, <2>3, <2>4 DEF CallWellformed, Wellformed, Holding, MainPart, MainExits
  <2>6. WindowPart(t) /\ EntryPart(t)
    BY <2>1, <2>4, NoWindow DEF EntryPart, Neutral, Holding
  <2> QED BY <2>4, <2>5, <2>6 DEF Orderly
<1>32. CASE CollectRow(t)
  <2>1. /\ pc[t] = "visit" /\ pc'[t] = "walk" /\ op'[t] = op[t]
        /\ ref'[t] = None
    BY <1>32 DEF CollectRow, Visiting, TypeOK
  <2>2. loc'[t].walk = loc[t].walk
    BY <1>32 DEF CollectRow, Visiting, TypeOK, Local
  <2>3. /\ Others(t) /\ MapPart(t)
        /\ UNCHANGED <<heap, lock, win>>
    BY <1>32 DEF CollectRow, Visiting, Others, MapPart, TypeOK, entryVars, outVars
  <2>4. CallWellformed(t)' /\ MainPart(t)
    BY <2>1, <2>2, <2>3, <1>32 DEF CallWellformed, Wellformed, Holding, MainPart,
       MainExits, CollectRow, Visiting
  <2>5. WindowPart(t) /\ EntryPart(t)
    BY <2>1, <2>3, NoWindow DEF EntryPart, Neutral, Holding
  <2> QED BY <2>3, <2>4, <2>5 DEF Orderly
<1>33. CASE NoteLabel(t)
  <2>1. /\ pc[t] = "visit" /\ pc'[t] = "walk" /\ op'[t] = op[t]
        /\ ref'[t] = None
    BY <1>33 DEF NoteLabel, Visiting, TypeOK
  <2>2. loc'[t].walk = loc[t].walk
    BY <1>33 DEF NoteLabel, Visiting, TypeOK, Local
  <2>3. /\ Others(t) /\ MapPart(t)
        /\ UNCHANGED <<heap, lock, win>>
    BY <1>33 DEF NoteLabel, Visiting, Others, MapPart, TypeOK, entryVars, outVars
  <2>4. CallWellformed(t)' /\ MainPart(t)
    BY <2>1, <2>2, <2>3, <1>33 DEF CallWellformed, Wellformed, Holding, MainPart,
       MainExits, NoteLabel, Visiting
  <2>5. WindowPart(t) /\ EntryPart(t)
    BY <2>1, <2>3, NoWindow DEF EntryPart, Neutral, Holding
  <2> QED BY <2>3, <2>4, <2>5 DEF Orderly
<1>34. CASE Project(t)
  <2>1. /\ pc[t] = "visit" /\ pc'[t] = "walk" /\ op'[t] = op[t]
        /\ ref'[t] = None
    BY <1>34 DEF Project, Visiting, TypeOK
  <2>2. loc'[t].walk = loc[t].walk
    BY <1>34 DEF Project, Visiting, TypeOK, Local
  <2>3. /\ Others(t) /\ MapPart(t)
        /\ UNCHANGED <<heap, lock, win>>
    BY <1>34 DEF Project, Visiting, Others, MapPart, TypeOK, entryVars, outVars
  <2>4. CallWellformed(t)' /\ MainPart(t)
    BY <2>1, <2>2, <2>3, <1>34 DEF CallWellformed, Wellformed, Holding, MainPart,
       MainExits, Project, Visiting
  <2>5. WindowPart(t) /\ EntryPart(t)
    BY <2>1, <2>3, NoWindow DEF EntryPart, Neutral, Holding
  <2> QED BY <2>3, <2>4, <2>5 DEF Orderly
<1>35. CASE Save(t) \/ SaveFails(t)
  <2>1. /\ pc[t] = "walk" /\ pc'[t] = "project" /\ op'[t] = op[t]
        /\ ref'[t] = ref[t]
    BY <1>35 DEF Save, SaveFails, Walked, TypeOK
  <2>2. loc'[t].walk = loc[t].walk
    BY <1>35 DEF Save, SaveFails, Walked, TypeOK, Local
  <2>3. /\ Others(t) /\ MapPart(t)
        /\ UNCHANGED <<heap, lock, win>>
    BY <1>35 DEF Save, SaveFails, Walked, Others, MapPart, TypeOK, entryVars, outVars
  <2>4. CallWellformed(t)' /\ MainPart(t)
    BY <2>1, <2>2, <2>3, <1>35 DEF CallWellformed, Wellformed, Holding, MainPart,
       MainExits, Save, SaveFails, Walked
  <2>5. WindowPart(t) /\ EntryPart(t)
    BY <2>1, <2>3, NoWindow DEF EntryPart, Neutral, Holding
  <2> QED BY <2>3, <2>4, <2>5 DEF Orderly
<1>36. CASE Prune(t)
  <2>1. /\ pc[t] = "project" /\ pc'[t] = "walk" /\ op'[t] = op[t]
        /\ ref'[t] = ref[t]
    BY <1>36 DEF Prune, StartWalk, TypeOK
  <2>2. loc'[t].walk = "project"
    BY <1>36 DEF Prune, StartWalk, TypeOK, Local
  <2>3. /\ Others(t) /\ MapPart(t)
        /\ UNCHANGED <<heap, lock, win>>
    BY <1>36 DEF Prune, StartWalk, Others, MapPart, TypeOK, entryVars, outVars
  <2>4. CallWellformed(t)' /\ MainPart(t)
    BY <2>1, <2>2, <2>3 DEF CallWellformed, Wellformed, Holding, MainPart, MainExits
  <2>5. WindowPart(t) /\ EntryPart(t)
    BY <2>1, <2>3, NoWindow DEF EntryPart, Neutral, Holding
  <2> QED BY <2>3, <2>4, <2>5 DEF Orderly
<1>37. CASE EndProject(t)
  <2>1. /\ pc[t] = "walk" /\ pc'[t] \in {"idle", "restore"}
        /\ ref'[t] = None
    BY <1>37 DEF EndProject, Walked, Return, TypeOK
  <2>2. loc'[t].walk = "none"
    BY <1>37 DEF EndProject, Walked, Return, TypeOK, Local, NoLocal
  <2>3. /\ Others(t) /\ MapPart(t)
        /\ UNCHANGED <<heap, lock, win>>
    BY <1>37 DEF EndProject, Walked, Return, Others, MapPart, TypeOK, entryVars, outVars
  <2>4. CallWellformed(t)' /\ MainPart(t)
    BY <2>1, <2>2, <2>3, <1>37 DEF CallWellformed, Wellformed, Holding, MainPart,
       MainExits, EndProject, Walked, Return
  <2>5. WindowPart(t) /\ EntryPart(t)
    BY <2>1, <2>3, NoWindow DEF EntryPart, Neutral, Holding
  <2> QED BY <2>3, <2>4, <2>5 DEF Orderly
<1>38. CASE EndUninstall(t)
  <2>1. /\ pc[t] = "walk" /\ pc'[t] \in {"idle", "restore"}
        /\ ref'[t] = None
    BY <1>38 DEF EndUninstall, Walked, Return, TypeOK
  <2>2. loc'[t].walk = "none"
    BY <1>38 DEF EndUninstall, Walked, Return, TypeOK, Local, NoLocal
  <2>3. /\ Others(t) /\ MapPart(t)
        /\ UNCHANGED <<heap, lock, win>>
    BY <1>38 DEF EndUninstall, Walked, Return, Others, MapPart, TypeOK, entryVars, outVars
  <2>4. CallWellformed(t)' /\ MainPart(t)
    BY <2>1, <2>2, <2>3, <1>38 DEF CallWellformed, Wellformed, Holding, MainPart,
       MainExits, EndUninstall, Walked, Return
  <2>5. WindowPart(t) /\ EntryPart(t)
    BY <2>1, <2>3, NoWindow DEF EntryPart, Neutral, Holding
  <2> QED BY <2>3, <2>4, <2>5 DEF Orderly
<1>39. CASE ListWindows(t)
  <2>1. /\ pc[t] = "walk" /\ pc'[t] = "reap" /\ op'[t] = op[t]
        /\ ref'[t] = ref[t]
    BY <1>39 DEF ListWindows, Walked, TypeOK
  <2>2. loc'[t].walk = loc[t].walk
    BY <1>39 DEF ListWindows, Walked, TypeOK, Local
  <2>3. /\ Others(t) /\ MapPart(t)
        /\ UNCHANGED <<heap, lock, win>>
    BY <1>39 DEF ListWindows, Walked, Others, MapPart, TypeOK, entryVars, outVars
  <2>4. CallWellformed(t)' /\ MainPart(t)
    BY <2>1, <2>2, <2>3, <1>39 DEF CallWellformed, Wellformed, Holding, MainPart,
       MainExits, ListWindows, Walked
  <2>5. WindowPart(t) /\ EntryPart(t)
    BY <2>1, <2>3, NoWindow DEF EntryPart, Neutral, Holding
  <2> QED BY <2>3, <2>4, <2>5 DEF Orderly
<1>40. ASSUME NEW l \in Labels, Reap(t, l) PROVE Orderly(t)
  <2>1. /\ pc[t] = "reap" /\ pc'[t] = "reap" /\ op'[t] = op[t]
        /\ ref'[t] = ref[t]
    BY <1>40 DEF Reap, TypeOK
  <2>2. loc'[t].walk = loc[t].walk
    BY <1>40 DEF Reap, TypeOK, Local
  <2>3. /\ Others(t) /\ MapPart(t)
        /\ UNCHANGED <<heap, lock>>
    BY <1>40 DEF Reap, Others, MapPart, TypeOK, entryVars, outVars
  <2>4. CallWellformed(t)' /\ MainPart(t)
    BY <2>1, <2>2, <2>3 DEF CallWellformed, Wellformed, Holding, MainPart, MainExits
  <2>5. WindowPart(t)
    BY <1>40, <2>1, <2>2, <2>3 DEF Reap, WindowPart, Spawner, Owner, Running,
       CloseRequested, Free, TypeOK
  <2>6. EntryPart(t)
    BY <2>1, <2>3 DEF EntryPart, Neutral, Holding
  <2> QED BY <2>3, <2>4, <2>5, <2>6 DEF Orderly
<1>41. CASE EndSweep(t)
  <2>1. /\ pc[t] = "reap" /\ pc'[t] \in {"idle", "restore"}
        /\ ref'[t] = None
    BY <1>41 DEF EndSweep, Return, TypeOK
  <2>2. loc'[t].walk = "none"
    BY <1>41 DEF EndSweep, Return, TypeOK, Local, NoLocal
  <2>3. /\ Others(t) /\ MapPart(t)
        /\ UNCHANGED <<heap, lock, win>>
    BY <1>41 DEF EndSweep, Return, Others, MapPart, TypeOK, entryVars, outVars
  <2>4. CallWellformed(t)' /\ MainPart(t)
    BY <2>1, <2>2, <2>3 DEF CallWellformed, Wellformed, Holding, MainPart, MainExits
  <2>5. WindowPart(t) /\ EntryPart(t)
    BY <2>1, <2>3, NoWindow DEF EntryPart, Neutral, Holding
  <2> QED BY <2>3, <2>4, <2>5 DEF Orderly
<1>42. CASE LoadStore(t) \/ LoadFails(t)
  <2>1. /\ pc[t] = "reap" /\ pc'[t] = "restore" /\ op'[t] = op[t]
        /\ ref'[t] = ref[t]
    BY <1>42 DEF LoadStore, LoadFails, TypeOK
  <2>2. loc'[t].walk = "none"
    BY <1>42 DEF LoadStore, LoadFails, TypeOK, Local, NoLocal
  <2>3. /\ Others(t) /\ MapPart(t)
        /\ UNCHANGED <<heap, lock, win>>
    BY <1>42 DEF LoadStore, LoadFails, Others, MapPart, TypeOK, entryVars, outVars
  <2>4. CallWellformed(t)' /\ MainPart(t)
    BY <2>1, <2>2, <2>3 DEF CallWellformed, Wellformed, Holding, MainPart, MainExits
  <2>5. WindowPart(t) /\ EntryPart(t)
    BY <2>1, <2>3, NoWindow DEF EntryPart, Neutral, Holding
  <2> QED BY <2>3, <2>4, <2>5 DEF Orderly
<1>43. ASSUME NEW r \in Ids \X Dirs, RestoreNext(t, r) PROVE Orderly(t)
  <2>1. /\ pc[t] = "restore" /\ pc'[t] = "parse"
        /\ ref'[t] = ref[t]
    BY <1>43 DEF RestoreNext, TypeOK
  <2>2. loc'[t].dir = r[2] /\ loc'[t].walk = loc[t].walk
    BY <1>43 DEF RestoreNext, TypeOK, Local
  <2>3. r[2] \in Dirs
    OBVIOUS
  <2>4. /\ Others(t) /\ MapPart(t)
        /\ UNCHANGED <<heap, lock, win>>
    BY <1>43 DEF RestoreNext, Others, MapPart, TypeOK, entryVars, outVars
  <2>5. CallWellformed(t)' /\ MainPart(t)
    BY <2>1, <2>2, <2>3, <2>4 DEF CallWellformed, Wellformed, Holding, MainPart, MainExits
  <2>6. WindowPart(t) /\ EntryPart(t)
    BY <2>1, <2>4, NoWindow DEF EntryPart, Neutral, Holding
  <2> QED BY <2>4, <2>5, <2>6 DEF Orderly
<1>44. CASE RestoreDone(t)
  <2>1. /\ pc[t] = "restore" /\ pc'[t] = "idle"
        /\ ref'[t] = ref[t]
        /\ loc'[t] = loc[t]
    BY <1>44 DEF RestoreDone, TypeOK
  <2>2. /\ Others(t) /\ MapPart(t)
        /\ UNCHANGED <<heap, lock, win>>
    BY <1>44 DEF RestoreDone, Others, MapPart, TypeOK, entryVars, outVars
  <2>3. CallWellformed(t)' /\ MainPart(t)
    BY <2>1, <2>2 DEF CallWellformed, Wellformed, Holding, MainPart, MainExits
  <2>4. WindowPart(t) /\ EntryPart(t)
    BY <2>1, <2>2, NoWindow DEF EntryPart, Neutral, Holding
  <2> QED BY <2>2, <2>3, <2>4 DEF Orderly
<1>45. CASE ShutdownVisit(t)
  <2>1. /\ pc[t] = "visit" /\ pc'[t] = "walk" /\ op'[t] = op[t]
        /\ ref'[t] = None
        /\ loc'[t] = loc[t]
    BY <1>45 DEF ShutdownVisit, Visiting, TypeOK
  <2>2. /\ ref[t] \in Objs /\ Mine(t) = heap[ref[t]] /\ Mine(t) \in Entry
        /\ Mine(t).id # None /\ Mine(t).dir \in Dirs
    BY <2>1, RefEntry, ConstantsAssumption DEF Holding
  <2>3. Others(t) /\ MapPart(t) /\ lock[ref[t]] = None /\ lock' = lock
    BY <1>45 DEF ShutdownVisit, Visiting, Others, MapPart, TypeOK
  <2>4. MainPart(t) /\ t = "main"
    BY <1>45, <2>1 DEF ShutdownVisit, Visiting, MainPart, MainExits
  <2>8. loc[t].walk = "shutdown"
    BY <1>45 DEF ShutdownVisit, Visiting
  <2>5. CallWellformed(t)'
    BY <2>1, <2>2, <2>8 DEF CallWellformed, Holding
  <2>6. CASE Running(ref[t])
    <3>1. /\ heap'[ref[t]] = [Mine(t) EXCEPT !.st = "stopped", !.hdl = None]
          /\ \A x \in Objs \ {ref[t]} : heap'[x] = heap[x]
          /\ win' = CloseRequested(Mine(t).hdl)
      BY <1>45, <2>6, <2>2 DEF ShutdownVisit, Visiting, SetEntry, TypeOK
    <3>2. /\ heap'[ref[t]].id = Mine(t).id /\ heap'[ref[t]].dir = Mine(t).dir
          /\ heap'[ref[t]].st = "stopped"
      BY <3>1, <2>2 DEF Entry
    <3>3. WindowPart(t)
      BY <3>1, <2>1, <2>2, ClosedEntry
    <3>4. \A o \in Objs : o = ref[t] => Changes(t, o) /\ Glances(t, o)
      BY <3>1, <3>2, <2>1, <2>2, <2>3, <2>4 DEF Changes, Glances, Holding, SettledAt,
         Running, MainPumps
    <3> QED BY <3>3, <3>4, <2>3, <2>4, <2>5, <2>2 DEF Orderly, EntryPart, Touches
  <2>7. CASE ~Running(ref[t])
    <3>1. UNCHANGED <<heap, lock, win>>
      BY <1>45, <2>7, <2>3 DEF ShutdownVisit, Visiting
    <3>2. WindowPart(t) /\ EntryPart(t)
      BY <3>1, <2>1, NoWindow DEF EntryPart, Neutral, Holding
    <3> QED BY <3>2, <2>3, <2>4, <2>5 DEF Orderly
  <2> QED BY <2>6, <2>7
<1>46. CASE ExitDone(t)
  <2>1. /\ pc[t] = "walk" /\ pc'[t] = "exited" /\ op'[t] = op[t]
        /\ ref'[t] = ref[t]
        /\ loc'[t] = loc[t]
    BY <1>46 DEF ExitDone, Walked, TypeOK
  <2>2. /\ Others(t) /\ MapPart(t)
        /\ UNCHANGED <<heap, lock, win>>
    BY <1>46 DEF ExitDone, Walked, Others, MapPart, TypeOK, entryVars, outVars
  <2>3. CallWellformed(t)' /\ MainPart(t)
    BY <2>1, <2>2, <1>46 DEF CallWellformed, Wellformed, Holding, MainPart, MainExits,
       ExitDone, Walked
  <2>4. WindowPart(t) /\ EntryPart(t)
    BY <2>1, <2>2, NoWindow DEF EntryPart, Neutral, Holding
  <2> QED BY <2>2, <2>3, <2>4 DEF Orderly
<1> QED BY <1>1, <1>2, <1>3, <1>4, <1>5, <1>6, <1>7, <1>8, <1>9,
           <1>10, <1>11, <1>12, <1>13, <1>14, <1>15, <1>16, <1>17,
           <1>18, <1>19, <1>20, <1>21, <1>22, <1>23, <1>24, <1>25,
           <1>26, <1>27, <1>28, <1>29, <1>30, <1>31, <1>32, <1>33,
           <1>34, <1>35, <1>36, <1>37, <1>38, <1>39, <1>40, <1>41,
           <1>42, <1>43, <1>44, <1>45, <1>46 DEF Advance

-----------------------------------------------------------------------------
(* Calls, sweeps and the exit request start a process; they are orderly too. *)

\* A call, a sweep or an exit that starts keeps every variable's type.
LEMMA StartTyped ==
  ASSUME TypeOK, Wellformed, NEW t \in Procs,
         \/ Call(t)
         \/ Sweep(t)
         \/ t = "main" /\ ExitRequested
  PROVE  TypeOK'
<1> USE DEF Goto, envVars, entryVars, outVars
<1>a. loc[t] \in Local BY DEF TypeOK
<1>1. ASSUME NEW d \in Dirs, CallInstall(t, d) PROVE TypeOK'
  <2>1. [loc[t] EXCEPT !.dir = d] \in Local
    BY <1>a, LocalDir
  <2> QED BY <1>1, <2>1 DEF CallInstall, TypeOK, Steps
<1>2. ASSUME NEW i \in Ids, NEW o \in {"uninstall", "disable", "enable", "reload"},
             CallOn(t, o, i)
      PROVE TypeOK'
  <2>1. [loc[t] EXCEPT !.id = i] \in Local
    BY <1>a, LocalId
  <2>2. entries[i] \in Objs \cup {None}
    BY DEF TypeOK
  <2> QED BY <1>2, <2>1, <2>2 DEF CallOn, TypeOK, Steps
<1>3. CASE Sweep(t)
  <2>1. [loc[t] EXCEPT !.walk = "known", !.todo = Known] \in Local
    BY <1>a, KnownIds, LocalWalk
  <2>2. op' = op \/ op' = [op EXCEPT ![t] = "sweep"]
    BY <1>3 DEF Sweep
  <2>3. /\ loc' = [loc EXCEPT ![t] = [loc[t] EXCEPT !.walk = "known", !.todo = Known]]
        /\ pc' = [pc EXCEPT ![t] = "walk"]
        /\ UNCHANGED <<envVars, entryVars, outVars, ref>>
    BY <1>3 DEF Sweep, StartWalk
  <2> QED BY <2>1, <2>2, <2>3 DEF TypeOK, Steps
<1>4. CASE t = "main" /\ ExitRequested
  <2>1. [loc[t] EXCEPT !.walk = "shutdown", !.todo = Known] \in Local
    BY <1>a, KnownIds, LocalWalk
  <2>2. /\ loc' = [loc EXCEPT ![t] = [loc[t] EXCEPT !.walk = "shutdown", !.todo = Known]]
        /\ pc' = [pc EXCEPT ![t] = "walk"] /\ op' = [op EXCEPT ![t] = "exit"]
        /\ UNCHANGED <<envVars, entryVars, outVars, ref>>
    BY <1>4 DEF ExitRequested, StartWalk
  <2> QED BY <2>1, <2>2 DEF TypeOK, Steps
<1> QED BY <1>1, <1>2, <1>3, <1>4 DEF Call

\* A call, a sweep or an exit that starts is an orderly step.
LEMMA StartOrderly ==
  ASSUME TypeOK, Wellformed, MutexDiscipline, MainExits, NEW t \in Procs,
         \/ t \in Callers /\ Call(t)
         \/ t \in Sweepers /\ Sweep(t)
         \/ t = "main" /\ ExitRequested
  PROVE  Orderly(t)
<1> USE DEF Goto
<1>1. ASSUME t \in Callers, NEW d \in Dirs, CallInstall(t, d) PROVE Orderly(t)
  <2>0. t # "main"
    BY <1>1, ConstantsAssumption
  <2>1. /\ pc[t] = "idle" /\ pc'[t] = "parse" /\ ref'[t] = ref[t]
        /\ loc'[t].dir = d /\ loc'[t].walk = loc[t].walk
    BY <1>1 DEF CallInstall, MayCall, TypeOK, Local
  <2>2. Others(t) /\ MapPart(t) /\ UNCHANGED <<heap, lock, win>>
    BY <1>1 DEF CallInstall, Others, MapPart, TypeOK, entryVars, outVars
  <2>3. CallWellformed(t)' /\ MainPart(t)
    BY <2>0, <2>1, <2>2 DEF CallWellformed, Wellformed, Holding, MainPart, MainExits
  <2>4. WindowPart(t) /\ EntryPart(t)
    BY <2>1, <2>2, NoWindow DEF EntryPart, Neutral, Holding
  <2> QED BY <2>2, <2>3, <2>4 DEF Orderly
<1>2. ASSUME t \in Callers, NEW i \in Ids,
             NEW o \in {"uninstall", "disable", "enable", "reload"}, CallOn(t, o, i)
      PROVE Orderly(t)
  <2>0. t # "main"
    BY <1>2, ConstantsAssumption
  <2>1. /\ pc[t] = "idle" /\ pc'[t] \in {"peek", "lock"} /\ ref'[t] = entries[i]
        /\ loc'[t].id = i /\ loc'[t].walk = loc[t].walk
    BY <1>2 DEF CallOn, MayCall, TypeOK, Local
  <2>6. pc'[t] = "lock" => op'[t] \notin {"install", "reload"}
    BY <1>2 DEF CallOn, TypeOK
  <2>2. Others(t) /\ MapPart(t) /\ UNCHANGED <<heap, lock, win>>
    BY <1>2 DEF CallOn, Others, MapPart, TypeOK, entryVars, outVars
  <2>3. entries[i] \in Objs /\ heap[entries[i]].id # None
    BY <1>2, ConstantsAssumption DEF CallOn, Wellformed, TypeOK
  <2>4. CallWellformed(t)' /\ MainPart(t)
    BY <2>0, <2>1, <2>2, <2>3, <2>6 DEF CallWellformed, Wellformed, Holding, MainPart,
       MainExits
  <2>5. WindowPart(t) /\ EntryPart(t)
    BY <2>1, <2>2, NoWindow DEF EntryPart, Neutral, Holding
  <2> QED BY <2>2, <2>4, <2>5 DEF Orderly
<1>3. CASE t \in Sweepers /\ Sweep(t)
  <2>1. /\ pc[t] \in {"idle", "sweep"} /\ pc'[t] = "walk" /\ ref'[t] = ref[t]
        /\ loc'[t].walk = "known" /\ t # "main"
    BY <1>3 DEF Sweep, MayCall, StartWalk, TypeOK, Local
  <2>2. Others(t) /\ MapPart(t) /\ UNCHANGED <<heap, lock, win>>
    BY <1>3 DEF Sweep, StartWalk, Others, MapPart, TypeOK, entryVars, outVars
  <2>3. CallWellformed(t)' /\ MainPart(t)
    BY <2>1, <2>2 DEF CallWellformed, Wellformed, Holding, MainPart
  <2>4. WindowPart(t) /\ EntryPart(t)
    BY <2>1, <2>2, NoWindow DEF EntryPart, Neutral, Holding
  <2> QED BY <2>2, <2>3, <2>4 DEF Orderly
<1>4. CASE t = "main" /\ ExitRequested
  <2>1. /\ pc[t] = "idle" /\ pc'[t] = "walk" /\ ref'[t] = ref[t]
        /\ loc'[t].walk = "shutdown" /\ t = "main"
    BY <1>4 DEF ExitRequested, MainPumps, StartWalk, TypeOK, Local
  <2>2. Others(t) /\ MapPart(t) /\ UNCHANGED <<heap, lock, win>>
    BY <1>4 DEF ExitRequested, StartWalk, Others, MapPart, TypeOK, entryVars, outVars
  <2>3. CallWellformed(t)' /\ MainPart(t)
    BY <2>1, <2>2 DEF CallWellformed, Wellformed, Holding, MainPart
  <2>4. WindowPart(t) /\ EntryPart(t)
    BY <2>1, <2>2, NoWindow DEF EntryPart, Neutral, Holding
  <2> QED BY <2>2, <2>3, <2>4 DEF Orderly
<1> QED BY <1>1, <1>2, <1>3, <1>4 DEF Call

-----------------------------------------------------------------------------
(* Orderly steps preserve the inductive invariant.                          *)

\* An orderly step keeps the map, the calls and the objects in agreement: an
\* object in use keeps its id for the rest of its life.
LEMMA OrderlyWellformed ==
  ASSUME TypeOK, TypeOK', Wellformed, NEW t \in Procs, Orderly(t)
  PROVE  Wellformed'
<1>1. \A o \in Objs : heap[o].id # None => heap'[o].id = heap[o].id
  BY DEF Orderly, EntryPart, Neutral, Adds, Touches, Changes
<1>2. ASSUME NEW u \in Procs PROVE CallWellformed(u)'
  <2>1. CASE u = t
    BY <2>1 DEF Orderly
  <2>2. CASE u # t
    <3>1. pc'[u] = pc[u] /\ op'[u] = op[u] /\ ref'[u] = ref[u] /\ loc'[u] = loc[u]
      BY <2>2 DEF Orderly, Others
    <3>2. ref[u] \in Objs \cup {None}
      BY DEF TypeOK
    <3> QED BY <1>1, <3>1, <3>2 DEF Wellformed, CallWellformed
  <2> QED BY <2>1, <2>2
<1>3. ASSUME NEW o \in Objs PROVE EntryWellformed(o)'
  <2>1. heap'[o] = heap[o] \/ (heap'[o].id # None /\ heap'[o].dir \in Dirs)
    BY DEF Orderly, EntryPart, Neutral, Adds, Touches, Changes
  <2> QED BY <2>1 DEF Wellformed, EntryWellformed, Unused
<1>4. ASSUME NEW i \in Ids, entries'[i] # None PROVE heap'[entries'[i]].id = i
  <2>1. entries[i] \in Objs \cup {None} /\ i # None
    BY ConstantsAssumption DEF TypeOK
  <2> QED BY <1>1, <1>4, <2>1 DEF Orderly, MapPart, Wellformed
<1> QED BY <1>2, <1>3, <1>4 DEF Wellformed

\* An orderly step keeps the mutex discipline: a holder is between its first
\* and its last step under that mutex, and what it holds does not run.
LEMMA OrderlyMutex ==
  ASSUME TypeOK, TypeOK', Wellformed, MutexDiscipline, NEW t \in Procs, Orderly(t)
  PROVE  MutexDiscipline'
<1>o. \A u \in Procs \ {t} : pc'[u] = pc[u] /\ op'[u] = op[u] /\ ref'[u] = ref[u]
  BY DEF Orderly, Others
<1>n. None \notin Procs /\ None \notin Objs
  BY ConstantsAssumption
<1>t. /\ \A o \in Objs : lock[o] \in Procs \cup {None}
      /\ \A u \in Procs : pc[u] \in Holding => ref[u] \in Objs
  BY DEF TypeOK, Wellformed, CallWellformed
<1>f. "teardown" \in Holding
  BY DEF Holding
<1>1. CASE Neutral(t)
  <2>1. \A u \in Procs : pc'[u] \in Holding =>
          pc[u] \in Holding /\ ref'[u] = ref[u] /\ lock'[ref'[u]] = u
    BY <1>1, <1>o DEF Neutral, MutexDiscipline
  <2>2. \A o \in Objs : lock'[o] # None =>
          pc'[lock'[o]] \in Holding /\ ref'[lock'[o]] = o /\ ~Running(o)'
    BY <1>1, <1>o, <1>t DEF Neutral, MutexDiscipline, Running
  <2>3. \A u \in Procs : pc'[u] = "teardown" /\ op'[u] = "uninstall" =>
          heap'[ref'[u]].st = "uninstalling"
    BY <1>1, <1>o DEF Neutral, MutexDiscipline
  <2> QED BY <2>1, <2>2, <2>3 DEF MutexDiscipline
<1>2. ASSUME NEW o \in Objs, Adds(t, o) PROVE MutexDiscipline'
  <2>1. lock[o] = None
    BY <1>2, <1>t, <1>n DEF Adds, MutexDiscipline, Wellformed, CallWellformed
  <2>2. \A u \in Procs : pc'[u] \in Holding =>
          u # t /\ pc[u] \in Holding /\ ref'[u] = ref[u] /\ ref[u] # o /\ lock'[ref'[u]] = u
    BY <1>2, <1>o, <1>n, <2>1 DEF Adds, MutexDiscipline
  <2>3. \A x \in Objs : lock'[x] # None =>
          pc'[lock'[x]] \in Holding /\ ref'[lock'[x]] = x /\ ~Running(x)'
    BY <1>2, <1>o, <1>t, <2>1 DEF Adds, MutexDiscipline, Running
  <2>4. \A u \in Procs : pc'[u] = "teardown" /\ op'[u] = "uninstall" =>
          heap'[ref'[u]].st = "uninstalling"
    BY <1>2, <1>o, <1>t, <1>f, <2>2 DEF Adds, MutexDiscipline
  <2> QED BY <2>2, <2>3, <2>4 DEF MutexDiscipline
<1>3. ASSUME NEW o \in Objs, Touches(t, o) PROVE MutexDiscipline'
  <2>1. /\ lock[o] \in {None, t} /\ (pc[t] \in Holding => lock[o] = t)
        /\ o = ref[t]
        /\ \A x \in Objs \ {o} : heap'[x] = heap[x] /\ lock'[x] = lock[x]
    BY <1>3, <1>n DEF Touches, Changes, Takes, Keeps, Releases, Glances
  <2>2. ASSUME NEW u \in Procs \ {t}, pc'[u] \in Holding
        PROVE  pc[u] \in Holding /\ ref[u] \in Objs \ {o} /\ ref'[u] = ref[u] /\ lock'[ref'[u]] = u
    BY <1>o, <1>t, <1>n, <2>1, <2>2 DEF MutexDiscipline
  <2>3. /\ pc'[t] \in Holding => ref'[t] = o /\ lock'[o] = t /\ ~Running(o)'
        /\ pc'[t] \notin Holding => lock'[o] = None
    BY <1>3 DEF Touches, Takes, Keeps, Releases, Glances
  <2>4. ASSUME NEW x \in Objs, lock'[x] # None
        PROVE  pc'[lock'[x]] \in Holding /\ ref'[lock'[x]] = x /\ ~Running(x)'
    <3>1. CASE x = o
      BY <3>1, <2>3, <2>4
    <3>2. CASE x # o
      <4>1. /\ lock'[x] = lock[x] /\ heap'[x] = heap[x] /\ lock[x] \in Procs
            /\ pc[lock[x]] \in Holding /\ ref[lock[x]] = x /\ ~Running(x)
        BY <3>2, <2>1, <2>4, <1>t DEF MutexDiscipline
      <4>2. lock[x] # t
        BY <4>1, <3>2, <2>1
      <4> QED BY <4>1, <4>2, <1>o DEF Running
    <3> QED BY <3>1, <3>2
  <2>5. ASSUME NEW u \in Procs, pc'[u] = "teardown", op'[u] = "uninstall"
        PROVE  heap'[ref'[u]].st = "uninstalling"
    <3>1. CASE u = t
      BY <3>1, <2>5, <2>3, <1>3, <1>f DEF Touches, Takes, Keeps, Releases, Glances
    <3>2. CASE u # t
      BY <3>2, <2>5, <2>2, <2>1, <1>o, <1>f DEF MutexDiscipline
    <3> QED BY <3>1, <3>2
  <2>6. ASSUME NEW u \in Procs, pc'[u] \in Holding PROVE lock'[ref'[u]] = u
    BY <2>2, <2>3, <2>6
  <2> QED BY <2>4, <2>5, <2>6 DEF MutexDiscipline
<1> QED BY <1>1, <1>2, <1>3 DEF Orderly, EntryPart

\* An orderly step keeps the main thread on its way out once it exits.
LEMMA OrderlyMain ==
  ASSUME MainExits, NEW t \in Procs, Orderly(t)
  PROVE  MainExits' /\ (~MainPumps => ~MainPumps')
<1>1. "main" \in Procs
  BY DEF Procs
<1>2. CASE t = "main"
  BY <1>1, <1>2 DEF Orderly, Others, MainPart, MainExits, MainPumps
<1>3. CASE t # "main"
  BY <1>1, <1>3 DEF Orderly, Others, MainPart, MainExits, MainPumps
<1> QED BY <1>2, <1>3

\* An orderly step leaves every entry whose mutex is free settled: only the
\* holder unsettles one, and it settles it before it lets go.
LEMMA OrderlySettled ==
  ASSUME TypeOK, SettledEntries, NEW t \in Procs, Orderly(t),
         ~MainPumps => ~MainPumps'
  PROVE  SettledEntries'
<1> SUFFICES ASSUME NEW x \in Objs, lock'[x] = None PROVE SettledAt(x)'
  BY DEF SettledEntries
<1>1. heap'[x] = heap[x] /\ lock'[x] = lock[x] => SettledAt(x)'
  BY DEF SettledEntries, SettledAt, Running
<1>2. CASE Neutral(t)
  BY <1>1, <1>2 DEF Neutral
<1>3. ASSUME NEW o \in Objs, Adds(t, o) PROVE SettledAt(x)'
  <2>1. CASE x = o
    BY <1>3, <2>1 DEF Adds, SettledAt, Running
  <2>2. CASE x # o
    BY <1>1, <1>3, <2>2 DEF Adds
  <2> QED BY <2>1, <2>2
<1>4. ASSUME NEW o \in Objs, Touches(t, o) PROVE SettledAt(x)'
  <2>1. CASE x = o
    BY <1>4, <2>1, ConstantsAssumption DEF Touches, Takes, Keeps, Releases, Glances
  <2>2. CASE x # o
    BY <1>1, <1>4, <2>2 DEF Touches, Changes
  <2> QED BY <2>1, <2>2
<1> QED BY <1>2, <1>3, <1>4 DEF Orderly, EntryPart

\* An orderly step leaves no open window unowned.
LEMMA OrderlyOwned ==
  ASSUME OpenWindowOwned, NEW t \in Procs, Orderly(t)
  PROVE  OpenWindowOwned'
<1> SUFFICES ASSUME NEW l \in Labels, win'[l].st = "open"
             PROVE  (\E o \in Objs : Owner(l, o)') \/ (\E u \in Procs : Spawner(l, u)')
  BY DEF OpenWindowOwned
<1>1. /\ win[l].st = "open" \/ Spawner(l, t)'
      /\ Spawner(l, t) => Spawner(l, t)' \/ \E o \in Objs : Owner(l, o)'
      /\ \A o \in Objs : Owner(l, o) => Owner(l, o)'
  BY DEF Orderly, WindowPart
<1>2. ASSUME NEW u \in Procs \ {t}, Spawner(l, u) PROVE Spawner(l, u)'
  BY <1>2 DEF Orderly, Others, Spawner, LabelFor
<1>3. CASE Spawner(l, t)'
  BY <1>3
<1>4. CASE win[l].st = "open"
  BY <1>1, <1>2, <1>4 DEF OpenWindowOwned
<1> QED BY <1>1, <1>3, <1>4

-----------------------------------------------------------------------------
(* The environment, the start of the process, and the theorems.             *)

\* Whatever a process under way or a starting call does, IInv survives it.
LEMMA OrderlyStep ==
  ASSUME IInv, TypeOK', NEW t \in Procs, Orderly(t)
  PROVE  IInv'
<1>1. Wellformed'
  BY OrderlyWellformed DEF IInv
<1>2. MutexDiscipline'
  BY OrderlyMutex DEF IInv
<1>3. MainExits' /\ (~MainPumps => ~MainPumps')
  BY OrderlyMain DEF IInv
<1>4. SettledEntries'
  BY <1>3, OrderlySettled DEF IInv
<1>5. OpenWindowOwned'
  BY OrderlyOwned DEF IInv
<1> QED BY <1>1, <1>2, <1>3, <1>4, <1>5 DEF IInv

\* The event loop, the workers and the developers change no entry and no
\* process, and open no window.
LEMMA EnvironmentStep ==
  ASSUME IInv, Environment
  PROVE  IInv'
<1>1. TypeOK'
  <2>1. ASSUME NEW l \in Labels, Destroyed(l) PROVE TypeOK'
    <3>1. Absent \in [st : {"free", "open", "closing"}, ext : Ids \cup {None}]
      BY DEF Absent
    <3> QED BY <2>1, <3>1 DEF Destroyed, IInv, TypeOK, envVars, entryVars, procVars
  <2>2. ASSUME NEW i \in Ids, RegisterCalled(i) \/ RegisterResolved(i) \/ RegisterServed(i)
        PROVE  TypeOK'
    BY <2>2 DEF RegisterCalled, RegisterResolved, RegisterServed, IInv, TypeOK,
                envVars, entryVars, procVars
  <2>3. ASSUME NEW d \in Dirs, NEW m \in Manifests, EditDisk(d, m) PROVE TypeOK'
    BY <2>3 DEF EditDisk, IInv, TypeOK, entryVars, outVars, procVars
  <2> QED BY <2>1, <2>2, <2>3 DEF Environment
<1>2. UNCHANGED <<entryVars, procVars>>
  BY DEF Environment, Destroyed, RegisterCalled, RegisterResolved, RegisterServed,
         EditDisk
<1>3. UNCHANGED <<entries, heap, lock, pc, op, ref, loc>>
  BY <1>2 DEF entryVars, procVars
<1>4. \A l \in Labels : win'[l].st = "open" => win[l].st = "open"
  BY DEF Environment, Destroyed, RegisterCalled, RegisterResolved, RegisterServed,
         EditDisk, Absent, outVars, IInv, TypeOK
<1>5. Wellformed' /\ MutexDiscipline' /\ MainExits'
  BY <1>3 DEF IInv, Wellformed, CallWellformed, EntryWellformed, MutexDiscipline,
              Running, MainExits
<1>6. SettledEntries'
  BY <1>3 DEF IInv, SettledEntries, SettledAt, Running, MainPumps
<1>7. OpenWindowOwned'
  BY <1>3, <1>4 DEF IInv, OpenWindowOwned, Owner, Spawner, Running, LabelFor
<1> QED BY <1>1, <1>5, <1>6, <1>7 DEF IInv

\* What a fresh process starts from, after a crash or at the very first start.
Fresh ==
  /\ unsaved = {} /\ fresh = [s \in Sweepers |-> {}]
  /\ entries = Nothing /\ roots = Nothing /\ registry = Nothing
  /\ heap = [o \in Objs |-> Unused] /\ lock = [o \in Objs |-> None]
  /\ win = [l \in Labels |-> Absent]
  /\ view = [i \in Ids |-> "absent"]
  /\ scripts = {} /\ flying = [i \in Ids |-> "none"]
  /\ pc = FreshPc /\ op = FreshOp
  /\ ref = [t \in Procs |-> None] /\ loc = [t \in Procs |-> NoLocal]

\* A fresh process satisfies the inductive invariant.
LEMMA FreshStart ==
  ASSUME Fresh, disk \in [Dirs -> Manifests], store \in Rows
  PROVE  IInv
<1>1. TypeOK
  <2>1. NoLocal \in Local
    BY DEF NoLocal, NoRows, Local, Rows
  <2>2. Unused \in Entry
    BY DEF Unused, Entry, States
  <2>3. Absent \in [st : {"free", "open", "closing"}, ext : Ids \cup {None}]
    BY DEF Absent
  <2>4. /\ FreshPc \in [Procs -> Steps]
        /\ FreshOp \in [Procs -> {"none", "boot", "sweep", "exit",
             "install", "uninstall", "disable", "enable", "reload"}]
    BY DEF FreshPc, FreshOp, Steps
  <2> QED BY <2>1, <2>2, <2>3, <2>4 DEF Fresh, Nothing, TypeOK
<1>2. /\ \A t \in Procs : pc[t] \in {"idle", "sweep"} /\ ref[t] = None
                           /\ loc[t] = NoLocal
      /\ \A o \in Objs : heap[o] = Unused /\ lock[o] = None
      /\ \A i \in Ids : entries[i] = None
      /\ \A l \in Labels : win[l] = Absent
  BY DEF Fresh, FreshPc, Nothing
<1>3. pc["main"] = "idle" /\ "main" \in Procs
  BY DEF Fresh, FreshPc, Procs
<1>4. Wellformed
  <2>1. \A t \in Procs : CallWellformed(t)
    BY <1>2 DEF CallWellformed, Holding
  <2>2. ASSUME NEW o \in Objs PROVE EntryWellformed(o)
    <3>1. heap[o] = Unused /\ Unused.id = None
      BY <1>2 DEF Unused
    <3> QED BY <3>1 DEF EntryWellformed
  <2> QED BY <1>2, <2>1, <2>2 DEF Wellformed
<1>5. MutexDiscipline
  BY <1>2 DEF MutexDiscipline, Holding
<1>6. MainExits
  BY <1>2, <1>3 DEF MainExits, NoLocal
<1>7. SettledEntries
  BY <1>2 DEF SettledEntries, SettledAt, Running, Unused
<1>8. OpenWindowOwned
  BY <1>2 DEF OpenWindowOwned, Absent
<1> QED BY <1>1, <1>4, <1>5, <1>6, <1>7, <1>8 DEF IInv

\* The first start satisfies the inductive invariant.
LEMMA IInvInit == Init => IInv
<1> SUFFICES ASSUME Init PROVE IInv
  OBVIOUS
<1>1. disk \in [Dirs -> Manifests] /\ store \in Rows
  BY ConstantsAssumption DEF Init, NoRows, Rows
<1>2. Fresh
  BY DEF Init, Fresh
<1> QED BY <1>1, <1>2, FreshStart

\* So does a restart after a crash or an exit: only the directories and the
\* state file survive, and they keep their types.
LEMMA IInvRestart ==
  ASSUME IInv, Restart
  PROVE  IInv'
<1>1. (disk \in [Dirs -> Manifests] /\ store \in Rows)'
  BY DEF Restart, IInv, TypeOK, envVars
<1>2. Fresh'
  BY DEF Restart, Fresh
<1>3. (Fresh /\ disk \in [Dirs -> Manifests] /\ store \in Rows => IInv)'
  BY FreshStart, PTL
<1> QED BY <1>1, <1>2, <1>3

\* The invariant is inductive: every step of the specification preserves it.
LEMMA IInvStep == IInv /\ [Next]_vars => IInv'
<1> SUFFICES ASSUME IInv, [Next]_vars PROVE IInv'
  OBVIOUS
<1>p. {"boot", "dog", "main"} \cup Callers \subseteq Procs
  BY DEF Procs
<1>1. ASSUME NEW t \in Procs, Advance(t) PROVE IInv'
  <2>1. TypeOK'
    BY <1>1, TypeAdvance DEF IInv
  <2>2. Orderly(t)
    BY <1>1, AdvanceOrderly DEF IInv
  <2> QED BY <2>1, <2>2, OrderlyStep
<1>2. ASSUME NEW t \in Procs,
             \/ t \in Callers /\ Call(t)
             \/ t \in Sweepers /\ Sweep(t)
             \/ t = "main" /\ ExitRequested
      PROVE  IInv'
  <2>1. TypeOK'
    BY <1>2, StartTyped DEF IInv
  <2>2. Orderly(t)
    BY <1>2, StartOrderly DEF IInv
  <2> QED BY <2>1, <2>2, OrderlyStep
<1>3. CASE Environment
  BY <1>3, EnvironmentStep
<1>4. CASE Restart
  BY <1>4, IInvRestart
<1>5. CASE UNCHANGED vars
  <2>1. UNCHANGED <<disk, store, unsaved, fresh, entries, heap, lock, win, roots, scripts,
                    flying, registry, view, pc, op, ref, loc>>
    BY <1>5 DEF vars, envVars, entryVars, outVars, procVars
  <2> QED BY <2>1 DEF IInv, TypeOK, Wellformed, CallWellformed, EntryWellformed,
                MutexDiscipline, MainExits, SettledEntries, SettledAt,
                OpenWindowOwned, Owner, Spawner, Running, MainPumps, LabelFor
<1>6. CASE \E t \in Procs : Advance(t)
  BY <1>1, <1>6
<1>7. CASE \E t \in Callers : Call(t)
  BY <1>2, <1>7, <1>p
<1>8. CASE \E t \in Sweepers : Sweep(t)
  BY <1>2, <1>8, <1>p DEF Sweepers
<1>9. CASE ExitRequested
  BY <1>2, <1>9, <1>p
<1> QED BY <1>3, <1>4, <1>5, <1>6, <1>7, <1>8, <1>9 DEF Next

\* Whatever the calls, the sweeps, exits and crashes do, in any order and for
\* any number of extensions and callers, IInv holds: processes hold the entry
\* mutexes they should, and the map, the calls and the entries agree.
THEOREM InductiveInvariant == Spec => []IInv
<1> QED BY IInvInit, IInvStep, PTL DEF Spec

\* Every variable of the lifecycle manager holds a value of its type.
THEOREM TypeCorrect == Spec => []TypeOK
<1>1. IInv => TypeOK
  BY DEF IInv
<1> QED BY <1>1, InductiveInvariant, PTL

\* The half-done states of manager.rs (Stopping, a running entry whose flag is
\* not yet set) are never seen by anybody who takes the entry's mutex.
THEOREM SettledUnderLock == Spec => []SettledEntries
<1>1. IInv => SettledEntries
  BY DEF IInv
<1> QED BY <1>1, InductiveInvariant, PTL

\* No transition loses a worker: an open background window always has an
\* entry or a spawn that holds its handle.
THEOREM WindowsOwned == Spec => []OpenWindowOwned
<1>1. IInv => OpenWindowOwned
  BY DEF IInv
<1> QED BY <1>1, InductiveInvariant, PTL
\* Who holds an entry's mutex waits for nobody but the main thread, in its build.
LEMMA HoldersWait ==
  ASSUME IInv, NEW t \in Procs, NEW u \in Procs, AwaitsMutex(t, u)
  PROVE  \A v \in Procs : WaitsFor(u, v) => v = "main" /\ AwaitsMain(u, v)
<1>1. pc[t] \in {"peek", "lock", "visit"} /\ lock[ref[t]] = u BY DEF AwaitsMutex
<1>2. ref[t] \in Objs BY <1>1 DEF IInv, Wellformed, CallWellformed
<1>3. lock[ref[t]] # None BY <1>1, ConstantsAssumption
<1>4. pc[u] \in Holding BY <1>1, <1>2, <1>3 DEF IInv, MutexDiscipline
<1> QED BY <1>4 DEF Holding, WaitsFor, AwaitsMutex, AwaitsShard, AwaitsMain

\* The locks alone never leave calls waiting for one another: whatever the order
\* of any number of calls, who waits for an entry's mutex, or for the shard a
\* reload keeps meanwhile, waits for somebody who goes on; unless the application
\* exits and the main thread waits for an entry whose holder waits for it.
THEOREM NoOtherDeadlock == Spec => []OnlyExitDeadlocks
<1>1. IInv => OnlyExitDeadlocks
  <2> SUFFICES ASSUME IInv, NEW S \in (SUBSET Procs) \ {{}}, \A t \in S : \E u \in S : WaitsFor(t, u)
               PROVE  \E t \in S : AwaitsMutex("main", t) /\ AwaitsMain(t, "main")
    BY DEF OnlyExitDeadlocks
  <2>1. PICK t \in S, u \in S : AwaitsMutex(t, u)
    <3>1. \A t, u \in S : AwaitsShard(t, u) => \E v \in S : AwaitsMutex(u, v)
      BY DEF AwaitsShard, AwaitsMutex, AwaitsMain, WaitsFor
    <3>2. \A t, u \in S : AwaitsMain(t, u) => \E v \in S : AwaitsMutex(u, v)
      BY DEF AwaitsMain, AwaitsShard, AwaitsMutex, WaitsFor, IInv, MainExits
    <3>3. PICK a \in S, b \in S : WaitsFor(a, b) OBVIOUS
    <3> QED BY <3>1, <3>2, <3>3 DEF WaitsFor
  <2>2. "main" \in S /\ AwaitsMain(u, "main") BY <2>1, HoldersWait
  <2>3. PICK v \in S : AwaitsMutex("main", v)
    BY <2>2 DEF AwaitsMain, AwaitsShard, AwaitsMutex, WaitsFor, IInv, MainExits
  <2>4. AwaitsMain(v, "main") BY <2>2, <2>3, HoldersWait
  <2> QED BY <2>3, <2>4
<1> QED BY <1>1, InductiveInvariant, PTL
-----------------------------------------------------------------------------
(* Windows of running entries, where they are the manager's own affair: no   *)
(* uninstall or sweep races a call, requested closes finish within the       *)
(* ceilings, and no two ids share a label.                                   *)

Undisturbed ==
  /\ ~SlowClose /\ Ops \cap {"uninstall", "sweep", "early"} = {}
  /\ \A i, j \in Ids : LabelOf[i] = LabelOf[j] => i = j

\* An entry stays in the map.
Stay(t) == op[t] # "uninstall" /\ pc[t] \notin {"remove", "unroot"}
EntriesKept ==
  /\ \A t \in Procs : Stay(t)
  /\ \A o \in Objs : heap[o].id # None => entries[heap[o].id] = o

\* A call works on its id's entry, and a spawn finds its label free at last.
OwnCall(t) ==
  /\ pc[t] \in {"lock"} \cup Holding => loc[t].id = heap[ref[t]].id
  /\ pc[t] \in {"await1", "build1", "await2", "build2"} => loc[t].hdl = None
  /\ pc[t] = "build2" /\ MainPumps => loc[t].freed
  /\ pc[t] # "adopt"
  /\ pc[t] = "commit" => loc[t].hdl \in {None, LabelFor(t)}
OwnHandle(o) == Running(o) => heap[o].hdl \in {None, LabelOf[heap[o].id]}

\* Boot sweeps before the first window is built, and nobody else sweeps.
BootSweeps == pc["boot"] = "sweep" \/ loc["boot"].walk = "known"
SweepsAlone(t) == loc[t].walk = "known" \/ pc[t] \in {"sweep", "reap"} => t = "boot"
FirstSweep ==
  /\ \A t \in Procs : SweepsAlone(t)
  /\ pc["boot"] = "reap" => loc["boot"].walk = "known" /\ loc["boot"].labels = {}
  /\ loc["boot"].walk = "known" => pc["boot"] \in {"walk", "visit", "reap"}
  /\ BootSweeps => /\ \A t \in Callers \cup {"dog"} : pc[t] = "idle"
                 /\ \A l \in Labels : Free(l)

\* The converse of OpenWindowOwned.
OwnersLive ==
  \A l \in Labels :
    (\E o \in Objs : Owner(l, o)) \/ (\E t \in Procs : Spawner(l, t)) => win[l].st = "open"

WInv == /\ EntriesKept /\ (\A t \in Procs : OwnCall(t)) /\ (\A o \in Objs : OwnHandle(o))
        /\ FirstSweep /\ OwnersLive

\* No two of them are after one window.
LEMMA OneOwner ==
  ASSUME IInv, WInv, Undisturbed, NEW l \in Labels, NEW r \in Objs, Owner(l, r)
  PROVE  /\ \A o \in Objs : Owner(l, o) => o = r
         /\ \A t \in Procs : ~Spawner(l, t)
<1>1. \A o \in Objs : Owner(l, o) => l = LabelOf[heap[o].id] /\ heap[o].id \in Ids
  BY ConstantsAssumption DEF WInv, OwnHandle, Owner, IInv, TypeOK, Entry, Wellformed,
     EntryWellformed, Unused, Running
<1>2. \A o \in Objs : heap[o].id \in Ids => entries[heap[o].id] = o
  BY ConstantsAssumption DEF WInv, EntriesKept
<1>3. ASSUME NEW o \in Objs, Owner(l, o) PROVE o = r
  BY <1>1, <1>2, <1>3 DEF Undisturbed
<1>4. ASSUME NEW t \in Procs, Spawner(l, t) PROVE FALSE
  <2>1. pc[t] \in Holding BY <1>4 DEF Spawner, Holding
  <2>2. ref[t] \in Objs /\ loc[t].id = heap[ref[t]].id /\ loc[t].id \in Ids /\ lock[ref[t]] = t
    BY <2>1 DEF WInv, OwnCall, IInv, Wellformed, CallWellformed, MutexDiscipline
  <2>3. l = LabelOf[loc[t].id]
    BY <1>4, ConstantsAssumption DEF Spawner, LabelFor, WInv, OwnCall
  <2>4. ref[t] = r BY <1>1, <1>2, <2>2, <2>3 DEF Undisturbed
  <2>5. ~Running(r) BY <2>2, <2>4, ConstantsAssumption DEF IInv, MutexDiscipline
  <2> QED BY <2>5 DEF Owner
<1> QED BY <1>3, <1>4

\* A window whose label a call holds the entry of is open only if the call
\* itself built it.
LEMMA OwnLabel ==
  ASSUME IInv, WInv, Undisturbed, NEW t \in Procs, pc[t] \in Holding,
         pc[t] \notin {"built", "commit"}
  PROVE  win[LabelFor(t)].st # "open"
<1>1. ref[t] \in Objs /\ loc[t].id = heap[ref[t]].id /\ loc[t].id \in Ids /\ lock[ref[t]] = t
  BY DEF WInv, OwnCall, IInv, Wellformed, CallWellformed, MutexDiscipline
<1> DEFINE l == LabelFor(t)
<1>2. l \in Labels /\ l = LabelOf[loc[t].id] BY <1>1, ConstantsAssumption DEF LabelFor
<1> SUFFICES ASSUME win[l].st = "open" PROVE FALSE OBVIOUS
<1>3. ~Running(ref[t]) BY <1>1, ConstantsAssumption DEF IInv, MutexDiscipline
<1>6. \A o \in Objs : heap[o].id \in Ids => entries[heap[o].id] = o
  BY ConstantsAssumption DEF WInv, EntriesKept
<1>4. ASSUME NEW o \in Objs, Owner(l, o) PROVE FALSE
  <2>1. l = LabelOf[heap[o].id] /\ heap[o].id \in Ids
    BY <1>2, <1>4, ConstantsAssumption DEF WInv, OwnHandle, Owner, IInv, TypeOK, Entry, Wellformed,
       EntryWellformed, Unused, Running
  <2>2. heap[o].id = heap[ref[t]].id BY <1>1, <1>2, <2>1 DEF Undisturbed
  <2>3. o = ref[t] BY <1>1, <1>6, <2>1, <2>2
  <2> QED BY <1>3, <1>4, <2>3 DEF Owner
<1>5. ASSUME NEW u \in Procs, Spawner(l, u) PROVE FALSE
  <2>1. pc[u] \in Holding /\ u # t BY <1>5 DEF Spawner, Holding
  <2>2. ref[u] \in Objs /\ loc[u].id = heap[ref[u]].id /\ loc[u].id \in Ids /\ lock[ref[u]] = u
    BY <2>1 DEF WInv, OwnCall, IInv, Wellformed, CallWellformed, MutexDiscipline
  <2>3. l = LabelOf[loc[u].id]
    BY <1>2, <1>5, ConstantsAssumption DEF Spawner, LabelFor, WInv, OwnCall
  <2>4. loc[u].id = loc[t].id BY <1>1, <1>2, <2>2, <2>3 DEF Undisturbed
  <2>5. entries[loc[u].id] = ref[u] /\ entries[loc[t].id] = ref[t] BY <1>1, <1>6, <2>2
  <2>6. ref[u] = ref[t] BY <2>4, <2>5
  <2> QED BY <1>1, <2>1, <2>2, <2>6
<1> QED BY <1>2, <1>4, <1>5 DEF IInv, OpenWindowOwned

\* Once the main thread exits it does not pump again.
LEMMA MainStays ==
  ASSUME NEW t \in Procs, Orderly(t)
  PROVE  MainPumps' => MainPumps
<1>1. CASE t = "main" BY <1>1 DEF Orderly, MainPart, MainPumps
<1>2. CASE t # "main" BY <1>2 DEF Orderly, Others, MainPumps, Procs
<1> QED BY <1>1, <1>2

\* What a step of process t does to what WInv speaks of: to the map and the
\* entries' ids,
MapStep(t) ==
  \/ entries' = entries /\ \A o \in Objs : heap'[o].id = heap[o].id
  \/ \E o \in Objs : EntryAdded(t, o)

\* ... to the handles of entries that run,
Same(o) == /\ heap'[o].id = heap[o].id /\ heap'[o].st = heap[o].st
           /\ heap'[o].hdl = heap[o].hdl
HandleStep(t) ==
  \A o \in Objs :
    \/ Same(o) \/ ~Running(o)'
    \/ pc[t] = "commit" /\ o = ref[t] /\ heap'[o].id = heap[o].id /\ heap'[o].hdl = loc[t].hdl

\* ... to the windows,
Closes(t) ==
  /\ ref[t] \in Objs /\ Running(ref[t]) /\ heap'[ref[t]].st # "running" /\ pc[t] # "commit"
  /\ win' = CloseRequested(heap[ref[t]].hdl)
WindowStep(t) == UNCHANGED win \/ Build(t) \/ Closes(t)

\* ... and to the window it spawns.
SpawnStep(t) ==
  \A l \in Labels : Spawner(l, t)' => Spawner(l, t) \/ (Build(t) /\ l = LabelFor(t))

Own(t) == /\ Stay(t)' /\ OwnCall(t)' /\ MapStep(t) /\ HandleStep(t) /\ WindowStep(t)
          /\ SpawnStep(t)

\* A step of a process under way does nothing else.
LEMMA AdvanceOwn ==
  ASSUME IInv, WInv, Undisturbed, NEW t \in Procs, Advance(t)
  PROVE  Own(t)
<1> USE DEF Goto
<1>a. TypeOK /\ Stay(t) /\ OwnCall(t) /\ CallWellformed(t) /\ loc[t] \in Local
  BY DEF IInv, WInv, EntriesKept, Wellformed, TypeOK
<1>m. MainPumps' => MainPumps BY AdvanceOrderly, MainStays DEF IInv
<1>b. ASSUME UNCHANGED <<entries, heap, win>>, Stay(t)', OwnCall(t)', SpawnStep(t)
      PROVE  Own(t)
  BY <1>b DEF Own, MapStep, HandleStep, Same, WindowStep
<1>c. ASSUME pc'[t] \notin {"lock", "remove", "unroot"} \cup Holding, op'[t] # "uninstall"
      PROVE  Stay(t)' /\ OwnCall(t)' /\ SpawnStep(t)
  BY <1>c DEF Stay, OwnCall, SpawnStep, Spawner, Holding
<1>d. ASSUME UNCHANGED <<entries, heap, win>>, op'[t] # "uninstall",
             pc'[t] \notin {"lock", "remove", "unroot"} \cup Holding
      PROVE  Own(t)
  BY <1>b, <1>c, <1>d
<1>r. ASSUME Return(t) PROVE pc'[t] \in {"restore", "idle"} /\ op'[t] = "none"
  BY <1>a, <1>r DEF Return, TypeOK
<1>1. CASE Peek(t)
  <2>1. UNCHANGED <<entries, heap, win>> BY <1>1 DEF Peek, entryVars, outVars
  <2>2. op'[t] # "uninstall" /\ pc'[t] \notin {"lock", "remove", "unroot"} \cup Holding
    BY <1>1, <1>a DEF Peek, Stay, Holding, TypeOK
  <2> QED BY <2>1, <2>2, <1>d
<1>2. CASE ParseFails(t)
  BY <1>2, <1>d, <1>r DEF ParseFails, Holding, entryVars, outVars
<1>3. CASE Parse(t)
  <2>1. UNCHANGED <<entries, heap, win>> BY <1>3 DEF Parse, entryVars, outVars
  <2>2. op'[t] # "uninstall" /\ pc'[t] \notin {"lock", "remove", "unroot"} \cup Holding
    BY <1>3, <1>a DEF Parse, Stay, Holding, TypeOK
  <2> QED BY <2>1, <2>2, <1>d
<1>4. CASE EnableFails(t)
  BY <1>4, <1>d, <1>r DEF EnableFails, Holding, entryVars, outVars
<1>5. CASE EmitLate(t)
  <2>1. UNCHANGED <<entries, heap, win>> BY <1>5 DEF EmitLate, entryVars, outVars
  <2>2. op'[t] # "uninstall" /\ pc'[t] \notin {"lock", "remove", "unroot"} \cup Holding
    BY <1>5, <1>a DEF EmitLate, Stay, Holding, TypeOK
  <2> QED BY <2>1, <2>2, <1>d
<1>6. CASE BeginPersist(t)
  <2>1. UNCHANGED <<entries, heap, win>> BY <1>6 DEF BeginPersist, entryVars, outVars
  <2>2. op'[t] # "uninstall" /\ pc'[t] \notin {"lock", "remove", "unroot"} \cup Holding
    BY <1>6, <1>a DEF BeginPersist, Stay, Holding, TypeOK, StartWalk
  <2> QED BY <2>1, <2>2, <1>d
<1>7. ASSUME NEW i \in Ids, WalkNext(t, i) PROVE Own(t)
  <2>1. UNCHANGED <<entries, heap, win>> BY <1>7 DEF WalkNext, entryVars, outVars
  <2>2. op'[t] # "uninstall" /\ pc'[t] \notin {"lock", "remove", "unroot"} \cup Holding
    BY <1>7, <1>a DEF WalkNext, Stay, Holding, TypeOK
  <2> QED BY <2>1, <2>2, <1>d
<1>8. CASE CollectRow(t)
  <2>1. UNCHANGED <<entries, heap, win>> BY <1>8 DEF CollectRow, entryVars, outVars
  <2>2. op'[t] # "uninstall" /\ pc'[t] \notin {"lock", "remove", "unroot"} \cup Holding
    BY <1>8, <1>a DEF CollectRow, Stay, Holding, TypeOK, Visiting
  <2> QED BY <2>1, <2>2, <1>d
<1>9. CASE Save(t) \/ SaveFails(t)
  <2>1. UNCHANGED <<entries, heap, win>> BY <1>9 DEF Save, SaveFails, entryVars, outVars
  <2>2. op'[t] # "uninstall" /\ pc'[t] \notin {"lock", "remove", "unroot"} \cup Holding
    BY <1>9, <1>a DEF Save, SaveFails, Stay, Holding, TypeOK
  <2> QED BY <2>1, <2>2, <1>d
<1>10. CASE Prune(t)
  <2>1. UNCHANGED <<entries, heap, win>> BY <1>10 DEF Prune, entryVars, outVars
  <2>2. op'[t] # "uninstall" /\ pc'[t] \notin {"lock", "remove", "unroot"} \cup Holding
    BY <1>10, <1>a DEF Prune, Stay, Holding, TypeOK, StartWalk
  <2> QED BY <2>1, <2>2, <1>d
<1>11. CASE Project(t)
  <2>1. UNCHANGED <<entries, heap, win>> BY <1>11 DEF Project, entryVars, outVars
  <2>2. op'[t] # "uninstall" /\ pc'[t] \notin {"lock", "remove", "unroot"} \cup Holding
    BY <1>11, <1>a DEF Project, Stay, Holding, TypeOK, Visiting
  <2> QED BY <2>1, <2>2, <1>d
<1>12. CASE EndProject(t)
  BY <1>12, <1>d, <1>r DEF EndProject, Holding, entryVars, outVars
<1>13. CASE EndUninstall(t)
  BY <1>13, <1>d, <1>r DEF EndUninstall, Holding, entryVars, outVars
<1>14. CASE NoteLabel(t)
  <2>1. UNCHANGED <<entries, heap, win>> BY <1>14 DEF NoteLabel, entryVars, outVars
  <2>2. op'[t] # "uninstall" /\ pc'[t] \notin {"lock", "remove", "unroot"} \cup Holding
    BY <1>14, <1>a DEF NoteLabel, Stay, Holding, TypeOK, Visiting
  <2> QED BY <2>1, <2>2, <1>d
<1>15. CASE ListWindows(t)
  <2>1. UNCHANGED <<entries, heap, win>> BY <1>15 DEF ListWindows, entryVars, outVars
  <2>2. op'[t] # "uninstall" /\ pc'[t] \notin {"lock", "remove", "unroot"} \cup Holding
    BY <1>15, <1>a DEF ListWindows, Stay, Holding, TypeOK
  <2> QED BY <2>1, <2>2, <1>d
<1>16. CASE EndSweep(t)
  BY <1>16, <1>d, <1>r DEF EndSweep, Holding, entryVars, outVars
<1>17. CASE LoadStore(t) \/ LoadFails(t)
  <2>1. UNCHANGED <<entries, heap, win>> BY <1>17 DEF LoadStore, LoadFails, entryVars, outVars
  <2>2. op'[t] # "uninstall" /\ pc'[t] \notin {"lock", "remove", "unroot"} \cup Holding
    BY <1>17, <1>a DEF LoadStore, LoadFails, Stay, Holding, TypeOK
  <2> QED BY <2>1, <2>2, <1>d
<1>18. ASSUME NEW r \in Ids \X Dirs, RestoreNext(t, r) PROVE Own(t)
  <2>1. UNCHANGED <<entries, heap, win>> BY <1>18 DEF RestoreNext, entryVars, outVars
  <2>2. op'[t] # "uninstall" /\ pc'[t] \notin {"lock", "remove", "unroot"} \cup Holding
    BY <1>18, <1>a DEF RestoreNext, Stay, Holding, TypeOK
  <2> QED BY <2>1, <2>2, <1>d
<1>19. CASE RestoreDone(t)
  <2>1. UNCHANGED <<entries, heap, win>> BY <1>19 DEF RestoreDone, entryVars, outVars
  <2>2. op'[t] # "uninstall" /\ pc'[t] \notin {"lock", "remove", "unroot"} \cup Holding
    BY <1>19, <1>a DEF RestoreDone, Stay, Holding, TypeOK
  <2> QED BY <2>1, <2>2, <1>d
<1>20. CASE ExitDone(t)
  <2>1. UNCHANGED <<entries, heap, win>> BY <1>20 DEF ExitDone, entryVars, outVars
  <2>2. op'[t] # "uninstall" /\ pc'[t] \notin {"lock", "remove", "unroot"} \cup Holding
    BY <1>20, <1>a DEF ExitDone, Stay, Holding, TypeOK
  <2> QED BY <2>1, <2>2, <1>d
<1>21. CASE UninstallLocks(t) \/ UninstallStopped(t) \/ Remove(t) \/ Unroot(t)
  BY <1>21, <1>a DEF UninstallLocks, UninstallStopped, Remove, Unroot, Stay, At
<1>22. ASSUME NEW l \in Labels, Reap(t, l) PROVE Own(t)
  BY <1>22 DEF Reap, WInv, FirstSweep, SweepsAlone
<1>e. ASSUME NEW e \in Entry, SetEntry(t, e), ref[t] \in Objs, e.id = heap[ref[t]].id,
             UNCHANGED entries,
             \/ e.st # "running"
             \/ e.st = heap[ref[t]].st /\ e.hdl = heap[ref[t]].hdl
             \/ pc[t] = "commit" /\ e.hdl = loc[t].hdl
      PROVE  MapStep(t) /\ HandleStep(t) /\ heap'[ref[t]] = e
  <2>1. \A o \in Objs : heap'[o] = IF o = ref[t] THEN e ELSE heap[o]
    BY <1>a, <1>e DEF SetEntry, TypeOK
  <2>2. MapStep(t) BY <1>e, <2>1 DEF MapStep
  <2>3. HandleStep(t) BY <1>e, <2>1 DEF HandleStep, Same, Running
  <2> QED BY <1>e, <2>1, <2>2, <2>3
<1>f. ASSUME pc[t] \in {"lock", "visit"} \cup Holding
      PROVE  /\ ref[t] \in Objs /\ Mine(t) = heap[ref[t]] /\ Mine(t) \in Entry
             /\ Mine(t).hdl \in Labels \cup {None}
  BY <1>f, RefEntry DEF IInv
<1>23. CASE DisableIdle(t)
  <2>1. pc[t] = "lock" /\ pc'[t] = "emit" /\ op'[t] = op[t] /\ UNCHANGED <<entries, win>>
    BY <1>23, <1>a DEF DisableIdle, At, TypeOK, entryVars, outVars
  <2> DEFINE e == [Mine(t) EXCEPT !.enabled = FALSE]
  <2>2. /\ e \in Entry /\ e.id = Mine(t).id /\ e.st = Mine(t).st /\ e.hdl = Mine(t).hdl
        /\ SetEntry(t, e)
    BY <1>23, <1>f, <2>1 DEF DisableIdle, Entry
  <2> HIDE DEF e
  <2>3. MapStep(t) /\ HandleStep(t) BY <1>e, <1>f, <2>1, <2>2
  <2> QED BY <1>a, <1>c, <2>1, <2>3 DEF Own, WindowStep, Stay, Holding
<1>24. CASE EnableRunning(t)
  <2>1. pc[t] = "lock" /\ UNCHANGED <<entries, win>>
    BY <1>24 DEF EnableRunning, At, outVars
  <2>2. pc'[t] \in {"restore", "idle"} /\ op'[t] = "none" BY <1>24, <1>r DEF EnableRunning
  <2> DEFINE e == [Mine(t) EXCEPT !.enabled = TRUE]
  <2>3. /\ e \in Entry /\ e.id = Mine(t).id /\ e.st = Mine(t).st /\ e.hdl = Mine(t).hdl
        /\ SetEntry(t, e)
    BY <1>24, <1>f, <2>1 DEF EnableRunning, Entry
  <2> HIDE DEF e
  <2>4. MapStep(t) /\ HandleStep(t) BY <1>e, <1>f, <2>1, <2>3
  <2> QED BY <1>c, <2>1, <2>2, <2>4 DEF Own, WindowStep, Holding
<1>25. CASE DisableStopped(t)
  <2>1. pc[t] = "teardown" /\ pc'[t] = "emit" /\ op'[t] = op[t] /\ UNCHANGED <<entries, win>>
    BY <1>25, <1>a DEF DisableStopped, TornDown, TypeOK
  <2> DEFINE e == [Mine(t) EXCEPT !.st = "stopped", !.enabled = FALSE]
  <2>2. e \in Entry /\ e.id = Mine(t).id /\ e.st # "running" /\ SetEntry(t, e)
    BY <1>25, <1>f, <2>1 DEF DisableStopped, Entry, States, Holding
  <2> HIDE DEF e
  <2>3. MapStep(t) /\ HandleStep(t) BY <1>e, <1>f, <2>1, <2>2 DEF Holding
  <2> QED BY <1>a, <1>c, <2>1, <2>3 DEF Own, WindowStep, Stay, Holding
<1>26. CASE CommitInstall(t) \/ CommitEnable(t)
  <2>1. /\ pc[t] = "commit" /\ pc'[t] \in {"persist", "emit"} /\ op'[t] = op[t]
        /\ UNCHANGED <<entries, win>>
    BY <1>26, <1>a DEF CommitInstall, CommitEnable, At, TypeOK, outVars
  <2> DEFINE e == [Mine(t) EXCEPT !.st = "running", !.hdl = loc[t].hdl, !.enabled = TRUE]
  <2>2. e \in Entry /\ e.id = Mine(t).id /\ e.hdl = loc[t].hdl /\ SetEntry(t, e)
    BY <1>26, <1>a, <1>f, <2>1, LocalFields DEF CommitInstall, CommitEnable, Entry, States, Holding
  <2> HIDE DEF e
  <2>3. MapStep(t) /\ HandleStep(t) BY <1>e, <1>f, <2>1, <2>2 DEF Holding
  <2> QED BY <1>a, <1>c, <2>1, <2>3 DEF Own, WindowStep, Stay, Holding
<1>27. CASE ShutdownVisit(t)
  <2>1. /\ pc[t] = "visit" /\ pc'[t] = "walk" /\ op'[t] = op[t] /\ UNCHANGED entries
    BY <1>27, <1>a DEF ShutdownVisit, Visiting, TypeOK
  <2>2. CASE Running(ref[t])
    <3> DEFINE e == [Mine(t) EXCEPT !.st = "stopped", !.hdl = None]
    <3>1. /\ e \in Entry /\ e.id = Mine(t).id /\ e.st # "running" /\ SetEntry(t, e)
          /\ win' = CloseRequested(Mine(t).hdl)
      BY <1>27, <1>f, <2>1, <2>2 DEF ShutdownVisit, Entry, States
    <3> HIDE DEF e
    <3>2. MapStep(t) /\ HandleStep(t) /\ heap'[ref[t]] = e BY <1>e, <1>f, <2>1, <3>1
    <3>3. Closes(t) BY <1>f, <2>1, <2>2, <3>1, <3>2 DEF Closes, Running
    <3> QED BY <1>a, <1>c, <2>1, <3>2, <3>3 DEF Own, WindowStep, Stay, Holding
  <2>3. CASE ~Running(ref[t])
    <3>1. UNCHANGED <<heap, win>> BY <1>27, <2>3 DEF ShutdownVisit
    <3> QED BY <1>a, <1>d, <2>1, <3>1 DEF Stay, Holding
  <2> QED BY <2>2, <2>3
<1>g. ASSUME ref'[t] = ref[t], heap'[ref[t]].id = heap[ref[t]].id, loc'[t].id = loc[t].id,
             op'[t] = op[t], pc[t] \in {"lock"} \cup Holding,
             \/ pc'[t] \in {"teardown", "root"}
             \/ /\ pc'[t] \in {"await1", "build1", "await2", "build2", "built", "commit"}
                /\ loc'[t].hdl = None
                /\ pc'[t] = "build2" /\ MainPumps => loc'[t].freed
      PROVE  Stay(t)' /\ OwnCall(t)'
  <2>1. loc[t].id = heap[ref[t]].id BY <1>a, <1>g DEF OwnCall
  <2> QED BY <1>a, <1>g, <1>m, <2>1 DEF Stay, OwnCall, Holding
<1>28. CASE InstallOverRunning(t)
  <2>1. /\ pc[t] = "lock" /\ pc'[t] = "teardown" /\ op'[t] = op[t] /\ ref'[t] = ref[t]
        /\ loc'[t].id = loc[t].id /\ UNCHANGED entries /\ Running(ref[t])
    BY <1>28, <1>a, <1>f DEF InstallOverRunning, At, TypeOK, Local, Running
  <2> DEFINE e == [Mine(t) EXCEPT !.dir = loc[t].dir, !.st = "stopping", !.hdl = None]
  <2>2. /\ e \in Entry /\ e.id = Mine(t).id /\ e.st # "running" /\ SetEntry(t, e)
        /\ win' = CloseRequested(Mine(t).hdl)
    BY <1>28, <1>a, <1>f, <2>1, LocalFields DEF InstallOverRunning, Entry, States
  <2> HIDE DEF e
  <2>3. MapStep(t) /\ HandleStep(t) /\ heap'[ref[t]] = e BY <1>e, <1>f, <2>1, <2>2
  <2>4. Closes(t) BY <1>f, <2>1, <2>2, <2>3 DEF Closes
  <2>5. Stay(t)' /\ OwnCall(t)' BY <1>f, <1>g, <2>1, <2>2, <2>3
  <2> QED BY <2>1, <2>3, <2>4, <2>5 DEF Own, WindowStep, SpawnStep, Spawner
<1>29. CASE DisableLocks(t)
  <2>1. /\ pc[t] = "lock" /\ pc'[t] = "teardown" /\ op'[t] = op[t] /\ ref'[t] = ref[t]
        /\ loc'[t].id = loc[t].id /\ UNCHANGED entries /\ Running(ref[t])
    BY <1>29, <1>a, <1>f DEF DisableLocks, At, TypeOK, Local, Running
  <2> DEFINE e == [Mine(t) EXCEPT !.st = "stopping", !.hdl = None]
  <2>2. /\ e \in Entry /\ e.id = Mine(t).id /\ e.st # "running" /\ SetEntry(t, e)
        /\ win' = CloseRequested(Mine(t).hdl)
    BY <1>29, <1>f, <2>1 DEF DisableLocks, Entry, States
  <2> HIDE DEF e
  <2>3. MapStep(t) /\ HandleStep(t) /\ heap'[ref[t]] = e BY <1>e, <1>f, <2>1, <2>2
  <2>4. Closes(t) BY <1>f, <2>1, <2>2, <2>3 DEF Closes
  <2>5. Stay(t)' /\ OwnCall(t)' BY <1>f, <1>g, <2>1, <2>2, <2>3
  <2> QED BY <2>1, <2>3, <2>4, <2>5 DEF Own, WindowStep, SpawnStep, Spawner
<1>30. CASE InstallOverIdle(t)
  <2>1. /\ pc[t] = "lock" /\ pc'[t] = "root" /\ op'[t] = op[t] /\ ref'[t] = ref[t]
        /\ loc'[t].id = loc[t].id /\ UNCHANGED <<entries, win>>
    BY <1>30, <1>a, <1>f DEF InstallOverIdle, At, TypeOK, outVars
  <2> DEFINE e == [Mine(t) EXCEPT !.dir = loc[t].dir]
  <2>2. e \in Entry /\ e.id = Mine(t).id /\ e.st # "running" /\ SetEntry(t, e)
    BY <1>30, <1>a, <1>f, <2>1, LocalFields DEF InstallOverIdle, Entry, States
  <2> HIDE DEF e
  <2>3. MapStep(t) /\ HandleStep(t) /\ heap'[ref[t]] = e BY <1>e, <1>f, <2>1, <2>2
  <2>4. Stay(t)' /\ OwnCall(t)' BY <1>f, <1>g, <2>1, <2>2, <2>3
  <2> QED BY <2>1, <2>3, <2>4 DEF Own, WindowStep, SpawnStep, Spawner
<1>31. CASE ReloadStopped(t)
  <2>1. /\ pc[t] = "teardown" /\ pc'[t] = "root" /\ op'[t] = op[t] /\ ref'[t] = ref[t]
        /\ loc'[t].id = loc[t].id /\ UNCHANGED <<entries, win>>
    BY <1>31, <1>a DEF ReloadStopped, TornDown, TypeOK
  <2> DEFINE e == [Mine(t) EXCEPT !.st = "stopped"]
  <2>2. e \in Entry /\ e.id = Mine(t).id /\ e.st # "running" /\ SetEntry(t, e)
    BY <1>31, <1>f, <2>1 DEF ReloadStopped, Entry, States, Holding
  <2> HIDE DEF e
  <2>3. MapStep(t) /\ HandleStep(t) /\ heap'[ref[t]] = e BY <1>e, <1>f, <2>1, <2>2 DEF Holding
  <2>4. Stay(t)' /\ OwnCall(t)' BY <1>f, <1>g, <2>1, <2>2, <2>3 DEF Holding
  <2> QED BY <2>1, <2>3, <2>4 DEF Own, WindowStep, SpawnStep, Spawner
<1>32. CASE EnableLocks(t)
  <2>1. /\ pc[t] = "lock" /\ pc'[t] = "root" /\ op'[t] = op[t] /\ ref'[t] = ref[t]
        /\ loc'[t].id = loc[t].id /\ UNCHANGED <<entries, heap, win>>
    BY <1>32, <1>a DEF EnableLocks, At, TypeOK, Local, outVars
  <2>2. Stay(t)' /\ OwnCall(t)' BY <1>g, <2>1
  <2> QED BY <1>b, <2>1, <2>2 DEF SpawnStep, Spawner
<1>33. CASE EntryFound(t)
  <2>1. /\ pc'[t] = "lock" /\ op'[t] = op[t] /\ ref'[t] = entries[loc[t].id]
        /\ loc'[t].id = loc[t].id /\ UNCHANGED <<entries, heap, win>>
    BY <1>33, <1>a DEF EntryFound, TypeOK, entryVars, outVars
  <2>2. heap[entries[loc[t].id]].id = loc[t].id
    BY <1>33, <1>a DEF EntryFound, IInv, Wellformed, CallWellformed
  <2>3. Stay(t)' /\ OwnCall(t)' BY <1>a, <2>1, <2>2 DEF Stay, OwnCall, Holding
  <2> QED BY <1>b, <2>1, <2>3 DEF SpawnStep, Spawner
<1>34. ASSUME NEW o \in Objs, EntryAdded(t, o) PROVE Own(t)
  <2>1. /\ pc'[t] = "lock" /\ op'[t] = op[t] /\ ref'[t] = o
        /\ loc'[t].id = loc[t].id /\ UNCHANGED win /\ heap[o].id = None
    BY <1>34, <1>a DEF EntryAdded, TypeOK, outVars
  <2>2. \A x \in Objs : heap'[x] = IF x = o THEN [Unused EXCEPT !.id = loc[t].id, !.dir = loc[t].dir]
                                   ELSE heap[x]
    BY <1>34, <1>a DEF EntryAdded, TypeOK
  <2>3. heap'[o].id = loc[t].id /\ heap'[o].st = "installed" BY <2>2 DEF Unused
  <2>4. HandleStep(t) BY <2>2, <2>3 DEF HandleStep, Same, Running
  <2>5. Stay(t)' /\ OwnCall(t)' BY <1>a, <2>1, <2>3 DEF Stay, OwnCall, Holding
  <2> QED BY <1>34, <2>1, <2>4, <2>5 DEF Own, MapStep, WindowStep, SpawnStep, Spawner
<1>35. CASE PublishRoot(t)
  <2>1. /\ pc[t] = "root" /\ pc'[t] \in {"await1", "commit"} /\ op'[t] = op[t] /\ ref'[t] = ref[t]
        /\ loc'[t].id = loc[t].id /\ loc'[t].hdl = None /\ UNCHANGED <<entries, heap, win>>
    BY <1>35, <1>a DEF PublishRoot, TypeOK, Local, entryVars
  <2>2. Stay(t)' /\ OwnCall(t)' BY <1>g, <2>1 DEF Holding
  <2> QED BY <1>b, <2>1, <2>2, ConstantsAssumption DEF SpawnStep, Spawner
<1>36. CASE FirstAwait(t) \/ LabelTaken(t) \/ BuildFails(t)
  <2>1. /\ pc[t] \in {"await1", "build1", "build2"} /\ pc'[t] \in {"build1", "await2", "commit"}
        /\ op'[t] = op[t] /\ ref'[t] = ref[t] /\ loc' = loc /\ UNCHANGED <<entries, heap, win>>
    BY <1>36, <1>a DEF FirstAwait, LabelTaken, BuildFails, TypeOK, entryVars, outVars
  <2>2. loc[t].hdl = None BY <1>a, <2>1 DEF OwnCall
  <2>3. Stay(t)' /\ OwnCall(t)' BY <1>g, <2>1, <2>2 DEF Holding
  <2> QED BY <1>b, <2>1, <2>2, <2>3, ConstantsAssumption DEF SpawnStep, Spawner
<1>37. CASE SecondAwait(t)
  <2>1. win[LabelFor(t)].st # "open"
    BY <1>37, OwnLabel DEF SecondAwait, Holding
  <2>2. MainPumps => Free(LabelFor(t)) BY <1>37, <2>1 DEF SecondAwait, CeilingHit, Undisturbed
  <2>3. /\ pc[t] = "await2" /\ pc'[t] = "build2" /\ op'[t] = op[t] /\ ref'[t] = ref[t]
        /\ loc'[t].id = loc[t].id /\ loc'[t].hdl = loc[t].hdl /\ (MainPumps => loc'[t].freed)
        /\ UNCHANGED <<entries, heap, win>>
    BY <1>37, <1>a, <2>2 DEF SecondAwait, TypeOK, Local, entryVars, outVars
  <2>4. loc[t].hdl = None BY <1>a, <2>3 DEF OwnCall
  <2>5. Stay(t)' /\ OwnCall(t)' BY <1>g, <2>3, <2>4 DEF Holding
  <2> QED BY <1>b, <2>3, <2>5 DEF SpawnStep, Spawner
<1>38. CASE StillTaken(t)
  <2>1. loc[t].freed /\ loc[t].hdl = None BY <1>38, <1>a DEF StillTaken, OwnCall
  <2>2. /\ pc[t] = "build2" /\ pc'[t] = "commit"
        /\ op'[t] = op[t] /\ ref'[t] = ref[t] /\ loc' = loc /\ UNCHANGED <<entries, heap, win>>
    BY <1>38, <1>a, <2>1 DEF StillTaken, TypeOK, entryVars, outVars
  <2>3. Stay(t)' /\ OwnCall(t)' BY <1>g, <2>1, <2>2 DEF Holding
  <2> QED BY <1>b, <2>1, <2>2, <2>3, ConstantsAssumption DEF SpawnStep, Spawner
<1>39. CASE Build(t)
  <2>1. /\ pc[t] \in {"build1", "build2"} /\ pc'[t] = "built"
        /\ op'[t] = op[t] /\ ref'[t] = ref[t] /\ loc' = loc /\ UNCHANGED <<entries, heap>>
    BY <1>39, <1>a DEF Build, TypeOK, entryVars
  <2>2. Stay(t)' /\ OwnCall(t)' BY <1>a, <1>g, <2>1 DEF OwnCall, Holding
  <2>3. SpawnStep(t) BY <1>39, <2>1 DEF SpawnStep, Spawner, LabelFor
  <2> QED BY <1>39, <2>1, <2>2, <2>3 DEF Own, MapStep, HandleStep, Same, WindowStep
<1>40. CASE TakeHandle(t)
  <2>1. pc[t] = "built" BY <1>40, <1>a DEF TakeHandle, OwnCall
  <2> DEFINE h == IF Free(LabelFor(t)) THEN None ELSE LabelFor(t)
  <2>2. /\ pc'[t] = "commit" /\ loc'[t].id = loc[t].id /\ loc'[t].hdl = h
        /\ op'[t] = op[t] /\ ref'[t] = ref[t] /\ UNCHANGED <<entries, heap, win>>
    BY <1>40, <1>a DEF TakeHandle, TypeOK, Local, entryVars, outVars
  <2>3. LabelFor(t)' = LabelFor(t) BY <2>2 DEF LabelFor
  <2>4. Stay(t)' /\ OwnCall(t)'
    BY <1>a, <2>1, <2>2, <2>3 DEF Stay, OwnCall, Holding
  <2>5. SpawnStep(t) BY <2>1, <2>2, ConstantsAssumption DEF SpawnStep, Spawner
  <2> QED BY <1>b, <2>2, <2>4, <2>5
<1> QED
  BY <1>1, <1>2, <1>3, <1>4, <1>5, <1>6, <1>7, <1>8, <1>9, <1>10, <1>11, <1>12, <1>13, <1>14,
     <1>15, <1>16, <1>17, <1>18, <1>19, <1>20, <1>21, <1>22, <1>23, <1>24, <1>25, <1>26, <1>27,
     <1>28, <1>29, <1>30, <1>31, <1>32, <1>33, <1>34, <1>35, <1>36, <1>37, <1>38, <1>39, <1>40
  DEF Advance

\* So does a call that starts, a sweep or an exit.
LEMMA StartOwn ==
  ASSUME IInv, WInv, Undisturbed, NEW t \in Procs,
         Call(t) \/ Sweep(t) \/ (t = "main" /\ ExitRequested)
  PROVE  Own(t)
<1> USE DEF Goto
<1>a. TypeOK /\ Stay(t) /\ \A i \in Ids : entries[i] # None => heap[entries[i]].id = i
  BY DEF IInv, WInv, EntriesKept, Wellformed
<1>b. ASSUME UNCHANGED <<entries, heap, win>>, Stay(t)', OwnCall(t)',
             pc'[t] \notin {"built", "commit"}
      PROVE  Own(t)
  BY <1>b DEF Own, MapStep, HandleStep, Same, WindowStep, SpawnStep, Spawner
<1>1. ASSUME NEW d \in Dirs, CallInstall(t, d) PROVE Own(t)
  <2>1. pc'[t] = "parse" /\ op'[t] = "install" /\ UNCHANGED <<entries, heap, win>>
    BY <1>1, <1>a DEF CallInstall, TypeOK, entryVars, outVars
  <2> QED BY <1>b, <2>1 DEF Stay, OwnCall, Holding
<1>2. ASSUME NEW i \in Ids, NEW o \in {"uninstall", "disable", "enable", "reload"},
             CallOn(t, o, i)
      PROVE  Own(t)
  <2>1. /\ pc'[t] \in {"peek", "lock"} /\ op'[t] = o /\ ref'[t] = entries[i] /\ loc'[t].id = i
        /\ o # "uninstall" /\ entries[i] # None /\ UNCHANGED <<entries, heap, win>>
    BY <1>2, <1>a DEF CallOn, MayCall, Undisturbed, TypeOK, Local, entryVars, outVars
  <2>2. heap[entries[i]].id = i BY <1>a, <2>1
  <2> QED BY <1>b, <2>1, <2>2 DEF Stay, OwnCall, Holding
<1>3. CASE Sweep(t)
  <2>1. /\ pc'[t] = "walk" /\ op'[t] \in {op[t], "sweep"} /\ UNCHANGED <<entries, heap, win>>
    BY <1>3, <1>a DEF Sweep, StartWalk, TypeOK, entryVars, outVars
  <2> QED BY <1>a, <1>b, <2>1 DEF Stay, OwnCall, Holding
<1>4. CASE t = "main" /\ ExitRequested
  <2>1. /\ pc'[t] = "walk" /\ op'[t] = "exit" /\ UNCHANGED <<entries, heap, win>>
    BY <1>4, <1>a DEF ExitRequested, StartWalk, TypeOK, entryVars, outVars
  <2> QED BY <1>b, <2>1 DEF Stay, OwnCall, Holding
<1> QED BY <1>1, <1>2, <1>3, <1>4 DEF Call

\* Such a step keeps entries in the map, calls on their own, and the windows of
\* whoever owns one.
LEMMA EntriesKeptNext ==
  ASSUME IInv, WInv, NEW t \in Procs, Own(t), Others(t)
  PROVE  EntriesKept'
<1>1. \A u \in Procs : Stay(u)' BY DEF Own, Others, WInv, EntriesKept, Stay
<1>2. ASSUME NEW o \in Objs, heap'[o].id # None PROVE entries'[heap'[o].id] = o
  <2>1. CASE entries' = entries /\ \A x \in Objs : heap'[x].id = heap[x].id
    BY <1>2, <2>1 DEF WInv, EntriesKept
  <2>2. ASSUME NEW x \in Objs, EntryAdded(t, x) PROVE entries'[heap'[o].id] = o
    <3>1. /\ entries \in [Ids -> Objs \cup {None}] /\ heap \in [Objs -> Entry] /\ loc[t].id \in Ids
      BY <2>2 DEF IInv, TypeOK, Wellformed, CallWellformed, EntryAdded
    <3>2. /\ \A i \in Ids : entries'[i] = IF i = loc[t].id THEN x ELSE entries[i]
          /\ entries[loc[t].id] = None
      BY <2>2, <3>1 DEF EntryAdded
    <3>3. \A y \in Objs : heap'[y] = IF y = x THEN [Unused EXCEPT !.id = loc[t].id, !.dir = loc[t].dir]
                                     ELSE heap[y]
      BY <2>2, <3>1 DEF EntryAdded
    <3>4. heap'[x].id = loc[t].id BY <3>3 DEF Unused
    <3>5. CASE o = x BY <3>1, <3>2, <3>4, <3>5
    <3>6. CASE o # x
      <4>1. heap'[o].id = heap[o].id /\ heap[o].id \in Ids
        BY <1>2, <3>1, <3>3, <3>6 DEF Entry
      <4>2. entries[heap[o].id] = o BY <1>2, <4>1 DEF WInv, EntriesKept
      <4>3. heap[o].id # loc[t].id BY <3>2, <4>2, ConstantsAssumption
      <4> QED BY <3>2, <4>1, <4>2, <4>3
    <3> QED BY <3>5, <3>6
  <2> QED BY <2>1, <2>2 DEF Own, MapStep
<1> QED BY <1>1, <1>2 DEF EntriesKept

\* Ids of objects in use stay.
LEMMA IdsKept ==
  ASSUME TypeOK, NEW t \in Procs, MapStep(t), NEW o \in Objs, heap[o].id # None
  PROVE  heap'[o].id = heap[o].id
<1>1. ASSUME NEW x \in Objs, EntryAdded(t, x) PROVE heap'[o].id = heap[o].id
  BY <1>1 DEF EntryAdded, TypeOK
<1> QED BY <1>1 DEF MapStep

\* A call is on its own id's entry after any process' step,
LEMMA OwnCallsNext ==
  ASSUME IInv, WInv, NEW t \in Procs, Own(t), Orderly(t), NEW u \in Procs
  PROVE  OwnCall(u)'
<1>1. CASE u = t BY <1>1 DEF Own
<1>2. CASE u # t
  <2>1. pc'[u] = pc[u] /\ op'[u] = op[u] /\ ref'[u] = ref[u] /\ loc'[u] = loc[u]
    BY <1>2 DEF Orderly, Others
  <2>2. pc[u] \in {"lock"} \cup Holding => heap'[ref[u]].id = heap[ref[u]].id
    <3>1. ASSUME pc[u] \in {"lock"} \cup Holding PROVE ref[u] \in Objs /\ heap[ref[u]].id # None
      BY <3>1, RefEntry, ConstantsAssumption DEF IInv
    <3> QED BY <3>1, IdsKept DEF IInv, Own
  <2> QED BY <2>1, <2>2, MainStays DEF WInv, OwnCall, LabelFor
<1> QED BY <1>1, <1>2

\* ... an entry that runs names its own id's window,
LEMMA OwnHandlesNext ==
  ASSUME IInv, WInv, NEW t \in Procs, Own(t), NEW o \in Objs
  PROVE  OwnHandle(o)'
<1>1. CASE Same(o) BY <1>1 DEF Same, WInv, OwnHandle, Running
<1>2. CASE ~Running(o)' BY <1>2 DEF OwnHandle
<1>3. CASE pc[t] = "commit" /\ o = ref[t] /\ heap'[o].id = heap[o].id /\ heap'[o].hdl = loc[t].hdl
  <2>1. loc[t].id = heap[o].id /\ loc[t].hdl \in {None, LabelOf[loc[t].id]}
    BY <1>3 DEF WInv, OwnCall, LabelFor, Holding
  <2> QED BY <1>3, <2>1 DEF OwnHandle
<1> QED BY <1>1, <1>2, <1>3 DEF Own, HandleStep

\* ... and whoever owns a window has it open.
LEMMA OwnersLiveNext ==
  ASSUME IInv, WInv, Undisturbed, NEW t \in Procs, Own(t), Others(t)
  PROVE  OwnersLive'
<1> SUFFICES ASSUME NEW l \in Labels,
                    (\E o \in Objs : Owner(l, o)') \/ (\E u \in Procs : Spawner(l, u)')
             PROVE  win'[l].st = "open"
  BY DEF OwnersLive
<1>a. win \in Windows BY DEF IInv, TypeOK, Windows
<1>1. ASSUME NEW o \in Objs, Owner(l, o)'
      PROVE  (Same(o) /\ Owner(l, o)) \/ (pc[t] = "commit" /\ Spawner(l, t))
  <2>1. Running(o)' /\ heap'[o].hdl = l BY <1>1 DEF Owner
  <2>2. CASE Same(o) BY <2>1, <2>2 DEF Same, Owner, Running
  <2>3. CASE pc[t] = "commit" /\ heap'[o].hdl = loc[t].hdl BY <2>1, <2>3 DEF Spawner
  <2> QED BY <2>1, <2>2, <2>3 DEF Own, HandleStep
<1>2. ASSUME NEW u \in Procs, Spawner(l, u)'
      PROVE  Spawner(l, u) \/ (Build(t) /\ l = LabelFor(t))
  <2>1. CASE u = t BY <1>2, <2>1 DEF Own, SpawnStep
  <2>2. CASE u # t BY <1>2, <2>2 DEF Others, Spawner, LabelFor
  <2> QED BY <2>1, <2>2
<1>3. win[l].st = "open" \/ (Build(t) /\ l = LabelFor(t))
  BY <1>1, <1>2 DEF WInv, OwnersLive
<1>4. CASE UNCHANGED win
  <2>1. Build(t) /\ l = LabelFor(t) => win'[l].st = "open" BY <1>a DEF Build, Windows
  <2> QED BY <1>3, <1>4, <2>1
<1>5. CASE Build(t)
  <2>1. \A k \in Labels : win'[k] = IF k = LabelFor(t) THEN [st |-> "open", ext |-> loc[t].id]
                                    ELSE win[k]
    BY <1>5, <1>a DEF Build, Windows
  <2> QED BY <1>3, <2>1
<1>6. CASE Closes(t)
  <2> DEFINE r == ref[t]
  <2>1. r \in Objs /\ Running(r) /\ heap'[r].st # "running" /\ pc[t] # "commit"
        /\ win' = CloseRequested(heap[r].hdl)
    BY <1>6 DEF Closes
  <2>2. CASE heap[r].hdl = l
    <3>1. Owner(l, r) BY <2>1, <2>2 DEF Owner
    <3>2. (\A o \in Objs : Owner(l, o) => o = r) /\ (\A u \in Procs : ~Spawner(l, u))
      BY <2>1, <3>1, OneOwner
    <3>3. \A o \in Objs : Owner(l, o)' => o # r BY <2>1 DEF Owner, Running
    <3>4. Build(t) /\ l = LabelFor(t) BY <1>1, <1>2, <3>2, <3>3
    <3>5. pc[t] \in {"build1", "build2"} BY <3>4 DEF Build
    <3>6. lock[r] = t BY <3>5 DEF IInv, MutexDiscipline, Holding
    <3> QED BY <2>1, <3>6, ConstantsAssumption DEF IInv, MutexDiscipline
  <2>3. CASE heap[r].hdl # l
    <3>1. win'[l] = win[l] BY <1>a, <2>1, <2>3 DEF CloseRequested, Windows
    <3>2. ~Build(t)
      <4> SUFFICES ASSUME Build(t) PROVE FALSE OBVIOUS
      <4>1. pc[t] \in {"build1", "build2"} BY DEF Build
      <4>2. lock[r] = t BY <4>1 DEF IInv, MutexDiscipline, Holding
      <4> QED BY <2>1, <4>2, ConstantsAssumption DEF IInv, MutexDiscipline
    <3> QED BY <1>3, <3>1, <3>2
  <2> QED BY <2>2, <2>3
<1> QED BY <1>4, <1>5, <1>6 DEF Own, WindowStep

\* A sweep goes on as one; no step under way becomes one.
SweepStep(t) ==
  /\ loc'[t].walk = "known" => loc[t].walk = "known" /\ pc'[t] \in {"walk", "visit", "reap"}
  /\ pc'[t] # "sweep" /\ (pc'[t] = "reap" => ListWindows(t))

\* A step of the sweep is one of those.
LEMMA AdvanceSweep ==
  ASSUME IInv, WInv, NEW t \in Procs, Advance(t)
  PROVE  SweepStep(t)
<1> USE DEF Goto
<1>a. /\ TypeOK /\ loc[t] \in Local
      /\ loc[t].walk = "known" \/ pc[t] = "reap" => t = "boot" /\ pc[t] \in {"walk", "visit", "reap"}
      /\ pc[t] = "reap" => loc[t].walk = "known" /\ loc[t].labels = {}
  BY DEF IInv, TypeOK, WInv, FirstSweep, SweepsAlone
<1>b. ASSUME loc'[t].walk # "known", pc'[t] \notin {"sweep", "reap"} PROVE SweepStep(t)
  BY <1>b DEF SweepStep
<1>c. ASSUME loc[t].walk = "known" PROVE pc[t] \in {"walk", "visit", "reap"}
  BY <1>a, <1>c
<1>r. ASSUME Return(t) PROVE SweepStep(t)
  <2>1. pc'[t] \in {"restore", "idle"} /\ loc'[t] = [NoLocal EXCEPT !.restore = loc[t].restore]
    BY <1>a, <1>r DEF Return, TypeOK
  <2>2. loc'[t].walk = "none" BY <2>1 DEF NoLocal
  <2> QED BY <1>b, <2>1, <2>2
<1>1. CASE ParseFails(t) \/ EnableRunning(t) \/ EnableFails(t) \/ EndProject(t) \/ EndUninstall(t) \/ EndSweep(t)
  BY <1>1, <1>r DEF ParseFails, EnableRunning, EnableFails, EndProject, EndUninstall, EndSweep
<1>2. CASE Peek(t)
  BY <1>2, <1>a, <1>b, <1>c DEF Peek, TypeOK, Local
<1>3. CASE Parse(t)
  BY <1>3, <1>a, <1>b, <1>c DEF Parse, TypeOK, Local
<1>4. CASE EntryFound(t)
  BY <1>4, <1>a, <1>b, <1>c DEF EntryFound, TypeOK, Local
<1>5. ASSUME NEW o \in Objs, EntryAdded(t, o) PROVE SweepStep(t)
  BY <1>5, <1>a, <1>b, <1>c DEF EntryAdded, TypeOK, Local
<1>6. CASE InstallOverRunning(t) \/ UninstallLocks(t) \/ DisableLocks(t)
  BY <1>6, <1>a, <1>b, <1>c DEF InstallOverRunning, UninstallLocks, DisableLocks, TypeOK, Local, At
<1>7. CASE InstallOverIdle(t) \/ DisableIdle(t)
  BY <1>7, <1>a, <1>b, <1>c DEF InstallOverIdle, DisableIdle, TypeOK, Local, At
<1>8. CASE EnableLocks(t)
  BY <1>8, <1>a, <1>b, <1>c DEF EnableLocks, TypeOK, Local, At
<1>9. CASE ReloadStopped(t) \/ DisableStopped(t) \/ UninstallStopped(t)
  BY <1>9, <1>a, <1>b, <1>c DEF ReloadStopped, DisableStopped, UninstallStopped, TypeOK, Local, TornDown
<1>10. CASE Remove(t) \/ Unroot(t)
  BY <1>10, <1>a, <1>b, <1>c DEF Remove, Unroot, TypeOK, Local
<1>11. CASE PublishRoot(t)
  BY <1>11, <1>a, <1>b, <1>c DEF PublishRoot, TypeOK, Local
<1>12. CASE FirstAwait(t) \/ LabelTaken(t) \/ BuildFails(t) \/ StillTaken(t) \/ Build(t)
  BY <1>12, <1>a, <1>b, <1>c DEF FirstAwait, LabelTaken, BuildFails, StillTaken, Build, TypeOK, Local
<1>13. CASE SecondAwait(t)
  BY <1>13, <1>a, <1>b, <1>c DEF SecondAwait, TypeOK, Local
<1>14. CASE TakeHandle(t)
  BY <1>14, <1>a, <1>b, <1>c DEF TakeHandle, TypeOK, Local
<1>15. CASE CommitInstall(t) \/ CommitEnable(t) \/ EmitLate(t)
  BY <1>15, <1>a, <1>b, <1>c DEF CommitInstall, CommitEnable, EmitLate, TypeOK, Local, At
<1>16. CASE BeginPersist(t)
  BY <1>16, <1>a, <1>b, <1>c DEF BeginPersist, TypeOK, Local, StartWalk
<1>17. CASE Prune(t)
  BY <1>17, <1>a, <1>b, <1>c DEF Prune, TypeOK, Local, StartWalk
<1>18. CASE CollectRow(t)
  BY <1>18, <1>a, <1>b, <1>c DEF CollectRow, TypeOK, Local, Visiting
<1>19. CASE Project(t)
  BY <1>19, <1>a, <1>b, <1>c DEF Project, TypeOK, Local, Visiting
<1>20. CASE ShutdownVisit(t)
  BY <1>20, <1>a, <1>b, <1>c DEF ShutdownVisit, TypeOK, Local, Visiting
<1>21. CASE Save(t) \/ SaveFails(t)
  BY <1>21, <1>a, <1>b, <1>c DEF Save, SaveFails, TypeOK, Local, Walked
<1>22. CASE ExitDone(t)
  BY <1>22, <1>a, <1>b, <1>c DEF ExitDone, TypeOK, Local, Walked
<1>23. ASSUME NEW r \in Ids \X Dirs, RestoreNext(t, r) PROVE SweepStep(t)
  BY <1>23, <1>a, <1>b, <1>c DEF RestoreNext, TypeOK, Local
<1>24. CASE RestoreDone(t)
  BY <1>24, <1>a, <1>b, <1>c DEF RestoreDone, TypeOK, Local
<1>25. ASSUME NEW i \in Ids, WalkNext(t, i) PROVE SweepStep(t)
  BY <1>25, <1>a DEF WalkNext, SweepStep, TypeOK, Local
<1>26. CASE NoteLabel(t)
  BY <1>26, <1>a DEF NoteLabel, Visiting, SweepStep, TypeOK, Local
<1>27. CASE ListWindows(t)
  BY <1>27, <1>a DEF ListWindows, Walked, SweepStep, TypeOK, Local
<1>28. ASSUME NEW l \in Labels, Reap(t, l) PROVE SweepStep(t)
  BY <1>28, <1>a DEF Reap
<1>29. CASE LoadStore(t) \/ LoadFails(t)
  <2>1. pc'[t] = "restore" /\ loc'[t].walk = "none" BY <1>29, <1>a DEF LoadStore, LoadFails, TypeOK, NoLocal
  <2> QED BY <1>b, <2>1
<1> QED
  BY <1>1, <1>2, <1>3, <1>4, <1>5, <1>6, <1>7, <1>8, <1>9, <1>10, <1>11, <1>12, <1>13, <1>14,
     <1>15, <1>16, <1>17, <1>18, <1>19, <1>20, <1>21, <1>22, <1>23, <1>24, <1>25, <1>26, <1>27,
     <1>28, <1>29
  DEF Advance

\* A process that takes a step is under way.
LEMMA AdvanceBusy ==
  ASSUME NEW t \in Procs, Advance(t)
  PROVE  pc[t] # "idle"
<1>1. ASSUME \/ Peek(t) \/ ParseFails(t) \/ Parse(t) \/ EntryFound(t)
             \/ InstallOverRunning(t) \/ InstallOverIdle(t) \/ UninstallLocks(t)
             \/ DisableLocks(t) \/ DisableIdle(t)
             \/ EnableRunning(t) \/ EnableFails(t) \/ EnableLocks(t)
      PROVE  pc[t] # "idle"
  BY <1>1 DEF Peek, ParseFails, Parse, EntryFound, InstallOverRunning, InstallOverIdle,
     UninstallLocks, DisableLocks, DisableIdle, EnableRunning, EnableFails, EnableLocks, At
<1>2. ASSUME \/ ReloadStopped(t) \/ DisableStopped(t) \/ UninstallStopped(t)
             \/ Remove(t) \/ Unroot(t) \/ PublishRoot(t) \/ FirstAwait(t) \/ Build(t)
             \/ BuildFails(t) \/ LabelTaken(t) \/ SecondAwait(t) \/ StillTaken(t)
             \/ TakeHandle(t) \/ CommitInstall(t) \/ CommitEnable(t) \/ EmitLate(t)
      PROVE  pc[t] # "idle"
  BY <1>2 DEF ReloadStopped, DisableStopped, UninstallStopped, Remove, Unroot, PublishRoot,
     FirstAwait, Build, BuildFails, LabelTaken, SecondAwait, StillTaken, TakeHandle,
     CommitInstall, CommitEnable, EmitLate, At, TornDown
<1>3. ASSUME \/ BeginPersist(t) \/ CollectRow(t) \/ Save(t) \/ SaveFails(t) \/ Prune(t) \/ Project(t)
             \/ EndProject(t) \/ EndUninstall(t) \/ NoteLabel(t) \/ ListWindows(t)
             \/ EndSweep(t) \/ LoadStore(t) \/ LoadFails(t) \/ RestoreDone(t) \/ ShutdownVisit(t) \/ ExitDone(t)
      PROVE  pc[t] # "idle"
  BY <1>3 DEF BeginPersist, CollectRow, Save, SaveFails, Prune, Project, EndProject, EndUninstall,
     NoteLabel, ListWindows, EndSweep, LoadStore, LoadFails, RestoreDone, ShutdownVisit, ExitDone,
     Visiting, Walked
<1>4. ASSUME NEW o \in Objs, EntryAdded(t, o) PROVE pc[t] # "idle"
  BY <1>4 DEF EntryAdded
<1>5. ASSUME NEW i \in Ids, WalkNext(t, i) PROVE pc[t] # "idle"
  BY <1>5 DEF WalkNext
<1>6. ASSUME NEW l \in Labels, Reap(t, l) PROVE pc[t] # "idle"
  BY <1>6 DEF Reap
<1>7. ASSUME NEW r \in Ids \X Dirs, RestoreNext(t, r) PROVE pc[t] # "idle"
  BY <1>7 DEF RestoreNext
<1> QED BY <1>1, <1>2, <1>3, <1>4, <1>5, <1>6, <1>7 DEF Advance

\* Closing a window that is not there changes nothing.
LEMMA NothingToClose ==
  ASSUME TypeOK, \A l \in Labels : Free(l), NEW o \in Objs
  PROVE  CloseRequested(heap[o].hdl) = win
<1>1. heap[o].hdl \in Labels \cup {None} BY DEF TypeOK, Entry
<1> QED BY <1>1 DEF CloseRequested

\* While boot sweeps, nobody else calls and no window appears; so its list of
\* strays stays empty.
LEMMA FirstSweepNext ==
  ASSUME IInv, WInv, Undisturbed, NEW t \in Procs, Own(t), Others(t),
         \/ Advance(t)
         \/ t \in Callers /\ Call(t)
         \/ t \in Sweepers /\ Sweep(t)
         \/ t = "main" /\ ExitRequested
  PROVE  FirstSweep'
<1> USE DEF Goto
<1>a. /\ TypeOK /\ FirstSweep /\ {"boot", "dog", "main"} \cup Callers \subseteq Procs
      /\ "boot" \notin Callers /\ "main" \notin Callers
  BY ConstantsAssumption DEF IInv, WInv, Procs
<1>b. BootSweeps => pc["boot"] \in {"sweep", "walk", "visit", "reap"}
  BY <1>a DEF BootSweeps, FirstSweep
<1>c. \A u \in Procs \ {t} : pc'[u] = pc[u] /\ loc'[u] = loc[u]
  BY DEF Others
<1>1. CASE Advance(t)
  <2>1. SweepStep(t) /\ pc[t] # "idle" BY <1>1, AdvanceSweep, AdvanceBusy
  <2>2. ASSUME pc'[t] = "reap"
        PROVE  t = "boot" /\ loc'[t].walk = "known" /\ loc'[t].labels = {}
    <3>1. ListWindows(t) BY <2>1, <2>2 DEF SweepStep
    <3>2. loc[t].walk = "known" /\ loc[t] \in Local BY <1>a, <3>1 DEF ListWindows, Walked, TypeOK
    <3>3. t = "boot" BY <1>a, <3>2 DEF FirstSweep, SweepsAlone
    <3>4. \A l \in Labels : Free(l) BY <1>a, <3>2, <3>3 DEF FirstSweep, BootSweeps
    <3>5. /\ loc'[t].labels = {l \in Labels : ~Free(l)} \ loc[t].labels
          /\ loc'[t].walk = loc[t].walk
      BY <3>1, <3>2, <1>a DEF ListWindows, TypeOK, Local
    <3> QED BY <3>2, <3>3, <3>4, <3>5
  <2>3. loc'[t].walk = "known" => t = "boot" /\ loc[t].walk = "known"
                                  /\ pc'[t] \in {"walk", "visit", "reap"}
    BY <2>1, <1>a DEF SweepStep, FirstSweep, SweepsAlone
  <2>4. \A u \in Procs : SweepsAlone(u)'
    BY <1>a, <1>c, <2>1, <2>2, <2>3 DEF FirstSweep, SweepsAlone, SweepStep
  <2>5. /\ pc'["boot"] = "reap" => loc'["boot"].walk = "known" /\ loc'["boot"].labels = {}
        /\ loc'["boot"].walk = "known" => pc'["boot"] \in {"walk", "visit", "reap"}
    BY <1>a, <1>c, <2>2, <2>3 DEF FirstSweep
  <2>6. ASSUME BootSweeps'
        PROVE  /\ \A u \in Callers \cup {"dog"} : pc'[u] = "idle"
               /\ \A l \in Labels : Free(l)'
    <3>1. BootSweeps BY <1>a, <1>c, <2>1, <2>3, <2>6 DEF BootSweeps, SweepStep
    <3>2. /\ \A u \in Callers \cup {"dog"} : pc[u] = "idle"
          /\ \A l \in Labels : Free(l)
      BY <1>a, <3>1 DEF FirstSweep
    <3>3. t \in {"boot", "main"} BY <2>1, <3>2 DEF Procs
    <3>4. pc[t] \notin {"build1", "build2"}
      BY <1>b, <3>1, <3>3 DEF IInv, MainExits
    <3>5. win' = win
      BY <1>a, <3>2, <3>4, NothingToClose DEF Own, WindowStep, Build, Closes
    <3>6. "dog" # "boot" /\ "dog" # "main" OBVIOUS
    <3> QED BY <1>a, <1>c, <3>2, <3>3, <3>5, <3>6 DEF Free
  <2> QED BY <2>4, <2>5, <2>6 DEF FirstSweep
<1>2. CASE t \in Callers /\ Call(t)
  <2>1. /\ pc["boot"] = "idle" /\ pc'[t] \in {"parse", "peek", "lock"}
        /\ loc'[t].walk = loc[t].walk
    <3>1. ASSUME NEW d \in Dirs, CallInstall(t, d)
          PROVE  /\ pc["boot"] = "idle" /\ pc'[t] \in {"parse", "peek", "lock"}
                 /\ loc'[t].walk = loc[t].walk
      BY <3>1, <1>a DEF CallInstall, MayCall, Undisturbed, TypeOK, Local
    <3>2. ASSUME NEW i \in Ids, NEW o \in {"uninstall", "disable", "enable", "reload"},
                 CallOn(t, o, i)
          PROVE  /\ pc["boot"] = "idle" /\ pc'[t] \in {"parse", "peek", "lock"}
                 /\ loc'[t].walk = loc[t].walk
      BY <3>2, <1>a DEF CallOn, MayCall, Undisturbed, TypeOK, Local
    <3> QED BY <1>2, <3>1, <3>2 DEF Call
  <2>2. t # "boot" /\ ~BootSweeps' BY <1>2, <1>a, <1>b, <1>c, <2>1 DEF BootSweeps
  <2> QED BY <1>a, <1>c, <2>1, <2>2 DEF FirstSweep, SweepsAlone
<1>3. CASE t \in Sweepers /\ Sweep(t)
  <2>1. /\ t = "boot" /\ pc[t] = "sweep" /\ pc'[t] = "walk" /\ loc'[t].walk = "known"
        /\ UNCHANGED win
    BY <1>3, <1>a DEF Sweep, MayCall, Undisturbed, StartWalk, TypeOK, Local, outVars
  <2>2. BootSweeps BY <2>1 DEF BootSweeps
  <2> QED BY <1>a, <1>c, <2>1, <2>2 DEF FirstSweep, SweepsAlone, Free
<1>4. CASE t = "main" /\ ExitRequested
  <2>1. /\ t = "main" /\ pc'[t] = "walk" /\ loc'[t].walk = "shutdown" /\ UNCHANGED win
    BY <1>4, <1>a DEF ExitRequested, StartWalk, TypeOK, Local, outVars
  <2>2. BootSweeps' => BootSweeps BY <1>a, <1>c, <2>1 DEF BootSweeps
  <2> QED BY <1>a, <1>c, <2>1, <2>2 DEF FirstSweep, SweepsAlone, Free
<1> QED BY <1>1, <1>2, <1>3, <1>4

\* The event loop, the workers and the developers change none of it: they only
\* finish closes somebody has asked for.
LEMMA EnvironmentOwn ==
  ASSUME IInv, WInv, Environment
  PROVE  WInv'
<1>1. UNCHANGED <<entries, heap, lock, pc, op, ref, loc>>
  BY DEF Environment, Destroyed, RegisterCalled, RegisterResolved, RegisterServed,
         EditDisk, entryVars, procVars
<1>2. \A l \in Labels : win'[l].st = win[l].st \/ (win[l].st = "closing" /\ Free(l)')
  <2>1. ASSUME NEW l \in Labels, NEW k \in Labels, Destroyed(k)
        PROVE  win'[l].st = win[l].st \/ (win[l].st = "closing" /\ Free(l)')
    BY <2>1 DEF Destroyed, Absent, Free, IInv, TypeOK
  <2>2. (\E l \in Labels : Destroyed(l)) \/ UNCHANGED win
    BY DEF Environment, RegisterCalled, RegisterResolved, RegisterServed, EditDisk, outVars
  <2> QED BY <2>1, <2>2
<1>3. EntriesKept' /\ (\A t \in Procs : OwnCall(t)') /\ (\A o \in Objs : OwnHandle(o)')
  BY <1>1 DEF WInv, EntriesKept, Stay, OwnCall, OwnHandle, Running, LabelFor, Holding, MainPumps
<1>4. FirstSweep'
  BY <1>1, <1>2 DEF WInv, FirstSweep, SweepsAlone, BootSweeps, Free
<1>5. OwnersLive'
  BY <1>1, <1>2 DEF WInv, OwnersLive, Owner, Spawner, Running, LabelFor
<1> QED BY <1>3, <1>4, <1>5 DEF WInv

\* A fresh process has no window and no entry.
LEMMA FreshOwn ==
  ASSUME Fresh
  PROVE  WInv
<1>1. /\ \A t \in Procs : /\ pc[t] = IF t = "boot" THEN "sweep" ELSE "idle"
                          /\ op[t] \in {"boot", "none"}
                          /\ loc[t] = NoLocal
      /\ \A o \in Objs : heap[o] = Unused
      /\ \A l \in Labels : win[l] = Absent
  BY DEF Fresh, FreshPc, FreshOp
<1>2. EntriesKept BY <1>1 DEF EntriesKept, Stay, Unused
<1>3. \A t \in Procs : OwnCall(t) BY <1>1 DEF OwnCall, Holding
<1>4. \A o \in Objs : OwnHandle(o) BY <1>1 DEF OwnHandle, Running, Unused
<1>5. FirstSweep
  <2>1. "boot" \notin Callers \cup {"dog"} /\ Callers \cup {"boot", "dog"} \subseteq Procs
    BY ConstantsAssumption DEF Procs
  <2> QED BY <1>1, <2>1 DEF FirstSweep, SweepsAlone, BootSweeps, NoLocal, Free, Absent
<1>6. OwnersLive
  BY <1>1 DEF OwnersLive, Owner, Spawner, Running, Unused
<1> QED BY <1>2, <1>3, <1>4, <1>5, <1>6 DEF WInv

\* A step of a process is orderly and minds its own windows.
LEMMA ProcessStep ==
  ASSUME IInv, WInv, Undisturbed, NEW t \in Procs,
         \/ Advance(t)
         \/ t \in Callers /\ Call(t)
         \/ t \in Sweepers /\ Sweep(t)
         \/ t = "main" /\ ExitRequested
  PROVE  Own(t) /\ WInv'
<1>1. Orderly(t) BY AdvanceOrderly, StartOrderly DEF IInv
<1>2. Own(t) BY AdvanceOwn, StartOwn
<1>3. Others(t) BY <1>1 DEF Orderly
<1>4. EntriesKept' BY <1>2, <1>3, EntriesKeptNext
<1>5. \A u \in Procs : OwnCall(u)' BY <1>1, <1>2, OwnCallsNext
<1>6. \A o \in Objs : OwnHandle(o)' BY <1>2, OwnHandlesNext
<1>7. FirstSweep' BY <1>2, <1>3, FirstSweepNext
<1>8. OwnersLive' BY <1>2, <1>3, OwnersLiveNext
<1> QED BY <1>2, <1>4, <1>5, <1>6, <1>7, <1>8 DEF WInv

\* Every step is one of a process, of the environment, a restart or none.
LEMMA StepKinds ==
  ASSUME [Next]_vars
  PROVE  \/ \E t \in Procs : \/ Advance(t)
                             \/ t \in Callers /\ Call(t)
                             \/ t \in Sweepers /\ Sweep(t)
                             \/ t = "main" /\ ExitRequested
         \/ Environment \/ Restart \/ UNCHANGED vars
<1>1. {"boot", "dog", "main"} \cup Callers \subseteq Procs BY DEF Procs
<1> QED BY <1>1 DEF Next, Sweepers

\* Together with IInv, WInv is inductive where nothing disturbs the windows.
LEMMA WInvStep ==
  ASSUME IInv, WInv, Undisturbed, [Next]_vars
  PROVE  WInv'
<1>1. ASSUME NEW t \in Procs,
             \/ Advance(t)
             \/ t \in Callers /\ Call(t)
             \/ t \in Sweepers /\ Sweep(t)
             \/ t = "main" /\ ExitRequested
      PROVE  WInv'
  BY <1>1, ProcessStep
<1>2. CASE Environment BY <1>2, EnvironmentOwn
<1>3. CASE Restart
  <2>1. Fresh' BY <1>3 DEF Restart, Fresh
  <2>2. (Fresh => WInv)' BY FreshOwn, PTL
  <2> QED BY <2>1, <2>2
<1>4. CASE UNCHANGED vars
  <2>1. UNCHANGED <<entries, heap, win, pc, op, ref, loc>>
    BY <1>4 DEF vars, entryVars, outVars, procVars
  <2> QED BY <2>1 DEF WInv, EntriesKept, Stay, OwnCall, OwnHandle, FirstSweep, SweepsAlone,
       BootSweeps, Free, OwnersLive, Owner, Spawner, Running, LabelFor, Holding, MainPumps
<1> QED BY <1>1, <1>2, <1>3, <1>4, StepKinds

\* The windows' invariant holds from the first start.
LEMMA WindowsInvariant == Undisturbed => (Spec => [](IInv /\ WInv))
<1> SUFFICES ASSUME Undisturbed PROVE Spec => [](IInv /\ WInv) OBVIOUS
<1>1. Init => WInv
  <2>1. Init => Fresh BY DEF Init, Fresh
  <2> QED BY <2>1, FreshOwn
<1>2. IInv /\ WInv /\ [Next]_vars => WInv' BY WInvStep
<1> QED BY <1>1, <1>2, IInvInit, IInvStep, PTL DEF Spec

\* state_consistency (manager.rs check_invariants): the window a running entry
\* names exists, at every moment of every interleaving of installs, reloads,
\* enables, disables, exits and crashes, for any number of extensions and callers.
THEOREM RunningHasWindow == Undisturbed => (Spec => []StateConsistency)
<1> SUFFICES ASSUME Undisturbed PROVE Spec => []StateConsistency OBVIOUS
<1>1. IInv /\ WInv => StateConsistency
  <2> SUFFICES ASSUME IInv, WInv, NEW i \in Known, heap[entries[i]].st = "running",
                      heap[entries[i]].hdl # None
               PROVE  ~Free(heap[entries[i]].hdl)
    BY DEF StateConsistency
  <2>1. entries[i] \in Objs BY DEF Known, IInv, TypeOK
  <2>2. heap[entries[i]].hdl \in Labels BY <2>1 DEF IInv, TypeOK, Entry
  <2>3. Owner(heap[entries[i]].hdl, entries[i]) BY DEF Owner, Running
  <2> QED BY <2>1, <2>2, <2>3 DEF WInv, OwnersLive, Free
<1> QED BY <1>1, WindowsInvariant, PTL

-----------------------------------------------------------------------------
(* What is published, where calls do not overlap.                            *)

\* At most one process is in flight when a call starts.
OneAtATime == MaxBusy <= 1

\* The processes that publish; the main thread only exits.
Calls == Procs \ {"main"}
Alone == \A t, u \in Calls : pc[t] # "idle" /\ pc[u] # "idle" => t = u

\* What an id's entry is to be published as, and where it was.
RowOf(i)  == IF i \in Known
             THEN [dir |-> heap[entries[i]].dir, enabled |-> heap[entries[i]].enabled] ELSE None
Stored(i) == i \in Known \ unsaved => store[i] = RowOf(i)
Listed(i) == registry[i] = IF i \in Known THEN heap[entries[i]].dir ELSE None
AtRest(i) == i \in Known =>
               /\ heap[entries[i]].st \in {"running", "stopped"}
               /\ heap[entries[i]].enabled <=> heap[entries[i]].st = "running"
Seen(i)   == view[i] = "running" <=> i \in Known /\ Running(entries[i])
Current(i)   == MainPumps => AtRest(i) /\ Seen(i)
Published(i) == Stored(i) /\ Listed(i) /\ Current(i)

\* The id a process works on may be published late: from the mutex to the end of
\* the tail.
On(t, kind) == pc[t] \in {"walk", "visit"} /\ loc[t].walk = kind
Changing(t) == \/ pc[t] \in Holding \cup {"remove", "unroot", "emit"}
               \/ pc[t] = "lock" /\ op[t] \in {"install", "reload"}
Saved(t)    == pc[t] = "project" \/ On(t, "project")
InTail(t)   == pc[t] = "persist" \/ On(t, "rows") \/ Saved(t)
Late(t, i)  == (Changing(t) \/ InTail(t)) /\ loc[t].id = i

\* A process works on the entry the map has,
Mapped(t) ==
  /\ pc[t] \in {"peek", "lock"} \cup Holding => entries[loc[t].id] = ref[t]
  /\ pc[t] = "visit" => entries[heap[ref[t]].id] = ref[t] /\ heap[ref[t]].id \notin loc[t].todo
  /\ pc[t] = "peek" => op[t] = "reload"
  /\ pc[t] \in {"parse", "entry"} => op[t] \in {"install", "reload"}
  /\ pc[t] \in {"remove", "unroot"} => op[t] = "uninstall"
  /\ pc[t] = "unroot" => loc[t].id \notin Known
\* ... knows when it emits what has become of it,
Emits(t) ==
  pc[t] = "emit" /\ MainPumps =>
    /\ AtRest(loc[t].id)
    /\ op[t] = "enable" <=> loc[t].id \in Known /\ Running(entries[loc[t].id])
\* ... and publishes, walk by walk, what the entries are.
Filed(t)   == loc[t].id \in unsaved \/ store[loc[t].id] = RowOf(loc[t].id)
Pending(t) == loc[t].todo \cup (IF pc[t] = "visit" THEN {heap[ref[t]].id} ELSE {})
Tail0(t) ==
  /\ InTail(t) => loc[t].id \in Ids /\ Current(loc[t].id)
  /\ \A i \in Ids : loc[t].rows[i] = IF On(t, "rows") /\ i \notin Pending(t) THEN RowOf(i) ELSE None
  /\ Saved(t) => Filed(t)
  /\ On(t, "project") => loc[t].todo \subseteq Known
  /\ On(t, "project") /\ loc[t].id \notin Pending(t) => Listed(loc[t].id)
Publishes(t) == Mapped(t) /\ Emits(t) /\ Tail0(t)

QInv == /\ Alone /\ \A t \in Calls : Publishes(t)
        /\ \A i \in Ids : (\A t \in Calls : ~Late(t, i)) => Published(i)

\* A process's step does its part.
DoesItsPart(t) == Publishes(t)' /\ \A i \in Ids : ~Late(t, i)' => Published(i)'

\* Who is alone finds everything published but what it works on itself.
LEMMA AloneKnows ==
  ASSUME QInv, NEW t \in Calls, pc[t] # "idle" \/ \A u \in Calls : pc[u] = "idle"
  PROVE  /\ \A u \in Calls \ {t} : pc[u] = "idle"
         /\ \A i \in Ids : ~Late(t, i) => Published(i)
<1>1. \A u \in Calls \ {t} : pc[u] = "idle" BY DEF QInv, Alone
<1>2. \A u \in Calls \ {t} : \A i \in Ids : ~Late(u, i)
  BY <1>1 DEF Late, Changing, InTail, Saved, On, Holding
<1>3. ASSUME NEW i \in Ids, ~Late(t, i) PROVE Published(i)
  <2>1. \A u \in Calls : ~Late(u, i) BY <1>2, <1>3
  <2> QED BY <2>1 DEF QInv
<1> QED BY <1>1, <1>3

\* So if it does its part, the others have nothing to do.
LEMMA OthersIdle ==
  ASSUME QInv, NEW t \in Calls, pc[t] # "idle" \/ \A u \in Calls : pc[u] = "idle",
         Others(t), DoesItsPart(t)
  PROVE  QInv'
<1>1. \A u \in Calls \ {t} : pc[u] = "idle" BY AloneKnows
<1>2. \A u \in Calls \ {t} : pc'[u] = "idle" /\ loc'[u] = loc[u]
  BY <1>1 DEF Others, Calls
<1>3. Alone' BY <1>2 DEF Alone
<1>4. ASSUME NEW u \in Calls \ {t} PROVE Publishes(u)'
  <2>1. ~On(u, "rows") /\ ~On(u, "rows")' /\ ~On(u, "project")' /\ ~Saved(u)' /\ ~InTail(u)'
    BY <1>1, <1>2 DEF On, Saved, InTail
  <2>2. Tail0(u) BY DEF QInv, Publishes
  <2>3. \A i \in Ids : loc'[u].rows[i] = None BY <1>2, <2>1, <2>2 DEF Tail0
  <2>4. Tail0(u)' BY <2>1, <2>3 DEF Tail0
  <2> QED BY <1>2, <2>4 DEF Publishes, Mapped, Emits, Holding
<1>5. \A u \in Calls : Publishes(u)' BY <1>4 DEF DoesItsPart
<1>6. ASSUME NEW i \in Ids, \A u \in Calls : ~Late(u, i)' PROVE Published(i)'
  BY <1>6 DEF DoesItsPart
<1> QED BY <1>3, <1>5, <1>6 DEF QInv

\* Nothing that is published changes.
LEMMA SamePublished ==
  ASSUME UNCHANGED <<entries, heap, store, unsaved, registry, view>>, pc'["main"] = pc["main"]
  PROVE  /\ Known' = Known /\ \A i \in Ids : RowOf(i)' = RowOf(i)
         /\ \A i \in Ids : (Published(i)' <=> Published(i)) /\ (Current(i)' <=> Current(i))
                           /\ (Listed(i)' <=> Listed(i)) /\ (Stored(i)' <=> Stored(i))
                           /\ (AtRest(i)' <=> AtRest(i))
<1>1. Known' = Known BY DEF Known
<1>2. \A i \in Ids : RowOf(i)' = RowOf(i) BY <1>1 DEF RowOf
<1>3. \A i \in Ids : (AtRest(i)' <=> AtRest(i)) /\ (Seen(i)' <=> Seen(i)) /\ (MainPumps' <=> MainPumps)
  BY <1>1 DEF AtRest, Seen, MainPumps, Running
<1>4. \A i \in Ids : (Listed(i)' <=> Listed(i)) /\ (Stored(i)' <=> Stored(i)) /\ (Current(i)' <=> Current(i))
  BY <1>1, <1>2, <1>3 DEF Listed, Stored, Current
<1> QED BY <1>1, <1>2, <1>3, <1>4 DEF Published

\* A change to the entry of x, and to what is told of x, leaves the others published.
LEMMA OthersPublished ==
  ASSUME IInv, NEW x \in Ids, NEW o \in Objs,
         \A i \in Ids \ {x} : /\ entries'[i] = entries[i] /\ store'[i] = store[i]
                              /\ registry'[i] = registry[i] /\ view'[i] = view[i],
         unsaved' = unsaved, heap[o].id \in {x, None}, \A y \in Objs \ {o} : heap'[y] = heap[y],
         pc'["main"] = pc["main"]
  PROVE  \A i \in Ids \ {x} : /\ Published(i)' <=> Published(i)
                              /\ i \in Known' <=> i \in Known
                              /\ RowOf(i)' = RowOf(i)
<1> TAKE i \in Ids \ {x}
<1>1. i \in Known' <=> i \in Known BY DEF Known
<1>2. i \in Known => entries[i] \in Objs \ {o} /\ entries'[i] = entries[i]
  <2> SUFFICES ASSUME i \in Known PROVE entries[i] \in Objs \ {o} OBVIOUS
  <2>1. entries[i] # None /\ entries[i] \in Objs BY DEF Known, IInv, TypeOK
  <2>2. heap[entries[i]].id = i BY <2>1 DEF IInv, Wellformed
  <2> QED BY <2>1, <2>2, ConstantsAssumption
<1>3. i \in Known => heap'[entries'[i]] = heap[entries[i]] BY <1>2
<1>4. RowOf(i)' = RowOf(i) BY <1>1, <1>3 DEF RowOf
<1>5. (AtRest(i)' <=> AtRest(i)) /\ (Seen(i)' <=> Seen(i)) /\ (MainPumps' <=> MainPumps)
  BY <1>1, <1>3 DEF AtRest, Seen, MainPumps, Running
<1>6. (Listed(i)' <=> Listed(i)) /\ (Stored(i)' <=> Stored(i))
  BY <1>1, <1>3, <1>4 DEF Listed, Stored
<1> QED BY <1>1, <1>4, <1>5, <1>6 DEF Published, Current

\* A step of a process under way does its part.
LEMMA AdvanceParts ==
  ASSUME IInv, QInv, NEW t \in Calls, Advance(t)
  PROVE  DoesItsPart(t)
<1> USE DEF Goto
<1> DEFINE x == loc[t].id
           NoRowsLeft == \A i \in Ids : loc'[t].rows[i] = None
           Kept == UNCHANGED <<entries, heap, store, unsaved, registry, view>>
<1>a. /\ TypeOK /\ t \in Procs /\ t # "main" /\ CallWellformed(t) /\ loc[t] \in Local
      /\ Mapped(t) /\ Emits(t) /\ Tail0(t)
  BY DEF Calls, IInv, TypeOK, Wellformed, QInv, Publishes
<1>b. pc[t] # "idle" BY <1>a, AdvanceBusy
<1>c. \A i \in Ids : ~Late(t, i) => Published(i) BY <1>b, AloneKnows
<1>d. pc'["main"] = pc["main"]
  <2>1. "main" \in Procs \ {t} BY <1>a DEF Procs
  <2>2. Others(t) BY <1>a, AdvanceOrderly DEF Orderly, IInv
  <2> QED BY <2>1, <2>2 DEF Others
<1>n. /\ ~On(t, "rows") => \A i \in Ids : loc[t].rows[i] = None
      /\ ~On(t, "rows") /\ loc'[t].rows = loc[t].rows => NoRowsLeft
      /\ loc'[t].rows = NoRows => NoRowsLeft
  BY <1>a DEF Tail0, NoRows
\* It goes on, or ends, where nothing is being published.
<1>q. ASSUME Kept, NoRowsLeft, pc'[t] \in {"idle", "restore", "reap"},
             \A i \in Ids : Late(t, i) => Published(i)
      PROVE  DoesItsPart(t)
  <2>1. ~InTail(t)' /\ ~On(t, "rows")' /\ ~On(t, "project")' /\ ~Saved(t)'
    BY <1>q DEF InTail, Saved, On
  <2>2. Publishes(t)' BY <1>q, <2>1 DEF Publishes, Mapped, Emits, Tail0, Holding
  <2>3. \A i \in Ids : Published(i)' BY <1>c, <1>d, <1>q, SamePublished
  <2> QED BY <2>2, <2>3 DEF DoesItsPart
\* It goes on under the mutex, or before it.
<1>h. ASSUME Kept, NoRowsLeft, Mapped(t)', loc'[t].id = loc[t].id, ~InTail(t), pc'[t] # "emit",
             ~InTail(t)', ~On(t, "rows")', Changing(t) => Changing(t)'
      PROVE  DoesItsPart(t)
  <2>1. Publishes(t)' BY <1>h DEF Publishes, Emits, Tail0, InTail, On, Saved
  <2>2. \A i \in Ids : ~Late(t, i)' => ~Late(t, i) BY <1>h DEF Late
  <2>3. \A i \in Ids : ~Late(t, i)' => Published(i)' BY <1>c, <1>d, <1>h, <2>2, SamePublished
  <2> QED BY <2>1, <2>3 DEF DoesItsPart
<1>w. ASSUME Kept, loc'[t].rows = loc[t].rows, loc'[t].id = loc[t].id, ref'[t] = ref[t],
             op'[t] = op[t], pc[t] \in Holding, pc'[t] \in Holding
      PROVE  DoesItsPart(t)
  <2>1. ~On(t, "rows") /\ ~InTail(t) /\ ~InTail(t)' /\ ~On(t, "rows")' /\ Changing(t)'
    BY <1>w DEF On, InTail, Saved, Changing, Holding
  <2>2. Mapped(t)' BY <1>a, <1>w DEF Mapped, Holding
  <2>3. NoRowsLeft BY <1>n, <1>w, <2>1
  <2>4. pc'[t] # "emit" BY <1>w DEF Holding
  <2> QED BY <1>h, <1>w, <2>1, <2>2, <2>3, <2>4
\* It changes what it works on.
<1>e. ASSUME NEW o \in Objs, heap[o].id \in {x, None}, x \in Ids, loc'[t].id = x,
             unsaved' = unsaved,
             \A i \in Ids \ {x} : /\ entries'[i] = entries[i] /\ store'[i] = store[i]
                                  /\ registry'[i] = registry[i] /\ view'[i] = view[i],
             \A y \in Objs \ {o} : heap'[y] = heap[y],
             Changing(t)' \/ InTail(t)', Publishes(t)'
      PROVE  DoesItsPart(t)
  <2> HIDE DEF x
  <2>1. \A i \in Ids \ {x} : Published(i)' <=> Published(i) BY <1>d, <1>e, OthersPublished
  <2>2. \A i \in Ids \ {x} : ~Late(t, i) BY DEF Late, x
  <2>3. \A i \in Ids : ~Late(t, i)' => i # x BY <1>e DEF Late
  <2> QED BY <1>c, <1>e, <2>1, <2>2, <2>3 DEF DoesItsPart
\* ... under the mutex.
<1>k. ASSUME UNCHANGED <<entries, store, unsaved, registry, view>>, pc[t] \in {"lock"} \cup Holding,
             \A y \in Objs \ {ref[t]} : heap'[y] = heap[y],
             pc'[t] \in Holding, loc'[t].rows = loc[t].rows, loc'[t].id = loc[t].id, ref'[t] = ref[t]
      PROVE  DoesItsPart(t)
  <2>1. ~On(t, "rows") /\ ~InTail(t)' /\ ~On(t, "rows")' /\ Changing(t)' /\ ~Saved(t)'
        /\ ~On(t, "project")'
    BY <1>k DEF On, InTail, Saved, Changing, Holding
  <2>2. ref[t] \in Objs /\ x \in Ids /\ entries[x] = ref[t] /\ heap[ref[t]].id = x
    <3>1. ref[t] \in Objs /\ x \in Ids /\ entries[x] = ref[t]
      BY <1>a, <1>k DEF CallWellformed, Mapped
    <3>2. ref[t] # None BY <3>1, ConstantsAssumption
    <3> QED BY <3>1, <3>2 DEF IInv, Wellformed
  <2>3. Mapped(t)' BY <1>k, <2>2 DEF Mapped, Holding
  <2>4. NoRowsLeft BY <1>n, <1>k, <2>1
  <2>5. Publishes(t)' BY <1>k, <2>1, <2>3, <2>4 DEF Publishes, Tail0, Emits, Holding
  <2> QED BY <1>e, <1>k, <2>1, <2>2, <2>5
\* A place a call passes holds the entry of its id.
<1>o. ASSUME pc[t] \in {"lock"} \cup Holding
      PROVE  /\ ref[t] \in Objs /\ x \in Ids /\ entries[x] = ref[t] /\ heap[ref[t]].id = x
             /\ x \in Known /\ heap[ref[t]] \in Entry /\ ~On(t, "rows")
  <2>1. ref[t] \in Objs /\ x \in Ids /\ entries[x] = ref[t]
    BY <1>a, <1>o DEF CallWellformed, Mapped
  <2>2. ref[t] # None BY <2>1, ConstantsAssumption
  <2>3. ~On(t, "rows") BY <1>o DEF On, Holding
  <2> QED BY <2>1, <2>2, <2>3, <1>a DEF IInv, Wellformed, Known, TypeOK
\* It goes on with what it has been about.
<1>z. ASSUME Kept, loc'[t].id = loc[t].id, Changing(t) \/ InTail(t) => Changing(t)' \/ InTail(t)',
             Publishes(t)'
      PROVE  DoesItsPart(t)
  <2>1. \A i \in Ids : ~Late(t, i)' => ~Late(t, i) BY <1>z DEF Late
  <2>2. \A i \in Ids : ~Late(t, i)' => Published(i)' BY <1>c, <1>d, <1>z, <2>1, SamePublished
  <2> QED BY <1>z, <2>2 DEF DoesItsPart
\* It emits.
<1>y. ASSUME UNCHANGED <<entries, heap, store, unsaved, registry>>, \A i \in Ids \ {x} : view'[i] = view[i],
             loc'[t].id = x, InTail(t)', Publishes(t)'
      PROVE  DoesItsPart(t)
  <2> HIDE DEF x
  <2>1. Known' = Known BY <1>y DEF Known
  <2>2. ASSUME NEW i \in Ids \ {x} PROVE Published(i)' <=> Published(i)
    <3>1. RowOf(i)' = RowOf(i) BY <1>y, <2>1 DEF RowOf
    <3>2. (AtRest(i)' <=> AtRest(i)) /\ (Seen(i)' <=> Seen(i)) /\ (MainPumps' <=> MainPumps)
      BY <1>d, <1>y, <2>1 DEF AtRest, Seen, MainPumps, Running
    <3>3. (Listed(i)' <=> Listed(i)) /\ (Stored(i)' <=> Stored(i))
      BY <1>y, <2>1, <3>1 DEF Listed, Stored
    <3> QED BY <3>2, <3>3 DEF Published, Current
  <2>3. \A i \in Ids \ {x} : ~Late(t, i) BY DEF Late, x
  <2>4. \A i \in Ids : ~Late(t, i)' => i # x BY <1>y DEF Late
  <2> QED BY <1>c, <1>y, <2>2, <2>3, <2>4 DEF DoesItsPart
\* It has nothing to publish.
<1>s. ASSUME Kept, ~Changing(t), ~InTail(t), ~Changing(t)', ~InTail(t)', NoRowsLeft,
             pc'[t] \in {"walk", "reap", "restore", "idle"}
      PROVE  DoesItsPart(t)
  <2>1. ~On(t, "rows")' /\ ~On(t, "project")' /\ ~Saved(t)' BY <1>s DEF InTail, Saved
  <2>2. Publishes(t)' BY <1>s, <2>1 DEF Publishes, Mapped, Emits, Tail0, Holding
  <2>3. \A i \in Ids : Published(i)' BY <1>c, <1>d, <1>s, SamePublished DEF Late
  <2> QED BY <2>2, <2>3 DEF DoesItsPart
\* It knows what it is about to emit.
<1>m. ASSUME NEW i \in Ids, loc'[t].id = i, UNCHANGED entries, i \in Known, entries[i] = ref[t],
             MainPumps => /\ heap'[ref[t]].st \in {"running", "stopped"}
                          /\ heap'[ref[t]].enabled <=> heap'[ref[t]].st = "running",
             op'[t] = "enable" <=> heap'[ref[t]].st = "running"
      PROVE  Emits(t)'
  <2>1. MainPumps' <=> MainPumps BY <1>d DEF MainPumps
  <2>2. i \in Known' BY <1>m DEF Known
  <2>3. MainPumps' => AtRest(i)' BY <1>m, <2>1 DEF AtRest
  <2>4. Running(entries[i])' <=> heap'[ref[t]].st = "running" BY <1>m DEF Running
  <2> QED BY <1>m, <2>2, <2>3, <2>4 DEF Emits
<1>r. ASSUME Return(t), ~InTail(t), ~Changing(t), Kept PROVE DoesItsPart(t)
  <2>1. pc'[t] \in {"idle", "restore"} /\ loc'[t].rows = NoRows
    BY <1>a, <1>r DEF Return, TypeOK, NoLocal
  <2>2. \A i \in Ids : ~Late(t, i) BY <1>r DEF Late
  <2> QED BY <1>n, <1>q, <1>r, <2>1, <2>2
<1>1. CASE Peek(t)
  <2>1. Kept BY <1>1 DEF Peek, envVars, entryVars, outVars
  <2>2. pc[t] = "peek" /\ pc'[t] = "parse" /\ op'[t] = op[t] /\ loc'[t].rows = loc[t].rows
    BY <1>1, <1>a DEF Peek, TypeOK, Local
  <2>3. ~On(t, "rows") /\ ~InTail(t)' /\ ~On(t, "rows")' /\ ~Saved(t)' /\ ~On(t, "project")'
        /\ ~Changing(t) /\ ~InTail(t)
    BY <2>2 DEF On, InTail, Saved, Changing, Holding
  <2>4. Mapped(t)' BY <1>a, <2>2 DEF Mapped, Holding
  <2>5. Publishes(t)' BY <1>n, <2>2, <2>3, <2>4 DEF Publishes, Tail0, Emits
  <2>6. \A i \in Ids : Published(i)' BY <1>c, <1>d, <2>1, <2>3, SamePublished DEF Late
  <2> QED BY <2>5, <2>6 DEF DoesItsPart
<1>2. CASE ParseFails(t)
  <2>1. Kept BY <1>2 DEF ParseFails, envVars, entryVars, outVars
  <2>2. Return(t) /\ pc[t] = "parse" BY <1>2 DEF ParseFails
  <2>3. ~InTail(t) /\ ~Changing(t) BY <2>2 DEF On, InTail, Saved, Changing, Holding
  <2> QED BY <1>r, <2>1, <2>2, <2>3
<1>3. CASE Parse(t)
  <2>1. Kept BY <1>3 DEF Parse, envVars, entryVars, outVars
  <2>2. pc[t] = "parse" /\ pc'[t] = "entry" /\ op'[t] = op[t] /\ loc'[t].rows = loc[t].rows
    BY <1>3, <1>a DEF Parse, TypeOK, Local
  <2>3. ~On(t, "rows") /\ ~InTail(t)' /\ ~On(t, "rows")' /\ ~Saved(t)' /\ ~On(t, "project")'
        /\ ~Changing(t) /\ ~InTail(t)
    BY <2>2 DEF On, InTail, Saved, Changing, Holding
  <2>4. Mapped(t)' BY <1>a, <2>2 DEF Mapped, Holding
  <2>5. Publishes(t)' BY <1>n, <2>2, <2>3, <2>4 DEF Publishes, Tail0, Emits
  <2>6. \A i \in Ids : Published(i)' BY <1>c, <1>d, <2>1, <2>3, SamePublished DEF Late
  <2> QED BY <2>5, <2>6 DEF DoesItsPart
<1>4. CASE EntryFound(t)
  <2>1. Kept BY <1>4 DEF EntryFound, envVars, entryVars, outVars
  <2>2. /\ pc[t] = "entry" /\ pc'[t] = "lock" /\ op'[t] = op[t] /\ loc'[t] = loc[t]
        /\ ref'[t] = entries[x]
    BY <1>4, <1>a DEF EntryFound, TypeOK
  <2>3. ~On(t, "rows") /\ ~InTail(t)' /\ ~On(t, "rows")' /\ ~Saved(t)' /\ ~On(t, "project")'
        /\ ~Changing(t) /\ ~InTail(t)
    BY <2>2 DEF On, InTail, Saved, Changing, Holding
  <2>4. Mapped(t)' BY <1>a, <2>1, <2>2 DEF Mapped, Holding
  <2>5. NoRowsLeft BY <1>n, <2>2, <2>3
  <2> QED BY <1>h, <2>1, <2>2, <2>3, <2>4, <2>5
<1>5. ASSUME NEW o \in Objs, EntryAdded(t, o) PROVE DoesItsPart(t)
  <2>1. /\ pc[t] = "entry" /\ pc'[t] = "lock" /\ op'[t] = op[t] /\ loc'[t] = loc[t] /\ ref'[t] = o
        /\ x \in Ids
    BY <1>5, <1>a DEF EntryAdded, TypeOK, CallWellformed
  <2>2. /\ entries' = [entries EXCEPT ![x] = o] /\ heap[o].id = None
        /\ \A y \in Objs \ {o} : heap'[y] = heap[y]
        /\ UNCHANGED <<store, unsaved, registry, view>>
    BY <1>5, <1>a DEF EntryAdded, TypeOK, envVars, outVars
  <2>3. ~On(t, "rows") /\ ~InTail(t)' /\ ~On(t, "rows")' /\ ~Saved(t)' /\ ~On(t, "project")'
        /\ Changing(t)'
    BY <1>a, <2>1 DEF On, InTail, Saved, Changing, Holding, Mapped
  <2>4. Mapped(t)' BY <1>a, <2>1, <2>2 DEF Mapped, Holding, TypeOK
  <2>5. NoRowsLeft BY <1>n, <2>1, <2>3
  <2>6. Publishes(t)' BY <2>1, <2>3, <2>4, <2>5 DEF Publishes, Tail0, Emits
  <2>7. \A i \in Ids \ {x} : entries'[i] = entries[i] BY <1>a, <2>2 DEF TypeOK
  <2> QED BY <1>e, <2>1, <2>2, <2>3, <2>6, <2>7
<1>6. CASE InstallOverRunning(t) \/ InstallOverIdle(t) \/ UninstallLocks(t) \/ DisableLocks(t)
  <2>1. /\ pc[t] = "lock" /\ pc'[t] \in {"teardown", "root"}
        /\ UNCHANGED <<entries, store, unsaved, registry, view, op, ref>>
        /\ loc'[t].rows = loc[t].rows /\ loc'[t].id = loc[t].id
        /\ \A y \in Objs \ {ref[t]} : heap'[y] = heap[y]
    BY <1>6, <1>a DEF InstallOverRunning, InstallOverIdle, UninstallLocks, DisableLocks, At,
       SetEntry, TypeOK, Local, envVars, outVars
  <2> QED BY <1>k, <2>1 DEF Holding
<1>7. CASE DisableIdle(t)
  <2>1. /\ pc[t] = "lock" /\ op[t] = "disable" /\ op'[t] = op[t] /\ pc'[t] = "emit" /\ loc'[t] = loc[t]
        /\ UNCHANGED <<entries, store, unsaved, registry, view>> /\ ~Running(ref[t])
        /\ heap' = [heap EXCEPT ![ref[t]] = [heap[ref[t]] EXCEPT !.enabled = FALSE]]
    BY <1>7, <1>a DEF DisableIdle, At, SetEntry, Mine, Running, TypeOK, envVars, outVars
  <2>2. /\ ref[t] \in Objs /\ x \in Ids /\ entries[x] = ref[t] /\ heap[ref[t]].id = x /\ x \in Known
        /\ heap[ref[t]] \in Entry /\ ~On(t, "rows")
    BY <1>o, <2>1
  <2>3. /\ heap'[ref[t]].st = heap[ref[t]].st /\ ~heap'[ref[t]].enabled
        /\ \A y \in Objs \ {ref[t]} : heap'[y] = heap[y]
    BY <2>1, <2>2, <1>a DEF Entry, TypeOK
  <2>4. ~InTail(t)' /\ ~On(t, "rows")' /\ ~Saved(t)' /\ ~On(t, "project")' /\ Changing(t)'
        /\ ~Late(t, x)
    BY <2>1 DEF On, InTail, Saved, Changing, Late, Holding
  <2>5. MainPumps => AtRest(x) BY <1>c, <2>2, <2>4 DEF Published, Current
  <2>6. MainPumps => heap'[ref[t]].st \in {"running", "stopped"} BY <2>2, <2>3, <2>5 DEF AtRest
  <2>7. heap'[ref[t]].st # "running" BY <2>1, <2>3 DEF Running
  <2>8. Emits(t)' BY <1>m, <2>1, <2>2, <2>3, <2>6, <2>7
  <2>9. NoRowsLeft BY <1>n, <2>1, <2>2
  <2>10. Publishes(t)' BY <2>1, <2>4, <2>8, <2>9 DEF Publishes, Mapped, Tail0, Holding
  <2> QED BY <1>e, <2>1, <2>2, <2>3, <2>4, <2>10
<1>8. CASE EnableRunning(t)
  <2>1. /\ pc[t] = "lock" /\ op[t] = "enable" /\ Return(t) /\ lock[ref[t]] = None /\ Running(ref[t])
        /\ UNCHANGED <<entries, store, unsaved, registry, view>>
        /\ heap' = [heap EXCEPT ![ref[t]] = [heap[ref[t]] EXCEPT !.enabled = TRUE]]
    BY <1>8 DEF EnableRunning, At, SetEntry, Mine, Running, envVars, outVars
  <2>2. ref[t] \in Objs /\ heap[ref[t]] \in Entry BY <1>o, <2>1
  <2>3. heap[ref[t]].enabled = TRUE
    BY <2>1, <2>2 DEF IInv, SettledEntries, SettledAt, Entry
  <2>4. [heap[ref[t]] EXCEPT !.enabled = TRUE] = heap[ref[t]]
    BY <2>2, <2>3 DEF Entry
  <2>5. heap' = heap BY <1>a, <2>1, <2>4 DEF TypeOK
  <2>6. ~InTail(t) /\ ~Changing(t) BY <2>1 DEF InTail, Saved, On, Changing, Holding
  <2> QED BY <1>r, <2>1, <2>5, <2>6
<1>9. CASE EnableFails(t)
  <2>1. Kept /\ pc[t] = "lock" /\ op[t] = "enable" /\ Return(t)
    BY <1>9 DEF EnableFails, At, envVars, entryVars, outVars
  <2>2. ~InTail(t) /\ ~Changing(t) BY <2>1 DEF InTail, Saved, On, Changing, Holding
  <2> QED BY <1>r, <2>1, <2>2
<1>10. CASE EnableLocks(t)
  <2>1. /\ pc[t] = "lock" /\ pc'[t] = "root" /\ UNCHANGED <<entries, heap, store, unsaved, registry, view, op, ref>>
        /\ loc'[t].rows = loc[t].rows /\ loc'[t].id = loc[t].id
    BY <1>10, <1>a DEF EnableLocks, At, TypeOK, Local, envVars, outVars
  <2> QED BY <1>k, <2>1 DEF Holding
<1>11. CASE ReloadStopped(t)
  <2>1. /\ pc[t] = "teardown" /\ pc'[t] = "root" /\ UNCHANGED <<entries, store, unsaved, registry, view, op, ref, loc>>
        /\ \A y \in Objs \ {ref[t]} : heap'[y] = heap[y]
    BY <1>11, <1>a DEF ReloadStopped, TornDown, SetEntry, TypeOK, envVars
  <2> QED BY <1>k, <2>1 DEF Holding
<1>12. CASE DisableStopped(t)
  <2>1. /\ pc[t] = "teardown" /\ op[t] = "disable" /\ op'[t] = op[t] /\ pc'[t] = "emit" /\ loc'[t] = loc[t]
        /\ UNCHANGED <<entries, store, unsaved, registry>>
        /\ \A y \in Objs \ {ref[t]} : heap'[y] = heap[y]
        /\ heap' = [heap EXCEPT ![ref[t]] = [heap[ref[t]] EXCEPT !.st = "stopped", !.enabled = FALSE]]
        /\ view' = [view EXCEPT ![heap[ref[t]].id] = "stopped"]
    BY <1>12, <1>a DEF DisableStopped, TornDown, SetEntry, See, Mine, TypeOK, envVars
  <2>2. /\ ref[t] \in Objs /\ x \in Ids /\ entries[x] = ref[t] /\ heap[ref[t]].id = x /\ x \in Known
        /\ heap[ref[t]] \in Entry /\ ~On(t, "rows")
    BY <1>o, <2>1 DEF Holding
  <2>3. heap'[ref[t]].st = "stopped" /\ ~heap'[ref[t]].enabled
    BY <2>1, <2>2, <1>a DEF Entry, TypeOK
  <2>4. ~InTail(t)' /\ ~On(t, "rows")' /\ ~Saved(t)' /\ ~On(t, "project")' /\ Changing(t)'
    BY <2>1 DEF On, InTail, Saved, Changing
  <2>7. Emits(t)' BY <1>m, <2>1, <2>2, <2>3
  <2>8. NoRowsLeft BY <1>n, <2>1, <2>2
  <2>9. Publishes(t)' BY <2>1, <2>4, <2>7, <2>8 DEF Publishes, Mapped, Tail0, Holding
  <2>10. \A i \in Ids \ {x} : view'[i] = view[i] BY <2>1, <2>2, <1>a DEF TypeOK
  <2> QED BY <1>e, <2>1, <2>2, <2>4, <2>9, <2>10
<1>13. CASE UninstallStopped(t)
  <2>1. /\ pc[t] = "teardown" /\ op[t] = "uninstall" /\ op'[t] = op[t] /\ pc'[t] = "remove" /\ loc'[t] = loc[t]
        /\ Kept
    BY <1>13, <1>a DEF UninstallStopped, TornDown, TypeOK, envVars, outVars
  <2>2. ~On(t, "rows") /\ ~InTail(t) /\ ~InTail(t)' /\ ~On(t, "rows")' /\ Changing(t)'
    BY <2>1 DEF On, InTail, Saved, Changing
  <2>3. NoRowsLeft BY <1>n, <2>1, <2>2
  <2>4. Mapped(t)' BY <2>1 DEF Mapped, Holding
  <2> QED BY <1>h, <2>1, <2>2, <2>3, <2>4
<1>14. CASE Remove(t)
  <2>1. /\ pc[t] = "remove" /\ op[t] = "uninstall" /\ op'[t] = op[t] /\ pc'[t] = "unroot" /\ loc'[t] = loc[t]
        /\ x \in Ids /\ entries' = [entries EXCEPT ![x] = None]
        /\ UNCHANGED <<heap, store, unsaved, registry, view>>
    BY <1>14, <1>a DEF Remove, Mapped, CallWellformed, TypeOK, envVars, outVars
  <2>2. ~On(t, "rows") /\ ~InTail(t)' /\ ~On(t, "rows")' /\ ~Saved(t)' /\ ~On(t, "project")' /\ Changing(t)'
    BY <2>1 DEF On, InTail, Saved, Changing
  <2>3. NoRowsLeft BY <1>n, <2>1, <2>2
  <2>4. x \notin Known' BY <2>1, <1>a DEF Known, TypeOK
  <2>5. Publishes(t)' BY <2>1, <2>2, <2>3, <2>4 DEF Publishes, Mapped, Emits, Tail0, Holding
  <2>6. \A i \in Ids \ {x} : entries'[i] = entries[i] BY <2>1, <1>a DEF TypeOK
  <2>7. CASE x \in Known
    <3>1. entries[x] \in Objs /\ heap[entries[x]].id = x BY <2>7, <1>a DEF IInv, Wellformed, Known, TypeOK
    <3> QED BY <1>e, <2>1, <2>2, <2>5, <2>6, <3>1
  <2>8. CASE x \notin Known
    <3>1. entries' = entries BY <2>1, <2>8, <1>a DEF Known, TypeOK
    <3>2. Kept BY <2>1, <3>1
    <3>3. \A i \in Ids : ~Late(t, i)' => ~Late(t, i) BY <2>1, <2>2 DEF Late
    <3>4. \A i \in Ids : ~Late(t, i)' => Published(i)' BY <1>c, <1>d, <3>2, <3>3, SamePublished
    <3> QED BY <2>5, <3>4 DEF DoesItsPart
  <2> QED BY <2>7, <2>8
<1>15. CASE \/ PublishRoot(t) \/ FirstAwait(t) \/ Build(t) \/ BuildFails(t)
            \/ LabelTaken(t) \/ SecondAwait(t) \/ StillTaken(t) \/ TakeHandle(t)
  <2>1. /\ Kept /\ pc[t] \in Holding /\ pc'[t] \in Holding /\ ref'[t] = ref[t] /\ op'[t] = op[t]
        /\ loc'[t].rows = loc[t].rows /\ loc'[t].id = loc[t].id
    BY <1>15, <1>a DEF PublishRoot, FirstAwait, Build, BuildFails, LabelTaken, SecondAwait,
       StillTaken, TakeHandle, Holding, TypeOK, Local, envVars, entryVars, outVars
  <2> QED BY <1>w, <2>1
<1>16. CASE CommitInstall(t)
  <2>1. /\ pc[t] = "commit" /\ pc'[t] = "persist" /\ loc'[t] = loc[t]
        /\ UNCHANGED <<entries, store, unsaved, registry>>
        /\ heap' = [heap EXCEPT ![ref[t]] = [heap[ref[t]] EXCEPT !.st = "running", !.hdl = loc[t].hdl,
                                                                 !.enabled = TRUE]]
        /\ view' = [view EXCEPT ![x] = "running"]
    BY <1>16, <1>a DEF CommitInstall, At, SetEntry, Mine, See, TypeOK, envVars
  <2>2. /\ ref[t] \in Objs /\ x \in Ids /\ entries[x] = ref[t] /\ heap[ref[t]].id = x /\ x \in Known
        /\ heap[ref[t]] \in Entry /\ ~On(t, "rows")
    BY <1>o, <2>1 DEF Holding
  <2>3. /\ heap'[ref[t]].st = "running" /\ heap'[ref[t]].enabled
        /\ \A y \in Objs \ {ref[t]} : heap'[y] = heap[y]
    BY <2>1, <2>2, <1>a DEF Entry, TypeOK
  <2>4. InTail(t)' /\ ~On(t, "rows")' /\ ~Saved(t)' /\ ~On(t, "project")'
    BY <2>1 DEF On, InTail, Saved
  <2>5. view'[x] = "running" /\ \A i \in Ids \ {x} : view'[i] = view[i]
    BY <2>1, <2>2, <1>a DEF TypeOK
  <2>6. \A i \in Ids : i = x => Current(i)'
    BY <2>1, <2>2, <2>3, <2>5 DEF Current, AtRest, Seen, Known, Running
  <2>7. NoRowsLeft BY <1>n, <2>1, <2>2
  <2>8. Tail0(t)' BY <2>1, <2>2, <2>4, <2>6, <2>7 DEF Tail0
  <2>9. Publishes(t)' BY <2>1, <2>8 DEF Publishes, Mapped, Emits, Holding
  <2> QED BY <1>e, <2>1, <2>2, <2>3, <2>4, <2>5, <2>9
<1>17. CASE CommitEnable(t)
  <2>1. /\ pc[t] = "commit" /\ pc'[t] = "emit" /\ loc'[t] = loc[t] /\ op[t] = "enable" /\ op'[t] = op[t]
        /\ UNCHANGED <<entries, store, unsaved, registry, view>>
        /\ heap' = [heap EXCEPT ![ref[t]] = [heap[ref[t]] EXCEPT !.st = "running", !.hdl = loc[t].hdl,
                                                                 !.enabled = TRUE]]
    BY <1>17, <1>a DEF CommitEnable, At, SetEntry, Mine, TypeOK, envVars, outVars
  <2>2. /\ ref[t] \in Objs /\ x \in Ids /\ entries[x] = ref[t] /\ heap[ref[t]].id = x /\ x \in Known
        /\ heap[ref[t]] \in Entry /\ ~On(t, "rows")
    BY <1>o, <2>1 DEF Holding
  <2>3. /\ heap'[ref[t]].st = "running" /\ heap'[ref[t]].enabled
        /\ \A y \in Objs \ {ref[t]} : heap'[y] = heap[y]
    BY <2>1, <2>2, <1>a DEF Entry, TypeOK
  <2>4. ~InTail(t)' /\ ~On(t, "rows")' /\ ~Saved(t)' /\ ~On(t, "project")' /\ Changing(t)'
    BY <2>1 DEF On, InTail, Saved, Changing
  <2>5. Emits(t)' BY <1>m, <2>1, <2>2, <2>3
  <2>6. NoRowsLeft BY <1>n, <2>1, <2>2
  <2>7. Publishes(t)' BY <2>1, <2>4, <2>5, <2>6 DEF Publishes, Mapped, Tail0, Holding
  <2> QED BY <1>e, <2>1, <2>2, <2>3, <2>4, <2>7
<1>18. CASE Unroot(t) \/ EmitLate(t)
  <2>1. /\ pc[t] \in {"unroot", "emit"} /\ pc'[t] = "persist" /\ loc'[t] = loc[t]
        /\ UNCHANGED <<entries, heap, store, unsaved, registry>>
        /\ view' = [view EXCEPT ![x] = IF pc[t] = "unroot" THEN "absent"
                                       ELSE IF op[t] = "enable" THEN "running" ELSE "stopped"]
    BY <1>18, <1>a DEF Unroot, EmitLate, See, TypeOK, envVars, entryVars
  <2>2. x \in Ids /\ ~On(t, "rows") BY <1>a, <2>1 DEF CallWellformed, On
  <2>3. InTail(t)' /\ ~On(t, "rows")' /\ ~Saved(t)' /\ ~On(t, "project")'
    BY <2>1 DEF On, InTail, Saved
  <2>4. /\ pc[t] = "unroot" => x \notin Known
        /\ pc[t] = "emit" /\ MainPumps => AtRest(x) /\ (op[t] = "enable" <=> x \in Known /\ Running(entries[x]))
    BY <1>a DEF Mapped, Emits
  <2>5. /\ \A i \in Ids \ {x} : view'[i] = view[i]
        /\ view'[x] = "running" <=> pc[t] # "unroot" /\ op[t] = "enable"
    BY <2>1, <2>2, <1>a DEF TypeOK
  <2>6. \A i \in Ids : i = x => Current(i)'
    BY <1>d, <2>1, <2>2, <2>4, <2>5 DEF Current, AtRest, Seen, Known, Running, MainPumps
  <2>7. NoRowsLeft BY <1>n, <2>1, <2>2
  <2>8. Tail0(t)' BY <2>1, <2>2, <2>3, <2>6, <2>7 DEF Tail0
  <2>9. Publishes(t)' BY <2>1, <2>8 DEF Publishes, Mapped, Emits, Holding
  <2> QED BY <1>y, <2>1, <2>3, <2>5, <2>9
<1>19. CASE BeginPersist(t)
  <2>1. /\ Kept /\ pc[t] = "persist" /\ pc'[t] = "walk" /\ ref'[t] = None /\ loc'[t].rows = loc[t].rows
        /\ loc'[t].id = x /\ loc'[t].walk = "rows" /\ loc'[t].todo = Known
    BY <1>19, <1>a DEF BeginPersist, StartWalk, TypeOK, Local, envVars, entryVars, outVars
  <2>2. InTail(t) /\ InTail(t)' /\ On(t, "rows")' /\ ~On(t, "rows") /\ ~Saved(t)' /\ ~On(t, "project")'
    BY <2>1 DEF On, InTail, Saved
  <2>3. \A i \in Ids : /\ RowOf(i)' = RowOf(i) /\ (Current(i)' <=> Current(i))
                       /\ i \notin Pending(t)' => RowOf(i) = None
    BY <1>d, <2>1, SamePublished DEF Pending, RowOf
  <2>4. \A i \in Ids : loc'[t].rows[i] = None BY <1>n, <2>1, <2>2
  <2>5. x \in Ids /\ Current(x) BY <1>a, <2>2 DEF Tail0
  <2>6. loc'[t].id \in Ids /\ Current(loc[t].id)' BY <2>1, <2>3, <2>5
  <2>7. Tail0(t)' BY <2>2, <2>3, <2>4, <2>6 DEF Tail0
  <2>8. Publishes(t)' BY <2>1, <2>7 DEF Publishes, Mapped, Emits, Holding
  <2> QED BY <1>z, <2>1, <2>2, <2>8
<1>20. ASSUME NEW i \in Ids, WalkNext(t, i) PROVE DoesItsPart(t)
  <2>1. /\ Kept /\ pc[t] = "walk" /\ i \in loc[t].todo /\ op'[t] = op[t]
        /\ loc'[t].rows = loc[t].rows /\ loc'[t].id = x
        /\ loc'[t].walk = loc[t].walk /\ loc'[t].todo = loc[t].todo \ {i}
        /\ i \notin Known => pc'[t] = "walk" /\ ref'[t] = ref[t]
        /\ i \in Known => pc'[t] = "visit" /\ ref'[t] = entries[i]
    BY <1>20, <1>a DEF WalkNext, TypeOK, Local, Known, envVars, entryVars, outVars
  <2>2. i \in Known => heap[entries[i]].id = i BY <1>a DEF IInv, Wellformed, Known
  <2>3. /\ Pending(t) = loc[t].todo
        /\ Pending(t)' = IF i \in Known THEN loc[t].todo ELSE loc[t].todo \ {i}
    BY <2>1, <2>2 DEF Pending
  <2>4. /\ On(t, "rows")' <=> On(t, "rows")
        /\ On(t, "project")' <=> On(t, "project")
        /\ (Saved(t)' <=> Saved(t)) /\ (InTail(t)' <=> InTail(t)) /\ ~Changing(t)
    BY <2>1 DEF On, Saved, InTail, Changing, Holding
  <2>5. \A j \in Ids : /\ RowOf(j)' = RowOf(j) /\ (Current(j)' <=> Current(j))
                       /\ (Listed(j)' <=> Listed(j)) /\ Known' = Known
                       /\ j \notin Known => RowOf(j) = None
    BY <1>d, <2>1, SamePublished DEF RowOf
  <2>6. Mapped(t)' BY <2>1, <2>2, <2>5 DEF Mapped, Holding
  <2>7. InTail(t)' => loc'[t].id \in Ids /\ Current(loc[t].id)'
    <3>1. InTail(t) => x \in Ids /\ Current(x) BY <1>a DEF Tail0
    <3> QED BY <2>1, <2>4, <2>5, <3>1
  <2>8. ASSUME NEW j \in Ids
        PROVE  loc'[t].rows[j] = IF On(t, "rows")' /\ j \notin Pending(t)' THEN RowOf(j)' ELSE None
    <3>1. loc[t].rows[j] = IF On(t, "rows") /\ j \notin Pending(t) THEN RowOf(j) ELSE None
      BY <1>a DEF Tail0
    <3>2. CASE j = i /\ i \notin Known BY <2>1, <2>3, <2>4, <2>5, <3>1, <3>2
    <3>3. CASE ~(j = i /\ i \notin Known)
      <4>1. j \in Pending(t)' <=> j \in Pending(t) BY <2>3, <3>3
      <4> QED BY <2>1, <2>4, <2>5, <3>1, <4>1
    <3> QED BY <3>2, <3>3
  <2>9. Saved(t)' => Filed(t)'
    <3>1. Saved(t) => x \in Ids /\ Filed(t) BY <1>a DEF Tail0, InTail
    <3> QED BY <2>1, <2>4, <2>5, <3>1 DEF Filed
  <2>10. On(t, "project")' => /\ loc'[t].todo \subseteq Known'
                              /\ loc'[t].id \notin Pending(t)' => Listed(loc[t].id)'
    <3> SUFFICES ASSUME On(t, "project") PROVE /\ loc'[t].todo \subseteq Known'
                                               /\ loc'[t].id \notin Pending(t)' => Listed(loc[t].id)'
      BY <2>4
    <3>1. loc[t].todo \subseteq Known /\ (x \notin Pending(t) => Listed(x)) BY <1>a DEF Tail0
    <3>2. i \in Known /\ x \in Ids BY <1>a, <2>1, <3>1 DEF Tail0, InTail, Saved
    <3>3. Listed(loc[t].id)' <=> Listed(x) BY <2>1, <2>5, <3>2
    <3> QED BY <2>1, <2>3, <2>5, <3>1, <3>2, <3>3
  <2>11. Tail0(t)' BY <2>7, <2>8, <2>9, <2>10 DEF Tail0
  <2>12. pc'[t] # "emit" BY <2>1
  <2>13. Publishes(t)' BY <2>6, <2>11, <2>12 DEF Publishes, Emits
  <2> QED BY <1>z, <2>1, <2>4, <2>13
\* A visit finds the entry of its id.
<1>v. ASSUME NEW kind, Visiting(t, kind)
      PROVE  /\ pc[t] = "visit" /\ pc'[t] = "walk" /\ loc[t].walk = kind
             /\ ref[t] \in Objs /\ heap[ref[t]] \in Entry
             /\ heap[ref[t]].id \in Known /\ entries[heap[ref[t]].id] = ref[t]
             /\ heap[ref[t]].id \notin loc[t].todo
  <2>1. pc[t] = "visit" /\ pc'[t] = "walk" /\ loc[t].walk = kind
    BY <1>v, <1>a DEF Visiting, TypeOK
  <2>2. ref[t] \in Objs /\ ref[t] # None BY <1>a, <2>1, ConstantsAssumption DEF CallWellformed
  <2>3. heap[ref[t]] \in Entry /\ heap[ref[t]].id # None BY <1>a, <2>2 DEF CallWellformed, TypeOK
  <2>4. heap[ref[t]].id \in Ids BY <2>3 DEF Entry
  <2> QED BY <1>a, <2>1, <2>2, <2>3, <2>4 DEF Mapped, Known
<1>21. CASE CollectRow(t)
  <2> DEFINE k == heap[ref[t]].id
             w == [dir |-> heap[ref[t]].dir, enabled |-> heap[ref[t]].enabled]
  <2>1. /\ Kept /\ Visiting(t, "rows") /\ loc'[t].id = x /\ loc'[t].walk = loc[t].walk
        /\ loc'[t].todo = loc[t].todo /\ loc'[t].rows = [loc[t].rows EXCEPT ![k] = w]
    BY <1>21, <1>a DEF CollectRow, Mine, TypeOK, Local, envVars, entryVars, outVars
  <2>2. /\ pc[t] = "visit" /\ pc'[t] = "walk" /\ loc[t].walk = "rows"
        /\ k \in Known /\ entries[k] = ref[t] /\ k \notin loc[t].todo
    BY <1>v, <2>1
  <2>3. RowOf(k) = w BY <2>2 DEF RowOf
  <2> HIDE DEF k, w
  <2>4. Pending(t)' = loc[t].todo /\ Pending(t) = loc[t].todo \cup {k} BY <2>1, <2>2 DEF Pending, k
  <2>5. /\ InTail(t) /\ InTail(t)' /\ On(t, "rows") /\ On(t, "rows")' /\ ~Saved(t)' /\ ~On(t, "project")'
    BY <2>1, <2>2 DEF On, InTail, Saved
  <2>6. \A j \in Ids : RowOf(j)' = RowOf(j) /\ (Current(j)' <=> Current(j))
    BY <1>d, <2>1, SamePublished
  <2>7. loc[t].rows \in [Ids -> Row \cup {None}] BY <1>a DEF Local, Rows
  <2>8. ASSUME NEW j \in Ids
        PROVE  loc'[t].rows[j] = IF On(t, "rows")' /\ j \notin Pending(t)' THEN RowOf(j)' ELSE None
    <3>1. loc[t].rows[j] = IF j \notin Pending(t) THEN RowOf(j) ELSE None
      BY <1>a, <2>5 DEF Tail0
    <3>2. CASE j = k BY <2>1, <2>2, <2>3, <2>4, <2>5, <2>6, <2>7, <3>2
    <3>3. CASE j # k BY <2>1, <2>4, <2>5, <2>6, <2>7, <3>1, <3>3
    <3> QED BY <3>2, <3>3
  <2>9. x \in Ids /\ Current(x) BY <1>a, <2>5 DEF Tail0
  <2>10. loc'[t].id \in Ids /\ Current(loc[t].id)' BY <2>1, <2>6, <2>9
  <2>11. Tail0(t)' BY <2>5, <2>8, <2>10 DEF Tail0
  <2>12. Publishes(t)' BY <2>2, <2>11 DEF Publishes, Mapped, Emits, Holding
  <2> QED BY <1>z, <2>1, <2>5, <2>12
<1>22. CASE Save(t)
  <2>1. /\ UNCHANGED <<entries, heap, registry, view>> /\ store' = loc[t].rows
        /\ pc[t] = "walk" /\ loc[t].walk = "rows" /\ loc[t].todo = {} /\ pc'[t] = "project"
        /\ loc'[t].id = x /\ loc'[t].rows = NoRows
    BY <1>22, <1>a DEF Save, Walked, TypeOK, Local, entryVars, outVars
  <2>2. /\ InTail(t) /\ InTail(t)' /\ On(t, "rows") /\ ~On(t, "rows")' /\ ~On(t, "project")'
        /\ Pending(t) = {}
    BY <2>1 DEF On, InTail, Saved, Pending
  <2>3. /\ Known' = Known /\ \A j \in Ids : RowOf(j)' = RowOf(j) BY <2>1 DEF Known, RowOf
  <2>4. \A j \in Ids : store'[j] = RowOf(j)' BY <1>a, <2>1, <2>2, <2>3 DEF Tail0
  <2>5. \A j \in Ids : (Current(j)' <=> Current(j)) /\ (Listed(j)' <=> Listed(j))
    BY <1>d, <2>1, <2>3 DEF Current, AtRest, Seen, MainPumps, Running, Listed
  <2>6. \A j \in Ids : Stored(j)' BY <2>4 DEF Stored
  <2>7. NoRowsLeft BY <1>n, <2>1
  <2>8. x \in Ids /\ Current(x) BY <1>a, <2>2 DEF Tail0
  <2>9. loc'[t].id \in Ids /\ Current(loc[t].id)' BY <2>1, <2>5, <2>8
  <2>10. Filed(t)' BY <2>4, <2>9 DEF Filed
  <2>11. Tail0(t)' BY <2>2, <2>7, <2>9, <2>10 DEF Tail0
  <2>12. Publishes(t)' BY <2>1, <2>11 DEF Publishes, Mapped, Emits, Holding
  <2>13. \A j \in Ids : ~Late(t, j)' => ~Late(t, j) BY <2>1, <2>2 DEF Late
  <2>14. \A j \in Ids : ~Late(t, j)' => Published(j)' BY <1>c, <2>5, <2>6, <2>13 DEF Published
  <2> QED BY <2>12, <2>14 DEF DoesItsPart
<1>31. CASE SaveFails(t)
  <2>1. /\ UNCHANGED <<entries, heap, store, registry, view>> /\ unsaved' = unsaved \cup {x}
        /\ pc[t] = "walk" /\ loc[t].walk = "rows" /\ pc'[t] = "project"
        /\ loc'[t].id = x /\ loc'[t].rows = NoRows
    BY <1>31, <1>a DEF SaveFails, Walked, TypeOK, Local, entryVars, outVars
  <2>2. InTail(t) /\ InTail(t)' /\ On(t, "rows") /\ ~On(t, "rows")' /\ ~On(t, "project")'
    BY <2>1 DEF On, InTail, Saved
  <2>3. /\ Known' = Known /\ \A j \in Ids : RowOf(j)' = RowOf(j) BY <2>1 DEF Known, RowOf
  <2>4. \A j \in Ids : /\ Current(j)' <=> Current(j)
                       /\ Listed(j)' <=> Listed(j)
                       /\ Stored(j) => Stored(j)'
    BY <1>d, <2>1, <2>3 DEF Current, AtRest, Seen, MainPumps, Running, Listed, Stored
  <2>5. NoRowsLeft BY <1>n, <2>1
  <2>6. x \in Ids /\ Current(x) BY <1>a, <2>2 DEF Tail0
  <2>7. loc'[t].id \in Ids /\ Current(loc[t].id)' BY <2>1, <2>4, <2>6
  <2>8. Filed(t)' BY <2>1 DEF Filed
  <2>9. Tail0(t)' BY <2>2, <2>5, <2>7, <2>8 DEF Tail0
  <2>10. Publishes(t)' BY <2>1, <2>9 DEF Publishes, Mapped, Emits, Holding
  <2>11. \A j \in Ids : ~Late(t, j)' => ~Late(t, j) BY <2>1, <2>2 DEF Late
  <2>12. \A j \in Ids : ~Late(t, j)' => Published(j)' BY <1>c, <2>4, <2>11 DEF Published
  <2> QED BY <2>10, <2>12 DEF DoesItsPart
<1>23. CASE Prune(t)
  <2>1. /\ UNCHANGED <<entries, heap, store, unsaved, view>>
        /\ registry' = [i \in Ids |-> IF entries[i] = None THEN None ELSE registry[i]]
        /\ pc[t] = "project" /\ pc'[t] = "walk" /\ loc'[t].id = x /\ loc'[t].rows = loc[t].rows
        /\ loc'[t].walk = "project" /\ loc'[t].todo = Known
    BY <1>23, <1>a DEF Prune, StartWalk, TypeOK, Local, envVars, entryVars
  <2>2. /\ InTail(t) /\ Saved(t) /\ InTail(t)' /\ ~On(t, "rows") /\ ~On(t, "rows")' /\ On(t, "project")'
        /\ Pending(t)' = Known
    BY <2>1 DEF On, InTail, Saved, Pending
  <2>3. Known' = Known /\ \A j \in Ids : RowOf(j)' = RowOf(j) BY <2>1 DEF Known, RowOf
  <2>4. \A j \in Ids : (Current(j)' <=> Current(j)) /\ (Stored(j)' <=> Stored(j))
    BY <1>d, <2>1, <2>3 DEF Current, AtRest, Seen, MainPumps, Running, Stored
  <2>5. ASSUME NEW j \in Ids, Listed(j) \/ j \notin Known PROVE Listed(j)'
    BY <2>1, <2>3, <2>5 DEF Listed, Known
  <2>6. NoRowsLeft BY <1>n, <2>1, <2>2
  <2>7. x \in Ids /\ Current(x) /\ Filed(t) BY <1>a, <2>2 DEF Tail0
  <2>8. loc'[t].id \in Ids /\ Current(loc[t].id)' /\ (loc'[t].id \notin Pending(t)' => Listed(loc[t].id)')
    BY <2>1, <2>2, <2>4, <2>5, <2>7
  <2>9. loc'[t].todo \subseteq Known' /\ Filed(t)' BY <2>1, <2>3, <2>7 DEF Filed
  <2>10. Tail0(t)' BY <2>2, <2>6, <2>8, <2>9 DEF Tail0
  <2>11. Publishes(t)' BY <2>1, <2>10 DEF Publishes, Mapped, Emits, Holding
  <2>12. \A j \in Ids : ~Late(t, j)' => ~Late(t, j) BY <2>1, <2>2 DEF Late
  <2>13. \A j \in Ids : ~Late(t, j)' => Published(j)' BY <1>c, <2>4, <2>5, <2>12 DEF Published
  <2> QED BY <2>11, <2>13 DEF DoesItsPart
<1>24. CASE Project(t)
  <2> DEFINE k == heap[ref[t]].id
  <2>1. /\ UNCHANGED <<entries, heap, store, unsaved, view>> /\ Visiting(t, "project") /\ loc'[t] = loc[t]
        /\ registry' = [registry EXCEPT ![k] = heap[ref[t]].dir] /\ registry \in [Ids -> Dirs \cup {None}]
    BY <1>24, <1>a DEF Project, Mine, TypeOK, envVars, entryVars
  <2>2. /\ pc[t] = "visit" /\ pc'[t] = "walk" /\ loc[t].walk = "project"
        /\ k \in Known /\ entries[k] = ref[t] /\ k \notin loc[t].todo
    BY <1>v, <2>1
  <2>3. registry'[k] = heap[entries[k]].dir /\ \A j \in Ids \ {k} : registry'[j] = registry[j]
    BY <2>1, <2>2 DEF Known
  <2>4. Pending(t)' = loc[t].todo /\ Pending(t) = loc[t].todo \cup {k} BY <2>1, <2>2 DEF Pending
  <2> HIDE DEF k
  <2>5. /\ InTail(t) /\ Saved(t) /\ On(t, "project") /\ InTail(t)' /\ ~On(t, "rows") /\ ~On(t, "rows")'
    BY <2>1, <2>2 DEF On, InTail, Saved
  <2>6. Known' = Known /\ \A j \in Ids : RowOf(j)' = RowOf(j) BY <2>1 DEF Known, RowOf
  <2>7. \A j \in Ids : (Current(j)' <=> Current(j)) /\ (Stored(j)' <=> Stored(j))
    BY <1>d, <2>1, <2>6 DEF Current, AtRest, Seen, MainPumps, Running, Stored
  <2>8. ASSUME NEW j \in Ids, Listed(j) \/ j = k PROVE Listed(j)'
    BY <2>1, <2>2, <2>3, <2>6, <2>8 DEF Listed
  <2>9. NoRowsLeft BY <1>n, <2>1, <2>5
  <2>10. /\ x \in Ids /\ Current(x) /\ Filed(t)
         /\ loc[t].todo \subseteq Known /\ (x \notin Pending(t) => Listed(x))
    BY <1>a, <2>5 DEF Tail0
  <2>11. loc'[t].id \in Ids /\ Current(loc[t].id)' /\ (loc'[t].id \notin Pending(t)' => Listed(loc[t].id)')
    BY <2>1, <2>4, <2>7, <2>8, <2>10
  <2>12. loc'[t].todo \subseteq Known' /\ Filed(t)' BY <2>1, <2>6, <2>10 DEF Filed
  <2>13. Tail0(t)' BY <2>5, <2>9, <2>11, <2>12 DEF Tail0
  <2>14. Publishes(t)' BY <2>2, <2>13 DEF Publishes, Mapped, Emits, Holding
  <2>15. \A j \in Ids : ~Late(t, j)' => ~Late(t, j) BY <2>1, <2>5 DEF Late
  <2>16. \A j \in Ids : ~Late(t, j)' => Published(j)' BY <1>c, <2>7, <2>8, <2>15 DEF Published
  <2> QED BY <2>14, <2>16 DEF DoesItsPart
<1>25. CASE EndProject(t) \/ EndUninstall(t)
  <2>1. /\ Kept /\ Walked(t, "project") /\ Return(t)
    BY <1>25 DEF EndProject, EndUninstall, envVars, entryVars, outVars
  <2>2. /\ pc[t] = "walk" /\ loc[t].walk = "project" /\ loc[t].todo = {}
        /\ pc'[t] \in {"idle", "restore"} /\ loc'[t].rows = NoRows
    BY <2>1, <1>a DEF Walked, Return, TypeOK, NoLocal
  <2>3. InTail(t) /\ Saved(t) /\ On(t, "project") /\ Pending(t) = {}
    BY <2>2 DEF On, InTail, Saved, Pending
  <2>4. \A i \in Ids : i = x => Stored(i) /\ Listed(i) /\ Current(i) BY <1>a, <2>3 DEF Tail0, Filed, Stored
  <2>5. \A i \in Ids : Late(t, i) => Published(i) BY <2>4 DEF Late, Published
  <2> QED BY <1>n, <1>q, <2>1, <2>2, <2>5
<1>26. CASE NoteLabel(t) \/ ListWindows(t) \/ \E l \in Labels : Reap(t, l)
  <2>1. /\ Kept /\ loc'[t].rows = loc[t].rows
        /\ \/ pc[t] \in {"walk", "visit"} /\ loc[t].walk = "known"
           \/ pc[t] = "reap"
        /\ \/ pc'[t] = "walk" /\ loc'[t].walk = "known"
           \/ pc'[t] = "reap"
    BY <1>26, <1>a DEF NoteLabel, ListWindows, Reap, Visiting, Walked, TypeOK, Local, envVars, entryVars,
       outVars
  <2>2. ~On(t, "rows") /\ ~Changing(t) /\ ~InTail(t) /\ ~Changing(t)' /\ ~InTail(t)'
    BY <2>1 DEF On, InTail, Saved, Changing, Holding
  <2>3. NoRowsLeft BY <1>n, <2>1, <2>2
  <2> QED BY <1>s, <2>1, <2>2, <2>3
<1>30. CASE LoadFails(t)
  <2>1. /\ UNCHANGED <<entries, heap, store, registry, view>> /\ unsaved \subseteq unsaved'
        /\ pc[t] = "reap" /\ pc'[t] = "restore" /\ loc'[t].rows = NoRows
    BY <1>30, <1>a DEF LoadFails, NoLocal, TypeOK, entryVars, outVars
  <2>2. ~On(t, "rows")' /\ ~On(t, "project")' /\ ~Saved(t)' /\ ~InTail(t)' /\ ~InTail(t) /\ ~Changing(t)
    BY <2>1 DEF On, InTail, Saved, Changing, Holding
  <2>3. NoRowsLeft BY <1>n, <2>1
  <2>4. Publishes(t)' BY <2>1, <2>2, <2>3 DEF Publishes, Mapped, Emits, Tail0, Holding
  <2>5. /\ Known' = Known /\ \A j \in Ids : RowOf(j)' = RowOf(j) BY <2>1 DEF Known, RowOf
  <2>6. \A j \in Ids : /\ Current(j)' <=> Current(j)
                       /\ Listed(j)' <=> Listed(j)
                       /\ Stored(j) => Stored(j)'
    BY <1>d, <2>1, <2>5 DEF Current, AtRest, Seen, MainPumps, Running, Listed, Stored
  <2>7. \A j \in Ids : Published(j)' BY <1>c, <2>2, <2>6 DEF Late, Published
  <2> QED BY <2>4, <2>7 DEF DoesItsPart
<1>27. CASE EndSweep(t) \/ LoadStore(t) \/ RestoreDone(t)
  <2>1. /\ Kept /\ pc[t] \in {"reap", "restore"} /\ pc'[t] \in {"restore", "idle"}
        /\ loc'[t].rows \in {NoRows, loc[t].rows}
    BY <1>27, <1>a DEF EndSweep, LoadStore, RestoreDone, Return, NoLocal, TypeOK, envVars, entryVars,
       outVars
  <2>2. ~On(t, "rows") /\ ~Changing(t) /\ ~InTail(t) /\ ~Changing(t)' /\ ~InTail(t)'
    BY <2>1 DEF On, InTail, Saved, Changing, Holding
  <2>3. NoRowsLeft BY <1>n, <2>1, <2>2
  <2> QED BY <1>s, <2>1, <2>2, <2>3
<1>28. ASSUME NEW r \in Ids \X Dirs, RestoreNext(t, r) PROVE DoesItsPart(t)
  <2>1. /\ Kept /\ pc[t] = "restore" /\ pc'[t] = "parse" /\ op'[t] = "install"
        /\ loc'[t].rows = loc[t].rows /\ loc'[t].id = x
    BY <1>28, <1>a DEF RestoreNext, TypeOK, Local, envVars, entryVars, outVars
  <2>2. ~On(t, "rows") /\ ~Changing(t) /\ ~InTail(t) /\ ~InTail(t)' /\ ~On(t, "rows")'
    BY <2>1 DEF On, InTail, Saved, Changing, Holding
  <2>3. NoRowsLeft BY <1>n, <2>1, <2>2
  <2>4. Mapped(t)' BY <2>1 DEF Mapped, Holding
  <2> QED BY <1>h, <2>1, <2>2, <2>3, <2>4
<1>29. ~ShutdownVisit(t) /\ ~ExitDone(t)
  BY <1>a DEF ShutdownVisit, ExitDone, Visiting, Walked, IInv, MainExits
<1> QED
  BY <1>1, <1>2, <1>3, <1>4, <1>5, <1>6, <1>7, <1>8, <1>9, <1>10, <1>11, <1>12, <1>13, <1>14, <1>15,
     <1>16, <1>17, <1>18, <1>19, <1>20, <1>21, <1>22, <1>23, <1>24, <1>25, <1>26, <1>27, <1>28, <1>29,
     <1>30, <1>31 DEF Advance

\* Where calls do not overlap, a call starts when nothing else is under way.
LEMMA NobodyBusy ==
  ASSUME OneAtATime, Alone, Cardinality(Busy) < MaxBusy
  PROVE  \A u \in Procs : pc[u] = "idle"
<1>1. PICK b : Busy \subseteq {b, "main"}
  <2>1. CASE \A u \in Calls : pc[u] = "idle" BY <2>1 DEF Busy, Calls
  <2>2. CASE \E u \in Calls : pc[u] # "idle"
    <3>1. PICK u \in Calls : pc[u] # "idle" BY <2>2
    <3>2. Busy \subseteq {u, "main"} BY <3>1 DEF Busy, Alone, Calls
    <3> QED BY <3>2
  <2> QED BY <2>1, <2>2
<1>2. IsFiniteSet({b, "main"})
  <2>1. IsFiniteSet({b}) BY FS_Singleton
  <2>2. IsFiniteSet({b} \cup {"main"}) BY <2>1, FS_AddElement
  <2>3. {b} \cup {"main"} = {b, "main"} OBVIOUS
  <2> QED BY <2>2, <2>3
<1>3. IsFiniteSet(Busy) BY <1>1, <1>2, FS_Subset
<1>4. Cardinality(Busy) \in Nat BY <1>3, FS_CardinalityType
<1>5. Cardinality(Busy) = 0 BY <1>4, ConstantsAssumption DEF OneAtATime
<1>6. Busy = {} BY <1>3, <1>5, FS_EmptySet
<1> QED BY <1>6 DEF Busy

\* A call or a sweep starts with everything published.
LEMMA StartParts ==
  ASSUME IInv, QInv, OneAtATime, NEW t \in Calls,
         \/ t \in Callers /\ Call(t)
         \/ t \in Sweepers /\ Sweep(t)
  PROVE  /\ pc[t] # "idle" \/ \A u \in Calls : pc[u] = "idle"
         /\ DoesItsPart(t)
<1> USE DEF Goto
<1>a. /\ TypeOK /\ t \in Procs /\ t # "main" /\ loc[t] \in Local /\ Tail0(t) /\ Alone
  BY DEF Calls, IInv, TypeOK, QInv, Publishes
<1>1. \/ \E d \in Dirs : CallInstall(t, d)
      \/ \E i \in Ids, o \in {"uninstall", "disable", "enable", "reload"} : CallOn(t, o, i)
      \/ t \in Sweepers /\ Sweep(t)
  BY DEF Call
<1>2. /\ pc[t] \in {"idle", "sweep"}
      /\ pc[t] = "idle" => \A u \in Procs : pc[u] = "idle"
  <2>1. pc[t] = "sweep" \/ (pc[t] = "idle" /\ Cardinality(Busy) < MaxBusy)
    BY <1>1 DEF CallInstall, CallOn, Sweep, MayCall
  <2> QED BY <1>a, <2>1, NobodyBusy
<1>3. /\ UNCHANGED <<entries, heap, store, unsaved, registry, view>> /\ pc'["main"] = pc["main"]
      /\ loc'[t].rows = loc[t].rows
      /\ \/ pc'[t] = "parse" /\ op'[t] = "install"
         \/ /\ pc'[t] \in {"peek", "lock"} /\ loc'[t].id \in Ids /\ ref'[t] = entries[loc'[t].id]
            /\ op'[t] \in {"uninstall", "disable", "enable", "reload"}
            /\ pc'[t] = "peek" <=> op'[t] = "reload"
         \/ pc'[t] = "walk" /\ loc'[t].walk = "known"
  <2>1. ASSUME NEW d \in Dirs, CallInstall(t, d)
        PROVE  pc'[t] = "parse" /\ op'[t] = "install" /\ loc'[t].rows = loc[t].rows
    BY <1>a, <2>1 DEF CallInstall, TypeOK, Local
  <2>2. ASSUME NEW i \in Ids, NEW o \in {"uninstall", "disable", "enable", "reload"}, CallOn(t, o, i)
        PROVE  /\ pc'[t] \in {"peek", "lock"} /\ loc'[t].id \in Ids /\ ref'[t] = entries[loc'[t].id]
               /\ op'[t] \in {"uninstall", "disable", "enable", "reload"}
               /\ pc'[t] = "peek" <=> op'[t] = "reload"
               /\ loc'[t].rows = loc[t].rows
    BY <1>a, <2>2 DEF CallOn, TypeOK, Local
  <2>3. ASSUME Sweep(t)
        PROVE  pc'[t] = "walk" /\ loc'[t].walk = "known" /\ loc'[t].rows = loc[t].rows
    BY <1>a, <2>3 DEF Sweep, StartWalk, TypeOK, Local
  <2>4. UNCHANGED <<entries, heap, store, unsaved, registry, view>>
    BY <1>1 DEF CallInstall, CallOn, Sweep, envVars, entryVars, outVars
  <2>5. "main" \in Procs \ {t} BY <1>a DEF Procs
  <2>6. Others(t) BY <1>a, StartOrderly DEF Orderly, IInv
  <2>7. pc'["main"] = pc["main"] BY <2>5, <2>6 DEF Others
  <2> QED BY <1>1, <2>1, <2>2, <2>3, <2>4, <2>7
<1>4. /\ ~On(t, "rows") /\ ~On(t, "rows")' /\ ~InTail(t)' /\ ~Saved(t)' /\ ~On(t, "project")'
      /\ ~InTail(t) /\ ~Changing(t)
  BY <1>2, <1>3 DEF On, InTail, Saved, Changing, Holding
<1>5. Mapped(t)' BY <1>3 DEF Mapped, Holding
<1>6. \A i \in Ids : loc'[t].rows[i] = None BY <1>a, <1>3, <1>4 DEF Tail0
<1>7. Publishes(t)' BY <1>3, <1>4, <1>5, <1>6 DEF Publishes, Tail0, Emits
<1>8. pc[t] # "idle" \/ \A u \in Calls : pc[u] = "idle" BY <1>2 DEF Calls
<1>9. \A i \in Ids : ~Late(t, i) => Published(i) BY <1>8, AloneKnows
<1>10. \A i \in Ids : Published(i)' BY <1>3, <1>4, <1>9, SamePublished DEF Late
<1> QED BY <1>7, <1>8, <1>10 DEF DoesItsPart

\* All the main thread does of its own is walk over the entries when it exits.
LEMMA MainAdvances ==
  ASSUME IInv, Advance("main")
  PROVE  (\E i \in Ids : WalkNext("main", i)) \/ ExitDone("main") \/ ShutdownVisit("main")
<1> USE DEF Goto
<1> SUFFICES ASSUME ~\E i \in Ids : WalkNext("main", i), ~ExitDone("main"), ~ShutdownVisit("main")
             PROVE  FALSE
  OBVIOUS
<1>a. /\ TypeOK /\ pc["main"] \in {"idle", "walk", "visit", "exited"}
      /\ pc["main"] \in {"walk", "visit"} => loc["main"].walk = "shutdown"
  BY DEF IInv, MainExits
<1>1. pc["main"] \in {"walk", "visit", "exited"} BY <1>a, AdvanceBusy DEF Procs
<1>2. CASE \/ Peek("main") \/ ParseFails("main") \/ Parse("main") \/ EntryFound("main")
           \/ (\E o \in Objs : EntryAdded("main", o))
           \/ InstallOverRunning("main") \/ InstallOverIdle("main") \/ UninstallLocks("main")
           \/ DisableLocks("main") \/ DisableIdle("main")
           \/ EnableRunning("main") \/ EnableFails("main") \/ EnableLocks("main")
  BY <1>1, <1>2 DEF Peek, ParseFails, Parse, EntryFound, EntryAdded, InstallOverRunning, InstallOverIdle,
     UninstallLocks, DisableLocks, DisableIdle, EnableRunning, EnableFails, EnableLocks, At
<1>3. CASE \/ ReloadStopped("main") \/ DisableStopped("main") \/ UninstallStopped("main")
           \/ Remove("main") \/ Unroot("main") \/ PublishRoot("main") \/ FirstAwait("main") \/ Build("main")
           \/ BuildFails("main") \/ LabelTaken("main") \/ SecondAwait("main") \/ StillTaken("main")
           \/ TakeHandle("main") \/ CommitInstall("main") \/ CommitEnable("main") \/ EmitLate("main")
  BY <1>1, <1>3 DEF ReloadStopped, DisableStopped, UninstallStopped, Remove, Unroot, PublishRoot,
     FirstAwait, Build, BuildFails, LabelTaken, SecondAwait, StillTaken, TakeHandle,
     CommitInstall, CommitEnable, EmitLate, At, TornDown
<1>4. CASE BeginPersist("main") \/ Prune("main") \/ EndSweep("main") \/ RestoreDone("main")
  BY <1>1, <1>4 DEF BeginPersist, Prune, EndSweep, RestoreDone
<1>6. \A l \in Labels : ~Reap("main", l) BY <1>1 DEF Reap
<1>7. \A r \in Ids \X Dirs : ~RestoreNext("main", r) BY <1>1 DEF RestoreNext
<1>8. ~LoadStore("main") /\ ~LoadFails("main") BY <1>1 DEF LoadStore, LoadFails
<1>5. CASE \/ CollectRow("main") \/ Save("main") \/ SaveFails("main") \/ Project("main") \/ EndProject("main")
           \/ EndUninstall("main") \/ NoteLabel("main") \/ ListWindows("main")
  BY <1>a, <1>5 DEF CollectRow, Save, SaveFails, Project, EndProject, EndUninstall, NoteLabel, ListWindows,
     Visiting, Walked
<1> QED BY <1>2, <1>3, <1>4, <1>5, <1>6, <1>7, <1>8 DEF Advance

\* The main thread publishes nothing; it only stops what runs when it exits.
LEMMA MainSteps ==
  ASSUME IInv, Advance("main") \/ ExitRequested
  PROVE  /\ UNCHANGED <<disk, entries, store, unsaved, registry>>
         /\ \A o \in Objs : /\ heap'[o].id = heap[o].id /\ heap'[o].dir = heap[o].dir
                            /\ heap'[o].enabled = heap[o].enabled
<1> USE DEF Goto
<1>a. /\ TypeOK /\ pc["main"] \in {"idle", "walk", "visit", "exited"}
      /\ pc["main"] \in {"walk", "visit"} => loc["main"].walk = "shutdown"
      /\ pc["main"] = "visit" => ref["main"] \in Objs
  BY DEF IInv, MainExits, Wellformed, CallWellformed, Procs
<1>1. CASE ExitRequested \/ (\E i \in Ids : WalkNext("main", i)) \/ ExitDone("main")
  BY <1>1 DEF ExitRequested, WalkNext, ExitDone, envVars, entryVars, outVars
<1>2. CASE ShutdownVisit("main")
  <2>1. UNCHANGED <<disk, entries, store, unsaved, registry>> BY <1>2 DEF ShutdownVisit, envVars
  <2>2. \/ heap' = heap
        \/ heap' = [heap EXCEPT ![ref["main"]] = [heap[ref["main"]] EXCEPT !.st = "stopped", !.hdl = None]]
    BY <1>2 DEF ShutdownVisit, SetEntry, Mine
  <2>3. ref["main"] \in Objs BY <1>2, <1>a DEF ShutdownVisit, Visiting
  <2>4. heap \in [Objs -> Entry] BY <1>a DEF TypeOK
  <2> DEFINE e == [heap[ref["main"]] EXCEPT !.st = "stopped", !.hdl = None]
  <2>5. /\ e.id = heap[ref["main"]].id /\ e.dir = heap[ref["main"]].dir
        /\ e.enabled = heap[ref["main"]].enabled
    BY <2>3, <2>4 DEF Entry
  <2>6. heap' = heap \/ heap' = [heap EXCEPT ![ref["main"]] = e] BY <2>2
  <2> HIDE DEF e
  <2> QED BY <2>1, <2>3, <2>4, <2>5, <2>6
<1> QED BY <1>1, <1>2, MainAdvances

\* So what is published stays published, up to what an exit stops.
LEMMA MainPublishes ==
  ASSUME IInv, QInv, Advance("main") \/ ExitRequested
  PROVE  QInv'
<1>1. Orderly("main") BY AdvanceOrderly, StartOrderly DEF IInv, Procs
<1>2. ~MainPumps' BY <1>1 DEF Orderly, MainPart, MainPumps
<1>3. \A u \in Calls : pc'[u] = pc[u] /\ op'[u] = op[u] /\ ref'[u] = ref[u] /\ loc'[u] = loc[u]
  BY <1>1 DEF Orderly, Others, Calls
<1>4. /\ entries' = entries /\ store' = store /\ unsaved' = unsaved /\ registry' = registry
      /\ \A o \in Objs : /\ heap'[o].id = heap[o].id /\ heap'[o].dir = heap[o].dir
                         /\ heap'[o].enabled = heap[o].enabled
  BY MainSteps
<1>5. Known' = Known /\ \A i \in Known : entries[i] \in Objs BY <1>4 DEF Known, IInv, TypeOK
<1>6. \A i \in Ids : RowOf(i)' = RowOf(i) BY <1>4, <1>5 DEF RowOf
<1>7. \A i \in Ids : Stored(i)' <=> Stored(i) BY <1>4, <1>5, <1>6 DEF Stored
<1>8. \A i \in Ids : Listed(i)' <=> Listed(i) BY <1>4, <1>5 DEF Listed
<1>9. \A i \in Ids : Current(i)' BY <1>2 DEF Current
<1>10. ASSUME NEW u \in Calls PROVE Publishes(u)' /\ \A i \in Ids : Late(u, i)' <=> Late(u, i)
  <2>1. Publishes(u) BY DEF QInv
  <2>2. /\ On(u, "rows")' <=> On(u, "rows")
        /\ On(u, "project")' <=> On(u, "project")
        /\ Saved(u)' <=> Saved(u)
        /\ InTail(u)' <=> InTail(u)
        /\ Changing(u)' <=> Changing(u)
    BY <1>3 DEF On, Saved, InTail, Changing
  <2>3. pc[u] = "visit" => ref[u] \in Objs BY DEF IInv, Wellformed, CallWellformed, Calls
  <2>4. Mapped(u)' BY <1>3, <1>4, <1>5, <2>1, <2>3 DEF Publishes, Mapped
  <2>5. Emits(u)' BY <1>2 DEF Emits
  <2>6. Pending(u)' = Pending(u) BY <1>3, <1>4, <2>3 DEF Pending
  <2>7. InTail(u) => loc[u].id \in Ids /\ Current(loc[u].id)
    BY <2>1 DEF Publishes, Tail0
  <2>8. InTail(u)' => loc'[u].id \in Ids /\ Current(loc[u].id)' BY <1>3, <1>9, <2>2, <2>7
  <2>9. On(u, "project") => loc[u].id \in Ids BY <2>7 DEF InTail, Saved
  <2>10. On(u, "project") => (Listed(loc[u].id)' <=> Listed(loc[u].id)) BY <1>3, <1>8, <2>9
  <2>11. Tail0(u) BY <2>1 DEF Publishes
  <2>12. \A i \in Ids : loc'[u].rows[i] = IF On(u, "rows")' /\ i \notin Pending(u)' THEN RowOf(i)' ELSE None
    BY <1>3, <1>6, <2>2, <2>6, <2>11 DEF Tail0
  <2>13. Saved(u)' => Filed(u)'
    <3>1. Saved(u) => loc[u].id \in Ids /\ Filed(u) BY <2>7, <2>11 DEF Tail0, InTail
    <3> QED BY <1>3, <1>4, <1>6, <2>2, <3>1 DEF Filed
  <2>14. /\ On(u, "project")' => loc'[u].todo \subseteq Known'
         /\ On(u, "project")' /\ loc'[u].id \notin Pending(u)' => Listed(loc[u].id)'
    BY <1>3, <1>5, <2>2, <2>6, <2>10, <2>11 DEF Tail0
  <2>15. Tail0(u)' BY <2>8, <2>12, <2>13, <2>14 DEF Tail0
  <2> QED BY <1>3, <2>2, <2>4, <2>5, <2>15 DEF Publishes, Late
<1>11. Alone' BY <1>3 DEF QInv, Alone
<1>12. \A i \in Ids : (\A u \in Calls : ~Late(u, i)') => Published(i)'
  BY <1>7, <1>8, <1>9, <1>10 DEF QInv, Published
<1> QED BY <1>10, <1>11, <1>12 DEF QInv

\* What does not touch the entries, the processes and what is published changes
\* nothing of it.
LEMMA SameQuiet ==
  ASSUME QInv, UNCHANGED <<entries, heap, store, unsaved, registry, view, pc, op, ref, loc>>
  PROVE  QInv'
BY DEF QInv, Alone, Published, Stored, Listed, Current, AtRest, Seen, RowOf, Known, Running,
   MainPumps, Late, Changing, InTail, Saved, On, Publishes, Mapped, Emits, Tail0, Filed, Pending, Holding

\* A fresh process has published all it knows: nothing.
LEMMA FreshPublished ==
  ASSUME Fresh
  PROVE  QInv
<1>1. /\ \A t \in Procs : /\ pc[t] = IF t = "boot" THEN "sweep" ELSE "idle"
                          /\ loc[t] = NoLocal
      /\ \A i \in Ids : entries[i] = None /\ registry[i] = None /\ view[i] = "absent"
  BY DEF Fresh, FreshPc, Nothing
<1>2. Known = {} BY <1>1 DEF Known
<1>3. Alone BY <1>1 DEF Alone, Calls
<1>4. ASSUME NEW t \in Calls PROVE Publishes(t)
  <2>1. pc[t] \in {"sweep", "idle"} /\ \A i \in Ids : loc[t].rows[i] = None
    BY <1>1 DEF Calls, NoLocal, NoRows
  <2> QED BY <2>1 DEF Publishes, Mapped, Emits, Tail0, On, InTail, Saved, Holding
<1>5. \A i \in Ids : Published(i)
  BY <1>1, <1>2 DEF Published, Stored, Listed, Current, AtRest, Seen
<1> QED BY <1>3, <1>4, <1>5 DEF QInv

\* Every step keeps what is published up to date, where calls do not overlap.
LEMMA QInvStep ==
  ASSUME IInv, QInv, OneAtATime, [Next]_vars
  PROVE  QInv'
<1>1. ASSUME NEW t \in Procs,
             \/ Advance(t)
             \/ t \in Callers /\ Call(t)
             \/ t \in Sweepers /\ Sweep(t)
             \/ t = "main" /\ ExitRequested
      PROVE  QInv'
  <2>1. Others(t) BY <1>1, AdvanceOrderly, StartOrderly DEF IInv, Orderly
  <2>2. CASE t = "main"
    <3>1. "main" \notin Callers \cup Sweepers BY ConstantsAssumption DEF Sweepers
    <3>2. Advance("main") \/ ExitRequested BY <1>1, <2>2, <3>1
    <3> QED BY <3>2, MainPublishes
  <2>3. CASE t # "main" /\ Advance(t)
    <3>1. t \in Calls /\ pc[t] # "idle" BY <2>3, AdvanceBusy DEF Calls
    <3>2. DoesItsPart(t) BY <2>3, <3>1, AdvanceParts
    <3> QED BY <2>1, <3>1, <3>2, OthersIdle
  <2>4. CASE t # "main" /\ ~Advance(t)
    <3>1. t \in Calls /\ ((t \in Callers /\ Call(t)) \/ (t \in Sweepers /\ Sweep(t)))
      BY <1>1, <2>4 DEF Calls
    <3>2. DoesItsPart(t) /\ (pc[t] # "idle" \/ \A u \in Calls : pc[u] = "idle")
      BY <3>1, StartParts
    <3> QED BY <2>1, <3>1, <3>2, OthersIdle
  <2> QED BY <2>2, <2>3, <2>4
<1>2. CASE Environment
  <2>1. UNCHANGED <<entries, heap, store, unsaved, registry, view, pc, op, ref, loc>>
    BY <1>2 DEF Environment, Destroyed, RegisterCalled, RegisterResolved, RegisterServed,
       EditDisk, envVars, entryVars, outVars, procVars
  <2> QED BY <2>1, SameQuiet
<1>3. CASE Restart
  <2>1. Fresh' BY <1>3 DEF Restart, Fresh
  <2>2. (Fresh => QInv)' BY FreshPublished, PTL
  <2> QED BY <2>1, <2>2
<1>4. CASE UNCHANGED vars
  <2>1. UNCHANGED <<entries, heap, store, unsaved, registry, view, pc, op, ref, loc>>
    BY <1>4 DEF vars, envVars, entryVars, outVars, procVars
  <2> QED BY <2>1, SameQuiet
<1> QED BY <1>1, <1>2, <1>3, <1>4, StepKinds

\* So where calls do not overlap, publication is never behind but by the one call.
LEMMA PublishedInvariant == OneAtATime => (Spec => [](IInv /\ QInv))
<1> SUFFICES ASSUME OneAtATime PROVE Spec => [](IInv /\ QInv) OBVIOUS
<1>1. Init => QInv
  <2>1. Init => Fresh BY DEF Init, Fresh
  <2> QED BY <2>1, FreshPublished
<1>2. IInv /\ QInv /\ [Next]_vars => QInv' BY QInvStep
<1> QED BY <1>1, <1>2, IInvInit, IInvStep, PTL DEF Spec

\* When nothing is under way, everything is published.
LEMMA QuietAll ==
  ASSUME QInv, Quiet
  PROVE  MainPumps /\ \A i \in Ids : Published(i)
<1>1. \A t \in Procs : pc[t] = "idle" BY DEF Quiet, Busy
<1>2. MainPumps BY <1>1 DEF MainPumps, Procs
<1>3. \A t \in Calls : \A i \in Ids : ~Late(t, i)
  BY <1>1 DEF Calls, Late, Changing, InTail, Saved, On, Holding
<1> QED BY <1>2, <1>3 DEF QInv

\* Whatever the order of installs, reloads, enables, disables, uninstalls,
\* sweeps, build failures and crashes, an idle manager's state.json has every
\* installed extension's row and the registry exactly their directories.
THEOREM PublishedWhenQuiet == OneAtATime => (Spec => []QuietPublished)
<1> SUFFICES ASSUME OneAtATime PROVE Spec => []QuietPublished OBVIOUS
<1>1. QInv => QuietPublished
  <2> SUFFICES ASSUME QInv, Quiet
               PROVE  /\ \A i \in Known \ unsaved :
                           store[i] = [dir |-> heap[entries[i]].dir, enabled |-> heap[entries[i]].enabled]
                      /\ \A i \in Ids :
                           registry[i] = IF i \in Known THEN heap[entries[i]].dir ELSE None
    BY DEF QuietPublished
  <2>1. \A i \in Ids : Published(i) BY QuietAll
  <2> QED BY <2>1 DEF Published, Stored, Listed, RowOf, Known
<1> QED BY <1>1, PublishedInvariant, PTL

\* ... and whoever followed the lifecycle events knows which extensions run.
THEOREM ViewWhenQuiet == OneAtATime => (Spec => []QuietView)
<1> SUFFICES ASSUME OneAtATime PROVE Spec => []QuietView OBVIOUS
<1>1. QInv => QuietView
  <2> SUFFICES ASSUME QInv, Quiet, NEW i \in Ids
               PROVE  view[i] = "running" <=> i \in Known /\ Running(entries[i])
    BY DEF QuietView
  <2>1. MainPumps /\ Published(i) BY QuietAll
  <2> QED BY <2>1 DEF Published, Current, Seen
<1> QED BY <1>1, PublishedInvariant, PTL

\* Whenever the process dies, the file lacks the last word on one extension at
\* most: a call's save leaves the rows of all the others as they were saved before.
THEOREM OneBehind == OneAtATime => (Spec => []AtMostOneBehind)
<1> SUFFICES ASSUME OneAtATime PROVE Spec => []AtMostOneBehind OBVIOUS
<1>1. QInv => AtMostOneBehind
  <2> SUFFICES ASSUME QInv, NEW i \in Ids \ unsaved, NEW j \in Ids \ unsaved, ~InStep(i), ~InStep(j)
               PROVE  i = j
    BY DEF AtMostOneBehind
  <2>1. \A k \in Ids \ unsaved : ~InStep(k) => ~Published(k)
    BY DEF InStep, Published, Stored, RowOf
  <2>2. PICK t \in Calls : Late(t, i) BY <2>1 DEF QInv
  <2>3. PICK u \in Calls : Late(u, j) BY <2>1 DEF QInv
  <2>4. pc[t] # "idle" /\ pc[u] # "idle"
    BY <2>2, <2>3 DEF Late, Changing, InTail, Saved, On, Holding
  <2>5. t = u BY <2>4 DEF QInv, Alone
  <2> QED BY <2>2, <2>3, <2>5 DEF Late
<1> QED BY <1>1, PublishedInvariant, PTL

-----------------------------------------------------------------------------
(* What was enabled runs again after a boot, where calls do not overlap and  *)
(* the directories keep their manifests.                                     *)

NoEdits == "edit" \notin Ops

\* A directory holds the extension it was installed as.
OfDir(d, i) == disk[d] # None /\ disk[d].id = i
OnDisk ==
  /\ \A o \in Objs : heap[o].id # None => OfDir(heap[o].dir, heap[o].id)
  /\ \A i \in Ids : store[i] # None => OfDir(store[i].dir, i)
Parsed(t) == pc[t] = "entry" \/ (pc[t] = "lock" /\ op[t] \in {"install", "reload"})
Restorer(t) ==
  /\ Parsed(t) => OfDir(loc[t].dir, loc[t].id)
  /\ \A i \in Ids, d \in Dirs : <<i, d>> \in loc[t].restore => OfDir(d, i)
  /\ t \in {"boot", "dog"} => op[t] # "uninstall"
  /\ pc[t] = "restore" => t = "boot"
  /\ t = "boot" /\ pc[t] = "idle" => loc[t].restore = {}

\* An extension whose row is enabled is known, or boot will come to it, or it is
\* being uninstalled; or a failed save left the row behind, or a failed load.
Missing(i) == store[i] # None /\ store[i].enabled /\ i \notin Known \cup unsaved
Sweeps(t)  == pc[t] \in {"sweep", "reap"} \/ On(t, "known")
Awaits(t, i) ==
  \/ Sweeps(t) \/ <<i, store[i].dir>> \in loc[t].restore
  \/ pc[t] = "parse" /\ loc[t].dir = store[i].dir
  \/ pc[t] = "entry" /\ loc[t].id = i
Removes(t, i) == pc[t] # "idle" /\ op[t] = "uninstall" /\ loc[t].id = i
Excused(t, i) == (t = "boot" /\ Awaits(t, i)) \/ Removes(t, i)

RInv == /\ OnDisk /\ \A t \in Calls : Restorer(t)
        /\ \A i \in Ids : Missing(i) => \E t \in Calls : Excused(t, i)

\* A process's step answers for what is missing.
Answers(t) ==
  OnDisk' /\ Restorer(t)' /\ \A i \in Ids : Missing(i)' => Excused(t, i)'

\* Who is alone answers for everything.
LEMMA AloneAnswers ==
  ASSUME QInv, RInv, NEW t \in Calls, pc[t] # "idle" \/ \A u \in Calls : pc[u] = "idle"
  PROVE  \A i \in Ids : Missing(i) => Excused(t, i)
<1> SUFFICES ASSUME NEW i \in Ids, Missing(i) PROVE Excused(t, i) OBVIOUS
<1>1. PICK u \in Calls : Excused(u, i) BY DEF RInv
<1>2. CASE pc[u] = "idle"
  <2>1. u = "boot" /\ Awaits(u, i) BY <1>1, <1>2 DEF Excused, Removes
  <2>2. loc[u].restore = {} BY <1>2, <2>1 DEF RInv, Restorer
  <2> QED BY <1>2, <2>1, <2>2 DEF Awaits, Sweeps, On
<1>3. CASE pc[u] # "idle" BY <1>1, <1>3 DEF QInv, Alone
<1> QED BY <1>2, <1>3

\* What the process in flight answers for, the others need not.
LEMMA OthersAnswered ==
  ASSUME QInv, RInv, NEW t \in Calls, Others(t), UNCHANGED disk, Answers(t)
  PROVE  RInv'
<1>1. ASSUME NEW u \in Calls \ {t} PROVE Restorer(u)'
  <2>1. pc'[u] = pc[u] /\ op'[u] = op[u] /\ loc'[u] = loc[u] BY DEF Others, Calls
  <2>2. Restorer(u) BY DEF RInv
  <2> QED BY <2>1, <2>2 DEF Restorer, Parsed, OfDir
<1> QED BY <1>1 DEF Answers, RInv

\* A step of a process under way loses no enabled row it does not answer for:
\* boot still has it on its list or in its hands, or the row is being uninstalled.
LEMMA AdvanceAnswers ==
  ASSUME IInv, QInv, RInv, NEW t \in Calls, Advance(t)
  PROVE  UNCHANGED disk /\ Answers(t)
<1> USE DEF Goto
<1> DEFINE x == loc[t].id
<1>a. /\ TypeOK /\ t \in Procs /\ t # "main" /\ CallWellformed(t) /\ loc[t] \in Local
      /\ Mapped(t) /\ Tail0(t) /\ Restorer(t) /\ OnDisk
  BY DEF Calls, IInv, TypeOK, Wellformed, QInv, RInv, Publishes
<1>b. \A i \in Ids : Missing(i) => Excused(t, i)
  <2>1. pc[t] # "idle" BY <1>a, AdvanceBusy
  <2> QED BY <2>1, AloneAnswers
\* Nothing is found or lost.
<1>p. ASSUME UNCHANGED <<disk, entries, store, unsaved>>, op'[t] = op[t],
             \A o \in Objs : heap'[o].id = heap[o].id /\ heap'[o].dir = heap[o].dir,
             op[t] = "uninstall" => loc'[t].id = x, loc'[t].restore = loc[t].restore,
             pc[t] \notin {"parse", "entry"}, pc'[t] \notin {"entry", "lock", "idle", "restore"},
             Sweeps(t) => Sweeps(t)'
      PROVE  UNCHANGED disk /\ Answers(t)
  <2>1. OnDisk' BY <1>a, <1>p DEF OnDisk, OfDir
  <2>2. Restorer(t)' BY <1>a, <1>p DEF Restorer, Parsed, OfDir
  <2>3. \A i \in Ids : Missing(i)' => Missing(i) BY <1>p DEF Missing, Known
  <2>4. ASSUME NEW i \in Ids, Excused(t, i) PROVE Excused(t, i)'
    BY <1>p, <2>4 DEF Excused, Awaits, Removes
  <2> QED BY <1>b, <1>p, <2>1, <2>2, <2>3, <2>4 DEF Answers
\* A call returns with nothing missing but what boot has still on its list.
<1>r. ASSUME Return(t), UNCHANGED <<disk, entries, store, unsaved>>,
             \A o \in Objs : heap'[o].id = heap[o].id /\ heap'[o].dir = heap[o].dir,
             \A i \in Ids : Missing(i) => t = "boot" /\ <<i, store[i].dir>> \in loc[t].restore
      PROVE  UNCHANGED disk /\ Answers(t)
  <2>1. /\ pc'[t] = IF t = "boot" THEN "restore" ELSE "idle"
        /\ op'[t] = "none" /\ loc'[t].restore = loc[t].restore
    BY <1>a, <1>r DEF Return, TypeOK, NoLocal
  <2>2. OnDisk' BY <1>a, <1>r DEF OnDisk, OfDir
  <2>3. Restorer(t)' BY <1>a, <1>r, <2>1 DEF Restorer, Parsed, OfDir
  <2>4. \A i \in Ids : Missing(i)' => Missing(i) BY <1>r DEF Missing, Known
  <2>5. ASSUME NEW i \in Ids, Missing(i)' PROVE Excused(t, i)'
    BY <1>r, <2>1, <2>4, <2>5 DEF Excused, Awaits
  <2> QED BY <1>r, <2>2, <2>3, <2>5 DEF Answers
\* An entry that changes otherwise keeps its extension and its directory.
<1>f. ASSUME NEW e, ref[t] \in Objs, heap' = [heap EXCEPT ![ref[t]] = e],
             e.id = heap[ref[t]].id, e.dir = heap[ref[t]].dir
      PROVE  \A o \in Objs : heap'[o].id = heap[o].id /\ heap'[o].dir = heap[o].dir
  BY <1>a, <1>f DEF TypeOK
<1>1. CASE UninstallLocks(t) \/ DisableLocks(t) \/ DisableIdle(t) \/ ReloadStopped(t)
           \/ DisableStopped(t) \/ CommitInstall(t) \/ CommitEnable(t)
  <2>1. /\ UNCHANGED <<disk, entries, store, unsaved>> /\ op'[t] = op[t] /\ pc[t] \in {"lock", "teardown", "commit"}
        /\ pc'[t] \in {"teardown", "root", "emit", "persist"}
        /\ loc'[t].id = x /\ loc'[t].restore = loc[t].restore
    BY <1>1, <1>a DEF UninstallLocks, DisableLocks, DisableIdle, ReloadStopped, DisableStopped,
       CommitInstall, CommitEnable, At, TornDown, TypeOK, Local, envVars
  <2>2. ref[t] \in Objs /\ heap[ref[t]] \in Entry
    BY <1>a, <2>1 DEF CallWellformed, Holding, TypeOK
  <2>4. \A o \in Objs : heap'[o].id = heap[o].id /\ heap'[o].dir = heap[o].dir
    <3>1. CASE UninstallLocks(t)
      <4> DEFINE e == [heap[ref[t]] EXCEPT !.st = "uninstalling", !.hdl = None]
      <4>1. heap' = [heap EXCEPT ![ref[t]] = e] BY <3>1 DEF UninstallLocks, SetEntry, Mine
      <4>2. e.id = heap[ref[t]].id /\ e.dir = heap[ref[t]].dir BY <2>2 DEF Entry
      <4> HIDE DEF e
      <4> QED BY <1>f, <2>2, <4>1, <4>2
    <3>2. CASE DisableLocks(t)
      <4> DEFINE e == [heap[ref[t]] EXCEPT !.st = "stopping", !.hdl = None]
      <4>1. heap' = [heap EXCEPT ![ref[t]] = e] BY <3>2 DEF DisableLocks, SetEntry, Mine
      <4>2. e.id = heap[ref[t]].id /\ e.dir = heap[ref[t]].dir BY <2>2 DEF Entry
      <4> HIDE DEF e
      <4> QED BY <1>f, <2>2, <4>1, <4>2
    <3>3. CASE DisableIdle(t)
      <4> DEFINE e == [heap[ref[t]] EXCEPT !.enabled = FALSE]
      <4>1. heap' = [heap EXCEPT ![ref[t]] = e] BY <3>3 DEF DisableIdle, SetEntry, Mine
      <4>2. e.id = heap[ref[t]].id /\ e.dir = heap[ref[t]].dir BY <2>2 DEF Entry
      <4> HIDE DEF e
      <4> QED BY <1>f, <2>2, <4>1, <4>2
    <3>4. CASE ReloadStopped(t)
      <4> DEFINE e == [heap[ref[t]] EXCEPT !.st = "stopped"]
      <4>1. heap' = [heap EXCEPT ![ref[t]] = e] BY <3>4 DEF ReloadStopped, SetEntry, Mine
      <4>2. e.id = heap[ref[t]].id /\ e.dir = heap[ref[t]].dir BY <2>2 DEF Entry
      <4> HIDE DEF e
      <4> QED BY <1>f, <2>2, <4>1, <4>2
    <3>5. CASE DisableStopped(t)
      <4> DEFINE e == [heap[ref[t]] EXCEPT !.st = "stopped", !.enabled = FALSE]
      <4>1. heap' = [heap EXCEPT ![ref[t]] = e] BY <3>5 DEF DisableStopped, SetEntry, Mine
      <4>2. e.id = heap[ref[t]].id /\ e.dir = heap[ref[t]].dir BY <2>2 DEF Entry
      <4> HIDE DEF e
      <4> QED BY <1>f, <2>2, <4>1, <4>2
    <3>6. CASE CommitInstall(t) \/ CommitEnable(t)
      <4> DEFINE e == [heap[ref[t]] EXCEPT !.st = "running", !.hdl = loc[t].hdl, !.enabled = TRUE]
      <4>1. heap' = [heap EXCEPT ![ref[t]] = e] BY <3>6 DEF CommitInstall, CommitEnable, SetEntry, Mine
      <4>2. e.id = heap[ref[t]].id /\ e.dir = heap[ref[t]].dir BY <2>2 DEF Entry
      <4> HIDE DEF e
      <4> QED BY <1>f, <2>2, <4>1, <4>2
    <3> QED BY <1>1, <3>1, <3>2, <3>3, <3>4, <3>5, <3>6
  <2>5. ~Sweeps(t) BY <2>1 DEF Sweeps, On
  <2> QED BY <1>p, <2>1, <2>4, <2>5
<1>2. CASE \/ Peek(t) \/ EnableLocks(t) \/ UninstallStopped(t) \/ Unroot(t) \/ PublishRoot(t)
           \/ FirstAwait(t) \/ Build(t) \/ BuildFails(t) \/ LabelTaken(t) \/ SecondAwait(t)
           \/ StillTaken(t) \/ TakeHandle(t) \/ EmitLate(t)
  <2>1. UNCHANGED <<disk, entries, store, unsaved, heap, op>>
    BY <1>2 DEF Peek, EnableLocks, UninstallStopped, Unroot, PublishRoot, FirstAwait, Build,
       BuildFails, LabelTaken, SecondAwait, StillTaken, TakeHandle, EmitLate,
       envVars, entryVars, outVars
  <2>2. /\ pc[t] \in {"peek", "lock", "teardown", "unroot", "emit"} \cup Holding
        /\ pc'[t] \in {"parse", "root", "remove", "persist"} \cup Holding
    <3>1. pc \in [Procs -> Steps] BY <1>a DEF TypeOK
    <3> QED BY <1>2, <1>a, <3>1 DEF Peek, EnableLocks, UninstallStopped, Unroot, PublishRoot, FirstAwait, Build,
       BuildFails, LabelTaken, SecondAwait, StillTaken, TakeHandle, EmitLate,
       At, TornDown, Holding
  <2>3. loc'[t].restore = loc[t].restore /\ (pc[t] # "peek" => loc'[t].id = x)
    <3>1. CASE \/ UninstallStopped(t) \/ Unroot(t) \/ FirstAwait(t) \/ Build(t) \/ BuildFails(t)
               \/ LabelTaken(t) \/ StillTaken(t) \/ EmitLate(t)
      BY <3>1 DEF UninstallStopped, Unroot, FirstAwait, Build, BuildFails, LabelTaken, StillTaken, EmitLate
    <3>2. loc \in [Procs -> Local] BY <1>a DEF TypeOK
    <3>3. CASE Peek(t)
      <4>1. loc'[t] = [loc[t] EXCEPT !.dir = Mine(t).dir, !.id = None] /\ pc[t] = "peek"
        BY <1>a, <3>2, <3>3 DEF Peek
      <4> QED BY <1>a, <4>1 DEF Local
    <3>5. CASE EnableLocks(t)
      <4>1. loc'[t] = [loc[t] EXCEPT !.dir = Mine(t).dir, !.sw = disk[Mine(t).dir].sw]
        BY <1>a, <3>2, <3>5 DEF EnableLocks
      <4> QED BY <1>a, <4>1 DEF Local
    <3>4. CASE PublishRoot(t) \/ SecondAwait(t) \/ TakeHandle(t)
      BY <1>a, <3>2, <3>4 DEF PublishRoot, SecondAwait, TakeHandle, Local
    <3> QED BY <1>2, <3>1, <3>3, <3>4, <3>5
  <2>4. op[t] = "uninstall" => loc'[t].id = x BY <1>a, <2>2, <2>3 DEF Mapped
  <2>5. ~Sweeps(t) /\ pc[t] \notin {"parse", "entry"} /\ pc'[t] \notin {"entry", "lock", "idle", "restore"}
    BY <2>2 DEF Sweeps, On, Holding
  <2> QED BY <1>p, <2>1, <2>3, <2>4, <2>5
<1>3. CASE BeginPersist(t) \/ CollectRow(t) \/ Prune(t) \/ Project(t) \/ NoteLabel(t) \/ ListWindows(t)
  <2>1. UNCHANGED <<disk, entries, store, unsaved, heap, op>>
    BY <1>3 DEF BeginPersist, CollectRow, Prune, Project, NoteLabel, ListWindows,
       envVars, entryVars, outVars
  <2>2. pc[t] \in {"persist", "project", "walk", "visit"} /\ pc'[t] \in {"walk", "reap"}
    <3>1. pc \in [Procs -> Steps] BY <1>a DEF TypeOK
    <3> QED BY <1>3, <1>a, <3>1 DEF BeginPersist, CollectRow, Prune, Project, NoteLabel, ListWindows,
       StartWalk, Visiting, Walked
  <2>3. /\ loc'[t].restore = loc[t].restore /\ loc'[t].id = x
        /\ pc[t] \in {"walk", "visit"} => loc'[t].walk = loc[t].walk
    <3>1. loc \in [Procs -> Local] BY <1>a DEF TypeOK
    <3>2. CASE BeginPersist(t) \/ Prune(t)
      <4>1. PICK k \in {"rows", "project"} : loc' = [loc EXCEPT ![t] = [loc[t] EXCEPT !.walk = k, !.todo = Known]]
        BY <3>2 DEF BeginPersist, Prune, StartWalk
      <4>2. loc'[t] = [loc[t] EXCEPT !.walk = k, !.todo = Known] BY <1>a, <3>1, <4>1
      <4>3. pc[t] \notin {"walk", "visit"} BY <3>2 DEF BeginPersist, Prune
      <4> QED BY <1>a, <4>2, <4>3 DEF Local
    <3>3. CASE CollectRow(t) BY <1>a, <3>1, <3>3 DEF CollectRow, Local
    <3>4. CASE Project(t) BY <3>4 DEF Project
    <3>5. CASE NoteLabel(t) BY <1>a, <3>1, <3>5 DEF NoteLabel, Local
    <3>6. CASE ListWindows(t) BY <1>a, <3>1, <3>6 DEF ListWindows, Local
    <3> QED BY <1>3, <3>2, <3>3, <3>4, <3>5, <3>6
  <2>4. Sweeps(t) => Sweeps(t)' BY <2>2, <2>3 DEF Sweeps, On
  <2> QED BY <1>p, <2>1, <2>2, <2>3, <2>4
<1>4. ASSUME NEW i \in Ids, WalkNext(t, i) PROVE UNCHANGED disk /\ Answers(t)
  <2>1. /\ UNCHANGED <<disk, entries, store, unsaved, heap>> /\ op'[t] = op[t] /\ pc[t] = "walk"
        /\ pc'[t] \in {"walk", "visit"} /\ loc'[t].restore = loc[t].restore /\ loc'[t].id = x
        /\ loc'[t].walk = loc[t].walk
    BY <1>4, <1>a DEF WalkNext, TypeOK, Local, envVars, entryVars
  <2>2. Sweeps(t) => Sweeps(t)' BY <2>1 DEF Sweeps, On
  <2> QED BY <1>p, <2>1, <2>2
<1>5. ASSUME NEW l \in Labels, Reap(t, l) PROVE UNCHANGED disk /\ Answers(t)
  <2>1. /\ UNCHANGED <<disk, entries, store, unsaved, heap>> /\ op'[t] = op[t] /\ pc[t] = "reap"
        /\ pc'[t] = "reap" /\ loc'[t].restore = loc[t].restore /\ loc'[t].id = x
    BY <1>5, <1>a DEF Reap, TypeOK, Local, envVars, entryVars
  <2>2. Sweeps(t) => Sweeps(t)' BY <2>1 DEF Sweeps
  <2> QED BY <1>p, <2>1, <2>2
\* What the map and the state file keep stays as it is on disk, and missing.
<1>k. ASSUME UNCHANGED <<disk, entries, store, unsaved, heap>>
      PROVE  OnDisk' /\ \A i \in Ids : Missing(i)' => Missing(i) /\ Excused(t, i) /\ store'[i] = store[i]
  BY <1>a, <1>b, <1>k DEF OnDisk, OfDir, Missing, Known
<1>6. CASE ParseFails(t)
  <2>1. Return(t) /\ UNCHANGED <<disk, entries, store, unsaved, heap>> /\ pc[t] = "parse" /\ disk[loc[t].dir] = None
    BY <1>6 DEF ParseFails, envVars, entryVars
  <2>2. op[t] # "uninstall" BY <1>a, <2>1 DEF Mapped
  <2>3. ~Sweeps(t) BY <2>1 DEF Sweeps, On
  <2>4. \A i \in Ids : Missing(i) => t = "boot" /\ <<i, store[i].dir>> \in loc[t].restore
    BY <1>a, <1>b, <2>1, <2>2, <2>3 DEF Excused, Removes, Awaits, Missing, OnDisk, OfDir
  <2> QED BY <1>r, <2>1, <2>4
<1>7. CASE Parse(t)
  <2>1. /\ UNCHANGED <<disk, entries, store, unsaved, heap>> /\ pc[t] = "parse" /\ pc'[t] = "entry" /\ op'[t] = op[t]
        /\ disk[loc[t].dir] # None
        /\ loc' = [loc EXCEPT ![t] = [loc[t] EXCEPT !.id = disk[loc[t].dir].id, !.sw = disk[loc[t].dir].sw]]
    BY <1>7, <1>a DEF Parse, TypeOK, envVars, entryVars
  <2>2. loc'[t] = [loc[t] EXCEPT !.id = disk[loc[t].dir].id, !.sw = disk[loc[t].dir].sw]
    BY <1>a, <2>1 DEF TypeOK
  <2>3. loc'[t].id = disk[loc[t].dir].id /\ loc'[t].dir = loc[t].dir /\ loc'[t].restore = loc[t].restore
    BY <1>a, <2>2 DEF Local
  <2>4. op[t] # "uninstall" BY <1>a, <2>1 DEF Mapped
  <2>5. ~Sweeps(t) BY <2>1 DEF Sweeps, On
  <2>6. Restorer(t)' BY <1>a, <2>1, <2>3 DEF Restorer, Parsed, OfDir
  <2>7. ASSUME NEW i \in Ids, Missing(i)' PROVE Excused(t, i)'
    <3>1. Missing(i) /\ Excused(t, i) /\ store'[i] = store[i] BY <1>k, <2>1, <2>7
    <3>2. t = "boot" /\ Awaits(t, i) BY <2>4, <3>1 DEF Excused, Removes
    <3>3. disk[store[i].dir].id = i BY <1>a, <3>1 DEF Missing, OnDisk, OfDir
    <3>4. \/ <<i, store'[i].dir>> \in loc'[t].restore
          \/ loc'[t].id = i
      BY <2>1, <2>3, <2>5, <3>1, <3>2, <3>3 DEF Awaits
    <3> QED BY <2>1, <3>2, <3>4 DEF Excused, Awaits
  <2> QED BY <1>k, <2>1, <2>6, <2>7 DEF Answers
<1>8. CASE EntryFound(t)
  <2>1. /\ UNCHANGED <<disk, entries, store, unsaved, heap>> /\ pc[t] = "entry" /\ pc'[t] = "lock" /\ op'[t] = op[t]
        /\ loc'[t] = loc[t] /\ entries[x] # None
    BY <1>8, <1>a DEF EntryFound, TypeOK, envVars, entryVars
  <2>2. op[t] # "uninstall" BY <1>a, <2>1 DEF Mapped
  <2>3. ~Sweeps(t) BY <2>1 DEF Sweeps, On
  <2>4. Restorer(t)' BY <1>a, <2>1 DEF Restorer, Parsed, OfDir
  <2>5. ASSUME NEW i \in Ids, Missing(i)' PROVE Excused(t, i)'
    <3>1. Missing(i) /\ Excused(t, i) /\ store'[i] = store[i] BY <1>k, <2>1, <2>5
    <3>2. i # x BY <2>1, <3>1 DEF Missing, Known
    <3> QED BY <2>1, <2>2, <2>3, <3>1, <3>2 DEF Excused, Removes, Awaits
  <2> QED BY <1>k, <2>1, <2>4, <2>5 DEF Answers
<1>9. ASSUME NEW o \in Objs, EntryAdded(t, o) PROVE UNCHANGED disk /\ Answers(t)
  <2>1. /\ UNCHANGED <<disk, store, unsaved>> /\ pc[t] = "entry" /\ pc'[t] = "lock" /\ op'[t] = op[t]
        /\ loc'[t] = loc[t] /\ entries' = [entries EXCEPT ![x] = o]
        /\ heap' = [heap EXCEPT ![o] = [Unused EXCEPT !.id = x, !.dir = loc[t].dir]]
    BY <1>9, <1>a DEF EntryAdded, TypeOK, envVars
  <2>2. /\ heap'[o].id = x /\ heap'[o].dir = loc[t].dir
        /\ \A y \in Objs \ {o} : heap'[y] = heap[y]
    BY <1>a, <2>1 DEF TypeOK, Unused
  <2>3. OfDir(loc[t].dir, x) BY <1>a, <2>1 DEF Restorer, Parsed
  <2>4. OnDisk' BY <1>a, <2>1, <2>2, <2>3 DEF OnDisk, OfDir
  <2>5. x \in Ids /\ op[t] # "uninstall" /\ ~Sweeps(t)
    BY <1>a, <2>1 DEF CallWellformed, Mapped, Sweeps, On
  <2>6. Restorer(t)' BY <1>a, <2>1 DEF Restorer, Parsed, OfDir
  <2>7. ASSUME NEW i \in Ids, Missing(i)' PROVE Excused(t, i)'
    <3>1. entries'[i] = None /\ o # None BY <2>7, ConstantsAssumption DEF Missing, Known
    <3>2. entries[i] = None /\ i # x BY <1>a, <2>1, <2>5, <3>1 DEF TypeOK
    <3>3. Missing(i) /\ store'[i] = store[i] BY <2>1, <2>7, <3>2 DEF Missing, Known
    <3>4. Excused(t, i) BY <1>b, <3>3
    <3> QED BY <2>1, <2>5, <3>2, <3>3, <3>4 DEF Excused, Removes, Awaits
  <2> QED BY <2>1, <2>4, <2>6, <2>7 DEF Answers
<1>10. CASE InstallOverRunning(t) \/ InstallOverIdle(t)
  <2>1. /\ UNCHANGED <<disk, store, unsaved, entries>> /\ pc[t] = "lock" /\ pc'[t] \in {"teardown", "root"}
        /\ op[t] \in {"install", "reload"} /\ op'[t] = op[t]
    BY <1>10, <1>a DEF InstallOverRunning, InstallOverIdle, At, TypeOK, envVars
  <2>2. loc'[t].restore = loc[t].restore
    BY <1>10, <1>a DEF InstallOverRunning, InstallOverIdle, TypeOK, Local
  <2>3. ref[t] \in Objs /\ heap[ref[t]] \in Entry /\ x \in Ids /\ entries[x] = ref[t]
    BY <1>a, <2>1 DEF CallWellformed, Mapped, TypeOK
  <2>4. heap[ref[t]].id = x BY <2>3, ConstantsAssumption DEF IInv, Wellformed
  <2>5. /\ heap'[ref[t]].id = x /\ heap'[ref[t]].dir = loc[t].dir
        /\ \A y \in Objs \ {ref[t]} : heap'[y] = heap[y]
    <3>1. CASE InstallOverRunning(t)
      <4> DEFINE e == [heap[ref[t]] EXCEPT !.dir = loc[t].dir, !.st = "stopping", !.hdl = None]
      <4>1. heap' = [heap EXCEPT ![ref[t]] = e] BY <3>1 DEF InstallOverRunning, SetEntry, Mine
      <4>2. e.id = x /\ e.dir = loc[t].dir BY <2>3, <2>4 DEF Entry
      <4> HIDE DEF e
      <4> QED BY <1>a, <2>3, <4>1, <4>2 DEF TypeOK
    <3>2. CASE InstallOverIdle(t)
      <4> DEFINE e == [heap[ref[t]] EXCEPT !.dir = loc[t].dir]
      <4>1. heap' = [heap EXCEPT ![ref[t]] = e] BY <3>2 DEF InstallOverIdle, SetEntry, Mine
      <4>2. e.id = x /\ e.dir = loc[t].dir BY <2>3, <2>4 DEF Entry
      <4> HIDE DEF e
      <4> QED BY <1>a, <2>3, <4>1, <4>2 DEF TypeOK
    <3> QED BY <1>10, <3>1, <3>2
  <2>6. OfDir(loc[t].dir, x) BY <1>a, <2>1 DEF Restorer, Parsed
  <2>7. OnDisk' BY <1>a, <2>1, <2>3, <2>5, <2>6 DEF OnDisk, OfDir
  <2>8. Restorer(t)' BY <1>a, <2>1, <2>2 DEF Restorer, Parsed, OfDir
  <2>9. ~Sweeps(t) BY <2>1 DEF Sweeps, On
  <2>10. \A i \in Ids : Missing(i)' => Missing(i) BY <2>1 DEF Missing, Known
  <2>11. ASSUME NEW i \in Ids, Missing(i)' PROVE Excused(t, i)'
    <3>1. Excused(t, i) BY <1>b, <2>10, <2>11
    <3> QED BY <2>1, <2>2, <2>9, <3>1 DEF Excused, Removes, Awaits
  <2> QED BY <2>1, <2>7, <2>8, <2>11 DEF Answers
<1>11. CASE EnableRunning(t) \/ EnableFails(t)
  <2>1. Return(t) /\ UNCHANGED <<disk, entries, store, unsaved>> /\ pc[t] = "lock" /\ op[t] = "enable"
    BY <1>11 DEF EnableRunning, EnableFails, At, envVars, entryVars
  <2>2. ref[t] \in Objs /\ heap[ref[t]] \in Entry BY <1>a, <2>1 DEF CallWellformed, TypeOK
  <2>3. \A o \in Objs : heap'[o].id = heap[o].id /\ heap'[o].dir = heap[o].dir
    <3>1. CASE EnableRunning(t)
      <4> DEFINE e == [heap[ref[t]] EXCEPT !.enabled = TRUE]
      <4>1. heap' = [heap EXCEPT ![ref[t]] = e] BY <3>1 DEF EnableRunning, SetEntry, Mine
      <4>2. e.id = heap[ref[t]].id /\ e.dir = heap[ref[t]].dir BY <2>2 DEF Entry
      <4> HIDE DEF e
      <4> QED BY <1>f, <2>2, <4>1, <4>2
    <3>2. CASE EnableFails(t) BY <3>2 DEF EnableFails, entryVars
    <3> QED BY <1>11, <3>1, <3>2
  <2>4. ~Sweeps(t) BY <2>1 DEF Sweeps, On
  <2>5. \A i \in Ids : Missing(i) => t = "boot" /\ <<i, store[i].dir>> \in loc[t].restore
    BY <1>b, <2>1, <2>4 DEF Excused, Removes, Awaits
  <2> QED BY <1>r, <2>1, <2>3, <2>5
<1>12. CASE Remove(t)
  <2>1. /\ UNCHANGED <<disk, store, unsaved, heap>> /\ pc[t] = "remove" /\ pc'[t] = "unroot" /\ op'[t] = op[t]
        /\ loc'[t] = loc[t] /\ entries' = [entries EXCEPT ![x] = None]
    BY <1>12, <1>a DEF Remove, TypeOK, envVars
  <2>2. op[t] = "uninstall" /\ t # "boot" BY <1>a, <2>1 DEF Mapped, Restorer
  <2>3. OnDisk' BY <1>a, <2>1 DEF OnDisk, OfDir
  <2>4. Restorer(t)' BY <1>a, <2>1 DEF Restorer, Parsed, OfDir
  <2>5. ASSUME NEW i \in Ids, Missing(i)' PROVE i = x
    <3>1. SUFFICES ASSUME i # x PROVE FALSE OBVIOUS
    <3>2. Missing(i) BY <1>a, <2>1, <2>5, <3>1 DEF Missing, Known, TypeOK
    <3> QED BY <1>b, <2>2, <3>1, <3>2 DEF Excused, Removes
  <2>6. \A i \in Ids : Missing(i)' => Excused(t, i)' BY <2>1, <2>2, <2>5 DEF Excused, Removes
  <2> QED BY <2>1, <2>3, <2>4, <2>6 DEF Answers
<1>13. CASE Save(t)
  <2>1. /\ UNCHANGED <<disk, entries, heap>> /\ store' = loc[t].rows
        /\ pc[t] = "walk" /\ loc[t].walk = "rows" /\ loc[t].todo = {} /\ pc'[t] = "project"
        /\ op'[t] = op[t] /\ loc'[t].restore = loc[t].restore
    BY <1>13, <1>a DEF Save, Walked, TypeOK, Local, entryVars
  <2>2. On(t, "rows") /\ Pending(t) = {} BY <2>1 DEF On, Pending
  <2>3. \A i \in Ids : store'[i] = RowOf(i) BY <1>a, <2>1, <2>2 DEF Tail0
  <2>4. ASSUME NEW i \in Ids, store'[i] # None PROVE i \in Known /\ OfDir(store'[i].dir, i)
    <3>0. i \in Known BY <2>3, <2>4 DEF RowOf
    <3> DEFINE w == [dir |-> heap[entries[i]].dir, enabled |-> heap[entries[i]].enabled]
    <3>4. RowOf(i) = w BY <3>0 DEF RowOf
    <3>5. store'[i] = w BY <2>3, <3>4
    <3>1. i \in Known /\ store'[i].dir = heap[entries[i]].dir BY <3>0, <3>5
    <3>2. entries[i] \in Objs /\ heap[entries[i]].id = i
      BY <1>a, <3>1 DEF IInv, Wellformed, Known, TypeOK
    <3>3. i # None BY ConstantsAssumption
    <3> QED BY <1>a, <3>1, <3>2, <3>3 DEF OnDisk
  <2>5. OnDisk' BY <1>a, <2>1, <2>4 DEF OnDisk, OfDir
  <2>6. Restorer(t)' BY <1>a, <2>1 DEF Restorer, Parsed, OfDir
  <2>7. \A i \in Ids : ~Missing(i)' BY <2>1, <2>4 DEF Missing, Known
  <2> QED BY <2>1, <2>5, <2>6, <2>7 DEF Answers
<1>14. CASE EndProject(t) \/ EndUninstall(t)
  <2>1. /\ Return(t) /\ UNCHANGED <<disk, entries, store, unsaved, heap>>
        /\ pc[t] = "walk" /\ loc[t].walk = "project"
    BY <1>14 DEF EndProject, EndUninstall, Walked, envVars, entryVars
  <2>2. Filed(t) BY <1>a, <2>1 DEF Tail0, Saved, On
  <2>3. ~Sweeps(t) BY <2>1 DEF Sweeps, On
  <2>4. ASSUME NEW i \in Ids, Missing(i) PROVE t = "boot" /\ <<i, store[i].dir>> \in loc[t].restore
    <3>1. ~Removes(t, i) BY <2>2, <2>4 DEF Removes, Filed, Missing, RowOf
    <3> QED BY <1>b, <2>1, <2>3, <2>4, <3>1 DEF Excused, Awaits
  <2> QED BY <1>r, <2>1, <2>4
<1>20. CASE SaveFails(t)
  <2>1. /\ UNCHANGED <<disk, entries, store, heap>> /\ unsaved \subseteq unsaved'
        /\ pc[t] = "walk" /\ loc[t].walk = "rows" /\ pc'[t] = "project"
        /\ op'[t] = op[t] /\ loc'[t].id = x /\ loc'[t].restore = loc[t].restore
    BY <1>20, <1>a DEF SaveFails, Walked, TypeOK, Local, entryVars
  <2>2. OnDisk' BY <1>a, <2>1 DEF OnDisk, OfDir
  <2>3. Restorer(t)' BY <1>a, <2>1 DEF Restorer, Parsed, OfDir
  <2>4. ~Sweeps(t) BY <2>1 DEF Sweeps, On
  <2>5. ASSUME NEW i \in Ids, Missing(i)' PROVE Excused(t, i)'
    <3>1. Missing(i) BY <2>1, <2>5 DEF Missing, Known
    <3> QED BY <1>b, <2>1, <2>4, <3>1 DEF Excused, Awaits, Removes
  <2> QED BY <2>1, <2>2, <2>3, <2>5 DEF Answers
<1>15. CASE EndSweep(t)
  <2>1. Return(t) /\ UNCHANGED <<disk, entries, store, unsaved, heap>> /\ t = "dog"
    BY <1>15 DEF EndSweep, envVars, entryVars
  <2>2. \A i \in Ids : ~Missing(i) BY <1>a, <1>b, <2>1 DEF Excused, Removes, Restorer
  <2> QED BY <1>r, <2>1, <2>2
<1>16. CASE LoadStore(t)
  <2> DEFINE todo == {<<i, store[i].dir>> : i \in {j \in Ids : store[j] # None /\ store[j].enabled}}
  <2>1. /\ UNCHANGED <<disk, entries, store, unsaved, heap>> /\ t = "boot" /\ pc'[t] = "restore" /\ op'[t] = op[t]
        /\ loc' = [loc EXCEPT ![t] = [NoLocal EXCEPT !.restore = todo]]
    BY <1>16, <1>a DEF LoadStore, TypeOK, envVars, entryVars
  <2>2. loc'[t].restore = todo BY <1>a, <2>1 DEF NoLocal, TypeOK
  <2>3. \A i \in Ids, d \in Dirs : <<i, d>> \in todo => OfDir(d, i) BY <1>a DEF OnDisk
  <2>4. \A i \in Ids : Missing(i) => <<i, store[i].dir>> \in todo BY DEF Missing
  <2> HIDE DEF todo
  <2>5. Restorer(t)' BY <1>a, <2>1, <2>2, <2>3 DEF Restorer, Parsed, OfDir
  <2>6. ASSUME NEW i \in Ids, Missing(i)' PROVE Excused(t, i)'
    <3>1. Missing(i) /\ store'[i] = store[i] BY <1>k, <2>1, <2>6
    <3> QED BY <2>1, <2>2, <2>4, <3>1 DEF Excused, Awaits
  <2> QED BY <1>k, <2>1, <2>5, <2>6 DEF Answers
<1>21. CASE LoadFails(t)
  <2>1. /\ UNCHANGED <<disk, entries, store, heap>> /\ t = "boot" /\ pc'[t] = "restore" /\ op'[t] = op[t]
        /\ unsaved' = unsaved \cup {i \in Ids : store[i] # None} /\ loc' = [loc EXCEPT ![t] = NoLocal]
    BY <1>21, <1>a DEF LoadFails, TypeOK, entryVars
  <2>2. loc'[t].restore = {} BY <1>a, <2>1 DEF NoLocal, TypeOK
  <2>3. OnDisk' BY <1>a, <2>1 DEF OnDisk, OfDir
  <2>4. Restorer(t)' BY <1>a, <2>1, <2>2 DEF Restorer, Parsed, OfDir
  <2>5. \A i \in Ids : ~Missing(i)' BY <2>1 DEF Missing
  <2> QED BY <2>1, <2>3, <2>4, <2>5 DEF Answers
<1>17. ASSUME NEW r \in Ids \X Dirs, RestoreNext(t, r) PROVE UNCHANGED disk /\ Answers(t)
  <2>1. /\ UNCHANGED <<disk, entries, store, unsaved, heap>> /\ pc[t] = "restore" /\ pc'[t] = "parse" /\ op'[t] = "install"
        /\ loc' = [loc EXCEPT ![t] = [loc[t] EXCEPT !.dir = r[2], !.restore = loc[t].restore \ {r}]]
    BY <1>17, <1>a DEF RestoreNext, TypeOK, envVars, entryVars
  <2>2. loc'[t] = [loc[t] EXCEPT !.dir = r[2], !.restore = loc[t].restore \ {r}] BY <1>a, <2>1 DEF TypeOK
  <2>3. loc'[t].dir = r[2] /\ loc'[t].restore = loc[t].restore \ {r} BY <1>a, <2>2 DEF Local
  <2>4. t = "boot" /\ op[t] # "uninstall" /\ ~Sweeps(t) BY <1>a, <2>1 DEF Restorer, Sweeps, On
  <2>5. Restorer(t)' BY <1>a, <2>1, <2>3 DEF Restorer, Parsed, OfDir
  <2>6. ASSUME NEW i \in Ids, Missing(i)' PROVE Excused(t, i)'
    <3>1. Missing(i) /\ Excused(t, i) /\ store'[i] = store[i] BY <1>k, <2>1, <2>6
    <3>2. <<i, store[i].dir>> \in loc[t].restore
      BY <2>1, <2>4, <3>1 DEF Excused, Removes, Awaits
    <3>3. CASE r = <<i, store[i].dir>>
      BY <2>1, <2>3, <2>4, <3>1, <3>3 DEF Excused, Awaits
    <3>4. CASE r # <<i, store[i].dir>>
      BY <2>1, <2>3, <2>4, <3>1, <3>2, <3>4 DEF Excused, Awaits
    <3> QED BY <3>3, <3>4
  <2> QED BY <1>k, <2>1, <2>5, <2>6 DEF Answers
<1>18. CASE RestoreDone(t)
  <2>1. /\ UNCHANGED <<disk, entries, store, unsaved, heap>> /\ pc[t] = "restore" /\ loc[t].restore = {}
        /\ pc'[t] = "idle" /\ op'[t] = "none" /\ loc'[t] = loc[t]
    BY <1>18, <1>a DEF RestoreDone, TypeOK, envVars, entryVars
  <2>2. t = "boot" /\ op[t] # "uninstall" /\ ~Sweeps(t) BY <1>a, <2>1 DEF Restorer, Sweeps, On
  <2>3. \A i \in Ids : ~Missing(i) BY <1>b, <2>1, <2>2 DEF Excused, Removes, Awaits
  <2>4. Restorer(t)' BY <1>a, <2>1 DEF Restorer, Parsed, OfDir
  <2> QED BY <1>k, <2>1, <2>3, <2>4 DEF Answers
<1>19. ~ShutdownVisit(t) /\ ~ExitDone(t)
  BY <1>a DEF ShutdownVisit, ExitDone, Visiting, Walked, IInv, MainExits
<1> QED
  BY <1>1, <1>2, <1>3, <1>4, <1>5, <1>6, <1>7, <1>8, <1>9, <1>10, <1>11, <1>12, <1>13, <1>14, <1>15,
     <1>16, <1>17, <1>18, <1>19, <1>20, <1>21
     DEF Advance

\* A call or a sweep starts with nothing missing but what boot will find.
LEMMA StartAnswers ==
  ASSUME IInv, QInv, RInv, OneAtATime, NEW t \in Calls,
         \/ t \in Callers /\ Call(t)
         \/ t \in Sweepers /\ Sweep(t)
  PROVE  UNCHANGED disk /\ Answers(t)
<1> USE DEF Goto
<1>a. /\ TypeOK /\ t \in Procs /\ loc[t] \in Local /\ OnDisk /\ Restorer(t) /\ Alone
  BY DEF Calls, IInv, TypeOK, QInv, RInv
<1>b. \A i \in Ids : Missing(i) => Excused(t, i)
  BY StartParts, AloneAnswers
<1>1. \/ t \in Callers /\ \E d \in Dirs : CallInstall(t, d)
      \/ t \in Callers /\ \E i \in Ids, o \in {"uninstall", "disable", "enable", "reload"} : CallOn(t, o, i)
      \/ t \in Sweepers /\ Sweep(t)
  BY DEF Call
<1>2. UNCHANGED <<disk, entries, store, unsaved, heap>>
  BY <1>1 DEF CallInstall, CallOn, Sweep, envVars, entryVars
<1>3. OnDisk' /\ \A i \in Ids : Missing(i)' => Missing(i)
  BY <1>a, <1>2 DEF OnDisk, OfDir, Missing, Known
<1>4. CASE t \in Callers
  <2>1. t \notin Sweepers /\ t # "boot" BY <1>4, ConstantsAssumption DEF Sweepers
  <2>2. pc[t] = "idle" BY <1>1, <2>1 DEF CallInstall, CallOn, MayCall
  <2>3. \A i \in Ids : ~Missing(i) BY <1>b, <2>1, <2>2 DEF Excused, Removes
  <2>4. /\ \/ pc'[t] = "parse"
           \/ pc'[t] \in {"lock", "peek"} /\ op'[t] \in {"uninstall", "disable", "enable", "reload"}
        /\ pc'[t] = "lock" => op'[t] # "reload"
    <3>1. ASSUME NEW d \in Dirs, CallInstall(t, d) PROVE pc'[t] = "parse"
      BY <1>a, <3>1 DEF CallInstall, TypeOK
    <3>2. ASSUME NEW i \in Ids, NEW o \in {"uninstall", "disable", "enable", "reload"}, CallOn(t, o, i)
          PROVE  /\ pc'[t] \in {"lock", "peek"} /\ op'[t] \in {"uninstall", "disable", "enable", "reload"}
                 /\ pc'[t] = "lock" => op'[t] # "reload"
      BY <1>a, <3>2 DEF CallOn, TypeOK
    <3> QED BY <1>1, <2>1, <3>1, <3>2
  <2>5. loc'[t].restore = loc[t].restore
    BY <1>a, <1>1, <2>1 DEF CallInstall, CallOn, TypeOK, Local
  <2>6. Restorer(t)' BY <1>a, <1>2, <2>1, <2>4, <2>5 DEF Restorer, Parsed, OfDir, Sweepers
  <2> QED BY <1>2, <1>3, <2>3, <2>6 DEF Answers
<1>5. CASE t \notin Callers
  <2>a. Sweep(t) BY <1>1, <1>5
  <2>b. loc' = [loc EXCEPT ![t] = [loc[t] EXCEPT !.walk = "known", !.todo = Known]]
    BY <2>a DEF Sweep, StartWalk
  <2>c. loc'[t] = [loc[t] EXCEPT !.walk = "known", !.todo = Known] BY <1>a, <2>b DEF TypeOK
  <2>d. loc'[t].walk = "known" /\ loc'[t].restore = loc[t].restore BY <1>a, <2>c DEF Local
  <2>e. pc'[t] = "walk" BY <1>a, <2>a DEF Sweep, StartWalk, TypeOK
  <2>f. op'[t] \in {op[t], "sweep"} BY <1>a, <2>a DEF Sweep, TypeOK
  <2>1. /\ pc'[t] = "walk" /\ loc'[t].walk = "known" /\ loc'[t].restore = loc[t].restore
        /\ op'[t] \in {op[t], "sweep"}
    BY <2>d, <2>e, <2>f
  <2>2. Restorer(t)' BY <1>a, <1>2, <2>1 DEF Restorer, Parsed, OfDir
  <2>3. ASSUME NEW i \in Ids, Missing(i) PROVE Excused(t, i)'
    <3>1. Excused(t, i) BY <1>b, <2>3
    <3>2. t \in {"boot", "dog"} BY <1>1, <1>5 DEF Sweepers
    <3>3. t = "boot" BY <1>a, <3>1, <3>2 DEF Excused, Removes, Restorer
    <3> QED BY <2>1, <3>3 DEF Excused, Awaits, Sweeps, On
  <2> QED BY <1>2, <1>3, <2>2, <2>3 DEF Answers
<1> QED BY <1>4, <1>5

\* What changes no map entry, no row and no directory loses nothing.
LEMMA SameRestored ==
  ASSUME RInv, UNCHANGED <<disk, entries, store, unsaved>>,
         \A o \in Objs : heap'[o].id = heap[o].id /\ heap'[o].dir = heap[o].dir,
         \A u \in Calls : pc'[u] = pc[u] /\ op'[u] = op[u] /\ loc'[u] = loc[u]
  PROVE  RInv'
<1>1. OnDisk' BY DEF RInv, OnDisk, OfDir
<1>2. \A u \in Calls : Restorer(u)' BY DEF RInv, Restorer, Parsed, OfDir
<1>3. \A i \in Ids : Missing(i)' => Missing(i) BY DEF Missing, Known
<1>4. \A i \in Ids, u \in Calls : Excused(u, i) => Excused(u, i)'
  BY DEF Excused, Awaits, Removes, Sweeps, On
<1> QED BY <1>1, <1>2, <1>3, <1>4 DEF RInv

\* A fresh process has boot to look at every row of the file.
LEMMA FreshRestored ==
  ASSUME Fresh, \A i \in Ids : store[i] # None => OfDir(store[i].dir, i)
  PROVE  RInv
<1>1. \A t \in Procs : /\ pc[t] = IF t = "boot" THEN "sweep" ELSE "idle"
                       /\ op[t] = IF t = "boot" THEN "boot" ELSE "none"
                       /\ loc[t] = NoLocal
  BY DEF Fresh, FreshPc, FreshOp
<1>2. OnDisk BY DEF OnDisk, Fresh, Unused
<1>3. \A t \in Calls : Restorer(t) BY <1>1 DEF Restorer, Parsed, Calls, NoLocal
<1>4. "boot" \in Calls BY DEF Calls, Procs
<1>5. \A i \in Ids : Excused("boot", i) BY <1>1, <1>4 DEF Excused, Awaits, Sweeps, Calls
<1> QED BY <1>2, <1>3, <1>4, <1>5 DEF RInv

\* Only a save writes the state file.
LEMMA OnlySaves ==
  ASSUME NEW t \in Procs,
         \/ Advance(t)
         \/ t \in Callers /\ Call(t)
         \/ t \in Sweepers /\ Sweep(t)
         \/ t = "main" /\ ExitRequested
  PROVE  Save(t) \/ UNCHANGED store
<1>1. ASSUME \/ Peek(t) \/ ParseFails(t) \/ Parse(t) \/ EntryFound(t)
             \/ InstallOverRunning(t) \/ InstallOverIdle(t) \/ UninstallLocks(t)
             \/ DisableLocks(t) \/ DisableIdle(t)
             \/ EnableRunning(t) \/ EnableFails(t) \/ EnableLocks(t)
      PROVE  UNCHANGED store
  BY <1>1 DEF Peek, ParseFails, Parse, EntryFound, InstallOverRunning, InstallOverIdle,
     UninstallLocks, DisableLocks, DisableIdle, EnableRunning, EnableFails, EnableLocks, envVars
<1>2. ASSUME \/ ReloadStopped(t) \/ DisableStopped(t) \/ UninstallStopped(t)
             \/ Remove(t) \/ Unroot(t) \/ PublishRoot(t) \/ FirstAwait(t) \/ Build(t)
             \/ BuildFails(t) \/ LabelTaken(t) \/ SecondAwait(t) \/ StillTaken(t)
             \/ TakeHandle(t) \/ CommitInstall(t) \/ CommitEnable(t) \/ EmitLate(t)
      PROVE  UNCHANGED store
  BY <1>2 DEF ReloadStopped, DisableStopped, UninstallStopped, Remove, Unroot, PublishRoot,
     FirstAwait, Build, BuildFails, LabelTaken, SecondAwait, StillTaken, TakeHandle,
     CommitInstall, CommitEnable, EmitLate, envVars
<1>3. ASSUME \/ BeginPersist(t) \/ CollectRow(t) \/ Prune(t) \/ Project(t)
             \/ EndProject(t) \/ EndUninstall(t) \/ NoteLabel(t) \/ ListWindows(t)
             \/ EndSweep(t) \/ LoadStore(t) \/ LoadFails(t) \/ RestoreDone(t) \/ SaveFails(t)
             \/ ShutdownVisit(t) \/ ExitDone(t)
      PROVE  UNCHANGED store
  BY <1>3 DEF BeginPersist, CollectRow, Prune, Project, EndProject, EndUninstall, NoteLabel,
     ListWindows, EndSweep, LoadStore, LoadFails, RestoreDone, SaveFails, ShutdownVisit, ExitDone, envVars
<1>4. \A o \in Objs : EntryAdded(t, o) => UNCHANGED store BY DEF EntryAdded, envVars
<1>5. \A i \in Ids : WalkNext(t, i) => UNCHANGED store BY DEF WalkNext, envVars
<1>6. \A l \in Labels : Reap(t, l) => UNCHANGED store BY DEF Reap, envVars
<1>7. \A r \in Ids \X Dirs : RestoreNext(t, r) => UNCHANGED store BY DEF RestoreNext, envVars
<1>8. Call(t) \/ Sweep(t) \/ ExitRequested => UNCHANGED store
  BY DEF Call, CallInstall, CallOn, Sweep, ExitRequested, envVars
<1> QED BY <1>1, <1>2, <1>3, <1>4, <1>5, <1>6, <1>7, <1>8 DEF Advance

\* Every step keeps each missing enabled row answered for.
LEMMA RInvStep ==
  ASSUME IInv, QInv, RInv, OneAtATime, NoEdits, [Next]_vars
  PROVE  RInv'
<1>1. ASSUME NEW t \in Procs,
             \/ Advance(t)
             \/ t \in Callers /\ Call(t)
             \/ t \in Sweepers /\ Sweep(t)
             \/ t = "main" /\ ExitRequested
      PROVE  RInv'
  <2>1. Others(t) BY <1>1, AdvanceOrderly, StartOrderly DEF IInv, Orderly
  <2>2. CASE t = "main"
    <3>1. "main" \notin Callers \cup Sweepers BY ConstantsAssumption DEF Sweepers
    <3>2. Advance("main") \/ ExitRequested BY <1>1, <2>2, <3>1
    <3>3. /\ UNCHANGED <<entries, store, unsaved>>
          /\ \A o \in Objs : heap'[o].id = heap[o].id /\ heap'[o].dir = heap[o].dir
      BY <3>2, MainSteps
    <3>4. UNCHANGED disk BY <3>2, MainSteps
    <3> QED BY <2>1, <2>2, <3>3, <3>4, SameRestored DEF Others, Calls
  <2>3. CASE t # "main" /\ Advance(t)
    <3>1. t \in Calls BY <2>3 DEF Calls
    <3> QED BY <2>1, <2>3, <3>1, AdvanceAnswers, OthersAnswered
  <2>4. CASE t # "main" /\ ~Advance(t)
    <3>1. t \in Calls /\ ((t \in Callers /\ Call(t)) \/ (t \in Sweepers /\ Sweep(t)))
      BY <1>1, <2>4 DEF Calls
    <3> QED BY <2>1, <3>1, StartAnswers, OthersAnswered
  <2> QED BY <2>2, <2>3, <2>4
<1>2. CASE Environment
  <2>1. UNCHANGED <<entries, heap, store, unsaved, pc, op, ref, loc>>
    BY <1>2 DEF Environment, Destroyed, RegisterCalled, RegisterResolved, RegisterServed,
       EditDisk, envVars, entryVars, outVars, procVars
  <2>2. UNCHANGED disk
    BY <1>2 DEF Environment, Destroyed, RegisterCalled, RegisterResolved, RegisterServed,
       EditDisk, envVars, NoEdits
  <2> QED BY <2>1, <2>2, SameRestored
<1>3. CASE Restart
  <2>1. Fresh' BY <1>3 DEF Restart, Fresh
  <2>2. (\A i \in Ids : store[i] # None => OfDir(store[i].dir, i))'
    BY <1>3 DEF Restart, envVars, RInv, OnDisk, OfDir
  <2>3. (Fresh /\ (\A i \in Ids : store[i] # None => OfDir(store[i].dir, i)) => RInv)'
    BY FreshRestored, PTL
  <2> QED BY <2>1, <2>2, <2>3
<1>4. CASE UNCHANGED vars
  <2>1. UNCHANGED <<disk, entries, heap, store, unsaved, pc, op, ref, loc>>
    BY <1>4 DEF vars, envVars, entryVars, procVars
  <2> QED BY <2>1, SameRestored
<1> QED BY <1>1, <1>2, <1>3, <1>4, StepKinds

\* So a missing enabled row is always answered for, where directories keep their manifests.
LEMMA RestoredInvariant == OneAtATime /\ NoEdits => (Spec => [](IInv /\ QInv /\ RInv))
<1> SUFFICES ASSUME OneAtATime, NoEdits PROVE Spec => [](IInv /\ QInv /\ RInv) OBVIOUS
<1>1. Init => QInv /\ RInv
  <2> SUFFICES ASSUME Init PROVE QInv /\ RInv OBVIOUS
  <2>1. Fresh BY DEF Init, Fresh
  <2>2. \A i \in Ids : store[i] # None => OfDir(store[i].dir, i) BY DEF Init, NoRows
  <2> QED BY <2>1, <2>2, FreshPublished, FreshRestored
<1>2. IInv /\ QInv /\ RInv /\ [Next]_vars => QInv' /\ RInv' BY QInvStep, RInvStep
<1> QED BY <1>1, <1>2, IInvInit, IInvStep, PTL DEF Spec

\* When boot is over, after any number of crashes and exits at any step, every
\* extension whose row in state.json is enabled is installed and runs.
THEOREM RestoredWhenQuiet == OneAtATime /\ NoEdits => (Spec => []QuietRestored)
<1> SUFFICES ASSUME OneAtATime, NoEdits PROVE Spec => []QuietRestored OBVIOUS
<1>1. QInv /\ RInv => QuietRestored
  <2> SUFFICES ASSUME QInv, RInv, Quiet, NEW i \in Ids \ unsaved, store[i] # None, store[i].enabled
               PROVE  i \in Known /\ Running(entries[i])
    BY DEF QuietRestored
  <2>1. MainPumps /\ Published(i) BY QuietAll
  <2>2. \A t \in Calls : pc[t] = "idle" BY DEF Quiet, Busy, Calls
  <2>3. "boot" \in Calls BY DEF Calls, Procs
  <2>4. i \in Known
    <3>1. ~Excused("boot", i) BY <2>2, <2>3, AloneAnswers, QuietAll DEF RInv, Restorer, Excused, Awaits, Removes, Sweeps, On
    <3> QED BY <2>2, <2>3, <3>1, AloneAnswers DEF Missing
  <2>5. store[i] = RowOf(i) /\ AtRest(i) BY <2>1, <2>4 DEF Published, Stored, Current
  <2> DEFINE w == [dir |-> heap[entries[i]].dir, enabled |-> heap[entries[i]].enabled]
  <2>6. store[i].enabled = heap[entries[i]].enabled
    <3>1. entries[i] # None BY <2>4 DEF Known
    <3>2. RowOf(i) = w BY <2>4 DEF RowOf
    <3>3. w.enabled = heap[entries[i]].enabled OBVIOUS
    <3> HIDE DEF w
    <3> QED BY <2>5, <3>2, <3>3
  <2> QED BY <2>4, <2>5, <2>6 DEF AtRest, Running
<1> QED BY <1>1, RestoredInvariant, PTL

\* A save never drops the enabled row of an extension that is neither being
\* uninstalled nor still on boot's list: what crashes half-way through a boot
\* is tried again by the next one.
THEOREM KeepsEnabled == OneAtATime /\ NoEdits => (Spec => StoreKeepsEnabled)
<1> SUFFICES ASSUME OneAtATime, NoEdits PROVE Spec => StoreKeepsEnabled OBVIOUS
<1> DEFINE Kept ==
      \A i \in Ids : store[i] # None /\ store'[i] = None /\ store[i].enabled =>
        \/ \E t \in Procs : op[t] = "uninstall" /\ loc[t].id = i
        \/ \E d \in Dirs : <<i, d>> \in loc["boot"].restore
        \/ i \in unsaved
<1>1. IInv /\ QInv /\ RInv /\ [Next]_vars => Kept
  <2> SUFFICES ASSUME IInv, QInv, RInv, [Next]_vars, NEW i \in Ids,
                      store[i] # None, store'[i] = None, store[i].enabled, i \notin unsaved
               PROVE  \/ \E t \in Procs : op[t] = "uninstall" /\ loc[t].id = i
                      \/ \E d \in Dirs : <<i, d>> \in loc["boot"].restore
    OBVIOUS
  <2>1. PICK t \in Procs : Save(t)
    <3>1. ASSUME NEW t \in Procs,
                 \/ Advance(t)
                 \/ t \in Callers /\ Call(t)
                 \/ t \in Sweepers /\ Sweep(t)
                 \/ t = "main" /\ ExitRequested
          PROVE  Save(t) \/ UNCHANGED store
      BY <3>1, OnlySaves
    <3>2. Environment \/ Restart \/ UNCHANGED vars => UNCHANGED store
      BY DEF Environment, Destroyed, RegisterCalled, RegisterResolved, RegisterServed, EditDisk,
         Restart, vars, envVars
    <3> QED BY <3>1, <3>2, StepKinds
  <2>2. /\ store' = loc[t].rows /\ pc[t] = "walk" /\ loc[t].walk = "rows" /\ loc[t].todo = {}
    BY <2>1 DEF Save, Walked
  <2>3. t \in Calls BY <2>2 DEF IInv, MainExits, Calls
  <2>4. On(t, "rows") /\ Pending(t) = {} BY <2>2 DEF On, Pending
  <2>5. store'[i] = RowOf(i) BY <2>2, <2>3, <2>4 DEF QInv, Publishes, Tail0
  <2>6. i \notin Known
    <3> SUFFICES ASSUME i \in Known PROVE FALSE OBVIOUS
    <3> DEFINE w == [dir |-> heap[entries[i]].dir, enabled |-> heap[entries[i]].enabled]
    <3>1. entries[i] \in Objs /\ entries[i] # None BY DEF IInv, TypeOK, Known
    <3>2. heap[entries[i]].id = i /\ i # None BY <3>1, ConstantsAssumption DEF IInv, Wellformed
    <3>3. heap[entries[i]] # Unused BY <3>2 DEF Unused
    <3>4. heap[entries[i]].dir \in Dirs /\ heap[entries[i]].enabled \in BOOLEAN
      BY <3>1, <3>2, <3>3 DEF IInv, Wellformed, EntryWellformed, TypeOK, Entry
    <3>5. w # None BY <3>4, ConstantsAssumption
    <3>6. RowOf(i) = w BY DEF RowOf
    <3> HIDE DEF w
    <3> QED BY <2>5, <3>5, <3>6
  <2>7. Excused(t, i) BY <2>2, <2>3, <2>6, AloneAnswers DEF Missing
  <2>8. CASE Removes(t, i) BY <2>8 DEF Removes
  <2>9. CASE t = "boot" /\ Awaits(t, i)
    <3>1. <<i, store[i].dir>> \in loc["boot"].restore BY <2>2, <2>9 DEF Awaits, Sweeps, On
    <3>2. store[i].dir \in Dirs BY DEF IInv, TypeOK, Rows, Row
    <3> QED BY <3>1, <3>2
  <2> QED BY <2>7, <2>8, <2>9 DEF Excused
<1>2. IInv /\ QInv /\ RInv /\ [Next]_vars => [Kept]_vars BY <1>1
<1> QED BY <1>2, RestoredInvariant, PTL DEF Spec, StoreKeepsEnabled, Kept

-----------------------------------------------------------------------------
(* The windows of running entries once more, now with uninstalls, sweeps and *)
(* exits, where calls do not overlap: what the manager's health check finds. *)

\* Requested closes finish within the ceilings and no two ids share a label.
CloseInTime  == ~SlowClose
LabelsDiffer == \A i, j \in Ids : LabelOf[i] = LabelOf[j] => i = j

\* Only a running entry has a worker, in the window of its id; and the map has it.
OwnWorker(o) ==
  /\ Running(o) => entries[heap[o].id] = o
  /\ heap[o].hdl # None => Running(o) /\ heap[o].hdl = LabelOf[heap[o].id]
  /\ heap[o].hdl # None => win[heap[o].hdl].st = "open"

\* A spawn finds its label free at once, and has a window until it commits.
Spawns(t) ==
  /\ pc[t] \notin {"await2", "build2", "adopt"}
  /\ pc[t] \in {"await1", "build1"} => loc[t].hdl = None
  /\ pc[t] = "built" => win[LabelFor(t)].st = "open"
  /\ pc[t] = "commit" /\ loc[t].hdl # None =>
       loc[t].hdl = LabelFor(t) /\ win[LabelFor(t)].st = "open"
\* A teardown has asked for the close, and a removed entry does not run.
TearsDown(t) ==
  /\ pc[t] = "teardown" /\ loc[t].hdl # None => win[loc[t].hdl].st # "open"
  /\ pc[t] = "remove" /\ loc[t].id \in Known => ~Running(entries[loc[t].id])
\* A sweep has the labels of the entries it visited, and reaps none of them.
Spares(t) ==
  /\ On(t, "known") => \A o \in Objs :
       heap[o].hdl # None => heap[o].id \in Pending(t) \/ heap[o].hdl \in loc[t].labels
  /\ pc[t] = "reap" => \A o \in Objs : heap[o].hdl # None => heap[o].hdl \notin loc[t].labels
Tends(t) == Spawns(t) /\ TearsDown(t) /\ Spares(t)

\* A window that is there is some running entry's, or a call is at it.
Attends(t, l) == Spawner(l, t) \/ (pc[t] = "teardown" /\ loc[t].hdl = l)
Attended(l) == (\E o \in Objs : heap[o].hdl = l) \/ \E t \in Calls : Attends(t, l)

HInv == /\ \A o \in Objs : OwnWorker(o)
        /\ \A t \in Calls : Tends(t)
        /\ MainPumps => \A l \in Labels : Free(l) \/ Attended(l)

\* What a step of the one process in flight leaves is in order if its windows are.
Tidy(t) == /\ \A o \in Objs : OwnWorker(o)'
           /\ Tends(t)'
           /\ MainPumps' => \A l \in Labels :
                Free(l)' \/ (\E o \in Objs : heap'[o].hdl = l) \/ Attends(t, l)'

\* Where calls do not overlap, the others have nothing to answer for.
LEMMA OthersTidy ==
  ASSUME QInv, NEW t \in Calls, pc[t] # "idle" \/ \A u \in Calls : pc[u] = "idle",
         Others(t), Tidy(t)
  PROVE  HInv'
<1>1. \A u \in Calls \ {t} : pc'[u] = "idle" BY AloneKnows DEF Others, Calls
<1>2. \A u \in Calls \ {t} : Tends(u)'
  BY <1>1 DEF Tends, Spawns, TearsDown, Spares, On
<1>3. MainPumps' => \A l \in Labels : Free(l)' \/ Attended(l)' BY DEF Tidy, Attended
<1> QED BY <1>2, <1>3 DEF HInv, Tidy

\* A call is at the entry the map has for its id.
LEMMA OwnEntry ==
  ASSUME IInv, QInv, NEW t \in Calls, pc[t] \in {"peek", "lock"} \cup Holding
  PROVE  /\ ref[t] \in Objs /\ loc[t].id \in Ids /\ heap[ref[t]].id = loc[t].id
         /\ entries[loc[t].id] = ref[t]
<1>1. ref[t] \in Objs /\ loc[t].id \in Ids
  BY DEF Calls, IInv, Wellformed, CallWellformed
<1>2. entries[loc[t].id] = ref[t] BY DEF QInv, Publishes, Mapped
<1> QED BY <1>1, <1>2, ConstantsAssumption DEF IInv, Wellformed

\* The holder of an entry's mutex finds no worker in it.
LEMMA HeldHasNoWorker ==
  ASSUME IInv, HInv, NEW t \in Calls, pc[t] \in Holding, ref[t] \in Objs
  PROVE  ~Running(ref[t]) /\ heap[ref[t]].hdl = None
<1>1. lock[ref[t]] = t BY DEF Calls, IInv, MutexDiscipline
<1>2. t # None BY ConstantsAssumption DEF Calls
<1>3. ~Running(ref[t]) BY <1>1, <1>2 DEF IInv, MutexDiscipline
<1> QED BY <1>3 DEF HInv, OwnWorker

\* A worker's label is its entry's alone.
LEMMA OneWorker ==
  ASSUME IInv, HInv, LabelsDiffer, NEW o \in Objs, heap[o].hdl # None
  PROVE  /\ heap[o].hdl = LabelOf[heap[o].id] /\ heap[o].id \in Ids
         /\ entries[heap[o].id] = o /\ heap[o].hdl \in Labels
         /\ \A i \in Ids : LabelOf[i] = heap[o].hdl => i = heap[o].id
         /\ \A x \in Objs : heap[x].hdl = heap[o].hdl => x = o
<1>1. ASSUME NEW x \in Objs, heap[x].hdl # None
      PROVE  /\ heap[x].hdl = LabelOf[heap[x].id] /\ heap[x].id \in Ids
             /\ entries[heap[x].id] = x /\ heap[x].hdl \in Labels
  <2>1. Running(x) /\ heap[x].hdl = LabelOf[heap[x].id] /\ entries[heap[x].id] = x
    BY <1>1 DEF HInv, OwnWorker
  <2>2. heap[x] # Unused BY <2>1 DEF Running, Unused
  <2>3. heap[x].id # None BY <2>2 DEF IInv, Wellformed, EntryWellformed
  <2>4. heap[x] \in Entry BY DEF IInv, TypeOK
  <2> QED BY <1>1, <2>1, <2>3, <2>4 DEF Entry
<1>2. \A i \in Ids : LabelOf[i] = heap[o].hdl => i = heap[o].id BY <1>1 DEF LabelsDiffer
<1>3. ASSUME NEW x \in Objs, heap[x].hdl = heap[o].hdl PROVE x = o
  <2>1. heap[x].id \in Ids /\ LabelOf[heap[x].id] = heap[o].hdl /\ entries[heap[x].id] = x
    BY <1>1, <1>3
  <2>2. heap[x].id = heap[o].id BY <1>2, <2>1
  <2> QED BY <1>1, <2>1, <2>2
<1> QED BY <1>1, <1>2, <1>3

\* A call that holds an entry is the only one after that entry's label.
LEMMA OwnLabelUnused ==
  ASSUME IInv, QInv, HInv, LabelsDiffer, NEW t \in Calls, pc[t] \in Holding
  PROVE  \A o \in Objs : heap[o].hdl # LabelFor(t)
<1>1. /\ ref[t] \in Objs /\ loc[t].id \in Ids /\ heap[ref[t]].id = loc[t].id
      /\ entries[loc[t].id] = ref[t]
  BY OwnEntry
<1> SUFFICES ASSUME NEW o \in Objs, heap[o].hdl = LabelFor(t) PROVE FALSE OBVIOUS
<1>2. heap[o].hdl = LabelOf[loc[t].id] /\ heap[o].hdl # None
  BY <1>1, ConstantsAssumption DEF LabelFor
<1>3. loc[t].id = heap[o].id /\ entries[heap[o].id] = o BY <1>1, <1>2, OneWorker
<1> QED BY <1>1, <1>2, <1>3, HeldHasNoWorker

\* So a spawn finds it free.
LEMMA SpawnsAtOnce ==
  ASSUME IInv, QInv, HInv, LabelsDiffer, MainPumps, NEW t \in Calls, pc[t] \in {"await1", "build1"}
  PROVE  Free(LabelFor(t))
<1>1. pc[t] \in Holding BY DEF Holding
<1>2. LabelFor(t) \in Labels BY <1>1, OwnEntry, ConstantsAssumption DEF LabelFor
<1>3. \A o \in Objs : heap[o].hdl # LabelFor(t) BY <1>1, OwnLabelUnused
<1>4. \A u \in Calls : ~Attends(u, LabelFor(t))
  <2>1. \A u \in Calls \ {t} : pc[u] = "idle" BY AloneKnows
  <2> QED BY <2>1 DEF Attends, Spawner
<1> QED BY <1>2, <1>3, <1>4 DEF HInv, Attended

\* A step of a process under way leaves the windows in order.
LEMMA AdvanceTidy ==
  ASSUME IInv, QInv, HInv, CloseInTime, LabelsDiffer, NEW t \in Calls, Advance(t)
  PROVE  Tidy(t)
<1> USE DEF Goto
<1> DEFINE x == loc[t].id
           Works == {"await1", "await2", "build1", "build2", "built", "adopt", "commit",
                     "teardown", "remove", "reap"}
<1>a. /\ TypeOK /\ t \in Procs /\ t # "main" /\ CallWellformed(t) /\ loc[t] \in Local
      /\ Mapped(t) /\ Tends(t)
  BY DEF Calls, IInv, TypeOK, Wellformed, QInv, Publishes, HInv
<1>b. pc[t] # "idle" BY <1>a, AdvanceBusy
<1>c. \A u \in Calls \ {t} : pc[u] = "idle" BY <1>b, AloneKnows
<1>d. MainPumps' => MainPumps
  <2>1. "main" \in Procs \ {t} BY <1>a DEF Procs
  <2>2. Others(t) BY <1>a, AdvanceOrderly DEF Orderly, IInv
  <2> QED BY <2>1, <2>2 DEF Others, MainPumps
<1>e. MainPumps => \A l \in Labels : Free(l) \/ (\E o \in Objs : heap[o].hdl = l) \/ Attends(t, l)
  BY <1>c DEF HInv, Attended, Attends, Spawner
<1>f. ASSUME TornDown(t), MainPumps PROVE loc[t].hdl = None \/ Free(loc[t].hdl)
  <2>1. loc[t].hdl # None => win[loc[t].hdl].st # "open" BY <1>a, <1>f DEF Tends, TearsDown, TornDown
  <2> QED BY <1>f, <2>1 DEF TornDown, CeilingHit, CloseInTime
\* Nothing happens to the entries and the windows, and the call stays with its own.
<1>u. ASSUME UNCHANGED <<entries, heap, win>>, Tends(t)',
             \A l \in Labels : MainPumps /\ Attends(t, l) /\ ~Free(l) => Attends(t, l)'
      PROVE  Tidy(t)
  <2>1. \A o \in Objs : OwnWorker(o)' BY <1>u DEF HInv, OwnWorker, Running
  <2>2. ASSUME MainPumps', NEW l \in Labels
        PROVE  Free(l)' \/ (\E o \in Objs : heap'[o].hdl = l) \/ Attends(t, l)'
    BY <1>d, <1>e, <1>u, <2>2 DEF Free
  <2> QED BY <1>u, <2>1, <2>2 DEF Tidy
<1>q. ASSUME UNCHANGED <<entries, heap, win>>, pc'[t] \notin Works, ~On(t, "known")',
             pc[t] \notin {"built", "commit", "teardown"}
      PROVE  Tidy(t)
  <2>1. Tends(t)' BY <1>q DEF Tends, Spawns, TearsDown, Spares
  <2>2. \A l \in Labels : ~Attends(t, l) BY <1>q DEF Attends, Spawner
  <2> QED BY <1>q, <1>u, <2>1, <2>2
<1>r. ASSUME Return(t) PROVE pc'[t] \notin Works /\ ~On(t, "known")'
  BY <1>a, <1>r DEF Return, TypeOK, On
<1>1. CASE Peek(t) \/ Parse(t) \/ EntryFound(t) \/ EnableLocks(t) \/ Unroot(t) \/ EmitLate(t)
  <2>1. UNCHANGED <<entries, heap, win>>
    BY <1>1 DEF Peek, Parse, EntryFound, EnableLocks, Unroot, EmitLate, entryVars, outVars
  <2>2. pc'[t] \in {"parse", "entry", "lock", "root", "persist"} /\ pc[t] \in {"peek", "parse", "entry", "lock", "unroot", "emit"}
    <3>1. pc \in [Procs -> Steps] BY <1>a DEF TypeOK
    <3> QED BY <1>1, <1>a, <3>1 DEF Peek, Parse, EntryFound, EnableLocks, Unroot, EmitLate, At
  <2> QED BY <1>q, <2>1, <2>2 DEF On
<1>2. CASE ParseFails(t) \/ EnableFails(t) \/ EndProject(t) \/ EndUninstall(t) \/ EndSweep(t)
  <2>1. UNCHANGED <<entries, heap, win>> /\ Return(t)
    BY <1>2 DEF ParseFails, EnableFails, EndProject, EndUninstall, EndSweep, entryVars, outVars
  <2>2. pc[t] \in {"parse", "lock", "walk", "reap"}
    BY <1>2 DEF ParseFails, EnableFails, EndProject, EndUninstall, EndSweep, At, Walked
  <2> QED BY <1>q, <1>r, <2>1, <2>2
<1>3. CASE BeginPersist(t) \/ Prune(t)
  <2>1. UNCHANGED <<entries, heap, win>> /\ pc[t] \in {"persist", "project"}
    BY <1>3 DEF BeginPersist, Prune, entryVars, outVars
  <2>2. PICK k \in {"rows", "project"} : StartWalk(t, k) BY <1>3 DEF BeginPersist, Prune
  <2>3. pc'[t] = "walk" BY <1>a, <2>2 DEF StartWalk, TypeOK
  <2>4. loc'[t] = [loc[t] EXCEPT !.walk = k, !.todo = Known] BY <1>a, <2>2 DEF StartWalk, TypeOK
  <2>5. loc'[t].walk = k BY <1>a, <2>4 DEF Local
  <2> QED BY <1>q, <2>1, <2>3, <2>5 DEF On
<1>4. CASE CollectRow(t) \/ Project(t) \/ Save(t) \/ SaveFails(t)
  <2>1. UNCHANGED <<entries, heap, win>> /\ pc[t] \in {"walk", "visit"}
    BY <1>4 DEF CollectRow, Project, Save, SaveFails, Visiting, Walked, entryVars, outVars
  <2>2. pc'[t] \in {"walk", "project"} /\ loc'[t].walk = loc[t].walk /\ loc[t].walk \in {"rows", "project"}
    BY <1>4, <1>a DEF CollectRow, Project, Save, SaveFails, Visiting, Walked, TypeOK, Local
  <2> QED BY <1>q, <2>1, <2>2 DEF On
<1>5. CASE LoadStore(t) \/ LoadFails(t) \/ RestoreDone(t)
  <2>1. UNCHANGED <<entries, heap, win>> /\ pc[t] \in {"reap", "restore"}
    BY <1>5 DEF LoadStore, LoadFails, RestoreDone, entryVars, outVars
  <2>2. pc'[t] \in {"restore", "idle"} BY <1>5, <1>a DEF LoadStore, LoadFails, RestoreDone, TypeOK
  <2> QED BY <1>q, <2>1, <2>2 DEF On
<1>6. ASSUME NEW r \in Ids \X Dirs, RestoreNext(t, r) PROVE Tidy(t)
  <2>1. UNCHANGED <<entries, heap, win>> /\ pc[t] = "restore" /\ pc'[t] = "parse"
    BY <1>6, <1>a DEF RestoreNext, entryVars, outVars, TypeOK
  <2> QED BY <1>q, <2>1 DEF On
\* A sweep, walking, noting, listing and reaping.
<1>7. ASSUME NEW i \in Ids, WalkNext(t, i) PROVE Tidy(t)
  <2>1. /\ UNCHANGED <<entries, heap, win>> /\ pc[t] = "walk" /\ i \in loc[t].todo
        /\ loc' = [loc EXCEPT ![t].todo = @ \ {i}]
        /\ IF entries[i] = None THEN UNCHANGED <<pc, ref>>
           ELSE ref' = [ref EXCEPT ![t] = entries[i]] /\ Goto(t, "visit")
    BY <1>7 DEF WalkNext, entryVars, outVars
  <2>2. /\ loc'[t].todo = loc[t].todo \ {i} /\ loc'[t].walk = loc[t].walk
        /\ loc'[t].labels = loc[t].labels
    BY <1>a, <2>1 DEF TypeOK, Local
  <2>3. /\ pc'[t] \in {"walk", "visit"}
        /\ entries[i] # None => pc'[t] = "visit" /\ ref'[t] = entries[i]
    BY <1>a, <2>1 DEF TypeOK
  <2>4. On(t, "known")' => On(t, "known") BY <2>1, <2>2 DEF On
  <2>5. ASSUME NEW o \in Objs, heap[o].hdl # None, On(t, "known")
        PROVE  heap'[o].id \in Pending(t)' \/ heap'[o].hdl \in loc'[t].labels
    <3>1. heap[o].id \in loc[t].todo \/ heap[o].hdl \in loc[t].labels
      BY <1>a, <2>1, <2>5 DEF Tends, Spares, Pending
    <3>2. CASE heap[o].id = i
      <4>1. entries[i] = o BY <3>2, <2>5, OneWorker
      <4>2. o # None BY ConstantsAssumption
      <4> QED BY <2>1, <2>3, <3>2, <4>1, <4>2 DEF Pending
    <3> QED BY <2>1, <2>2, <3>1, <3>2 DEF Pending
  <2>9. heap' = heap /\ pc'[t] # "reap" BY <2>1, <2>3
  <2>6. Spares(t)' BY <2>4, <2>5, <2>9 DEF Spares
  <2>7. Tends(t)' BY <2>3, <2>6 DEF Tends, Spawns, TearsDown
  <2>8. \A l \in Labels : ~Attends(t, l) BY <2>1 DEF Attends, Spawner
  <2> QED BY <1>u, <2>1, <2>7, <2>8
<1>8. CASE NoteLabel(t)
  <2>1. /\ UNCHANGED <<entries, heap, win>> /\ pc[t] = "visit" /\ loc[t].walk = "known"
        /\ loc' = [loc EXCEPT ![t].labels =
                     IF Running(ref[t]) THEN @ \cup ({Mine(t).hdl} \ {None}) ELSE @]
    BY <1>8 DEF NoteLabel, Visiting, entryVars, outVars
  <2>2. pc'[t] = "walk" BY <1>8, <1>a DEF NoteLabel, Visiting, TypeOK
  <2>3. loc'[t].todo = loc[t].todo /\ loc'[t].walk = "known"
    BY <1>a, <2>1 DEF TypeOK, Local
  <2>4. loc'[t].labels = IF Running(ref[t]) THEN loc[t].labels \cup ({heap[ref[t]].hdl} \ {None})
                         ELSE loc[t].labels
    BY <1>a, <2>1 DEF TypeOK, Local, Mine
  <2>5. ASSUME NEW o \in Objs, heap[o].hdl # None
        PROVE  heap'[o].id \in Pending(t)' \/ heap'[o].hdl \in loc'[t].labels
    <3>1. heap[o].id \in loc[t].todo \cup {heap[ref[t]].id} \/ heap[o].hdl \in loc[t].labels
      BY <1>a, <2>1, <2>5 DEF Tends, Spares, Pending, On
    <3>2. CASE heap[o].id = heap[ref[t]].id
      <4>1. entries[heap[ref[t]].id] = ref[t] BY <1>a, <2>1 DEF Mapped
      <4>2. o = ref[t] BY <2>5, <3>2, <4>1, OneWorker
      <4>3. Running(o) BY <2>5 DEF HInv, OwnWorker
      <4> QED BY <2>1, <2>4, <2>5, <4>2, <4>3
    <3>3. CASE heap[o].hdl \in loc[t].labels BY <2>1, <2>4, <3>3
    <3> QED BY <2>1, <2>2, <2>3, <3>1, <3>2, <3>3 DEF Pending
  <2>9. heap' = heap /\ pc'[t] # "reap" BY <2>1, <2>2
  <2>6. Spares(t)' BY <2>5, <2>9 DEF Spares
  <2>7. Tends(t)' BY <2>2, <2>6 DEF Tends, Spawns, TearsDown
  <2>8. \A l \in Labels : ~Attends(t, l) BY <2>1 DEF Attends, Spawner
  <2> QED BY <1>u, <2>1, <2>7, <2>8
<1>9. CASE ListWindows(t)
  <2>1. /\ UNCHANGED <<entries, heap, win>> /\ pc[t] = "walk" /\ loc[t].walk = "known" /\ loc[t].todo = {}
        /\ loc' = [loc EXCEPT ![t].labels = {l \in Labels : ~Free(l)} \ @]
    BY <1>9 DEF ListWindows, Walked, entryVars, outVars
  <2>2. pc'[t] = "reap" BY <1>9, <1>a DEF ListWindows, TypeOK
  <2>3. loc'[t].labels = {l \in Labels : ~Free(l)} \ loc[t].labels BY <1>a, <2>1 DEF TypeOK, Local
  <2>4. \A o \in Objs : heap[o].hdl # None => heap[o].hdl \in loc[t].labels
    BY <1>a, <2>1 DEF Tends, Spares, Pending, On
  <2>5. Spares(t)' BY <2>1, <2>2, <2>3, <2>4 DEF Spares, On
  <2>6. Tends(t)' BY <2>2, <2>5 DEF Tends, Spawns, TearsDown
  <2>7. \A l \in Labels : ~Attends(t, l) BY <2>1 DEF Attends, Spawner
  <2> QED BY <1>u, <2>1, <2>6, <2>7
<1>10. ASSUME NEW l \in Labels, Reap(t, l) PROVE Tidy(t)
  <2>1. /\ UNCHANGED <<entries, heap, pc>> /\ pc[t] = "reap" /\ l \in loc[t].labels
        /\ win' = CloseRequested(l)
        /\ loc' = [loc EXCEPT ![t].labels = @ \ {l}]
    BY <1>10 DEF Reap, entryVars
  <2>2. loc'[t].labels \subseteq loc[t].labels BY <1>a, <2>1 DEF TypeOK, Local
  <2>3. \A o \in Objs : heap[o].hdl # None => heap[o].hdl \notin loc[t].labels /\ heap[o].hdl # l
    BY <1>a, <2>1 DEF Tends, Spares
  <2>4. win \in Windows BY <1>a DEF TypeOK, Windows
  <2>5. \A m \in Labels : (Free(m)' <=> Free(m)) /\ (m # l => win'[m] = win[m])
    BY <2>1, <2>4 DEF CloseRequested, Free, Windows
  <2>6. Tends(t)' BY <2>1, <2>2, <2>3 DEF Tends, Spawns, TearsDown, Spares, On
  <2>7. ASSUME NEW o \in Objs PROVE OwnWorker(o)'
    <3>1. OwnWorker(o) BY DEF HInv
    <3>2. heap[o].hdl # None => win'[heap[o].hdl] = win[heap[o].hdl] BY <2>3, <2>5, OneWorker
    <3> QED BY <2>1, <3>1, <3>2 DEF OwnWorker, Running
  <2>8. ASSUME MainPumps', NEW m \in Labels
        PROVE  Free(m)' \/ (\E o \in Objs : heap'[o].hdl = m) \/ Attends(t, m)'
    <3>1. ~Attends(t, m) BY <2>1 DEF Attends, Spawner
    <3> QED BY <1>d, <1>e, <2>1, <2>5, <2>8, <3>1
  <2> QED BY <2>6, <2>7, <2>8 DEF Tidy
\* A spawn, from the root to the handle.
<1>11. CASE PublishRoot(t) \/ FirstAwait(t) \/ BuildFails(t) \/ TakeHandle(t)
  <2>1. UNCHANGED <<entries, heap, win>>
    BY <1>11 DEF PublishRoot, FirstAwait, BuildFails, TakeHandle, entryVars, outVars
  <2>2. CASE PublishRoot(t)
    <3>1. pc[t] = "root" /\ pc'[t] \in {"await1", "commit"} /\ loc'[t].hdl = None
      BY <1>a, <2>2 DEF PublishRoot, TypeOK, Local
    <3>2. Tends(t)' BY <3>1 DEF Tends, Spawns, TearsDown, Spares, On
    <3>3. \A l \in Labels : ~Attends(t, l) BY <3>1 DEF Attends, Spawner
    <3> QED BY <1>u, <2>1, <3>2, <3>3
  <2>3. CASE FirstAwait(t) \/ BuildFails(t)
    <3>1. pc[t] \in {"await1", "build1", "build2"} /\ pc'[t] \in {"build1", "commit"} /\ UNCHANGED loc
      BY <1>a, <2>3 DEF FirstAwait, BuildFails, TypeOK
    <3>2. loc[t].hdl = None BY <1>a, <3>1 DEF Tends, Spawns
    <3>3. Tends(t)' BY <3>1, <3>2 DEF Tends, Spawns, TearsDown, Spares, On
    <3>4. \A l \in Labels : ~Attends(t, l) BY <3>1 DEF Attends, Spawner
    <3> QED BY <1>u, <2>1, <3>3, <3>4
  <2>4. CASE TakeHandle(t)
    <3>1. pc[t] = "built" /\ win[LabelFor(t)].st = "open"
      BY <1>a, <2>4 DEF TakeHandle, Tends, Spawns
    <3>2. loc'[t].hdl = LabelFor(t) /\ loc'[t].id = loc[t].id /\ pc'[t] = "commit"
      BY <1>a, <2>4, <3>1 DEF TakeHandle, TypeOK, Local, Free
    <3>3. LabelFor(t)' = LabelFor(t) BY <3>2 DEF LabelFor
    <3>4. Tends(t)' BY <2>1, <3>1, <3>2, <3>3 DEF Tends, Spawns, TearsDown, Spares, On
    <3>5. \A l \in Labels : Attends(t, l) => Attends(t, l)' BY <3>1, <3>2 DEF Attends, Spawner
    <3> QED BY <1>u, <2>1, <3>4, <3>5
  <2> QED BY <1>11, <2>2, <2>3, <2>4
<1>12. CASE LabelTaken(t) \/ SecondAwait(t) \/ StillTaken(t)
  <2>1. pc[t] \in {"build1", "await2", "build2"} /\ (pc[t] = "build1" => MainPumps /\ ~Free(LabelFor(t)))
    BY <1>12 DEF LabelTaken, SecondAwait, StillTaken
  <2> QED BY <1>a, <2>1, SpawnsAtOnce DEF Tends, Spawns
<1>13. CASE Build(t)
  <2>1. /\ pc[t] = "build1" /\ MainPumps /\ Free(LabelFor(t)) /\ UNCHANGED <<entries, heap, loc>>
        /\ win' = [win EXCEPT ![LabelFor(t)] = [st |-> "open", ext |-> loc[t].id]]
        /\ pc'[t] = "built"
    BY <1>13, <1>a DEF Build, Tends, Spawns, entryVars, TypeOK
  <2>2. pc[t] \in Holding BY <2>1 DEF Holding
  <2>3. LabelFor(t) \in Labels /\ LabelFor(t)' = LabelFor(t)
    BY <2>1, <2>2, OwnEntry, ConstantsAssumption DEF LabelFor
  <2>4. win \in Windows BY <1>a DEF TypeOK, Windows
  <2>5. /\ win'[LabelFor(t)].st = "open"
        /\ \A l \in Labels \ {LabelFor(t)} : win'[l] = win[l]
    BY <2>1, <2>3, <2>4 DEF Windows
  <2>6. Tends(t)' BY <2>1, <2>3, <2>5 DEF Tends, Spawns, TearsDown, Spares, On
  <2>7. ASSUME NEW o \in Objs PROVE OwnWorker(o)'
    <3>1. OwnWorker(o) BY DEF HInv
    <3>2. heap[o].hdl # None => win'[heap[o].hdl] = win[heap[o].hdl]
      BY <2>2, <2>5, OwnLabelUnused, OneWorker
    <3> QED BY <2>1, <3>1, <3>2 DEF OwnWorker, Running
  <2>8. ASSUME MainPumps', NEW l \in Labels
        PROVE  Free(l)' \/ (\E o \in Objs : heap'[o].hdl = l) \/ Attends(t, l)'
    <3>1. CASE l = LabelFor(t) BY <2>1, <2>3, <3>1 DEF Attends, Spawner
    <3>2. CASE l # LabelFor(t)
      <4>1. ~Attends(t, l) BY <2>1 DEF Attends, Spawner
      <4>2. Free(l)' <=> Free(l) BY <2>5, <3>2 DEF Free
      <4> QED BY <1>d, <1>e, <2>1, <2>8, <4>1, <4>2
    <3> QED BY <3>1, <3>2
  <2> QED BY <2>6, <2>7, <2>8 DEF Tidy
\* After a teardown, and the removal from the map.
<1>14. CASE UninstallStopped(t)
  <2>1. UNCHANGED <<entries, heap, win, loc>> /\ TornDown(t)
    BY <1>14 DEF UninstallStopped, outVars
  <2>2. pc[t] = "teardown" /\ pc'[t] = "remove" BY <1>14, <1>a DEF UninstallStopped, TornDown, TypeOK
  <2>3. pc[t] \in Holding BY <2>2 DEF Holding
  <2>4. ref[t] \in Objs /\ entries[loc[t].id] = ref[t] BY <2>3, OwnEntry
  <2>5. ~Running(entries[loc[t].id]) BY <2>3, <2>4, HeldHasNoWorker
  <2>6. Tends(t)' BY <2>1, <2>2, <2>5 DEF Tends, Spawns, TearsDown, Spares, On, Running
  <2>7. ASSUME MainPumps, NEW l \in Labels, Attends(t, l) PROVE Free(l)
    BY <1>f, <2>1, <2>2, <2>7, ConstantsAssumption DEF Attends, Spawner
  <2> QED BY <1>u, <2>1, <2>6, <2>7
<1>15. CASE Remove(t)
  <2>1. /\ UNCHANGED <<heap, win, loc>> /\ pc[t] = "remove"
        /\ entries' = [entries EXCEPT ![x] = None]
    BY <1>15 DEF Remove, outVars
  <2>2. pc'[t] = "unroot" BY <1>15, <1>a DEF Remove, TypeOK
  <2>3. Tends(t)' BY <2>2 DEF Tends, Spawns, TearsDown, Spares, On
  <2>4. x \in Ids BY <1>a, <2>1 DEF CallWellformed
  <2>5. ASSUME NEW o \in Objs PROVE OwnWorker(o)'
    <3>1. OwnWorker(o) BY DEF HInv
    <3>2. ASSUME Running(o) PROVE entries'[heap[o].id] = o
      <4>1. entries[heap[o].id] = o /\ o # None BY <3>1, <3>2, ConstantsAssumption DEF OwnWorker
      <4>2. heap[o].id # x
        <5> SUFFICES ASSUME heap[o].id = x PROVE FALSE OBVIOUS
        <5>1. x \in Known BY <2>4, <4>1 DEF Known
        <5>2. ~Running(entries[x]) BY <1>a, <2>1, <5>1 DEF Tends, TearsDown
        <5> QED BY <3>2, <4>1, <5>2
      <4> QED BY <1>a, <2>1, <4>1, <4>2 DEF TypeOK
    <3> QED BY <2>1, <3>1, <3>2 DEF OwnWorker, Running
  <2>6. \A l \in Labels : ~Attends(t, l) BY <2>1 DEF Attends, Spawner
  <2>7. ASSUME MainPumps', NEW l \in Labels
        PROVE  Free(l)' \/ (\E o \in Objs : heap'[o].hdl = l) \/ Attends(t, l)'
    BY <1>d, <1>e, <2>1, <2>6, <2>7 DEF Free
  <2> QED BY <2>3, <2>5, <2>7 DEF Tidy
\* The entry a call is at changes, but not what runs in it.
<1>h. ASSUME NEW e, ref[t] \in Objs, heap' = [heap EXCEPT ![ref[t]] = e], UNCHANGED <<entries, win>>,
             e.id = heap[ref[t]].id, e.hdl = heap[ref[t]].hdl,
             e.st = "running" <=> Running(ref[t]), Tends(t)',
             \A l \in Labels : MainPumps /\ Attends(t, l) /\ ~Free(l) => Attends(t, l)'
      PROVE  Tidy(t)
  <2>1. \A o \in Objs : /\ heap'[o].id = heap[o].id /\ heap'[o].hdl = heap[o].hdl
                        /\ heap'[o].st = "running" <=> Running(o)
    BY <1>a, <1>h DEF TypeOK, Running
  <2>2. \A o \in Objs : OwnWorker(o)' BY <1>h, <2>1 DEF HInv, OwnWorker, Running
  <2>3. ASSUME MainPumps', NEW l \in Labels
        PROVE  Free(l)' \/ (\E o \in Objs : heap'[o].hdl = l) \/ Attends(t, l)'
    BY <1>d, <1>e, <1>h, <2>1, <2>3 DEF Free
  <2> QED BY <1>h, <2>2, <2>3 DEF Tidy
\* ... or its worker is asked to close,
<1>s. ASSUME NEW e, ref[t] \in Objs, heap' = [heap EXCEPT ![ref[t]] = e], entries' = entries,
             win' = CloseRequested(heap[ref[t]].hdl), e.id = heap[ref[t]].id, e.hdl = None,
             e.st # "running", pc[t] = "lock", pc'[t] = "teardown", loc'[t].hdl = heap[ref[t]].hdl
      PROVE  Tidy(t)
  <2> DEFINE h == heap[ref[t]].hdl
  <2>1. win \in Windows /\ h \in Labels \cup {None} BY <1>a, <1>s DEF TypeOK, Windows, Entry
  <2>2. /\ \A l \in Labels : (Free(l)' <=> Free(l)) /\ (l # h => win'[l] = win[l])
        /\ h # None => win'[h].st # "open"
    BY <1>s, <2>1, ConstantsAssumption DEF CloseRequested, Free, Windows
  <2>3. Tends(t)' BY <1>s, <2>2 DEF Tends, Spawns, TearsDown, Spares, On
  <2>4. heap'[ref[t]] = e /\ \A o \in Objs \ {ref[t]} : heap'[o] = heap[o] BY <1>a, <1>s DEF TypeOK
  <2>5. ASSUME NEW o \in Objs PROVE OwnWorker(o)'
    <3>1. CASE o = ref[t] BY <1>s, <2>4, <3>1 DEF OwnWorker, Running
    <3>2. CASE o # ref[t]
      <4>1. OwnWorker(o) BY DEF HInv
      <4>2. heap[o].hdl # None => win'[heap[o].hdl] = win[heap[o].hdl]
        BY <1>s, <2>2, <3>2, OneWorker
      <4>3. heap'[o] = heap[o] BY <2>4, <3>2
      <4> QED BY <1>s, <4>1, <4>2, <4>3 DEF OwnWorker, Running
    <3> QED BY <3>1, <3>2
  <2>6. ASSUME MainPumps', NEW l \in Labels
        PROVE  Free(l)' \/ (\E o \in Objs : heap'[o].hdl = l) \/ Attends(t, l)'
    <3>1. ~Attends(t, l) BY <1>s DEF Attends, Spawner
    <3>2. CASE l = h BY <1>s, <3>2 DEF Attends
    <3>3. CASE l # h
      <4>1. \A o \in Objs : heap[o].hdl = l => heap'[o].hdl = l BY <2>4, <3>3
      <4> QED BY <1>d, <1>e, <2>2, <2>6, <3>1, <4>1
    <3> QED BY <3>2, <3>3
  <2> QED BY <2>3, <2>5, <2>6 DEF Tidy
\* ... or it has one.
<1>m. ASSUME NEW e, ref[t] \in Objs, heap' = [heap EXCEPT ![ref[t]] = e], UNCHANGED <<entries, win>>,
             e.id = heap[ref[t]].id, e.hdl = loc[t].hdl, e.st = "running",
             pc[t] = "commit", pc'[t] \in {"persist", "emit"}
      PROVE  Tidy(t)
  <2>1. pc[t] \in Holding BY <1>m DEF Holding
  <2>2. heap[ref[t]].id = x /\ entries[x] = ref[t] BY <2>1, OwnEntry
  <2>3. loc[t].hdl # None => loc[t].hdl = LabelOf[x] /\ win[loc[t].hdl].st = "open"
    BY <1>a, <1>m DEF Tends, Spawns, LabelFor
  <2>4. heap'[ref[t]] = e /\ \A o \in Objs \ {ref[t]} : heap'[o] = heap[o] BY <1>a, <1>m DEF TypeOK
  <2>5. Tends(t)' BY <1>m DEF Tends, Spawns, TearsDown, Spares, On
  <2>6. ASSUME NEW o \in Objs PROVE OwnWorker(o)'
    <3>1. CASE o = ref[t] BY <1>m, <2>2, <2>3, <2>4, <3>1 DEF OwnWorker, Running
    <3>2. CASE o # ref[t]
      <4>1. OwnWorker(o) BY DEF HInv
      <4> QED BY <1>m, <2>4, <3>2, <4>1 DEF OwnWorker, Running
    <3> QED BY <3>1, <3>2
  <2>7. heap[ref[t]].hdl = None BY <1>m, <2>1, HeldHasNoWorker
  <2>8. ASSUME MainPumps', NEW l \in Labels
        PROVE  Free(l)' \/ (\E o \in Objs : heap'[o].hdl = l) \/ Attends(t, l)'
    <3>1. Attends(t, l) => heap'[ref[t]].hdl = l BY <1>m, <2>4 DEF Attends, Spawner
    <3>2. \A o \in Objs : heap[o].hdl = l => heap'[o].hdl = l BY <2>4, <2>7, ConstantsAssumption
    <3> QED BY <1>d, <1>e, <1>m, <2>8, <3>1, <3>2 DEF Free
  <2> QED BY <2>5, <2>6, <2>8 DEF Tidy
<1>16. CASE InstallOverRunning(t) \/ UninstallLocks(t) \/ DisableLocks(t)
  <2>1. pc[t] = "lock" BY <1>16 DEF InstallOverRunning, UninstallLocks, DisableLocks, At
  <2>2. /\ pc'[t] = "teardown" /\ loc'[t].hdl = heap[ref[t]].hdl /\ UNCHANGED entries
        /\ win' = CloseRequested(heap[ref[t]].hdl)
    BY <1>16, <1>a DEF InstallOverRunning, UninstallLocks, DisableLocks, TypeOK, Local, Mine
  <2>3. ref[t] \in Objs /\ heap[ref[t]] \in Entry BY <1>a, <2>1 DEF CallWellformed, TypeOK
  <2>4. CASE InstallOverRunning(t)
    <3> DEFINE e == [heap[ref[t]] EXCEPT !.dir = loc[t].dir, !.st = "stopping", !.hdl = None]
    <3>1. heap' = [heap EXCEPT ![ref[t]] = e] BY <2>4 DEF InstallOverRunning, SetEntry, Mine
    <3>2. e.id = heap[ref[t]].id /\ e.hdl = None /\ e.st # "running" BY <2>3 DEF Entry
    <3> HIDE DEF e
    <3> QED BY <1>s, <2>1, <2>2, <2>3, <3>1, <3>2
  <2>5. CASE UninstallLocks(t)
    <3> DEFINE e == [heap[ref[t]] EXCEPT !.st = "uninstalling", !.hdl = None]
    <3>1. heap' = [heap EXCEPT ![ref[t]] = e] BY <2>5 DEF UninstallLocks, SetEntry, Mine
    <3>2. e.id = heap[ref[t]].id /\ e.hdl = None /\ e.st # "running" BY <2>3 DEF Entry
    <3> HIDE DEF e
    <3> QED BY <1>s, <2>1, <2>2, <2>3, <3>1, <3>2
  <2>6. CASE DisableLocks(t)
    <3> DEFINE e == [heap[ref[t]] EXCEPT !.st = "stopping", !.hdl = None]
    <3>1. heap' = [heap EXCEPT ![ref[t]] = e] BY <2>6 DEF DisableLocks, SetEntry, Mine
    <3>2. e.id = heap[ref[t]].id /\ e.hdl = None /\ e.st # "running" BY <2>3 DEF Entry
    <3> HIDE DEF e
    <3> QED BY <1>s, <2>1, <2>2, <2>3, <3>1, <3>2
  <2> QED BY <1>16, <2>4, <2>5, <2>6
<1>17. CASE CommitInstall(t) \/ CommitEnable(t)
  <2>1. pc[t] = "commit" BY <1>17 DEF CommitInstall, CommitEnable, At
  <2>2. pc'[t] \in {"persist", "emit"} /\ UNCHANGED <<entries, win>>
    BY <1>17, <1>a DEF CommitInstall, CommitEnable, TypeOK, outVars
  <2>3. ref[t] \in Objs /\ heap[ref[t]] \in Entry BY <1>a, <2>1 DEF CallWellformed, Holding, TypeOK
  <2> DEFINE e == [heap[ref[t]] EXCEPT !.st = "running", !.hdl = loc[t].hdl, !.enabled = TRUE]
  <2>4. heap' = [heap EXCEPT ![ref[t]] = e] BY <1>17 DEF CommitInstall, CommitEnable, SetEntry, Mine
  <2>5. e.id = heap[ref[t]].id /\ e.hdl = loc[t].hdl /\ e.st = "running" BY <2>3 DEF Entry
  <2> HIDE DEF e
  <2> QED BY <1>m, <2>1, <2>2, <2>3, <2>4, <2>5
<1>18. CASE InstallOverIdle(t) \/ DisableIdle(t) \/ EnableRunning(t)
  <2>1. pc[t] = "lock" /\ UNCHANGED <<entries, win>>
    BY <1>18 DEF InstallOverIdle, DisableIdle, EnableRunning, At, outVars
  <2>2. ref[t] \in Objs /\ heap[ref[t]] \in Entry BY <1>a, <2>1 DEF CallWellformed, TypeOK
  <2>3. pc'[t] \notin Works /\ ~On(t, "known")'
    <3>1. CASE EnableRunning(t) BY <1>r, <3>1 DEF EnableRunning
    <3>2. CASE InstallOverIdle(t) \/ DisableIdle(t)
      <4>1. pc'[t] \in {"root", "emit"} BY <1>a, <3>2 DEF InstallOverIdle, DisableIdle, TypeOK
      <4> QED BY <4>1 DEF On
    <3> QED BY <1>18, <3>1, <3>2
  <2>4. Tends(t)' BY <2>3 DEF Tends, Spawns, TearsDown, Spares
  <2>5. \A l \in Labels : ~Attends(t, l) BY <2>1 DEF Attends, Spawner
  <2>6. CASE InstallOverIdle(t)
    <3> DEFINE e == [heap[ref[t]] EXCEPT !.dir = loc[t].dir]
    <3>1. heap' = [heap EXCEPT ![ref[t]] = e] BY <2>6 DEF InstallOverIdle, SetEntry, Mine
    <3>2. e.id = heap[ref[t]].id /\ e.hdl = heap[ref[t]].hdl /\ (e.st = "running" <=> Running(ref[t]))
      BY <2>2 DEF Entry, Running
    <3> HIDE DEF e
    <3> QED BY <1>h, <2>1, <2>2, <2>4, <2>5, <3>1, <3>2
  <2>7. CASE DisableIdle(t)
    <3> DEFINE e == [heap[ref[t]] EXCEPT !.enabled = FALSE]
    <3>1. heap' = [heap EXCEPT ![ref[t]] = e] BY <2>7 DEF DisableIdle, SetEntry, Mine
    <3>2. e.id = heap[ref[t]].id /\ e.hdl = heap[ref[t]].hdl /\ (e.st = "running" <=> Running(ref[t]))
      BY <2>2 DEF Entry, Running
    <3> HIDE DEF e
    <3> QED BY <1>h, <2>1, <2>2, <2>4, <2>5, <3>1, <3>2
  <2>8. CASE EnableRunning(t)
    <3> DEFINE e == [heap[ref[t]] EXCEPT !.enabled = TRUE]
    <3>1. heap' = [heap EXCEPT ![ref[t]] = e] BY <2>8 DEF EnableRunning, SetEntry, Mine
    <3>2. e.id = heap[ref[t]].id /\ e.hdl = heap[ref[t]].hdl /\ (e.st = "running" <=> Running(ref[t]))
      BY <2>2 DEF Entry, Running
    <3> HIDE DEF e
    <3> QED BY <1>h, <2>1, <2>2, <2>4, <2>5, <3>1, <3>2
  <2> QED BY <1>18, <2>6, <2>7, <2>8
<1>19. CASE ReloadStopped(t) \/ DisableStopped(t)
  <2>1. pc[t] = "teardown" /\ TornDown(t) /\ UNCHANGED <<entries, win>>
    BY <1>19 DEF ReloadStopped, DisableStopped, TornDown
  <2>2. pc[t] \in Holding BY <2>1 DEF Holding
  <2>3. ref[t] \in Objs /\ heap[ref[t]] \in Entry BY <1>a, <2>2 DEF CallWellformed, TypeOK
  <2>4. pc'[t] \in {"root", "emit"} BY <1>19, <1>a DEF ReloadStopped, DisableStopped, TypeOK
  <2>5. Tends(t)' BY <2>4 DEF Tends, Spawns, TearsDown, Spares, On
  <2>6. ASSUME MainPumps, NEW l \in Labels, Attends(t, l) PROVE Free(l)
    BY <1>f, <2>1, <2>6, ConstantsAssumption DEF Attends, Spawner
  <2>7. ~Running(ref[t]) BY <2>2, <2>3, HeldHasNoWorker
  <2>8. CASE ReloadStopped(t)
    <3> DEFINE e == [heap[ref[t]] EXCEPT !.st = "stopped"]
    <3>1. heap' = [heap EXCEPT ![ref[t]] = e] BY <2>8 DEF ReloadStopped, SetEntry, Mine
    <3>2. e.id = heap[ref[t]].id /\ e.hdl = heap[ref[t]].hdl /\ e.st # "running" BY <2>3 DEF Entry
    <3> HIDE DEF e
    <3> QED BY <1>h, <2>1, <2>3, <2>5, <2>6, <2>7, <3>1, <3>2
  <2>9. CASE DisableStopped(t)
    <3> DEFINE e == [heap[ref[t]] EXCEPT !.st = "stopped", !.enabled = FALSE]
    <3>1. heap' = [heap EXCEPT ![ref[t]] = e] BY <2>9 DEF DisableStopped, SetEntry, Mine
    <3>2. e.id = heap[ref[t]].id /\ e.hdl = heap[ref[t]].hdl /\ e.st # "running" BY <2>3 DEF Entry
    <3> HIDE DEF e
    <3> QED BY <1>h, <2>1, <2>3, <2>5, <2>6, <2>7, <3>1, <3>2
  <2> QED BY <1>19, <2>8, <2>9
<1>20. ASSUME NEW o \in Objs, EntryAdded(t, o) PROVE Tidy(t)
  <2>1. /\ pc[t] = "entry" /\ entries[x] = None /\ heap[o].id = None /\ UNCHANGED win
        /\ entries' = [entries EXCEPT ![x] = o]
        /\ heap' = [heap EXCEPT ![o] = [Unused EXCEPT !.id = x, !.dir = loc[t].dir]]
    BY <1>20 DEF EntryAdded, outVars
  <2>2. pc'[t] = "lock" BY <1>20, <1>a DEF EntryAdded, TypeOK
  <2>3. Tends(t)' BY <2>2 DEF Tends, Spawns, TearsDown, Spares, On
  <2>4. \A l \in Labels : ~Attends(t, l) BY <2>1 DEF Attends, Spawner
  <2>5. heap[o].hdl = None BY <2>1 DEF IInv, Wellformed, EntryWellformed, Unused
  <2>6. heap'[o].hdl = None /\ heap'[o].st = "installed" /\ \A y \in Objs \ {o} : heap'[y] = heap[y]
    BY <1>a, <2>1 DEF TypeOK, Unused
  <2>7. ASSUME NEW y \in Objs PROVE OwnWorker(y)'
    <3>1. CASE y = o BY <2>6, <3>1 DEF OwnWorker, Running
    <3>2. CASE y # o
      <4>1. OwnWorker(y) /\ heap'[y] = heap[y] BY <2>6, <3>2 DEF HInv
      <4>2. ASSUME Running(y) PROVE entries'[heap[y].id] = y
        <5>1. entries[heap[y].id] = y /\ y # None BY <4>1, <4>2, ConstantsAssumption DEF OwnWorker
        <5> QED BY <1>a, <2>1, <5>1 DEF TypeOK
      <4> QED BY <2>1, <4>1, <4>2 DEF OwnWorker, Running
    <3> QED BY <3>1, <3>2
  <2>8. ASSUME MainPumps', NEW l \in Labels
        PROVE  Free(l)' \/ (\E y \in Objs : heap'[y].hdl = l) \/ Attends(t, l)'
    <3>1. \A y \in Objs : heap[y].hdl = l => heap'[y].hdl = l BY <2>5, <2>6, ConstantsAssumption
    <3> QED BY <1>d, <1>e, <2>1, <2>4, <2>8, <3>1 DEF Free
  <2> QED BY <2>3, <2>7, <2>8 DEF Tidy
<1>21. ~ShutdownVisit(t) /\ ~ExitDone(t)
  BY <1>a DEF ShutdownVisit, ExitDone, Visiting, Walked, IInv, MainExits
<1> QED BY <1>1, <1>2, <1>3, <1>4, <1>5, <1>6, <1>7, <1>8, <1>9, <1>10, <1>11, <1>12, <1>13, <1>14,
     <1>15, <1>16, <1>17, <1>18, <1>19, <1>20, <1>21 DEF Advance

\* A call or a sweep starts with the windows in order.
LEMMA StartTidy ==
  ASSUME IInv, QInv, HInv, OneAtATime, NEW t \in Calls,
         \/ t \in Callers /\ Call(t)
         \/ t \in Sweepers /\ Sweep(t)
  PROVE  Tidy(t)
<1> USE DEF Goto
<1>a. /\ TypeOK /\ t \in Procs /\ t # "main" /\ loc[t] \in Local
  BY DEF Calls, IInv, TypeOK
<1>b. pc[t] # "idle" \/ \A u \in Calls : pc[u] = "idle" BY StartParts
<1>c. \A u \in Calls \ {t} : pc[u] = "idle" BY <1>b, AloneKnows
<1>1. \/ \E d \in Dirs : CallInstall(t, d)
      \/ \E i \in Ids, o \in {"uninstall", "disable", "enable", "reload"} : CallOn(t, o, i)
      \/ Sweep(t)
  BY DEF Call
<1>2. UNCHANGED <<entries, heap, win>>
  BY <1>1 DEF CallInstall, CallOn, Sweep, entryVars, outVars
<1>3. pc[t] \in {"idle", "sweep"} BY <1>1 DEF CallInstall, CallOn, Sweep, MayCall
<1>4. \/ pc'[t] \in {"parse", "peek", "lock"}
      \/ pc'[t] = "walk" /\ loc'[t].todo = Known
  <2>1. ASSUME NEW d \in Dirs, CallInstall(t, d) PROVE pc'[t] = "parse"
    BY <1>a, <2>1 DEF CallInstall, TypeOK
  <2>2. ASSUME NEW i \in Ids, NEW o \in {"uninstall", "disable", "enable", "reload"}, CallOn(t, o, i)
        PROVE  pc'[t] \in {"peek", "lock"}
    BY <1>a, <2>2 DEF CallOn, TypeOK
  <2>3. ASSUME Sweep(t) PROVE pc'[t] = "walk" /\ loc'[t].todo = Known
    <3>1. StartWalk(t, "known") BY <2>3 DEF Sweep
    <3>2. loc'[t] = [loc[t] EXCEPT !.walk = "known", !.todo = Known]
      BY <1>a, <3>1 DEF StartWalk, TypeOK
    <3>3. loc'[t].todo = Known BY <1>a, <3>2 DEF Local
    <3> QED BY <1>a, <3>1, <3>3 DEF StartWalk, TypeOK
  <2> QED BY <1>1, <2>1, <2>2, <2>3
<1>5. \A o \in Objs : OwnWorker(o)' BY <1>2 DEF HInv, OwnWorker, Running
<1>6. ASSUME NEW o \in Objs, heap[o].hdl # None PROVE heap[o].id \in Known
  <2>1. Running(o) /\ entries[heap[o].id] = o BY <1>6 DEF HInv, OwnWorker
  <2>2. heap[o] # Unused BY <2>1 DEF Running, Unused
  <2>3. heap[o].id \in Ids BY <2>2 DEF IInv, Wellformed, EntryWellformed, TypeOK, Entry
  <2> QED BY <2>1, <2>3, ConstantsAssumption DEF Known
<1>7. Tends(t)'
  <2>1. Spawns(t)' /\ TearsDown(t)' BY <1>4 DEF Spawns, TearsDown
  <2>2. \A o \in Objs : heap'[o].hdl # None =>
          (pc'[t] = "walk" => heap'[o].id \in Pending(t)')
    BY <1>2, <1>4, <1>6 DEF Pending
  <2>3. Spares(t)' BY <1>4, <2>2 DEF Spares, On
  <2> QED BY <2>1, <2>3 DEF Tends
<1>8. MainPumps' => MainPumps
  <2>1. "main" \in Procs \ {t} BY <1>a DEF Procs
  <2>2. Others(t) BY <1>a, StartOrderly DEF Orderly, IInv
  <2> QED BY <2>1, <2>2 DEF Others, MainPumps
<1>9. \A u \in Calls, l \in Labels : ~Attends(u, l) BY <1>3, <1>c DEF Attends, Spawner
<1>10. ASSUME MainPumps', NEW l \in Labels
       PROVE  Free(l)' \/ (\E o \in Objs : heap'[o].hdl = l)
  <2>1. Free(l) \/ \E o \in Objs : heap[o].hdl = l BY <1>8, <1>9, <1>10 DEF HInv, Attended
  <2> QED BY <1>2, <2>1 DEF Free
<1> QED BY <1>5, <1>7, <1>10 DEF Tidy

\* The steps of an exit close the windows of what they stop, and nobody else's.
LEMMA MainTidy ==
  ASSUME IInv, QInv, HInv, LabelsDiffer, Advance("main") \/ ExitRequested
  PROVE  HInv'
<1> USE DEF Goto
<1>a. TypeOK /\ "main" \in Procs BY DEF IInv, Procs
<1>1. Orderly("main") BY AdvanceOrderly, StartOrderly DEF IInv, Procs
<1>2. ~MainPumps' BY <1>1 DEF Orderly, MainPart, MainPumps
<1>3. \A u \in Calls : pc'[u] = pc[u] /\ ref'[u] = ref[u] /\ loc'[u] = loc[u]
  BY <1>1 DEF Orderly, Others, Calls
<1>4. entries' = entries /\ \A o \in Objs : heap'[o].id = heap[o].id BY MainSteps
<1>5. \/ UNCHANGED <<heap, win>>
      \/ /\ ref["main"] \in Objs /\ Running(ref["main"])
         /\ heap'[ref["main"]].st = "stopped" /\ heap'[ref["main"]].hdl = None
         /\ \A o \in Objs \ {ref["main"]} : heap'[o] = heap[o]
         /\ win' = CloseRequested(heap[ref["main"]].hdl)
  <2>1. CASE ExitRequested BY <2>1 DEF ExitRequested, entryVars, outVars
  <2>2. ASSUME Advance("main"), ~ShutdownVisit("main") PROVE UNCHANGED <<heap, win>>
    <3>1. (\E i \in Ids : WalkNext("main", i)) \/ ExitDone("main") BY <2>2, MainAdvances
    <3> QED BY <3>1 DEF WalkNext, ExitDone, entryVars, outVars
  <2>3. CASE ShutdownVisit("main") /\ Running(ref["main"])
    <3>1. ref["main"] \in Objs
      BY <1>a, <2>3 DEF ShutdownVisit, Visiting, IInv, Wellformed, CallWellformed
    <3> DEFINE e == [heap[ref["main"]] EXCEPT !.st = "stopped", !.hdl = None]
    <3>2. heap' = [heap EXCEPT ![ref["main"]] = e] BY <2>3 DEF ShutdownVisit, SetEntry, Mine
    <3>3. e.st = "stopped" /\ e.hdl = None BY <1>a, <3>1 DEF TypeOK, Entry
    <3>4. win' = CloseRequested(heap[ref["main"]].hdl) BY <2>3 DEF ShutdownVisit, Mine
    <3> HIDE DEF e
    <3> QED BY <1>a, <2>3, <3>1, <3>2, <3>3, <3>4 DEF TypeOK
  <2>4. CASE ShutdownVisit("main") /\ ~Running(ref["main"]) BY <2>4 DEF ShutdownVisit
  <2> QED BY <2>1, <2>2, <2>3, <2>4
<1>6. CASE UNCHANGED <<heap, win>>
  <2>1. \A o \in Objs : OwnWorker(o)' BY <1>4, <1>6 DEF HInv, OwnWorker, Running
  <2>2. ASSUME NEW u \in Calls PROVE Tends(u)'
    <3>1. Pending(u)' = Pending(u) BY <1>3, <1>6 DEF Pending
    <3>2. LabelFor(u)' = LabelFor(u) BY <1>3 DEF LabelFor
    <3>3. Spawns(u)' BY <1>3, <1>6, <3>2 DEF HInv, Tends, Spawns
    <3>4. TearsDown(u)' BY <1>3, <1>4, <1>6 DEF HInv, Tends, TearsDown, Known, Running
    <3>5. Spares(u)' BY <1>3, <1>6, <3>1 DEF HInv, Tends, Spares, On
    <3> QED BY <3>3, <3>4, <3>5 DEF Tends
  <2> QED BY <1>2, <2>1, <2>2 DEF HInv
<1>7. ASSUME NEW r \in Objs, Running(r), heap'[r].st = "stopped", heap'[r].hdl = None,
             \A o \in Objs \ {r} : heap'[o] = heap[o], win' = CloseRequested(heap[r].hdl)
      PROVE  HInv'
  <2>1. \A l \in Labels : win'[l] = win[l] \/ (l = heap[r].hdl /\ win'[l].st = "closing")
    BY <1>a, <1>7 DEF CloseRequested, TypeOK
  <2>2. \A l \in Labels : l # heap[r].hdl => win'[l] = win[l] BY <2>1
  <2>3. \A l \in Labels : win'[l].st = "open" => win[l].st = "open" BY <2>1
  <2>4. \A o \in Objs : heap'[o].hdl # None => o # r /\ heap'[o] = heap[o] /\ heap[o].hdl # None
    BY <1>7
  <2>5. \A o \in Objs : Running(o)' => o # r /\ heap'[o] = heap[o] /\ Running(o)
    BY <1>7 DEF Running
  <2>6. ASSUME NEW o \in Objs PROVE OwnWorker(o)'
    <3>1. Running(o)' => entries'[heap'[o].id] = o
      BY <1>4, <2>5 DEF HInv, OwnWorker
    <3>2. ASSUME heap'[o].hdl # None
          PROVE  /\ Running(o)' /\ heap'[o].hdl = LabelOf[heap'[o].id]
                 /\ win'[heap'[o].hdl].st = "open"
      <4>1. o # r /\ heap'[o] = heap[o] /\ heap[o].hdl # None BY <2>4, <3>2
      <4>2. heap[o].hdl \in Labels /\ heap[o].hdl # heap[r].hdl
        BY <4>1, OneWorker
      <4>3. Running(o) /\ heap[o].hdl = LabelOf[heap[o].id] /\ win[heap[o].hdl].st = "open"
        BY <4>1 DEF HInv, OwnWorker
      <4> QED BY <2>2, <4>1, <4>2, <4>3 DEF Running
    <3> QED BY <3>1, <3>2 DEF OwnWorker
  <2>7. ASSUME NEW u \in Calls PROVE Tends(u)'
    <3>a. Tends(u) BY DEF HInv
    <3>1. pc[u] \in {"built", "commit"} => win'[LabelFor(u)] = win[LabelFor(u)]
      <4> SUFFICES ASSUME pc[u] \in {"built", "commit"} PROVE win'[LabelFor(u)] = win[LabelFor(u)]
        OBVIOUS
      <4>1. pc[u] \in Holding BY DEF Holding
      <4>2. heap[r].hdl # LabelFor(u) BY <4>1, OwnLabelUnused
      <4>3. LabelFor(u) \in Labels BY <4>1, OwnEntry, ConstantsAssumption DEF LabelFor
      <4> QED BY <2>2, <4>2, <4>3
    <3>2. LabelFor(u)' = LabelFor(u) BY <1>3 DEF LabelFor
    <3>3. Spawns(u)' BY <1>3, <3>a, <3>1, <3>2 DEF Tends, Spawns
    <3>4. loc[u].hdl \in Labels \cup {None} BY <1>a DEF TypeOK, Local, Calls
    <3>5. \A i \in Known' : i \in Known /\ entries'[i] = entries[i] /\ entries[i] \in Objs
      BY <1>4, <1>a DEF Known, TypeOK
    <3>6. TearsDown(u)' BY <1>3, <2>3, <2>5, <3>a, <3>4, <3>5 DEF Tends, TearsDown
    <3>7. pc[u] = "visit" => ref[u] \in Objs BY DEF IInv, Wellformed, CallWellformed, Calls
    <3>8. Pending(u)' = Pending(u) BY <1>3, <1>4, <3>7 DEF Pending
    <3>9. Spares(u)' BY <1>3, <2>4, <3>a, <3>8 DEF Tends, Spares, On
    <3> QED BY <3>3, <3>6, <3>9 DEF Tends
  <2> QED BY <1>2, <2>6, <2>7 DEF HInv
<1> QED BY <1>5, <1>6, <1>7

\* So they are when only closing windows go.
LEMMA SameTidy ==
  ASSUME IInv, QInv, HInv, UNCHANGED <<entries, heap, pc, ref, loc>>,
         \A l \in Labels : win'[l] = win[l] \/ (win[l].st = "closing" /\ win'[l] = Absent)
  PROVE  HInv'
<1>1. \A l \in Labels : /\ win'[l].st = "open" <=> win[l].st = "open"
                        /\ Free(l) => Free(l)'
  BY DEF Absent, Free
<1>2. ASSUME NEW o \in Objs PROVE OwnWorker(o)'
  <2>1. OwnWorker(o) BY DEF HInv
  <2>2. heap[o].hdl # None => heap[o].hdl \in Labels BY DEF IInv, TypeOK, Entry
  <2> QED BY <1>1, <2>1, <2>2 DEF OwnWorker, Running
<1>3. ASSUME NEW u \in Calls PROVE Tends(u)'
  <2>1. Tends(u) BY DEF HInv
  <2>2. pc[u] \in {"built", "commit"} => LabelFor(u) \in Labels
    BY OwnEntry, ConstantsAssumption DEF LabelFor, Holding
  <2>3. loc[u].hdl \in Labels \cup {None} BY DEF IInv, TypeOK, Local, Calls
  <2>4. LabelFor(u)' = LabelFor(u) /\ Pending(u)' = Pending(u) BY DEF LabelFor, Pending
  <2>5. Spawns(u)' BY <1>1, <2>1, <2>2, <2>4 DEF Tends, Spawns
  <2>6. TearsDown(u)' BY <1>1, <2>1, <2>3 DEF Tends, TearsDown, Known, Running
  <2>7. Spares(u)' BY <2>1, <2>4 DEF Tends, Spares, On
  <2> QED BY <2>5, <2>6, <2>7 DEF Tends
<1>4. ASSUME MainPumps', NEW l \in Labels PROVE Free(l)' \/ Attended(l)'
  <2>1. Free(l) \/ Attended(l) BY <1>4 DEF HInv, MainPumps
  <2>2. Attended(l) => Attended(l)' BY DEF Attended, Attends, Spawner, LabelFor
  <2> QED BY <1>1, <2>1, <2>2
<1> QED BY <1>2, <1>3, <1>4 DEF HInv

\* A fresh process has no windows.
LEMMA FreshTidy ==
  ASSUME Fresh
  PROVE  HInv
<1>1. /\ \A t \in Procs : pc[t] \in {"sweep", "idle"}
      /\ \A o \in Objs : heap[o] = Unused
      /\ \A l \in Labels : win[l] = Absent
  BY DEF Fresh, FreshPc
<1>2. \A o \in Objs : OwnWorker(o) BY <1>1 DEF OwnWorker, Running, Unused
<1>3. \A t \in Calls : Tends(t)
  BY <1>1 DEF Calls, Tends, Spawns, TearsDown, Spares, On
<1>4. \A l \in Labels : Free(l) BY <1>1 DEF Free, Absent
<1> QED BY <1>2, <1>3, <1>4 DEF HInv

\* Every step leaves the windows in order.
LEMMA HInvStep ==
  ASSUME IInv, QInv, HInv, OneAtATime, CloseInTime, LabelsDiffer, [Next]_vars
  PROVE  HInv'
<1>1. ASSUME NEW t \in Procs,
             \/ Advance(t)
             \/ t \in Callers /\ Call(t)
             \/ t \in Sweepers /\ Sweep(t)
             \/ t = "main" /\ ExitRequested
      PROVE  HInv'
  <2>1. Others(t) BY <1>1, AdvanceOrderly, StartOrderly DEF IInv, Orderly
  <2>2. CASE t = "main"
    <3>1. "main" \notin Callers \cup Sweepers BY ConstantsAssumption DEF Sweepers
    <3>2. Advance("main") \/ ExitRequested BY <1>1, <2>2, <3>1
    <3> QED BY <3>2, MainTidy
  <2>3. CASE t # "main" /\ Advance(t)
    <3>1. t \in Calls /\ pc[t] # "idle" BY <2>3, AdvanceBusy DEF Calls
    <3>2. Tidy(t) BY <2>3, <3>1, AdvanceTidy
    <3> QED BY <2>1, <3>1, <3>2, OthersTidy
  <2>4. CASE t # "main" /\ ~Advance(t)
    <3>1. t \in Calls /\ ((t \in Callers /\ Call(t)) \/ (t \in Sweepers /\ Sweep(t)))
      BY <1>1, <2>4 DEF Calls
    <3>2. Tidy(t) BY <3>1, StartTidy
    <3>3. pc[t] # "idle" \/ \A u \in Calls : pc[u] = "idle" BY <3>1, StartParts
    <3> QED BY <2>1, <3>1, <3>2, <3>3, OthersTidy
  <2> QED BY <2>2, <2>3, <2>4
<1>2. CASE Environment
  <2>1. UNCHANGED <<entries, heap, pc, ref, loc>>
    BY <1>2 DEF Environment, Destroyed, RegisterCalled, RegisterResolved, RegisterServed,
       EditDisk, entryVars, procVars
  <2>2. \A l \in Labels : win'[l] = win[l] \/ (win[l].st = "closing" /\ win'[l] = Absent)
    <3>1. ASSUME NEW l \in Labels, Destroyed(l)
          PROVE  \A k \in Labels : win'[k] = win[k] \/ (win[k].st = "closing" /\ win'[k] = Absent)
      BY <3>1 DEF Destroyed, IInv, TypeOK
    <3>2. \/ \E l \in Labels : Destroyed(l)
          \/ UNCHANGED win
      BY <1>2 DEF Environment, RegisterCalled, RegisterResolved, RegisterServed, EditDisk, outVars
    <3> QED BY <3>1, <3>2
  <2> QED BY <2>1, <2>2, SameTidy
<1>3. CASE Restart
  <2>1. Fresh' BY <1>3 DEF Restart, Fresh
  <2>2. (Fresh => HInv)' BY FreshTidy, PTL
  <2> QED BY <2>1, <2>2
<1>4. CASE UNCHANGED vars
  <2>1. UNCHANGED <<entries, heap, win, pc, ref, loc>>
    BY <1>4 DEF vars, entryVars, outVars, procVars
  <2> QED BY <2>1, SameTidy
<1> QED BY <1>1, <1>2, <1>3, <1>4, StepKinds

\* So they are in order from the first start.
LEMMA HealthInvariant ==
  OneAtATime /\ NoEdits /\ CloseInTime /\ LabelsDiffer =>
    (Spec => [](IInv /\ QInv /\ RInv /\ HInv))
<1> SUFFICES ASSUME OneAtATime, NoEdits, CloseInTime, LabelsDiffer
             PROVE  Spec => [](IInv /\ QInv /\ RInv /\ HInv)
  OBVIOUS
<1>1. Init => HInv
  <2>1. Init => Fresh BY DEF Init, Fresh
  <2> QED BY <2>1, FreshTidy
<1>2. IInv /\ QInv /\ HInv /\ [Next]_vars => HInv' BY HInvStep
<1> QED BY <1>1, <1>2, RestoredInvariant, PTL DEF Spec

\* The facts an idle manager's walk collects are those of the entries of the map.
LEMMA QuietFacts ==
  ASSUME IInv, QInv, RInv, HInv, Quiet, NEW i \in Known
  PROVE  /\ entries[i] \in Objs /\ heap[entries[i]].id = i /\ i \in Ids
         /\ heap[entries[i]].st \in {"running", "stopped"}
         /\ heap[entries[i]].enabled <=> heap[entries[i]].st = "running"
         /\ OfDir(heap[entries[i]].dir, i)
         /\ heap[entries[i]].st # "running" => heap[entries[i]].hdl = None
<1>1. i \in Ids /\ entries[i] # None /\ entries[i] \in Objs BY DEF Known, IInv, TypeOK
<1>2. heap[entries[i]].id = i BY <1>1 DEF IInv, Wellformed
<1>3. AtRest(i) BY <1>1, QuietAll DEF Published, Current
<1>4. OfDir(heap[entries[i]].dir, i) BY <1>1, <1>2, ConstantsAssumption DEF RInv, OnDisk
<1>5. OwnWorker(entries[i]) BY <1>1 DEF HInv
<1> QED BY <1>1, <1>2, <1>3, <1>4, <1>5 DEF AtRest, OwnWorker, Running

\* So its health check has nothing to report.
LEMMA NothingToReport ==
  ASSUME IInv, QInv, RInv, HInv, LabelsDiffer, Quiet
  PROVE  Invariants = {} /\ Orphans = {}
<1> DEFINE FactOf(i) ==
      [id |-> heap[entries[i]].id, source_dir |-> heap[entries[i]].dir,
       enabled |-> heap[entries[i]].enabled, state |-> heap[entries[i]].st,
       bg_label |-> IF heap[entries[i]].st = "running" THEN heap[entries[i]].hdl ELSE None]
<1>1. EntryFacts = {FactOf(i) : i \in Known} BY DEF EntryFacts
<1>2. ASSUME NEW i \in Known
      PROVE  /\ FactOf(i).id = i /\ FactOf(i).source_dir = heap[entries[i]].dir
             /\ FactOf(i).enabled = heap[entries[i]].enabled
             /\ FactOf(i).state = heap[entries[i]].st
             /\ FactOf(i).bg_label = heap[entries[i]].hdl
  BY QuietFacts
<1> HIDE DEF FactOf
<1>3. ASSUME NEW f \in EntryFacts
      PROVE  \E i \in Known : f = FactOf(i)
  BY <1>1
<1>4. ASSUME NEW f \in EntryFacts, NEW g \in EntryFacts \ {f}
      PROVE  /\ g.source_dir # f.source_dir
             /\ f.bg_label # None => g.bg_label # f.bg_label
  <2>1. PICK i \in Known : f = FactOf(i) BY <1>3
  <2>2. PICK j \in Known : g = FactOf(j) BY <1>3
  <2>3. i # j BY <2>1, <2>2
  <2>4. OfDir(f.source_dir, i) /\ OfDir(g.source_dir, j) BY <1>2, <2>1, <2>2, QuietFacts
  <2>5. g.source_dir # f.source_dir BY <2>3, <2>4 DEF OfDir
  <2>6. entries[i] # entries[j] /\ entries[i] \in Objs /\ entries[j] \in Objs BY <2>3, QuietFacts
  <2>7. f.bg_label = heap[entries[i]].hdl /\ g.bg_label = heap[entries[j]].hdl
    BY <1>2, <2>1, <2>2
  <2>8. heap[entries[i]].hdl # None => heap[entries[j]].hdl # heap[entries[i]].hdl
    BY <2>6, OneWorker
  <2> QED BY <2>5, <2>7, <2>8
<1>5. ASSUME NEW f \in EntryFacts
      PROVE  /\ f.bg_label \in LiveWindows \cup {None}
             /\ ~(f.enabled /\ f.state = "stopped")
             /\ f.state # "uninstalling"
  <2>1. PICK i \in Known : f = FactOf(i) BY <1>3
  <2>2. entries[i] \in Objs BY QuietFacts
  <2>3. heap[entries[i]].hdl # None =>
          heap[entries[i]].hdl \in Labels /\ ~Free(heap[entries[i]].hdl)
    BY <2>2, OneWorker DEF HInv, OwnWorker, Free
  <2> QED BY <1>2, <2>1, <2>3, QuietFacts DEF LiveWindows
<1>6. Invariants = {}
  <2>1. {f \in EntryFacts : \E g \in EntryFacts \ {f} : g.source_dir = f.source_dir} = {}
    BY <1>4
  <2>2. {f \in EntryFacts :
           f.bg_label # None /\ \E g \in EntryFacts \ {f} : g.bg_label = f.bg_label} = {}
    BY <1>4
  <2>3. {f \in EntryFacts : f.bg_label \notin LiveWindows \cup {None}} = {} BY <1>5
  <2>4. {f \in EntryFacts : f.enabled /\ f.state = "stopped"} = {} BY <1>5
  <2>5. {f \in EntryFacts : f.state = "uninstalling" /\ store[f.id] # None} = {} BY <1>5
  <2> QED BY <2>1, <2>2, <2>3, <2>4, <2>5 DEF Invariants, CheckInvariants
<1>7. ASSUME NEW l \in LiveWindows PROVE l \in {f.bg_label : f \in EntryFacts}
  <2>1. l \in Labels /\ ~Free(l) BY DEF LiveWindows
  <2>2. \A t \in Calls : ~Attends(t, l) BY DEF Quiet, Busy, Calls, Attends, Spawner
  <2>3. MainPumps BY QuietAll
  <2>4. PICK o \in Objs : heap[o].hdl = l BY <2>1, <2>2, <2>3 DEF HInv, Attended
  <2>5. heap[o].hdl # None BY <2>1, <2>4, ConstantsAssumption
  <2>6. heap[o].id \in Ids /\ entries[heap[o].id] = o BY <2>5, OneWorker
  <2>7. heap[o].id \in Known BY <2>6, ConstantsAssumption DEF Known
  <2>8. FactOf(heap[o].id).bg_label = l BY <1>2, <2>4, <2>6, <2>7
  <2>9. FactOf(heap[o].id) \in EntryFacts BY <1>1, <2>7
  <2> QED BY <2>8, <2>9
<1>8. Orphans = {} BY <1>7 DEF Orphans
<1> QED BY <1>6, <1>8

\* An idle manager's health check has nothing to report: no two extensions share
\* a directory or a window, every worker's window exists, nothing enabled is
\* stopped, no uninstalled extension is persisted; and no window is an orphan.
THEOREM HealthyWhenQuiet ==
  OneAtATime /\ NoEdits /\ CloseInTime /\ LabelsDiffer => (Spec => []QuietReport)
<1> SUFFICES ASSUME OneAtATime, NoEdits, CloseInTime, LabelsDiffer
             PROVE  Spec => []QuietReport
  OBVIOUS
<1>1. IInv /\ QInv /\ RInv /\ HInv => QuietReport BY NothingToReport DEF QuietReport
<1> QED BY <1>1, HealthInvariant, PTL
-----------------------------------------------------------------------------
(* The entries follow the state machine of state.rs, where calls overlap but *)
(* nothing is uninstalled, or where they do not overlap.                     *)

NoUninstall ==
  /\ \A t \in Procs : op[t] # "uninstall"
  /\ \A o \in Objs : heap[o].st # "uninstalling"

\* A worker is a running entry's, a process under the mutex knows the state the
\* entry is in, and the map forgets only what is being uninstalled.
Bears(o) == heap[o].hdl # None => Running(o)
Phase(t) ==
  /\ pc[t] = "teardown" /\ op[t] # "uninstall" => heap[ref[t]].st = "stopping"
  /\ pc[t] \in Holding \ {"teardown"} => heap[ref[t]].st \in {"installed", "stopped"}
  /\ pc[t] = "remove" =>
       op[t] = "uninstall" /\ (loc[t].id \in Known => heap[entries[loc[t].id]].st = "uninstalling")
\* An entry in the map that is being uninstalled has a call that will remove it.
Leaves(t, o) ==
  pc[t] \in {"teardown", "remove"} /\ op[t] = "uninstall" /\ loc[t].id = heap[o].id
Leaving(o) ==
  heap[o].st = "uninstalling" /\ entries[heap[o].id] = o => \E t \in Procs : Leaves(t, o)

SInv == /\ \A o \in Objs : Bears(o) /\ Leaving(o)
        /\ \A t \in Procs : Phase(t)

\* What a call finds where calls do not overlap, or nothing is uninstalled.
Finds(t) ==
  /\ pc[t] = "lock" => heap[ref[t]].st # "uninstalling"
  /\ pc[t] = "lock" /\ op[t] = "uninstall" => heap[ref[t]].id = loc[t].id
  /\ pc[t] = "teardown" /\ op[t] = "uninstall" => entries[loc[t].id] = ref[t]

\* A step of the machine at one entry: what its state becomes, and its worker.
Move(t, o) ==
  /\ heap[o].id # None /\ heap'[o].id = heap[o].id /\ \A x \in Objs \ {o} : heap'[x] = heap[x]
  /\ \/ heap'[o].st = heap[o].st /\ heap'[o].hdl = heap[o].hdl
     \/ heap[o].st \in {"installed", "stopped"} /\ heap'[o].st = "running"
     \/ heap'[o].hdl = None /\ heap[o].st = "running" /\ heap'[o].st \in {"stopping", "stopped"}
     \/ heap'[o].hdl = None /\ heap[o].st = "stopping" /\ heap'[o].st = "stopped"
     \/ /\ heap'[o].hdl = None /\ heap'[o].st = "uninstalling"
        /\ heap[o].st \in {"installed", "stopped", "running"} /\ Leaves(t, o)'
Appears(t, o) ==
  /\ heap[o].id = None /\ heap'[o].st = "installed" /\ heap'[o].hdl = None
  /\ loc[t].id \in Ids \ Known /\ heap'[o].id = loc[t].id
  /\ entries' = [entries EXCEPT ![loc[t].id] = o] /\ \A x \in Objs \ {o} : heap'[x] = heap[x]
Vanishes(t) ==
  /\ UNCHANGED heap /\ loc[t].id \in Ids /\ entries' = [entries EXCEPT ![loc[t].id] = None]
  /\ loc[t].id \in Known => heap[entries[loc[t].id]].st = "uninstalling"

\* What a step of a process is to the machine, with what it leaves to the next.
Lawful(t) ==
  /\ \/ UNCHANGED <<entries, heap>>
     \/ UNCHANGED entries /\ \E o \in Objs : Move(t, o)
     \/ \E o \in Objs : Appears(t, o)
     \/ Vanishes(t)
  /\ Phase(t)'
  /\ pc[t] \in {"teardown", "remove"} /\ op[t] = "uninstall" =>
       Vanishes(t) \/ (pc'[t] = "remove" /\ op'[t] = op[t] /\ loc'[t].id = loc[t].id)

\* Every step of a process under way is lawful.
LEMMA AdvanceLawful ==
  ASSUME IInv, SInv, NEW t \in Procs, Finds(t), Advance(t)
  PROVE  Lawful(t)
<1> USE DEF Goto
<1>a. /\ TypeOK /\ CallWellformed(t) /\ loc[t] \in Local /\ Phase(t)
      /\ pc \in [Procs -> Steps] /\ heap \in [Objs -> Entry]
  BY DEF IInv, TypeOK, Wellformed, SInv
<1>h. /\ "teardown" \in Holding /\ "lock" \notin Holding /\ "remove" \notin Holding
      /\ {"root", "await1", "build1", "await2", "build2", "built", "adopt", "commit"} = Holding \ {"teardown"}
  BY DEF Holding
\* The entry stays as it is, and so does the call under its mutex, or it has none.
<1>q. ASSUME UNCHANGED <<entries, heap>>, pc'[t] \notin Holding \cup {"remove"},
             pc[t] \notin {"teardown", "remove"}
      PROVE  Lawful(t)
  <2>1. Phase(t)' BY <1>q, <1>h DEF Phase
  <2> QED BY <1>q, <2>1 DEF Lawful
<1>s. ASSUME UNCHANGED <<entries, heap, ref>>, pc'[t] \in Holding \ {"teardown"},
             pc[t] \in Holding \ {"teardown"}
      PROVE  Lawful(t)
  <2>1. heap[ref[t]].st \in {"installed", "stopped"} BY <1>a, <1>s DEF Phase
  <2>2. Phase(t)' BY <1>s, <1>h, <2>1 DEF Phase
  <2> QED BY <1>s, <1>h, <2>2 DEF Lawful
<1>r. ASSUME Return(t) PROVE pc'[t] \notin Holding \cup {"remove"}
  BY <1>a, <1>r DEF Return, Holding
<1>1. CASE Peek(t) \/ Parse(t) \/ EntryFound(t) \/ Unroot(t) \/ EmitLate(t)
  <2>1. UNCHANGED <<entries, heap>>
    BY <1>1 DEF Peek, Parse, EntryFound, Unroot, EmitLate, entryVars, outVars
  <2>2. pc'[t] \in {"parse", "entry", "lock", "persist"} /\ pc[t] \in {"peek", "parse", "entry", "unroot", "emit"}
    BY <1>1, <1>a DEF Peek, Parse, EntryFound, Unroot, EmitLate, At
  <2> QED BY <1>q, <2>1, <2>2 DEF Holding
<1>2. CASE ParseFails(t) \/ EnableFails(t) \/ EndProject(t) \/ EndUninstall(t) \/ EndSweep(t)
  <2>1. UNCHANGED <<entries, heap>> /\ Return(t)
    BY <1>2 DEF ParseFails, EnableFails, EndProject, EndUninstall, EndSweep, entryVars
  <2>2. pc[t] \in {"parse", "lock", "walk", "reap"}
    BY <1>2 DEF ParseFails, EnableFails, EndProject, EndUninstall, EndSweep, At, Walked
  <2> QED BY <1>q, <1>r, <2>1, <2>2
<1>3. CASE BeginPersist(t) \/ Prune(t)
  <2>1. UNCHANGED <<entries, heap>> /\ pc[t] \in {"persist", "project"}
    BY <1>3 DEF BeginPersist, Prune, entryVars
  <2>2. pc'[t] = "walk" BY <1>a, <1>3 DEF BeginPersist, Prune, StartWalk
  <2> QED BY <1>q, <2>1, <2>2 DEF Holding
<1>4. CASE CollectRow(t) \/ Project(t) \/ NoteLabel(t) \/ Save(t) \/ SaveFails(t) \/ ListWindows(t) \/ ExitDone(t)
  <2>1. UNCHANGED <<entries, heap>> /\ pc[t] \in {"walk", "visit"}
    BY <1>4 DEF CollectRow, Project, NoteLabel, Save, SaveFails, ListWindows, ExitDone, Visiting, Walked, entryVars
  <2>2. pc'[t] \in {"walk", "project", "reap", "exited"}
    BY <1>4, <1>a DEF CollectRow, Project, NoteLabel, Save, SaveFails, ListWindows, ExitDone, Visiting, Walked
  <2> QED BY <1>q, <2>1, <2>2 DEF Holding
<1>5. CASE LoadStore(t) \/ LoadFails(t) \/ RestoreDone(t)
  <2>1. UNCHANGED <<entries, heap>> /\ pc[t] \in {"reap", "restore"}
    BY <1>5 DEF LoadStore, LoadFails, RestoreDone, entryVars
  <2>2. pc'[t] \in {"restore", "idle"} BY <1>5, <1>a DEF LoadStore, LoadFails, RestoreDone
  <2> QED BY <1>q, <2>1, <2>2 DEF Holding
<1>6. ASSUME NEW r \in Ids \X Dirs, RestoreNext(t, r) PROVE Lawful(t)
  <2>1. UNCHANGED <<entries, heap>> /\ pc[t] = "restore" /\ pc'[t] = "parse"
    BY <1>6, <1>a DEF RestoreNext, entryVars
  <2> QED BY <1>q, <2>1 DEF Holding
<1>7. ASSUME NEW i \in Ids, WalkNext(t, i) PROVE Lawful(t)
  <2>1. UNCHANGED <<entries, heap>> /\ pc[t] = "walk" /\ pc'[t] \in {"walk", "visit"}
    BY <1>7, <1>a DEF WalkNext, entryVars
  <2> QED BY <1>q, <2>1 DEF Holding
<1>8. ASSUME NEW l \in Labels, Reap(t, l) PROVE Lawful(t)
  <2>1. UNCHANGED <<entries, heap>> /\ pc[t] = "reap" /\ pc'[t] = "reap"
    BY <1>8 DEF Reap, entryVars
  <2> QED BY <1>q, <2>1 DEF Holding
<1>9. CASE \/ PublishRoot(t) \/ FirstAwait(t) \/ Build(t) \/ BuildFails(t) \/ LabelTaken(t)
           \/ SecondAwait(t) \/ StillTaken(t) \/ TakeHandle(t)
  <2>1. UNCHANGED <<entries, heap, ref>>
    BY <1>9 DEF PublishRoot, FirstAwait, Build, BuildFails, LabelTaken, SecondAwait, StillTaken,
       TakeHandle, entryVars
  <2>2. pc[t] \in {"root", "await1", "build1", "await2", "build2", "built", "adopt"}
    BY <1>9 DEF PublishRoot, FirstAwait, Build, BuildFails, LabelTaken, SecondAwait, StillTaken, TakeHandle
  <2>3. pc'[t] \in {"await1", "build1", "await2", "build2", "built", "adopt", "commit"}
    BY <1>9, <1>a DEF PublishRoot, FirstAwait, Build, BuildFails, LabelTaken, SecondAwait, StillTaken,
       TakeHandle
  <2> QED BY <1>s, <1>h, <2>1, <2>2, <2>3
\* The entry the call is at, or the process visits, changes.
<1>e. pc[t] \in {"lock", "visit"} \cup Holding => ref[t] \in Objs /\ heap[ref[t]].id # None
  <2>1. None \notin Objs BY ConstantsAssumption
  <2> QED BY <1>a, <2>1 DEF CallWellformed
<1>m. ASSUME NEW e, heap' = [heap EXCEPT ![ref[t]] = e], ref[t] \in Objs, e.id = heap[ref[t]].id
      PROVE  /\ heap'[ref[t]] = e /\ heap'[ref[t]].id = heap[ref[t]].id
             /\ \A x \in Objs \ {ref[t]} : heap'[x] = heap[x]
  BY <1>a, <1>m
\* Who finds the mutex free finds one of the states between transitions.
<1>f. ASSUME pc[t] = "lock", lock[ref[t]] = None
      PROVE  heap[ref[t]].st \in {"installed", "stopped", "running"}
  <2>1. heap[ref[t]].st \in States BY <1>a, <1>e, <1>f DEF Entry
  <2>2. heap[ref[t]].st # "stopping" BY <1>e, <1>f DEF IInv, SettledEntries, SettledAt
  <2>3. heap[ref[t]].st # "uninstalling" BY <1>f DEF Finds
  <2> QED BY <2>1, <2>2, <2>3 DEF States
<1>10. CASE InstallOverRunning(t) \/ DisableLocks(t)
  <2>1. pc[t] = "lock" /\ op[t] \in {"install", "reload", "disable"} /\ heap[ref[t]].st = "running"
    BY <1>10 DEF InstallOverRunning, DisableLocks, At, Mine
  <2>2. PICK d \in {loc[t].dir, heap[ref[t]].dir} :
          heap' = [heap EXCEPT ![ref[t]] = [heap[ref[t]] EXCEPT !.dir = d, !.st = "stopping", !.hdl = None]]
    <3>1. CASE InstallOverRunning(t) BY <3>1 DEF InstallOverRunning, SetEntry, Mine
    <3>2. CASE DisableLocks(t)
      <4>1. [heap[ref[t]] EXCEPT !.st = "stopping", !.hdl = None]
              = [heap[ref[t]] EXCEPT !.dir = heap[ref[t]].dir, !.st = "stopping", !.hdl = None]
        BY <1>a, <1>e, <2>1 DEF Entry
      <4> QED BY <3>2, <4>1 DEF DisableLocks, SetEntry, Mine
    <3> QED BY <1>10, <3>1, <3>2
  <2> DEFINE e == [heap[ref[t]] EXCEPT !.dir = d, !.st = "stopping", !.hdl = None]
  <2>3. e.st = "stopping" /\ e.hdl = None /\ e.id = heap[ref[t]].id
    BY <1>a, <1>e, <2>1 DEF Entry
  <2>4. heap' = [heap EXCEPT ![ref[t]] = e] BY <2>2
  <2>5. UNCHANGED <<entries, ref>> /\ pc'[t] = "teardown" /\ op'[t] = op[t]
    BY <1>10, <1>a DEF InstallOverRunning, DisableLocks
  <2> HIDE DEF e
  <2>6. /\ heap'[ref[t]] = e /\ heap'[ref[t]].id = heap[ref[t]].id
        /\ \A x \in Objs \ {ref[t]} : heap'[x] = heap[x]
    BY <1>e, <1>m, <2>1, <2>3, <2>4
  <2>7. Move(t, ref[t]) BY <1>e, <2>1, <2>3, <2>6 DEF Move
  <2>8. Phase(t)' BY <2>3, <2>5, <2>6 DEF Phase
  <2> QED BY <1>e, <2>1, <2>5, <2>7, <2>8 DEF Lawful
<1>11. CASE InstallOverIdle(t)
  <2>1. /\ pc[t] = "lock" /\ op[t] \in {"install", "reload"} /\ heap[ref[t]].st # "running"
        /\ lock[ref[t]] = None
    BY <1>11 DEF InstallOverIdle, At, Mine, Take
  <2> DEFINE e == [heap[ref[t]] EXCEPT !.dir = loc[t].dir]
  <2>2. heap' = [heap EXCEPT ![ref[t]] = e] BY <1>11 DEF InstallOverIdle, SetEntry, Mine
  <2>3. e.st = heap[ref[t]].st /\ e.hdl = heap[ref[t]].hdl /\ e.id = heap[ref[t]].id
    BY <1>a, <1>e, <2>1 DEF Entry
  <2>4. UNCHANGED <<entries, ref>> /\ pc'[t] = "root" BY <1>11, <1>a DEF InstallOverIdle
  <2> HIDE DEF e
  <2>5. /\ heap'[ref[t]] = e /\ heap'[ref[t]].id = heap[ref[t]].id
        /\ \A x \in Objs \ {ref[t]} : heap'[x] = heap[x]
    BY <1>e, <1>m, <2>1, <2>2, <2>3
  <2>6. Move(t, ref[t]) BY <1>e, <2>1, <2>3, <2>5 DEF Move
  <2>7. heap[ref[t]].st \in {"installed", "stopped"} BY <1>f, <2>1
  <2>8. Phase(t)' BY <1>h, <2>3, <2>4, <2>5, <2>7 DEF Phase
  <2> QED BY <1>e, <2>1, <2>4, <2>6, <2>8 DEF Lawful
<1>12. CASE EnableLocks(t)
  <2>1. /\ pc[t] = "lock" /\ heap[ref[t]].st # "running" /\ lock[ref[t]] = None
    BY <1>12 DEF EnableLocks, At, Mine, Take
  <2>2. UNCHANGED <<entries, heap, ref>> /\ pc'[t] = "root" BY <1>12, <1>a DEF EnableLocks
  <2>3. heap[ref[t]].st \in {"installed", "stopped"} BY <1>f, <2>1
  <2>4. Phase(t)' BY <1>h, <2>2, <2>3 DEF Phase
  <2> QED BY <2>1, <2>2, <2>4 DEF Lawful
<1>13. CASE UninstallLocks(t)
  <2>1. pc[t] = "lock" /\ op[t] = "uninstall" /\ lock[ref[t]] = None
    BY <1>13 DEF UninstallLocks, At, Take
  <2> DEFINE e == [heap[ref[t]] EXCEPT !.st = "uninstalling", !.hdl = None]
  <2>2. heap' = [heap EXCEPT ![ref[t]] = e] BY <1>13 DEF UninstallLocks, SetEntry, Mine
  <2>3. e.st = "uninstalling" /\ e.hdl = None /\ e.id = heap[ref[t]].id
    BY <1>a, <1>e, <2>1 DEF Entry
  <2>4. /\ UNCHANGED <<entries, ref>> /\ pc'[t] = "teardown" /\ op'[t] = "uninstall"
        /\ loc'[t].id = loc[t].id
    BY <1>13, <1>a, <2>1 DEF UninstallLocks, TypeOK, Local
  <2> HIDE DEF e
  <2>5. /\ heap'[ref[t]] = e /\ heap'[ref[t]].id = heap[ref[t]].id
        /\ \A x \in Objs \ {ref[t]} : heap'[x] = heap[x]
    BY <1>e, <1>m, <2>1, <2>2, <2>3
  <2>6. heap[ref[t]].st \in {"installed", "stopped", "running"}
    BY <1>f, <2>1
  <2>7. Leaves(t, ref[t])' BY <2>1, <2>4, <2>5 DEF Leaves, Finds
  <2>8. Move(t, ref[t])
    BY <1>e, <2>1, <2>3, <2>4, <2>5, <2>6, <2>7 DEF Move
  <2>9. Phase(t)' BY <2>4 DEF Phase
  <2> QED BY <1>e, <2>1, <2>4, <2>8, <2>9 DEF Lawful
<1>14. CASE DisableIdle(t) \/ EnableRunning(t)
  <2>1. pc[t] = "lock" BY <1>14 DEF DisableIdle, EnableRunning, At
  <2>2. PICK b \in BOOLEAN : heap' = [heap EXCEPT ![ref[t]] = [heap[ref[t]] EXCEPT !.enabled = b]]
    BY <1>14 DEF DisableIdle, EnableRunning, SetEntry, Mine
  <2> DEFINE e == [heap[ref[t]] EXCEPT !.enabled = b]
  <2>3. e.st = heap[ref[t]].st /\ e.hdl = heap[ref[t]].hdl /\ e.id = heap[ref[t]].id
    BY <1>a, <1>e, <2>1 DEF Entry
  <2>4. UNCHANGED entries BY <1>14 DEF DisableIdle, EnableRunning
  <2>5. pc'[t] \notin Holding \cup {"remove"}
    <3>1. CASE DisableIdle(t) BY <3>1, <1>a DEF DisableIdle, Holding
    <3>2. CASE EnableRunning(t) BY <3>2, <1>r DEF EnableRunning
    <3> QED BY <1>14, <3>1, <3>2
  <2>6. heap' = [heap EXCEPT ![ref[t]] = e] BY <2>2
  <2> HIDE DEF e
  <2>7. /\ heap'[ref[t]] = e /\ heap'[ref[t]].id = heap[ref[t]].id
        /\ \A x \in Objs \ {ref[t]} : heap'[x] = heap[x]
    BY <1>e, <1>m, <2>1, <2>3, <2>6
  <2>8. Move(t, ref[t]) BY <1>e, <2>1, <2>3, <2>7 DEF Move
  <2>9. Phase(t)' BY <1>h, <2>5 DEF Phase
  <2> QED BY <1>e, <2>1, <2>4, <2>8, <2>9 DEF Lawful
<1>15. CASE ReloadStopped(t) \/ DisableStopped(t)
  <2>1. pc[t] = "teardown" /\ op[t] # "uninstall" /\ heap[ref[t]].st = "stopping"
    BY <1>15, <1>a DEF ReloadStopped, DisableStopped, TornDown, Phase
  <2>2. PICK b \in {heap[ref[t]].enabled, FALSE} :
          heap' = [heap EXCEPT ![ref[t]] = [heap[ref[t]] EXCEPT !.st = "stopped", !.enabled = b]]
    <3>1. CASE DisableStopped(t) BY <3>1 DEF DisableStopped, SetEntry, Mine
    <3>2. CASE ReloadStopped(t)
      <4>1. [heap[ref[t]] EXCEPT !.st = "stopped"]
              = [heap[ref[t]] EXCEPT !.st = "stopped", !.enabled = heap[ref[t]].enabled]
        BY <1>a, <1>e, <1>h, <2>1 DEF Entry
      <4> QED BY <3>2, <4>1 DEF ReloadStopped, SetEntry, Mine
    <3> QED BY <1>15, <3>1, <3>2
  <2> DEFINE e == [heap[ref[t]] EXCEPT !.st = "stopped", !.enabled = b]
  <2>3. e.st = "stopped" /\ e.hdl = heap[ref[t]].hdl /\ e.id = heap[ref[t]].id
    BY <1>a, <1>e, <1>h, <2>1 DEF Entry
  <2>4. UNCHANGED <<entries, ref>> /\ pc'[t] \in {"root", "emit"}
    BY <1>15, <1>a DEF ReloadStopped, DisableStopped
  <2>5. heap' = [heap EXCEPT ![ref[t]] = e] BY <2>2
  <2> HIDE DEF e
  <2>6. /\ heap'[ref[t]] = e /\ heap'[ref[t]].id = heap[ref[t]].id
        /\ \A x \in Objs \ {ref[t]} : heap'[x] = heap[x]
    BY <1>e, <1>h, <1>m, <2>1, <2>3, <2>5
  <2>7. heap[ref[t]].hdl = None
    BY <1>e, <1>h, <2>1 DEF SInv, Bears, Running
  <2>8. Move(t, ref[t]) BY <1>e, <1>h, <2>1, <2>3, <2>6, <2>7 DEF Move
  <2>9. Phase(t)' BY <1>h, <2>3, <2>4, <2>6 DEF Phase
  <2> QED BY <1>e, <1>h, <2>1, <2>4, <2>8, <2>9 DEF Lawful
<1>16. CASE UninstallStopped(t)
  <2>1. pc[t] = "teardown" /\ op[t] = "uninstall" BY <1>16 DEF UninstallStopped, TornDown
  <2>2. /\ UNCHANGED <<entries, heap, ref>> /\ pc'[t] = "remove" /\ op'[t] = op[t]
        /\ loc'[t].id = loc[t].id
    BY <1>16, <1>a DEF UninstallStopped
  <2>3. heap[ref[t]].st = "uninstalling" BY <2>1 DEF IInv, MutexDiscipline
  <2>4. entries[loc[t].id] = ref[t] BY <2>1 DEF Finds
  <2>5. Phase(t)' BY <1>h, <2>1, <2>2, <2>3, <2>4 DEF Phase
  <2> QED BY <2>2, <2>5 DEF Lawful
<1>17. CASE Remove(t)
  <2>1. pc[t] = "remove" /\ entries' = [entries EXCEPT ![loc[t].id] = None] /\ UNCHANGED heap
    BY <1>17 DEF Remove
  <2>2. loc[t].id \in Ids BY <1>a, <2>1 DEF CallWellformed
  <2>3. pc'[t] = "unroot" BY <1>17, <1>a DEF Remove
  <2>4. Vanishes(t) BY <1>a, <2>1, <2>2 DEF Vanishes, Phase
  <2>5. Phase(t)' BY <1>h, <2>3 DEF Phase, Holding
  <2> QED BY <2>4, <2>5 DEF Lawful
<1>18. CASE CommitInstall(t) \/ CommitEnable(t)
  <2>1. pc[t] = "commit" /\ heap[ref[t]].st \in {"installed", "stopped"}
    BY <1>18, <1>a, <1>h DEF CommitInstall, CommitEnable, At, Phase
  <2> DEFINE e == [heap[ref[t]] EXCEPT !.st = "running", !.hdl = loc[t].hdl, !.enabled = TRUE]
  <2>2. heap' = [heap EXCEPT ![ref[t]] = e] /\ UNCHANGED entries
    BY <1>18 DEF CommitInstall, CommitEnable, SetEntry, Mine
  <2>3. e.st = "running" /\ e.id = heap[ref[t]].id
    BY <1>a, <1>e, <1>h, <2>1 DEF Entry
  <2>4. pc'[t] \in {"persist", "emit"} BY <1>18, <1>a DEF CommitInstall, CommitEnable
  <2> HIDE DEF e
  <2>5. /\ heap'[ref[t]] = e /\ heap'[ref[t]].id = heap[ref[t]].id
        /\ \A x \in Objs \ {ref[t]} : heap'[x] = heap[x]
    BY <1>e, <1>h, <1>m, <2>1, <2>2, <2>3
  <2>6. Move(t, ref[t]) BY <1>e, <1>h, <2>1, <2>3, <2>5 DEF Move
  <2>7. Phase(t)' BY <2>4 DEF Phase, Holding
  <2> QED BY <1>e, <1>h, <2>1, <2>2, <2>6, <2>7 DEF Lawful
<1>19. ASSUME NEW o \in Objs, EntryAdded(t, o) PROVE Lawful(t)
  <2>1. /\ pc[t] = "entry" /\ loc[t].id \in Ids /\ entries[loc[t].id] = None /\ heap[o].id = None
        /\ entries' = [entries EXCEPT ![loc[t].id] = o]
    BY <1>19, <1>a DEF EntryAdded, CallWellformed
  <2> DEFINE e == [Unused EXCEPT !.id = loc[t].id, !.dir = loc[t].dir]
  <2>2. heap' = [heap EXCEPT ![o] = e] BY <1>19 DEF EntryAdded
  <2>3. e.st = "installed" /\ e.hdl = None /\ e.id = loc[t].id BY DEF Unused
  <2>4. pc'[t] = "lock" BY <1>19, <1>a DEF EntryAdded
  <2> HIDE DEF e
  <2>5. heap'[o] = e /\ \A x \in Objs \ {o} : heap'[x] = heap[x] BY <1>a, <2>2
  <2>6. Appears(t, o) BY <2>1, <2>3, <2>5 DEF Appears, Known
  <2>7. Phase(t)' BY <1>h, <2>4 DEF Phase
  <2> QED BY <2>1, <2>6, <2>7 DEF Lawful
<1>20. CASE ShutdownVisit(t)
  <2>1. pc[t] = "visit" /\ pc'[t] = "walk" /\ UNCHANGED entries
    BY <1>20, <1>a DEF ShutdownVisit, Visiting
  <2>2. CASE Running(ref[t])
    <3> DEFINE e == [heap[ref[t]] EXCEPT !.st = "stopped", !.hdl = None]
    <3>1. heap' = [heap EXCEPT ![ref[t]] = e] BY <1>20, <2>2 DEF ShutdownVisit, SetEntry, Mine
    <3>2. e.st = "stopped" /\ e.hdl = None /\ e.id = heap[ref[t]].id
      BY <1>a, <1>e, <2>1 DEF Entry
    <3> HIDE DEF e
    <3>3. /\ heap'[ref[t]] = e /\ heap'[ref[t]].id = heap[ref[t]].id
          /\ \A x \in Objs \ {ref[t]} : heap'[x] = heap[x]
      BY <1>e, <1>m, <2>1, <3>1, <3>2
    <3>4. Move(t, ref[t]) BY <1>e, <2>1, <2>2, <3>2, <3>3 DEF Move, Running
    <3>5. Phase(t)' BY <2>1 DEF Phase, Holding
    <3> QED BY <1>e, <2>1, <3>4, <3>5 DEF Lawful
  <2>3. CASE ~Running(ref[t])
    <3>1. UNCHANGED heap BY <1>20, <2>3 DEF ShutdownVisit
    <3> QED BY <1>q, <2>1, <3>1 DEF Holding
  <2> QED BY <2>2, <2>3
<1> QED
  BY <1>1, <1>2, <1>3, <1>4, <1>5, <1>6, <1>7, <1>8, <1>9, <1>10, <1>11, <1>12, <1>13, <1>14,
     <1>15, <1>16, <1>17, <1>18, <1>19, <1>20
  DEF Advance

\* A call that starts has changed nothing yet.
LEMMA StartLawful ==
  ASSUME IInv, NEW t \in Procs,
         \/ t \in Callers /\ Call(t)
         \/ t \in Sweepers /\ Sweep(t)
         \/ t = "main" /\ ExitRequested
  PROVE  Lawful(t) /\ UNCHANGED <<entries, heap>>
<1> USE DEF Goto
<1>a. pc \in [Procs -> Steps] BY DEF IInv, TypeOK
<1>1. UNCHANGED <<entries, heap>>
  BY DEF Call, CallInstall, CallOn, Sweep, ExitRequested, entryVars
<1>2. pc'[t] \in {"parse", "peek", "lock", "walk"}
  BY <1>a DEF Call, CallInstall, CallOn, Sweep, ExitRequested, StartWalk
<1>3. pc[t] \notin {"teardown", "remove"}
  BY DEF Call, CallInstall, CallOn, Sweep, ExitRequested, MayCall, MainPumps
<1>4. Phase(t)' BY <1>2 DEF Phase, Holding
<1> QED BY <1>1, <1>3, <1>4 DEF Lawful

\* Nobody finds an entry that is being uninstalled under a free mutex, where calls
\* do not overlap or nothing is uninstalled.
LEMMA FindsItsOwn ==
  ASSUME IInv, SInv, QInv \/ NoUninstall, NEW t \in Procs
  PROVE  Finds(t)
<1>1. CASE NoUninstall
  <2>1. pc[t] = "lock" => ref[t] \in Objs BY DEF IInv, Wellformed, CallWellformed
  <2> QED BY <1>1, <2>1 DEF NoUninstall, Finds
<1>2. CASE QInv
  <2> SUFFICES ASSUME pc[t] \in {"lock", "teardown"} PROVE Finds(t) BY DEF Finds
  <2>1. t \in Calls BY DEF Calls, IInv, MainExits
  <2>2. /\ ref[t] \in Objs /\ heap[ref[t]].id = loc[t].id /\ entries[loc[t].id] = ref[t]
    BY <1>2, <2>1, OwnEntry DEF Holding
  <2>3. ASSUME pc[t] = "lock", heap[ref[t]].st = "uninstalling" PROVE FALSE
    <3>1. PICK u \in Procs : Leaves(u, ref[t]) BY <2>2, <2>3 DEF SInv, Leaving
    <3>2. pc[u] \in {"teardown", "remove"} BY <3>1 DEF Leaves
    <3>3. u \in Calls BY <3>2 DEF Calls, IInv, MainExits
    <3>4. u = t BY <1>2, <2>1, <2>3, <3>2, <3>3 DEF QInv, Alone
    <3> QED BY <2>3, <3>2, <3>4
  <2> QED BY <2>2, <2>3 DEF Finds
<1> QED BY <1>1, <1>2

\* A lawful step keeps what is being uninstalled so, ...
LEMMA StaysUninstalling ==
  ASSUME NEW t \in Procs, Lawful(t), NEW o \in Objs, heap[o].id # None
  PROVE  /\ heap'[o].id = heap[o].id
         /\ heap[o].st = "uninstalling" => heap'[o].st = "uninstalling"
         /\ heap'[o].st = "uninstalling" => heap[o].st = "uninstalling" \/ Leaves(t, o)'
BY DEF Lawful, Move, Appears, Vanishes

\* ... takes no entry from whoever holds its mutex,
LEMMA HeldKept ==
  ASSUME IInv, NEW t \in Procs, EntryPart(t), NEW u \in Procs \ {t}, pc[u] \in Holding
  PROVE  heap'[ref[u]] = heap[ref[u]]
<1>1. lock[ref[u]] = u /\ ref[u] \in Objs /\ heap[ref[u]].id # None
  <2>1. None \notin Objs BY ConstantsAssumption
  <2> QED BY <2>1 DEF IInv, MutexDiscipline, Wellformed, CallWellformed
<1>2. u # None BY ConstantsAssumption
<1>3. CASE Neutral(t) BY <1>3 DEF Neutral
<1>4. ASSUME NEW o \in Objs, Adds(t, o) PROVE heap'[ref[u]] = heap[ref[u]]
  BY <1>1, <1>4 DEF Adds
<1>5. ASSUME NEW o \in Objs, Touches(t, o) PROVE heap'[ref[u]] = heap[ref[u]]
  <2>1. lock[o] \in {None, t} BY <1>5 DEF Touches, Takes, Keeps, Releases, Glances
  <2> QED BY <1>1, <1>2, <1>5, <2>1 DEF Touches, Changes
<1> QED BY <1>3, <1>4, <1>5 DEF EntryPart

\* ... and leaves to the next step what it needs.
LEMMA LawfulKeeps ==
  ASSUME IInv, SInv, NEW t \in Procs, Lawful(t), Others(t), EntryPart(t),
         UNCHANGED entries \/ \A u \in Procs \ {t} : pc[u] # "remove"
  PROVE  SInv'
<1>1. ASSUME NEW o \in Objs PROVE Bears(o)'
  <2>0. Bears(o) BY DEF SInv
  <2>1. CASE UNCHANGED heap BY <2>0, <2>1 DEF Bears, Running
  <2>2. ASSUME NEW x \in Objs, Move(t, x) PROVE Bears(o)'
    BY <2>0, <2>2 DEF Move, Bears, Running
  <2>3. ASSUME NEW x \in Objs, Appears(t, x) PROVE Bears(o)'
    BY <2>0, <2>3 DEF Appears, Bears, Running
  <2> QED BY <2>1, <2>2, <2>3 DEF Lawful, Vanishes
<1>2. ASSUME NEW o \in Objs, heap'[o].st = "uninstalling", entries'[heap'[o].id] = o
      PROVE  \E u \in Procs : Leaves(u, o)'
  <2>1. heap[o].id # None
    <3> SUFFICES ASSUME heap[o].id = None PROVE FALSE OBVIOUS
    <3>1. heap[o] = Unused BY DEF IInv, Wellformed, EntryWellformed
    <3>2. heap[o].st # "uninstalling" BY <3>1 DEF Unused
    <3>3. CASE UNCHANGED heap BY <1>2, <3>2, <3>3
    <3>4. ASSUME NEW x \in Objs, Move(t, x) PROVE FALSE BY <1>2, <3>2, <3>4 DEF Move
    <3>5. ASSUME NEW x \in Objs, Appears(t, x) PROVE FALSE BY <1>2, <3>2, <3>5 DEF Appears
    <3> QED BY <3>3, <3>4, <3>5 DEF Lawful, Vanishes
  <2>2. heap'[o].id = heap[o].id /\ (heap[o].st = "uninstalling" \/ Leaves(t, o)')
    BY <1>2, <2>1, StaysUninstalling
  <2> SUFFICES ASSUME heap[o].st = "uninstalling" PROVE \E u \in Procs : Leaves(u, o)'
    BY <2>2
  <2>3. heap[o].id \in Ids BY <2>1 DEF IInv, TypeOK, Entry
  <2>4. entries[heap[o].id] = o
    <3>1. ASSUME NEW x \in Objs, Appears(t, x), entries[heap[o].id] # o PROVE FALSE
      <4>1. heap[o].id = loc[t].id /\ x = o
        BY <1>2, <2>2, <2>3, <3>1 DEF Appears, IInv, TypeOK
      <4> QED BY <2>1, <3>1, <4>1 DEF Appears
    <3>2. CASE Vanishes(t)
      <4>1. o # None BY ConstantsAssumption
      <4> QED BY <1>2, <2>2, <2>3, <3>2, <4>1 DEF Vanishes, IInv, TypeOK
    <3> QED BY <1>2, <2>2, <3>1, <3>2 DEF Lawful
  <2>5. PICK u \in Procs : Leaves(u, o) BY <2>4 DEF SInv, Leaving
  <2>6. CASE u # t BY <2>2, <2>5, <2>6 DEF Others, Leaves
  <2>7. CASE u = t
    <3>1. ~Vanishes(t)
      <4>1. o # None BY ConstantsAssumption
      <4> QED BY <1>2, <2>2, <2>3, <2>5, <2>7, <4>1 DEF Vanishes, Leaves, IInv, TypeOK
    <3>2. pc'[t] = "remove" /\ op'[t] = op[t] /\ loc'[t].id = loc[t].id
      BY <2>5, <2>7, <3>1 DEF Lawful, Leaves
    <3> QED BY <2>2, <2>5, <2>7, <3>2 DEF Leaves
  <2> QED BY <2>6, <2>7
<1>3. ASSUME NEW u \in Procs \ {t} PROVE Phase(u)'
  <2>1. /\ pc'[u] = pc[u] /\ op'[u] = op[u] /\ ref'[u] = ref[u] /\ loc'[u] = loc[u] /\ Phase(u)
    BY DEF Others, SInv
  <2>2. pc[u] \in Holding => heap'[ref[u]] = heap[ref[u]] BY HeldKept
  <2>3. ASSUME pc[u] = "remove", loc[u].id \in Known'
        PROVE  heap'[entries'[loc[u].id]].st = "uninstalling"
    <3>1. entries' = entries /\ loc[u].id \in Known BY <2>3 DEF Known
    <3>2. heap[entries[loc[u].id]].st = "uninstalling" BY <2>1, <2>3, <3>1 DEF Phase
    <3>3. entries[loc[u].id] \in Objs /\ heap[entries[loc[u].id]].id # None
      BY <3>1, ConstantsAssumption DEF Known, IInv, TypeOK, Wellformed
    <3> QED BY <3>1, <3>2, <3>3, StaysUninstalling
  <2>4. "teardown" \in Holding BY DEF Holding
  <2> QED BY <2>1, <2>2, <2>3, <2>4 DEF Phase
<1>4. Phase(t)' BY DEF Lawful
<1> QED BY <1>1, <1>2, <1>3, <1>4 DEF SInv, Leaving

\* A step at one entry is the machine's step at its id, if the map has that entry.
LEMMA MoveMaps ==
  ASSUME IInv, TypeOK', NEW t \in Procs, NEW o \in Objs, Move(t, o), UNCHANGED entries
  PROVE  [Machine!Next]_(Machine!vars)
<1> DEFINE i == heap[o].id
<1>1. i \in Ids BY DEF Move, IInv, TypeOK, Entry
<1>2. \A j \in Ids : j \in Known <=> entries[j] # None BY DEF Known
<1>3. Known' = Known BY DEF Known
<1>4. \A j \in Known : entries[j] \in Objs /\ heap[entries[j]].id = j
  BY DEF Known, IInv, TypeOK, Wellformed
<1>5. CASE entries[i] # o
  <2>1. \A j \in Known : heap'[entries[j]] = heap[entries[j]]
    BY <1>4, <1>5 DEF Move
  <2>2. EntryState' = EntryState /\ EntryWorker' = EntryWorker
    BY <1>3, <2>1 DEF EntryState, EntryWorker
  <2> QED BY <2>2 DEF Machine!vars
<1>6. CASE entries[i] = o
  <2>1. i \in Known /\ o # None BY <1>1, <1>6, ConstantsAssumption DEF Known
  <2>2. EntryState[i] = heap[o].st /\ EntryWorker[i] = heap[o].hdl
    BY <1>1, <1>6, <2>1 DEF EntryState, EntryWorker
  <2>3. \A j \in Known : j # i => heap'[entries[j]] = heap[entries[j]]
    BY <1>4, <1>6 DEF Move
  <2>4. EntryState' = [EntryState EXCEPT ![i] = heap'[o].st]
    BY <1>1, <1>3, <1>6, <2>1, <2>3 DEF EntryState
  <2>5. EntryWorker' = [EntryWorker EXCEPT ![i] = heap'[o].hdl]
    BY <1>1, <1>3, <1>6, <2>1, <2>3 DEF EntryWorker
  <2>6. heap'[o].hdl \in Labels \cup {None} BY DEF TypeOK, Entry
  <2>7. CASE heap'[o].st = heap[o].st /\ heap'[o].hdl = heap[o].hdl
    <3>1. EntryState' = EntryState /\ EntryWorker' = EntryWorker
      BY <2>2, <2>4, <2>5, <2>7 DEF EntryState, EntryWorker
    <3> QED BY <3>1 DEF Machine!vars
  <2>8. CASE heap[o].st \in {"installed", "stopped"} /\ heap'[o].st = "running"
    <3>1. Machine!Start(i, heap'[o].hdl)
      BY <2>2, <2>4, <2>5, <2>8 DEF Machine!Start, Machine!can_start, Machine!Enter
    <3> QED BY <1>1, <2>6, <3>1 DEF Machine!Next, Machine!Step
  <2>9. CASE heap'[o].hdl = None /\ heap[o].st = "running" /\ heap'[o].st \in {"stopping", "stopped"}
    <3>1. Machine!begin_stopping(i) \/ Machine!Shutdown(i)
      BY <2>2, <2>4, <2>5, <2>9
      DEF Machine!begin_stopping, Machine!Shutdown, Machine!can_stop, Machine!Enter
    <3> QED BY <1>1, <3>1 DEF Machine!Next, Machine!Step
  <2>10. CASE heap'[o].hdl = None /\ heap[o].st = "stopping" /\ heap'[o].st = "stopped"
    <3>1. Machine!Stop(i)
      BY <2>2, <2>4, <2>5, <2>10 DEF Machine!Stop, Machine!Enter
    <3> QED BY <1>1, <3>1 DEF Machine!Next, Machine!Step
  <2>11. CASE /\ heap'[o].hdl = None /\ heap'[o].st = "uninstalling"
              /\ heap[o].st \in {"installed", "stopped", "running"}
    <3>1. Machine!Uninstall(i)
      BY <2>2, <2>4, <2>5, <2>11
      DEF Machine!Uninstall, Machine!can_start, Machine!can_stop, Machine!Enter
    <3> QED BY <1>1, <3>1 DEF Machine!Next, Machine!Step
  <2> QED BY <2>7, <2>8, <2>9, <2>10, <2>11 DEF Move
<1> QED BY <1>5, <1>6

\* A new entry is an install, the removal of one the end of an uninstall.
LEMMA MapMaps ==
  ASSUME IInv, SInv, NEW t \in Procs, Vanishes(t) \/ \E o \in Objs : Appears(t, o)
  PROVE  [Machine!Next]_(Machine!vars)
<1> DEFINE i == loc[t].id
<1>1. \A j \in Known : entries[j] \in Objs /\ heap[entries[j]].id = j /\ j # None
  BY ConstantsAssumption DEF Known, IInv, TypeOK, Wellformed
<1>2. entries \in [Ids -> Objs \cup {None}] BY DEF IInv, TypeOK
<1>3. ASSUME NEW o \in Objs, Appears(t, o) PROVE [Machine!Next]_(Machine!vars)
  <2>1. i \in Ids /\ i \notin Known BY <1>3 DEF Appears
  <2>2. entries' = [entries EXCEPT ![i] = o] /\ o # None BY <1>3, ConstantsAssumption DEF Appears
  <2>3. Known' = Known \cup {i} BY <1>2, <2>1, <2>2 DEF Known
  <2>4. \A j \in Known : j # i /\ heap'[entries'[j]] = heap[entries[j]]
    <3>1. heap[o].id = None BY <1>3 DEF Appears
    <3> QED BY <1>1, <1>2, <1>3, <2>1, <2>2, <3>1 DEF Appears, Known
  <2>5. heap'[entries'[i]].st = "installed" /\ heap'[entries'[i]].hdl = None
    BY <1>2, <1>3, <2>1, <2>2 DEF Appears
  <2>6. EntryState[i] = "absent" BY <2>1 DEF EntryState
  <2>7. EntryState' = [EntryState EXCEPT ![i] = "installed"]
    BY <2>1, <2>3, <2>4, <2>5 DEF EntryState
  <2>8. EntryWorker' = [EntryWorker EXCEPT ![i] = None]
    BY <2>1, <2>3, <2>4, <2>5 DEF EntryWorker
  <2>9. Machine!Install(i) BY <2>6, <2>7, <2>8 DEF Machine!Install, Machine!Enter
  <2> QED BY <2>1, <2>9 DEF Machine!Next, Machine!Step
<1>4. ASSUME Vanishes(t) PROVE [Machine!Next]_(Machine!vars)
  <2>1. /\ i \in Ids /\ entries' = [entries EXCEPT ![i] = None] /\ heap' = heap
        /\ i \in Known => heap[entries[i]].st = "uninstalling"
    BY <1>4 DEF Vanishes
  <2>2. Known' = Known \ {i} BY <1>2, <2>1 DEF Known
  <2>3. \A j \in Known \ {i} : heap'[entries'[j]] = heap[entries[j]]
    BY <1>2, <2>1 DEF Known
  <2>8. i \notin Known' /\ \A j \in Ids \ {i} : j \in Known' <=> j \in Known BY <2>2
  <2>9. \A j \in Ids : /\ EntryState'[j] = IF j = i THEN "absent" ELSE EntryState[j]
                       /\ EntryWorker'[j] = IF j = i THEN None ELSE EntryWorker[j]
    BY <2>3, <2>8 DEF EntryState, EntryWorker
  <2>10. \A f, g, v : f = [j \in Ids |-> f[j]] /\ g = [j \in Ids |-> g[j]]
                       /\ (\A j \in Ids : f[j] = IF j = i THEN v ELSE g[j]) => f = [g EXCEPT ![i] = v]
    OBVIOUS
  <2>11. /\ EntryState = [j \in Ids |-> EntryState[j]] /\ EntryState' = [j \in Ids |-> EntryState'[j]]
         /\ EntryWorker = [j \in Ids |-> EntryWorker[j]] /\ EntryWorker' = [j \in Ids |-> EntryWorker'[j]]
    BY DEF EntryState, EntryWorker
  <2>4. EntryState' = [EntryState EXCEPT ![i] = "absent"]
    BY <2>9, <2>10, <2>11
  <2>5. EntryWorker' = [EntryWorker EXCEPT ![i] = None]
    BY <2>9, <2>10, <2>11
  <2>6. CASE i \in Known
    <3>1. EntryState[i] = "uninstalling" BY <2>1, <2>6 DEF EntryState
    <3>2. Machine!Remove(i) BY <2>4, <2>5, <3>1 DEF Machine!Remove, Machine!Enter
    <3> QED BY <2>1, <3>2 DEF Machine!Next, Machine!Step
  <2>7. CASE i \notin Known
    <3>1. EntryState[i] = "absent" /\ EntryWorker[i] = None
      BY <2>1, <2>7 DEF EntryState, EntryWorker
    <3>2. EntryState' = EntryState /\ EntryWorker' = EntryWorker
      BY <2>4, <2>5, <3>1 DEF EntryState, EntryWorker
    <3> QED BY <3>2 DEF Machine!vars
  <2> QED BY <2>6, <2>7
<1> QED BY <1>3, <1>4

\* So every lawful step is the machine's or none of its business.
LEMMA LawfulMaps ==
  ASSUME IInv, TypeOK', SInv, NEW t \in Procs, Lawful(t)
  PROVE  [Machine!Next]_(Machine!vars)
<1>1. CASE UNCHANGED <<entries, heap>>
  <2>1. EntryState' = EntryState /\ EntryWorker' = EntryWorker
    BY <1>1 DEF EntryState, EntryWorker, Known
  <2> QED BY <2>1 DEF Machine!vars
<1>2. CASE UNCHANGED entries /\ \E o \in Objs : Move(t, o) BY <1>2, MoveMaps
<1>3. CASE Vanishes(t) \/ \E o \in Objs : Appears(t, o) BY <1>3, MapMaps
<1> QED BY <1>1, <1>2, <1>3 DEF Lawful

\* What an operation is, it stays until it ends; boot goes on with installs.
LEMMA OpsStay ==
  ASSUME IInv, NEW t \in Procs, Advance(t)
  PROVE  op'[t] \in {op[t], "none", "install"}
<1>a. op \in [Procs -> {"none", "boot", "sweep", "exit", "install", "uninstall", "disable",
                        "enable", "reload"}]
  BY DEF IInv, TypeOK
<1>r. Return(t) => op'[t] = "none" BY <1>a DEF Return
<1>1. CASE \/ ParseFails(t) \/ EnableRunning(t) \/ EnableFails(t) \/ EndProject(t) \/ EndUninstall(t)
           \/ EndSweep(t)
  BY <1>1, <1>r DEF ParseFails, EnableRunning, EnableFails, EndProject, EndUninstall, EndSweep
<1>2. CASE \/ Peek(t) \/ Parse(t) \/ EntryFound(t) \/ (\E o \in Objs : EntryAdded(t, o))
           \/ InstallOverRunning(t) \/ InstallOverIdle(t) \/ UninstallLocks(t)
           \/ DisableLocks(t) \/ DisableIdle(t) \/ EnableLocks(t)
           \/ ReloadStopped(t) \/ DisableStopped(t) \/ UninstallStopped(t)
           \/ Remove(t) \/ Unroot(t)
  BY <1>2 DEF Peek, Parse, EntryFound, EntryAdded, InstallOverRunning, InstallOverIdle,
     UninstallLocks, DisableLocks, DisableIdle, EnableLocks, ReloadStopped, DisableStopped,
     UninstallStopped, Remove, Unroot
<1>3. CASE \/ PublishRoot(t) \/ FirstAwait(t) \/ Build(t) \/ BuildFails(t) \/ LabelTaken(t)
           \/ SecondAwait(t) \/ StillTaken(t) \/ TakeHandle(t) \/ CommitInstall(t)
           \/ CommitEnable(t) \/ EmitLate(t) \/ BeginPersist(t) \/ (\E i \in Ids : WalkNext(t, i))
           \/ CollectRow(t) \/ Save(t) \/ SaveFails(t) \/ Prune(t) \/ Project(t)
  BY <1>3 DEF PublishRoot, FirstAwait, Build, BuildFails, LabelTaken, SecondAwait, StillTaken,
     TakeHandle, CommitInstall, CommitEnable, EmitLate, BeginPersist, WalkNext, CollectRow, Save, SaveFails,
     Prune, Project
<1>4. CASE \/ NoteLabel(t) \/ ListWindows(t) \/ (\E l \in Labels : Reap(t, l)) \/ LoadStore(t) \/ LoadFails(t)
           \/ ShutdownVisit(t) \/ ExitDone(t)
  BY <1>4 DEF NoteLabel, ListWindows, Reap, LoadStore, LoadFails, ShutdownVisit, ExitDone
<1>5. ASSUME NEW r \in Ids \X Dirs, RestoreNext(t, r) PROVE op'[t] = "install"
  BY <1>5, <1>a DEF RestoreNext
<1>6. CASE RestoreDone(t) BY <1>6, <1>a DEF RestoreDone
<1> QED BY <1>1, <1>2, <1>3, <1>4, <1>5, <1>6 DEF Advance

\* Where the host never uninstalls, nothing is ever being uninstalled.
LEMMA NoUninstallNext ==
  ASSUME IInv, NoUninstall, "uninstall" \notin Ops, NEW t \in Procs, Lawful(t), Others(t),
         \/ Advance(t)
         \/ t \in Callers /\ Call(t)
         \/ t \in Sweepers /\ Sweep(t)
         \/ t = "main" /\ ExitRequested
  PROVE  NoUninstall'
<1>a. op \in [Procs -> {"none", "boot", "sweep", "exit", "install", "uninstall", "disable",
                        "enable", "reload"}]
  BY DEF IInv, TypeOK
<1>1. op'[t] # "uninstall"
  <2>1. CASE Advance(t) BY <2>1, OpsStay DEF NoUninstall
  <2>2. CASE t \in Callers /\ Call(t)
    <3>1. ASSUME NEW d \in Dirs, CallInstall(t, d) PROVE op'[t] # "uninstall"
      BY <1>a, <3>1 DEF CallInstall
    <3>2. ASSUME NEW i \in Ids, NEW o \in {"uninstall", "disable", "enable", "reload"}, CallOn(t, o, i)
          PROVE  op'[t] # "uninstall"
      BY <1>a, <3>2 DEF CallOn, MayCall
    <3> QED BY <2>2, <3>1, <3>2 DEF Call
  <2>3. CASE t \in Sweepers /\ Sweep(t) BY <1>a, <2>3 DEF Sweep, NoUninstall
  <2>4. CASE t = "main" /\ ExitRequested BY <1>a, <2>4 DEF ExitRequested
  <2> QED BY <2>1, <2>2, <2>3, <2>4
<1>2. \A u \in Procs : op'[u] # "uninstall" BY <1>1 DEF Others, NoUninstall
<1>3. ASSUME NEW o \in Objs PROVE heap'[o].st # "uninstalling"
  <2>1. heap[o].st # "uninstalling" BY DEF NoUninstall
  <2>2. ~Leaves(t, o)' BY <1>1 DEF Leaves
  <2>3. CASE UNCHANGED heap BY <2>1, <2>3
  <2>4. ASSUME NEW x \in Objs, Move(t, x) PROVE heap'[o].st # "uninstalling"
    BY <2>1, <2>2, <2>4 DEF Move
  <2>5. ASSUME NEW x \in Objs, Appears(t, x) PROVE heap'[o].st # "uninstalling"
    BY <2>1, <2>5 DEF Appears
  <2> QED BY <2>3, <2>4, <2>5 DEF Lawful, Vanishes
<1> QED BY <1>2, <1>3 DEF NoUninstall

\* Nothing is known of a fresh process.
LEMMA FreshMachine ==
  ASSUME Fresh
  PROVE  SInv /\ NoUninstall /\ Machine!Init
<1>1. /\ \A t \in Procs : pc[t] \in {"sweep", "idle"} /\ op[t] \in {"boot", "none"}
      /\ \A o \in Objs : heap[o] = Unused
      /\ \A i \in Ids : entries[i] = None
  BY DEF Fresh, FreshPc, FreshOp, Nothing
<1>2. Known = {} BY <1>1 DEF Known
<1>3. SInv BY <1>1 DEF SInv, Bears, Leaving, Phase, Holding, Unused
<1>4. NoUninstall BY <1>1 DEF NoUninstall, Unused
<1>5. Machine!Init BY <1>2 DEF Machine!Init, EntryState, EntryWorker
<1> QED BY <1>3, <1>4, <1>5

\* Every step keeps all this and is a step of the machine, or none.
LEMMA MachineStep ==
  ASSUME IInv, TypeOK', SInv, QInv \/ NoUninstall, [Next]_vars
  PROVE  /\ SInv' /\ [Machine!Next]_(Machine!vars)
         /\ NoUninstall /\ "uninstall" \notin Ops => NoUninstall'
<1>1. ASSUME NEW t \in Procs,
             \/ Advance(t)
             \/ t \in Callers /\ Call(t)
             \/ t \in Sweepers /\ Sweep(t)
             \/ t = "main" /\ ExitRequested
      PROVE  /\ SInv' /\ [Machine!Next]_(Machine!vars)
             /\ NoUninstall /\ "uninstall" \notin Ops => NoUninstall'
  <2>1. Others(t) /\ EntryPart(t) BY <1>1, AdvanceOrderly, StartOrderly DEF IInv, Orderly
  <2>2. Lawful(t)
    <3>1. CASE Advance(t) BY <3>1, AdvanceLawful, FindsItsOwn
    <3> QED BY <1>1, <3>1, StartLawful
  <2>3. ASSUME NEW u \in Procs \ {t}, pc[u] = "remove" PROVE UNCHANGED entries
    <3>1. op[u] = "uninstall" /\ u # "main"
      BY <2>3 DEF SInv, Phase, IInv, MainExits
    <3>2. QInv BY <3>1 DEF NoUninstall
    <3>3. CASE Advance(t) /\ t # "main"
      <4>1. pc[t] # "idle" BY <3>3, AdvanceBusy
      <4> QED BY <2>3, <3>1, <3>2, <3>3, <4>1 DEF QInv, Alone, Calls
    <3>4. CASE Advance(t) /\ t = "main" BY <3>4, MainSteps
    <3>5. CASE ~Advance(t) BY <1>1, <3>5, StartLawful
    <3> QED BY <3>3, <3>4, <3>5
  <2>4. SInv' BY <2>1, <2>2, <2>3, LawfulKeeps
  <2>5. [Machine!Next]_(Machine!vars) BY <2>2, LawfulMaps
  <2>6. NoUninstall /\ "uninstall" \notin Ops => NoUninstall'
    BY <1>1, <2>1, <2>2, NoUninstallNext
  <2> QED BY <2>4, <2>5, <2>6
<1>2. CASE Restart
  <2>1. Fresh' BY <1>2 DEF Restart, Fresh
  <2>2. (Fresh => SInv /\ NoUninstall /\ Machine!Init)' BY FreshMachine, PTL
  <2>3. Machine!Init' BY <2>1, <2>2
  <2>4. Machine!Restart BY <2>3 DEF Machine!Init, Machine!Restart
  <2> QED BY <2>1, <2>2, <2>4 DEF Machine!Next
<1>3. CASE Environment \/ UNCHANGED vars
  <2>1. UNCHANGED <<entries, heap, pc, op, ref, loc>>
    BY <1>3 DEF Environment, Destroyed, RegisterCalled, RegisterResolved, RegisterServed,
       EditDisk, entryVars, procVars, vars
  <2>2. SInv' BY <2>1 DEF SInv, Bears, Leaving, Leaves, Phase, Running, Known
  <2>3. EntryState' = EntryState /\ EntryWorker' = EntryWorker
    BY <2>1 DEF EntryState, EntryWorker, Known
  <2>4. NoUninstall => NoUninstall' BY <2>1 DEF NoUninstall
  <2> QED BY <2>2, <2>3, <2>4 DEF Machine!vars
<1> QED BY <1>1, <1>2, <1>3, StepKinds

\* Whatever calls overlap, as long as none of them uninstalls, or whatever they do, as
\* long as none overlaps another: the manager takes every extension through the states of
\* state.rs in their order, starts nothing that is running or half-way stopped, takes the
\* worker along with each stop, and only removes what is being uninstalled, over build
\* failures, exits and crashes.
THEOREM FollowsMachine == OneAtATime \/ "uninstall" \notin Ops => (Spec => Implements)
<1>1. Init => Fresh BY DEF Init, Fresh
<1>2. Init => IInv /\ SInv /\ NoUninstall /\ Machine!Init BY <1>1, FreshMachine, IInvInit
<1>3. IInv /\ [Next]_vars => IInv' BY IInvStep
<1>4. IInv' => TypeOK' BY DEF IInv
<1>5. IInv /\ IInv' /\ SInv /\ QInv /\ [Next]_vars => SInv' /\ [Machine!Next]_(Machine!vars)
  BY <1>4, MachineStep
<1>6. OneAtATime => (Spec => Implements)
  <2> SUFFICES ASSUME OneAtATime PROVE Spec => Implements OBVIOUS
  <2>1. Spec => [](IInv /\ QInv) BY PublishedInvariant
  <2> QED BY <1>2, <1>5, <2>1, PTL DEF Spec, Implements, Machine!Spec
<1>7. "uninstall" \notin Ops => (Spec => Implements)
  <2> SUFFICES ASSUME "uninstall" \notin Ops PROVE Spec => Implements OBVIOUS
  <2>1. IInv /\ IInv' /\ SInv /\ NoUninstall /\ [Next]_vars
          => SInv' /\ NoUninstall' /\ [Machine!Next]_(Machine!vars)
    BY <1>4, MachineStep
  <2> QED BY <1>2, <1>3, <2>1, PTL DEF Spec, Implements, Machine!Spec
<1> QED BY <1>6, <1>7

-----------------------------------------------------------------------------
(* What a sweep spares, whatever runs beside it.                             *)

\* A sweep on its way has yet to come to a running entry, or looks at it, or has
\* noted its label, or has listed the windows without it; or the entry is a late one.
Live(o)  == Running(o) /\ heap[o].hdl # None
Swept(s) == pc[s] = "reap" \/ On(s, "known")
Noted(s, o) ==
  \/ o \in fresh[s]
  \/ pc[s] = "reap" /\ heap[o].hdl \notin loc[s].labels
  \/ On(s, "known") /\ \/ heap[o].id \in loc[s].todo
                       \/ pc[s] = "visit" /\ ref[s] = o
                       \/ heap[o].hdl \in loc[s].labels
NInv == \A s \in Sweepers : Swept(s) =>
          Sweeping(s) /\ \A i \in Known : Live(entries[i]) => Noted(s, entries[i])

\* A step makes no entry run under a sweep that does not hear of it,
Starts(t) ==
  /\ \A i \in Ids : entries'[i] # None => entries'[i] = entries[i] \/ heap'[entries'[i]].st # "running"
  /\ \A o \in Objs : Live(o)' =>
       \/ Live(o) /\ heap'[o].hdl = heap[o].hdl /\ heap'[o].id = heap[o].id
       \/ \A s \in Sweepers : Sweeping(s) => o \in fresh'[s]
  /\ \A s \in Sweepers : fresh[s] \subseteq fresh'[s] \/ (s = t /\ ~Swept(s)')
\* ... and a sweep goes on by its own steps.
GoesOn(t) ==
  NoteLabel(t) \/ ListWindows(t) \/ (\E l \in Labels : Reap(t, l)) \/ \E i \in Ids : WalkNext(t, i)

LEMMA AdvanceStarts ==
  ASSUME IInv, NEW t \in Procs, Advance(t)
  PROVE  Starts(t) /\ (Swept(t)' => GoesOn(t))
<1> USE DEF Goto
<1>a. TypeOK /\ loc[t] \in Local /\ pc \in [Procs -> Steps] BY DEF IInv, TypeOK
\* A step leaves the entries and the history alone,
<1>k. ASSUME UNCHANGED <<entries, heap, fresh>> PROVE Starts(t)
  BY <1>k DEF Starts, Live, Running
\* ... or changes an entry without starting it.
<1>e. ASSUME NEW e, heap' = [heap EXCEPT ![ref[t]] = e], ref[t] \in Objs, UNCHANGED <<entries, fresh>>,
             \/ e.st # "running"
             \/ e.st = heap[ref[t]].st /\ e.hdl = heap[ref[t]].hdl /\ e.id = heap[ref[t]].id
      PROVE  Starts(t)
  <2>1. \A o \in Objs : heap'[o] = IF o = ref[t] THEN e ELSE heap[o] BY <1>a, <1>e DEF TypeOK
  <2> QED BY <1>e, <2>1 DEF Starts, Live, Running
<1>h. ASSUME pc[t] \in {"lock", "visit"} \cup Holding PROVE ref[t] \in Objs /\ Mine(t) = heap[ref[t]] /\ Mine(t) \in Entry
  BY <1>h, <1>a, RefEntry DEF IInv
<1>1. CASE \/ Peek(t) \/ ParseFails(t) \/ Parse(t) \/ EntryFound(t) \/ EnableFails(t) \/ EnableLocks(t)
           \/ UninstallStopped(t) \/ Unroot(t) \/ PublishRoot(t) \/ FirstAwait(t) \/ Build(t)
           \/ BuildFails(t) \/ LabelTaken(t) \/ SecondAwait(t) \/ StillTaken(t) \/ TakeHandle(t)
           \/ EmitLate(t)
  <2>1. UNCHANGED <<entries, heap, fresh>>
    BY <1>1 DEF Peek, ParseFails, Parse, EntryFound, EnableFails, EnableLocks, UninstallStopped, Unroot,
       PublishRoot, FirstAwait, Build, BuildFails, LabelTaken, SecondAwait, StillTaken, TakeHandle,
       EmitLate, envVars, entryVars
  <2>2. pc'[t] \notin {"walk", "visit", "reap"}
    BY <1>1, <1>a DEF Peek, ParseFails, Parse, EntryFound, EnableFails, EnableLocks, UninstallStopped,
       Unroot, PublishRoot, FirstAwait, Build, BuildFails, LabelTaken, SecondAwait, StillTaken,
       TakeHandle, EmitLate, Return
  <2> QED BY <1>k, <2>1, <2>2 DEF Swept, On
<1>2. CASE Save(t) \/ SaveFails(t) \/ EndProject(t) \/ EndUninstall(t) \/ RestoreDone(t) \/ ExitDone(t)
  <2>1. UNCHANGED <<entries, heap, fresh>>
    BY <1>2 DEF Save, SaveFails, EndProject, EndUninstall, RestoreDone, ExitDone, envVars, entryVars
  <2>2. pc'[t] \notin {"walk", "visit", "reap"}
    BY <1>2, <1>a DEF Save, SaveFails, EndProject, EndUninstall, RestoreDone, ExitDone, Return
  <2> QED BY <1>k, <2>1, <2>2 DEF Swept, On
<1>3. CASE BeginPersist(t) \/ Prune(t) \/ CollectRow(t) \/ Project(t)
  <2>1. UNCHANGED <<entries, heap, fresh>>
    BY <1>3 DEF BeginPersist, Prune, CollectRow, Project, envVars, entryVars
  <2>2. pc'[t] = "walk"
    BY <1>3, <1>a DEF BeginPersist, Prune, CollectRow, Project, StartWalk, Visiting
  <2>3. loc'[t].walk \in {"rows", "project"}
    <3>1. CASE BeginPersist(t) BY <1>a, <3>1 DEF BeginPersist, StartWalk, TypeOK, Local
    <3>2. CASE Prune(t) BY <1>a, <3>2 DEF Prune, StartWalk, TypeOK, Local
    <3>3. CASE CollectRow(t) BY <1>a, <3>3 DEF CollectRow, Visiting, TypeOK, Local
    <3>4. CASE Project(t) BY <3>4 DEF Project, Visiting
    <3> QED BY <1>3, <3>1, <3>2, <3>3, <3>4
  <2> QED BY <1>k, <2>1, <2>2, <2>3 DEF Swept, On
<1>4. CASE GoesOn(t)
  <2>1. UNCHANGED <<entries, heap, fresh>>
    BY <1>4 DEF GoesOn, NoteLabel, ListWindows, Reap, WalkNext, envVars, entryVars
  <2> QED BY <1>4, <1>k, <2>1
<1>5. ASSUME NEW r \in Ids \X Dirs, RestoreNext(t, r) PROVE Starts(t) /\ ~Swept(t)'
  BY <1>5, <1>a, <1>k DEF RestoreNext, Swept, On, envVars, entryVars
<1>6. CASE EndSweep(t) \/ LoadStore(t) \/ LoadFails(t)
  <2>1. UNCHANGED <<entries, heap>> /\ ForgetStarts(t)
    BY <1>6 DEF EndSweep, LoadStore, LoadFails, entryVars
  <2>2. pc'[t] \notin {"walk", "visit", "reap"}
    BY <1>6, <1>a DEF EndSweep, LoadStore, LoadFails, Return
  <2>3. ~Swept(t)' BY <2>2 DEF Swept, On
  <2>4. \A s \in Sweepers \ {t} : fresh'[s] = fresh[s] BY <1>a, <2>1 DEF ForgetStarts, TypeOK
  <2> QED BY <2>1, <2>3, <2>4 DEF Starts, Live, Running
<1>7. CASE Remove(t)
  <2>1. /\ entries' = [entries EXCEPT ![loc[t].id] = None] /\ UNCHANGED <<heap, fresh>>
        /\ pc'[t] = "unroot"
    BY <1>7, <1>a DEF Remove, envVars
  <2>2. \A i \in Ids : entries'[i] # None => entries'[i] = entries[i] BY <1>a, <2>1 DEF TypeOK
  <2> QED BY <2>1, <2>2 DEF Starts, Swept, On, Live, Running
<1>8. ASSUME NEW o \in Objs, EntryAdded(t, o) PROVE Starts(t) /\ ~Swept(t)'
  <2> DEFINE e == [Unused EXCEPT !.id = loc[t].id, !.dir = loc[t].dir]
  <2>1. /\ entries' = [entries EXCEPT ![loc[t].id] = o] /\ heap' = [heap EXCEPT ![o] = e]
        /\ fresh' = fresh /\ pc'[t] = "lock"
    BY <1>8, <1>a DEF EntryAdded, envVars
  <2>2. e.st = "installed" BY DEF Unused
  <2> HIDE DEF e
  <2>3. heap'[o] = e /\ \A x \in Objs \ {o} : heap'[x] = heap[x] BY <1>a, <2>1 DEF TypeOK
  <2>4. \A i \in Ids : entries'[i] # None => entries'[i] \in {entries[i], o} BY <1>a, <2>1 DEF TypeOK
  <2> QED BY <2>1, <2>2, <2>3, <2>4 DEF Starts, Swept, On, Live, Running
<1>9. CASE \/ InstallOverRunning(t) \/ InstallOverIdle(t) \/ UninstallLocks(t) \/ DisableLocks(t)
           \/ DisableIdle(t) \/ EnableRunning(t) \/ ReloadStopped(t) \/ DisableStopped(t)
  <2>1. UNCHANGED <<entries, fresh>> /\ pc[t] \in {"lock", "teardown"} /\ pc'[t] \notin {"walk", "visit", "reap"}
    BY <1>9, <1>a DEF InstallOverRunning, InstallOverIdle, UninstallLocks, DisableLocks, DisableIdle,
       EnableRunning, ReloadStopped, DisableStopped, At, TornDown, Return, envVars
  <2>2. ref[t] \in Objs /\ Mine(t) = heap[ref[t]] /\ Mine(t) \in Entry BY <1>h, <2>1 DEF Holding
  <2>3. PICK e : /\ heap' = [heap EXCEPT ![ref[t]] = e]
                 /\ \/ e.st # "running"
                    \/ e.st = heap[ref[t]].st /\ e.hdl = heap[ref[t]].hdl /\ e.id = heap[ref[t]].id
    <3>1. CASE InstallOverRunning(t)
      <4> DEFINE e == [Mine(t) EXCEPT !.dir = loc[t].dir, !.st = "stopping", !.hdl = None]
      <4>1. heap' = [heap EXCEPT ![ref[t]] = e] BY <3>1 DEF InstallOverRunning, SetEntry
      <4>2. e.st = "stopping" BY <2>2 DEF Entry
      <4> QED BY <4>1, <4>2
    <3>2. CASE InstallOverIdle(t)
      <4> DEFINE e == [Mine(t) EXCEPT !.dir = loc[t].dir]
      <4>1. heap' = [heap EXCEPT ![ref[t]] = e] BY <3>2 DEF InstallOverIdle, SetEntry
      <4>2. e.st # "running" BY <2>2, <3>2 DEF Entry, InstallOverIdle
      <4> QED BY <4>1, <4>2
    <3>3. CASE UninstallLocks(t)
      <4> DEFINE e == [Mine(t) EXCEPT !.st = "uninstalling", !.hdl = None]
      <4>1. heap' = [heap EXCEPT ![ref[t]] = e] BY <3>3 DEF UninstallLocks, SetEntry
      <4>2. e.st = "uninstalling" BY <2>2 DEF Entry
      <4> QED BY <4>1, <4>2
    <3>4. CASE DisableLocks(t)
      <4> DEFINE e == [Mine(t) EXCEPT !.st = "stopping", !.hdl = None]
      <4>1. heap' = [heap EXCEPT ![ref[t]] = e] BY <3>4 DEF DisableLocks, SetEntry
      <4>2. e.st = "stopping" BY <2>2 DEF Entry
      <4> QED BY <4>1, <4>2
    <3>5. CASE DisableIdle(t)
      <4> DEFINE e == [Mine(t) EXCEPT !.enabled = FALSE]
      <4>1. heap' = [heap EXCEPT ![ref[t]] = e] BY <3>5 DEF DisableIdle, SetEntry
      <4>2. e.st # "running" BY <2>2, <3>5 DEF Entry, DisableIdle
      <4> QED BY <4>1, <4>2
    <3>6. CASE EnableRunning(t)
      <4> DEFINE e == [Mine(t) EXCEPT !.enabled = TRUE]
      <4>1. heap' = [heap EXCEPT ![ref[t]] = e] BY <3>6 DEF EnableRunning, SetEntry
      <4>2. e.st = Mine(t).st /\ e.hdl = Mine(t).hdl /\ e.id = Mine(t).id BY <2>2 DEF Entry
      <4> QED BY <2>2, <4>1, <4>2
    <3>7. CASE ReloadStopped(t)
      <4> DEFINE e == [Mine(t) EXCEPT !.st = "stopped"]
      <4>1. heap' = [heap EXCEPT ![ref[t]] = e] BY <3>7 DEF ReloadStopped, SetEntry
      <4>2. e.st = "stopped" BY <2>2 DEF Entry
      <4> QED BY <4>1, <4>2
    <3>8. CASE DisableStopped(t)
      <4> DEFINE e == [Mine(t) EXCEPT !.st = "stopped", !.enabled = FALSE]
      <4>1. heap' = [heap EXCEPT ![ref[t]] = e] BY <3>8 DEF DisableStopped, SetEntry
      <4>2. e.st = "stopped" BY <2>2 DEF Entry
      <4> QED BY <4>1, <4>2
    <3> QED BY <1>9, <3>1, <3>2, <3>3, <3>4, <3>5, <3>6, <3>7, <3>8
  <2>4. Starts(t) BY <1>e, <2>1, <2>2, <2>3
  <2> QED BY <2>1, <2>4 DEF Swept, On
<1>10. CASE ShutdownVisit(t)
  <2>1. /\ UNCHANGED <<entries, fresh, loc>> /\ pc[t] = "visit" /\ pc'[t] = "walk" /\ loc[t].walk = "shutdown"
    BY <1>10, <1>a DEF ShutdownVisit, Visiting, envVars
  <2>2. ref[t] \in Objs /\ Mine(t) = heap[ref[t]] /\ Mine(t) \in Entry BY <1>h, <2>1
  <2> DEFINE e == [Mine(t) EXCEPT !.st = "stopped", !.hdl = None]
  <2>3. heap' = [heap EXCEPT ![ref[t]] = e] \/ heap' = heap BY <1>10 DEF ShutdownVisit, SetEntry
  <2>4. e.st = "stopped" BY <2>2 DEF Entry
  <2> HIDE DEF e
  <2>5. Starts(t) BY <1>e, <1>k, <2>1, <2>2, <2>3, <2>4
  <2> QED BY <2>1, <2>5 DEF Swept, On
<1>11. CASE CommitInstall(t) \/ CommitEnable(t)
  <2> DEFINE e == [Mine(t) EXCEPT !.st = "running", !.hdl = loc[t].hdl, !.enabled = TRUE]
  <2>1. /\ UNCHANGED entries /\ heap' = [heap EXCEPT ![ref[t]] = e] /\ NoteStart(ref[t])
        /\ pc'[t] \in {"persist", "emit"}
    BY <1>11, <1>a DEF CommitInstall, CommitEnable, SetEntry
  <2> HIDE DEF e
  <2>2. \A o \in Objs : o # ref[t] => heap'[o] = heap[o] BY <1>a, <2>1 DEF TypeOK
  <2>3. \A s \in Sweepers : /\ fresh[s] \subseteq fresh'[s]
                            /\ Sweeping(s) => ref[t] \in fresh'[s]
    BY <2>1 DEF NoteStart
  <2> QED BY <2>1, <2>2, <2>3 DEF Starts, Swept, On, Live, Running
<1> QED
  BY <1>1, <1>2, <1>3, <1>4, <1>5, <1>6, <1>7, <1>8, <1>9, <1>10, <1>11 DEF Advance, GoesOn

\* So no sweep that is on its way misses an entry that ran when it began.
LEMMA NInvStep ==
  ASSUME IInv, NInv, [Next]_vars
  PROVE  NInv'
<1> USE DEF Goto
<1>a. TypeOK /\ Wellformed BY DEF IInv
<1>1. ASSUME NEW t \in Procs,
             \/ Advance(t)
             \/ t \in Callers /\ Call(t)
             \/ t \in Sweepers /\ Sweep(t)
             \/ t = "main" /\ ExitRequested
      PROVE  NInv'
  <2>1. Others(t) BY <1>1, AdvanceOrderly, StartOrderly DEF IInv, Orderly
  <2>2. ASSUME ~Advance(t) PROVE UNCHANGED <<entries, heap, fresh>>
    BY <1>1, <2>2 DEF Call, CallInstall, CallOn, Sweep, ExitRequested, envVars, entryVars
  <2>3. Starts(t)
    <3>1. CASE ~Advance(t) BY <2>2, <3>1 DEF Starts, Live, Running
    <3> QED BY <3>1, AdvanceStarts
  <2>4. ASSUME NEW s \in Sweepers \ {t} PROVE Swept(s)' =>
          Sweeping(s)' /\ \A i \in Known' : (Live(entries[i]) => Noted(s, entries[i]))'
    <3> SUFFICES ASSUME Swept(s)'
                 PROVE  Sweeping(s)' /\ \A i \in Known' : (Live(entries[i]) => Noted(s, entries[i]))'
      OBVIOUS
    <3>1. pc'[s] = pc[s] /\ ref'[s] = ref[s] /\ loc'[s] = loc[s]
      BY <2>1 DEF Others, Sweepers, Procs
    <3>2. Swept(s) /\ (On(s, "known")' <=> On(s, "known")) BY <3>1 DEF Swept, On
    <3>3. Sweeping(s) /\ Sweeping(s)' BY <3>1, <3>2 DEF NInv, Sweeping
    <3>4. ASSUME NEW i \in Known', Live(entries[i])' PROVE Noted(s, entries[i])'
      <4>1. i \in Ids /\ entries'[i] # None BY DEF Known
      <4>2. heap'[entries'[i]].st = "running" BY <3>4 DEF Live, Running
      <4>3. entries'[i] = entries[i] BY <2>3, <4>1, <4>2 DEF Starts
      <4> DEFINE o == entries[i]
      <4>4. i \in Known /\ o \in Objs /\ heap'[o].st = "running" /\ heap'[o].hdl # None
        BY <1>a, <3>4, <4>1, <4>3 DEF Known, TypeOK, Live, Running
      <4>5. fresh[s] \subseteq fresh'[s] BY <2>3 DEF Starts
      <4>6. CASE o \in fresh'[s] BY <4>3, <4>6 DEF Noted
      <4>7. CASE Live(o) /\ heap'[o].hdl = heap[o].hdl /\ heap'[o].id = heap[o].id
        <5>1. Noted(s, o) BY <3>2, <4>4, <4>7 DEF NInv
        <5> QED BY <3>1, <3>2, <4>3, <4>5, <4>7, <5>1 DEF Noted
      <4> QED BY <2>3, <3>3, <4>4, <4>6, <4>7 DEF Starts, Live, Running
    <3> QED BY <3>3, <3>4
  <2>5. ASSUME t \in Sweepers, Swept(t)' PROVE
          Sweeping(t)' /\ \A i \in Known' : (Live(entries[i]) => Noted(t, entries[i]))'
    <3>a. loc[t] \in Local BY <1>a DEF TypeOK
    <3>1. CASE GoesOn(t)
      <4>1. UNCHANGED <<entries, heap, fresh>>
        BY <3>1 DEF GoesOn, NoteLabel, ListWindows, Reap, WalkNext, envVars, entryVars
      <4>2. Known' = Known /\ \A o \in Objs : Live(o)' <=> Live(o) BY <4>1 DEF Known, Live, Running
      <4>3. ASSUME NEW i \in Known, Live(entries[i]), Swept(t), Noted(t, entries[i])
            PROVE  /\ entries[i] \in Objs /\ heap[entries[i]].id = i /\ heap[entries[i]].hdl \in Labels
        <5>1. i \in Ids /\ entries[i] # None /\ entries[i] \in Objs BY <1>a DEF Known, TypeOK
        <5>2. heap[entries[i]].id = i BY <1>a, <5>1 DEF Wellformed
        <5>3. heap[entries[i]] \in Entry BY <1>a, <5>1 DEF TypeOK
        <5> QED BY <4>3, <5>1, <5>2, <5>3 DEF Live, Entry
      <4>4. ASSUME NEW k \in Ids, WalkNext(t, k)
            PROVE  Sweeping(t)' /\ \A i \in Known : Live(entries[i]) => Noted(t, entries[i])'
        <5>1. /\ pc[t] = "walk" /\ pc'[t] \in {"walk", "visit"} /\ loc'[t].walk = loc[t].walk
              /\ loc'[t].todo = loc[t].todo \ {k} /\ loc'[t].labels = loc[t].labels
              /\ entries[k] # None => pc'[t] = "visit" /\ ref'[t] = entries[k]
          BY <1>a, <3>a, <4>4 DEF WalkNext, TypeOK, Local
        <5>2. On(t, "known") /\ On(t, "known")' BY <2>5, <5>1 DEF Swept, On
        <5>3. Swept(t) /\ Sweeping(t)' BY <5>2 DEF Swept, On, Sweeping
        <5>4. ASSUME NEW i \in Known, Live(entries[i]) PROVE Noted(t, entries[i])'
          <6>1. Noted(t, entries[i]) BY <2>5, <5>3, <5>4 DEF NInv
          <6>2. heap[entries[i]].id = i /\ entries[i] # None BY <4>3, <5>3, <5>4, <6>1 DEF Known
          <6> QED BY <4>1, <5>1, <5>2, <6>1, <6>2 DEF Noted
        <5> QED BY <5>3, <5>4
      <4>5. ASSUME NoteLabel(t)
            PROVE  Sweeping(t)' /\ \A i \in Known : Live(entries[i]) => Noted(t, entries[i])'
        <5>1. /\ pc[t] = "visit" /\ pc'[t] = "walk" /\ loc[t].walk = "known" /\ loc'[t].walk = "known"
              /\ loc'[t].todo = loc[t].todo
              /\ loc'[t].labels = IF Running(ref[t]) THEN loc[t].labels \cup ({heap[ref[t]].hdl} \ {None})
                                  ELSE loc[t].labels
          BY <1>a, <3>a, <4>5 DEF NoteLabel, Visiting, TypeOK, Local, Mine
        <5>2. On(t, "known") /\ On(t, "known")' /\ Swept(t) /\ Sweeping(t)' BY <5>1 DEF Swept, On, Sweeping
        <5>3. ASSUME NEW i \in Known, Live(entries[i]) PROVE Noted(t, entries[i])'
          <6>1. Noted(t, entries[i]) BY <2>5, <5>2, <5>3 DEF NInv
          <6> QED BY <4>1, <5>1, <5>2, <5>3, <6>1 DEF Noted, Live
        <5> QED BY <5>2, <5>3
      <4>6. ASSUME ListWindows(t)
            PROVE  Sweeping(t)' /\ \A i \in Known : Live(entries[i]) => Noted(t, entries[i])'
        <5>1. /\ pc[t] = "walk" /\ pc'[t] = "reap" /\ loc[t].walk = "known" /\ loc'[t].walk = "known"
              /\ loc[t].todo = {} /\ loc'[t].labels = {l \in Labels : ~Free(l)} \ loc[t].labels
          BY <1>a, <3>a, <4>6 DEF ListWindows, Walked, TypeOK, Local
        <5>2. On(t, "known") /\ Swept(t) /\ Sweeping(t)' BY <5>1 DEF Swept, On, Sweeping
        <5>3. ASSUME NEW i \in Known, Live(entries[i]) PROVE Noted(t, entries[i])'
          <6>1. Noted(t, entries[i]) BY <2>5, <5>2, <5>3 DEF NInv
          <6> QED BY <4>1, <5>1, <5>2, <6>1 DEF Noted
        <5> QED BY <5>2, <5>3
      <4>7. ASSUME NEW l \in Labels, Reap(t, l)
            PROVE  Sweeping(t)' /\ \A i \in Known : Live(entries[i]) => Noted(t, entries[i])'
        <5>1. /\ pc[t] = "reap" /\ pc'[t] = "reap" /\ loc'[t].walk = loc[t].walk
              /\ loc'[t].labels = loc[t].labels \ {l}
          BY <1>a, <3>a, <4>7 DEF Reap, TypeOK, Local
        <5>2. Swept(t) /\ ~On(t, "known") BY <5>1 DEF Swept, On
        <5>3. Sweeping(t)' BY <2>5, <5>1, <5>2 DEF NInv, Sweeping
        <5>4. ASSUME NEW i \in Known, Live(entries[i]) PROVE Noted(t, entries[i])'
          <6>1. Noted(t, entries[i]) BY <2>5, <5>2, <5>4 DEF NInv
          <6> QED BY <4>1, <5>1, <5>2, <6>1 DEF Noted
        <5> QED BY <5>3, <5>4
      <4>8. Sweeping(t)' /\ \A i \in Known : Live(entries[i]) => Noted(t, entries[i])'
        BY <3>1, <4>4, <4>5, <4>6, <4>7 DEF GoesOn
      <4>9. \A i \in Known : entries[i] \in Objs BY <1>a DEF Known, TypeOK
      <4> QED BY <4>1, <4>2, <4>8, <4>9
    <3>2. CASE Sweep(t)
      <4>1. /\ UNCHANGED <<entries, heap>> /\ pc'[t] = "walk"
            /\ loc'[t].walk = "known" /\ loc'[t].todo = Known
        BY <1>a, <3>a, <3>2 DEF Sweep, StartWalk, TypeOK, Local, entryVars
      <4>2. On(t, "known")' /\ Sweeping(t)' /\ Known' = Known BY <4>1 DEF On, Sweeping, Known
      <4>3. \A i \in Known : heap[entries[i]].id = i BY <1>a DEF Wellformed, Known
      <4> QED BY <4>1, <4>2, <4>3 DEF Noted
    <3>3. GoesOn(t) \/ Sweep(t)
      <4>1. t # "main" /\ t \notin Callers BY <2>5, ConstantsAssumption DEF Sweepers
      <4> QED BY <1>1, <2>5, <4>1, AdvanceStarts
    <3> QED BY <3>1, <3>2, <3>3
  <2> QED BY <2>4, <2>5 DEF NInv
<1>2. CASE Environment \/ UNCHANGED vars
  <2>1. UNCHANGED <<entries, heap, fresh, pc, ref, loc>>
    BY <1>2 DEF Environment, Destroyed, RegisterCalled, RegisterResolved, RegisterServed, EditDisk,
       vars, envVars, entryVars, procVars
  <2> QED BY <2>1 DEF NInv, Swept, On, Sweeping, Known, Live, Running, Noted
<1>3. CASE Restart
  <2>1. \A s \in Sweepers : pc'[s] \in {"sweep", "idle"} BY <1>3 DEF Restart, FreshPc, Sweepers, Procs
  <2> QED BY <2>1 DEF NInv, Swept, On
<1> QED BY <1>1, <1>2, <1>3, StepKinds

\* Whatever calls run beside it, and however their windows, builds and saves fare,
\* reconcile_orphans, at boot or by the watchdog, comes to reap no window of an
\* installed running entry, but of one that was started since it began.
THEOREM SweepsSpare == Spec => []SweepSparesRunning
<1>1. Init => NInv
  <2> SUFFICES ASSUME Init PROVE NInv OBVIOUS
  <2>1. \A s \in Sweepers : pc[s] \in {"sweep", "idle"} BY DEF Init, FreshPc, Sweepers, Procs
  <2> QED BY <2>1 DEF NInv, Swept, On
<1>2. IInv /\ NInv /\ [Next]_vars => NInv' BY NInvStep
<1>3. IInv /\ NInv => SweepSparesRunning
  <2> SUFFICES ASSUME IInv, NInv, NEW s \in Sweepers, pc[s] = "reap", NEW i \in Known, Running(entries[i]),
                      heap[entries[i]].hdl \in loc[s].labels
               PROVE  entries[i] \in fresh[s]
    BY DEF SweepSparesRunning
  <2>1. s \in Procs BY DEF Sweepers, Procs
  <2>2. loc[s].labels \subseteq Labels BY <2>1 DEF IInv, TypeOK, Local
  <2>3. Live(entries[i]) BY <2>2, ConstantsAssumption DEF Live
  <2>4. Noted(s, entries[i]) BY <2>3 DEF NInv, Swept
  <2> QED BY <2>4 DEF Noted, On
<1> QED BY <1>1, <1>2, <1>3, IInvInit, IInvStep, PTL DEF Spec
=============================================================================
