----------------------------- MODULE StateFile -----------------------------
(***************************************************************************)
(* FsStateStore (lifecycle/store.rs): state.json, written through          *)
(* json.tmp.  Each step of a save is one call to the file system; saves    *)
(* hold no lock, so two of them may work on json.tmp at once; the host may *)
(* be killed and the machine lose power between any two steps.  A name is  *)
(* an inode or None, and a file that was opened keeps its inode whatever   *)
(* is renamed.                                                             *)
(***************************************************************************)
EXTENDS Naturals

CONSTANTS
  Savers,   \* the tasks that save
  Rows,     \* what they write
  NoRows,   \* the empty inventory
  Inodes,   \* what may be open or named at once (a bound)
  First,    \* what state.json may hold when the plugin first sees it
  Refused,  \* what a load that fails gives
  Torn,     \* a file that is empty, cut off or made of two documents
  None

STATE_SCHEMA_VERSION == 1

Shapes    == {"object", "array", "other"}
Documents == [shape : Shapes, version : 0..2, rows : Rows]

ASSUME StateFileAssumption ==
  /\ NoRows \in Rows /\ First \subseteq Documents
  /\ None \notin Inodes /\ Refused \notin Rows /\ Torn \notin Documents

VARIABLES
  tmp, file,  \* what json.tmp and state.json name
  older,      \* what else state.json may name after a power loss
  data,       \* what each inode holds
  onDisk,     \* "yes", "no" or, if the file system ignored the fsync, "ignored"
  saver,      \* each saver: its step, rows and open file
  excused     \* inodes two saves worked on, or that lost an ignored fsync
vars == <<tmp, file, older, data, onDisk, saver, excused>>

Idle     == [at |-> "idle", rows |-> None, fd |-> None]
Working  == {"opened", "written", "synced"}
IsActive(s) == saver[s].at \in Working
Active   == {s \in Savers : IsActive(s)}

Init ==
  /\ tmp = None /\ older = {} /\ excused = {}
  /\ onDisk = [i \in Inodes |-> "yes"] /\ saver = [s \in Savers |-> Idle]
  /\ file \in Inodes \cup {None}
  /\ \E d \in First : data = [i \in Inodes |-> IF i = file THEN d ELSE Torn]

-----------------------------------------------------------------------------
(* save: create_dir_all, write (which truncates and then writes), fsync,     *)
(* rename; the first error is returned.                                      *)

Document(r) == [shape |-> "object", version |-> STATE_SCHEMA_VERSION, rows |-> r]

Goto(s, at)   == saver' = [saver EXCEPT ![s].at = at]
Finish(s, at) == saver' = [saver EXCEPT ![s] = [Idle EXCEPT !.at = at]]
Data(i, d)  == data' = [data EXCEPT ![i] = d] /\ onDisk' = [onDisk EXCEPT ![i] = "no"]

Begin(s, r) ==
  /\ saver[s].at = "idle"
  /\ saver' = [saver EXCEPT ![s] = [at |-> "begun", rows |-> r, fd |-> None]]
  /\ UNCHANGED <<tmp, file, older, data, onDisk, excused>>

\* create_dir_all or the open fails.
OpenFails(s) ==
  /\ saver[s].at = "begun" /\ Finish(s, "failed")
  /\ UNCHANGED <<tmp, file, older, data, onDisk, excused>>

Free == Inodes \ ({tmp, file} \cup older \cup {saver[s].fd : s \in Savers})

Open(s) ==
  /\ saver[s].at = "begun"
  /\ \E i \in IF tmp = None THEN Free ELSE {tmp} :
       /\ tmp' = i /\ Data(i, Torn)
       /\ saver' = [saver EXCEPT ![s] = [@ EXCEPT !.at = "opened", !.fd = i]]
       /\ excused' = IF Active = {} THEN excused \ {i}
                     ELSE excused \cup {i} \cup ({saver[o].fd : o \in Active} \ {None})
  /\ UNCHANGED <<file, older>>

\* The file is closed.  What another save wrote meanwhile may stick out behind
\* a shorter document.
Write(s) ==
  /\ saver[s].at = "opened"
  /\ saver' = [saver EXCEPT ![s] = [@ EXCEPT !.at = "written", !.fd = None]]
  /\ LET i == saver[s].fd IN
       Data(i, Document(saver[s].rows)) \/ (data[i] # Torn /\ Data(i, Torn))
  /\ UNCHANGED <<tmp, file, older, excused>>

WriteFails(s) ==
  /\ saver[s].at = "opened" /\ Finish(s, "failed") /\ Data(saver[s].fd, Torn)
  /\ UNCHANGED <<tmp, file, older, excused>>

\* Mutant: the file is renamed without an fsync.
SkipSync(s) ==
  /\ saver[s].at = "written" /\ Goto(s, "synced")
  /\ UNCHANGED <<tmp, file, older, data, onDisk, excused>>

\* The fsync is of the file json.tmp names now, and its error is dropped.
Sync(s) ==
  /\ saver[s].at = "written" /\ Goto(s, "synced")
  /\ \/ tmp = None /\ UNCHANGED onDisk
     \/ tmp # None /\ \E honoured \in {"yes", "ignored"} :
                        onDisk' = [onDisk EXCEPT ![tmp] = honoured]
  /\ UNCHANGED <<tmp, file, older, data, excused>>

Rename(s) ==
  /\ saver[s].at = "synced" /\ tmp # None /\ Finish(s, "ok")
  /\ file' = tmp /\ tmp' = None /\ older' = older \cup {file}
  /\ UNCHANGED <<data, onDisk, excused>>

\* Mutant: the error of the rename is dropped like the one of the fsync.
IgnoreRename(s) ==
  /\ saver[s].at = "synced" /\ Finish(s, "ok")
  /\ UNCHANGED <<tmp, file, older, data, onDisk, excused>>

RenameFails(s) ==
  /\ saver[s].at = "synced" /\ Finish(s, "failed")
  /\ UNCHANGED <<tmp, file, older, data, onDisk, excused>>

Return(s) ==
  /\ saver[s].at \in {"ok", "failed"} /\ saver' = [saver EXCEPT ![s] = Idle]
  /\ UNCHANGED <<tmp, file, older, data, onDisk, excused>>

-----------------------------------------------------------------------------
(* The machine. *)

\* The directory reaches the disk.
Settle ==
  /\ older' = {} /\ older # {}
  /\ UNCHANGED <<tmp, file, data, onDisk, saver, excused>>

Kill ==
  /\ \E s \in Savers : saver[s] # Idle
  /\ saver' = [s \in Savers |-> Idle]
  /\ UNCHANGED <<tmp, file, older, data, onDisk, excused>>

PowerLoss ==
  /\ \E i \in older \cup {file} : file' = i /\ tmp' \in {tmp, None} \ (Inodes \cap {i})
  /\ older' = {} /\ saver' = [s \in Savers |-> Idle]
  /\ data' = [i \in Inodes |-> IF onDisk[i] = "yes" THEN data[i] ELSE Torn]
  /\ onDisk' = [i \in Inodes |-> "yes"]
  /\ excused' = excused \cup {i \in Inodes : onDisk[i] = "ignored"}

Step(s) ==
  \/ OpenFails(s) \/ Open(s) \/ Write(s) \/ WriteFails(s) \/ Sync(s)
  \/ Rename(s) \/ RenameFails(s) \/ Return(s)

Next ==
  \/ \E s \in Savers : Step(s) \/ \E r \in Rows : Begin(s, r)
  \/ Settle \/ Kill \/ PowerLoss

Spec == Init /\ [][Next]_vars

-----------------------------------------------------------------------------
(* load *)

\* decode_state_bytes: a bare array is what builds before the schema wrote, and
\* a schema this build does not know is refused.
Decoded(d) ==
  CASE d = Torn -> Refused
    [] d # Torn /\ d.shape = "array" -> d.rows
    [] d # Torn /\ d.shape = "object" /\ d.version <= STATE_SCHEMA_VERSION -> d.rows
    [] OTHER -> Refused

\* A file that is missing is an empty store.
Load(i) == IF i = None THEN NoRows ELSE Decoded(data[i])

-----------------------------------------------------------------------------
(* Properties. *)

\* Every variable holds a value of its type; json.tmp is never the state file.
TypeOK ==
  /\ tmp \in Inodes \cup {None} /\ file \in Inodes \cup {None} /\ (tmp = file => tmp = None)
  /\ older \subseteq Inodes \cup {None} /\ excused \subseteq Inodes
  /\ data \in [Inodes -> Documents \cup {Torn}]
  /\ onDisk \in [Inodes -> {"yes", "no", "ignored"}]
  /\ saver \in [Savers -> [at : {"idle", "begun", "ok", "failed"} \cup Working,
                           rows : Rows \cup {None}, fd : Inodes \cup {None}]]

\* state.json is whole: whenever the host is killed or loses power, unless two
\* saves shared json.tmp or the fsync was ignored, and the next save that is
\* alone makes up for it.
FileWhole == file \in Inodes \ excused => data[file] # Torn

Calling(c) ==
  [at |-> CASE c.at \in {"idle", "ok", "failed"} -> c.at [] OTHER -> "saving", rows |-> c.rows]

Register == INSTANCE StoreRegister WITH
  Reads <- Rows \cup {Refused}, stored <- Load(file), past <- {Load(i) : i \in older},
  call <- [s \in Savers |-> Calling(saver[s])]

\* A save replaces what a load gives in one step or reports that it did not,
\* whatever fails, is killed or loses power, as long as the state file is not
\* one of those excused.
Implements ==
  Register!Init /\ [][Register!Next \/ file' \in excused']_(Register!vars)
=============================================================================
