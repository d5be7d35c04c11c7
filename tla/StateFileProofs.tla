-------------------------- MODULE StateFileProofs --------------------------
(***************************************************************************)
(* For any savers, rows and files: state.json is whole unless excused, and *)
(* StateFile implements StoreRegister in every step after which the state  *)
(* file is not excused.                                                    *)
(***************************************************************************)
EXTENDS StateFile, TLAPS

USE StateFileAssumption

Named == (older \cup {file}) \cap Inodes

\* json.tmp is not yet what a load could read.
TmpApart == tmp \in Inodes => tmp \notin older \cup {file}

\* An open file is json.tmp, or another save renamed it: then both are excused,
\* and so is every other json.tmp and state file as long as this one is open.
OpenFiles ==
  \A s \in Savers : saver[s].at = "opened" =>
    /\ saver[s].fd \in Inodes
    /\ saver[s].fd # tmp => saver[s].fd \in excused /\ file \in excused
                             /\ tmp \in excused \cup {None}

\* Nobody else works on a json.tmp that is not excused.
OneWriter ==
  tmp \in Inodes \ excused => \A s, t \in Savers : IsActive(s) /\ IsActive(t) => s = t

\* It is empty until its saver's write, holds what that writes from then on, and
\* is synced before it is renamed.
Written ==
  tmp \in Inodes \ excused => \A s \in Savers :
    /\ saver[s].at = "opened" => data[tmp] = Torn
    /\ saver[s].at \in {"written", "synced"} => data[tmp] = Document(saver[s].rows)
    /\ saver[s].at = "synced" => onDisk[tmp] # "no"

\* What has been renamed is whole, and an fsync was tried.
Renamed == \A i \in Named \ excused : data[i] # Torn /\ onDisk[i] # "no"

Rowed == \A s \in Savers : saver[s].at \in Working \cup {"begun"} => saver[s].rows \in Rows

Inv == TypeOK /\ TmpApart /\ OpenFiles /\ OneWriter /\ Written /\ Renamed /\ Rowed

LEMMA DocumentType ==
  ASSUME NEW r \in Rows
  PROVE  Document(r) \in Documents /\ Document(r) # Torn /\ Decoded(Document(r)) = r
<1>1. Document(r) \in Documents BY DEF Document, Documents, Shapes, STATE_SCHEMA_VERSION
<1>2. Document(r).shape = "object" /\ Document(r).version <= STATE_SCHEMA_VERSION
      /\ Document(r).rows = r
  BY DEF Document, STATE_SCHEMA_VERSION
<1>3. Document(r) # Torn BY <1>1
<1> QED BY <1>1, <1>2, <1>3 DEF Decoded

LEMMA Initially == Init => Inv
<1> SUFFICES ASSUME Init PROVE Inv OBVIOUS
<1>1. data \in [Inodes -> Documents \cup {Torn}] /\ (file \in Inodes => data[file] # Torn)
  BY DEF Init
<1>2. TypeOK BY <1>1 DEF Init, TypeOK, Idle, Working
<1>3. \A s \in Savers : saver[s].at = "idle" BY DEF Init, Idle
<1>4. TmpApart /\ OpenFiles /\ OneWriter /\ Written /\ Rowed
  BY <1>3 DEF Init, TmpApart, OpenFiles, OneWriter, Written, Rowed, Working
<1>5. Renamed BY <1>1 DEF Init, Renamed, Named
<1> QED BY <1>2, <1>4, <1>5 DEF Inv

\* A saver that is none of the three writers' steps afterwards disturbs nothing
\* if the files stay as they are.
LEMMA SaverRests ==
  ASSUME Inv, NEW s \in Savers, NEW c \in [at : {"idle", "begun", "ok", "failed"},
                                           rows : Rows \cup {None}, fd : {None}],
         c.at = "begun" => c.rows \in Rows, saver' = [saver EXCEPT ![s] = c],
         UNCHANGED <<tmp, file, older, data, onDisk, excused>>
  PROVE  Inv'
<1> USE DEF Inv
<1>1. TypeOK' BY DEF TypeOK, Working
<1>2. \A t \in Savers : saver'[t] = IF t = s THEN c ELSE saver[t] BY DEF TypeOK
<1>3. TmpApart' /\ Renamed' BY DEF TmpApart, Renamed, Named
<1>4. OpenFiles' BY <1>2 DEF OpenFiles
<1>5. OneWriter' /\ Written' BY <1>2 DEF OneWriter, Written, IsActive, Working
<1>6. Rowed' BY <1>2 DEF Rowed, Working
<1> QED BY <1>1, <1>3, <1>4, <1>5, <1>6

LEMMA RestSteps ==
  ASSUME Inv, NEW s \in Savers,
         (\E r \in Rows : Begin(s, r)) \/ OpenFails(s) \/ RenameFails(s) \/ Return(s)
  PROVE  Inv'
<1>1. CASE \E r \in Rows : Begin(s, r)
  <2>1. PICK r \in Rows : Begin(s, r) BY <1>1
  <2> QED BY <2>1, SaverRests DEF Begin, Idle
<1>2. CASE OpenFails(s) \/ RenameFails(s) \/ Return(s)
  BY <1>2, SaverRests DEF OpenFails, RenameFails, Return, Finish, Idle
<1> QED BY <1>1, <1>2

LEMMA OpenStep ==
  ASSUME Inv, NEW s \in Savers, Open(s) PROVE Inv'
<1> USE DEF Inv
<1>1. PICK i \in IF tmp = None THEN Free ELSE {tmp} :
        /\ tmp' = i /\ Data(i, Torn)
        /\ saver' = [saver EXCEPT ![s] = [@ EXCEPT !.at = "opened", !.fd = i]]
        /\ excused' = IF Active = {} THEN excused \ {i}
                      ELSE excused \cup {i} \cup ({saver[o].fd : o \in Active} \ {None})
  BY DEF Open
<1>2. i \in Inodes /\ i \notin older \cup {file} BY <1>1 DEF Free, TypeOK, TmpApart
<1>3. /\ UNCHANGED <<file, older>> /\ saver[s].at = "begun"
      /\ data' = [data EXCEPT ![i] = Torn] /\ onDisk' = [onDisk EXCEPT ![i] = "no"]
  BY <1>1 DEF Open, Data
<1>4. \A t \in Savers : saver'[t] = IF t = s THEN [saver[s] EXCEPT !.at = "opened", !.fd = i]
                                    ELSE saver[t]
  BY <1>1 DEF TypeOK
<1>5. saver'[s].at = "opened" /\ saver'[s].fd = i /\ saver'[s].rows = saver[s].rows
  BY <1>4 DEF TypeOK
<1>6. excused' \subseteq Inodes
  <2>1. \A o \in Active : saver[o].fd \in Inodes \cup {None} BY DEF Active, TypeOK
  <2> QED BY <1>1, <1>2, <2>1 DEF TypeOK
<1>7. TypeOK'
  <2>1. saver' \in [Savers -> [at : {"idle", "begun", "ok", "failed"} \cup Working,
                               rows : Rows \cup {None}, fd : Inodes \cup {None}]]
    BY <1>1, <1>2 DEF TypeOK, Working
  <2>2. data' \in [Inodes -> Documents \cup {Torn}] /\ onDisk' \in [Inodes -> {"yes", "no", "ignored"}]
    BY <1>3 DEF TypeOK
  <2>3. tmp' \in Inodes /\ tmp' # file' BY <1>1, <1>2, <1>3
  <2> QED BY <1>3, <1>6, <2>1, <2>2, <2>3 DEF TypeOK
<1>8. TmpApart' BY <1>1, <1>2, <1>3 DEF TmpApart
<1>9. Named' = Named /\ \A j \in Named : j # i BY <1>2, <1>3 DEF Named
<1>10. Renamed' BY <1>1, <1>3, <1>9 DEF Renamed, Named, TypeOK
<1>11. OpenFiles'
  <2> SUFFICES ASSUME NEW t \in Savers, saver'[t].at = "opened"
               PROVE  saver'[t].fd \in Inodes
                      /\ (saver'[t].fd # tmp' => saver'[t].fd \in excused' /\ file' \in excused'
                                                 /\ tmp' \in excused' \cup {None})
    BY DEF OpenFiles
  <2>1. CASE t = s BY <1>1, <1>2, <1>5, <2>1
  <2>2. CASE t # s
    <3>1. saver'[t] = saver[t] /\ t \in Active BY <1>4, <2>2 DEF Active, IsActive, Working
    <3>2. saver[t].fd \in Inodes /\ (saver[t].fd # tmp => file \in excused)
      BY <3>1 DEF OpenFiles
    <3>3. saver[t].fd \in excused' /\ excused \subseteq excused' BY <1>1, <3>1, <3>2
    <3>4. tmp' \in excused' BY <1>1, <3>1
    <3>5. CASE tmp = None
      <4>1. file \in excused BY <3>2, <3>5
      <4> QED BY <1>3, <3>1, <3>2, <3>3, <3>4, <4>1
    <3>6. CASE tmp # None
      <4>1. tmp' = tmp BY <1>1, <3>6
      <4> QED BY <1>3, <3>1, <3>2, <3>3, <3>4, <4>1
    <3> QED BY <3>5, <3>6
  <2> QED BY <2>1, <2>2
<1>12. tmp' \notin excused' => \A t \in Savers : saver'[t].at \in Working => t = s
  BY <1>1, <1>4 DEF Active, IsActive
<1>13. OneWriter' BY <1>12 DEF OneWriter, IsActive
<1>14. Written' BY <1>1, <1>2, <1>3, <1>5, <1>12 DEF Written, Working, TypeOK
<1>15. Rowed' BY <1>3, <1>4, <1>5 DEF Rowed, Working
<1> QED BY <1>7, <1>8, <1>10, <1>11, <1>13, <1>14, <1>15

\* Where a saver's open file is, and what reads see of it.
LEMMA OpenFile ==
  ASSUME Inv, NEW s \in Savers, saver[s].at = "opened"
  PROVE  /\ saver[s].fd \in Inodes /\ saver[s].rows \in Rows
         /\ saver[s].fd \in Named => saver[s].fd \in excused /\ file \in excused
         /\ \A t \in Savers : tmp \in Inodes \ excused /\ IsActive(t) => t = s /\ saver[s].fd = tmp
<1> USE DEF Inv
<1>1. saver[s].fd \in Inodes /\ saver[s].rows \in Rows BY DEF OpenFiles, Rowed, Working
<1>2. saver[s].fd \in Named => saver[s].fd \in excused /\ file \in excused
  BY <1>1 DEF OpenFiles, Named, TmpApart
<1>3. IsActive(s) BY DEF IsActive, Working
<1>4. ASSUME tmp \in Inodes \ excused, NEW t \in Savers, IsActive(t) PROVE t = s
  BY <1>3, <1>4 DEF OneWriter
<1>5. tmp \in Inodes \ excused => saver[s].fd = tmp BY DEF OpenFiles
<1> QED BY <1>1, <1>2, <1>4, <1>5

LEMMA WriteStep ==
  ASSUME Inv, NEW s \in Savers, Write(s) \/ WriteFails(s) PROVE Inv'
<1> USE DEF Inv
<1> DEFINE i == saver[s].fd
<1>1. saver[s].at = "opened" /\ UNCHANGED <<tmp, file, older, excused>>
  BY DEF Write, WriteFails
<1>2. /\ i \in Inodes /\ saver[s].rows \in Rows
      /\ i \in Named => i \in excused /\ file \in excused
      /\ \A t \in Savers : tmp \in Inodes \ excused /\ IsActive(t) => t = s /\ i = tmp
  BY <1>1, OpenFile
<1>3. PICK d \in {Document(saver[s].rows), Torn} : Data(i, d)
  BY DEF Write, WriteFails
<1>4. data' = [data EXCEPT ![i] = d] /\ onDisk' = [onDisk EXCEPT ![i] = "no"]
  BY <1>3 DEF Data
<1>5. \A t \in Savers \ {s} : saver'[t] = saver[t] BY DEF Write, WriteFails, Finish, TypeOK
<1>6. /\ saver'[s].at \in {"written", "failed"}
      /\ saver'[s].at = "written" => saver'[s].rows = saver[s].rows /\ Write(s)
      /\ saver'[s] \in [at : {"written", "failed"}, rows : Rows \cup {None}, fd : {None}]
  <2>1. CASE Write(s)
    <3>1. saver'[s] = [saver[s] EXCEPT !.at = "written", !.fd = None]
      BY <2>1 DEF Write, TypeOK
    <3>2. saver[s].rows \in Rows \cup {None} /\ saver[s] = [at |-> saver[s].at,
            rows |-> saver[s].rows, fd |-> saver[s].fd]
      BY DEF TypeOK
    <3>3. saver'[s] = [at |-> "written", rows |-> saver[s].rows, fd |-> None]
      BY <3>1, <3>2
    <3> QED BY <2>1, <3>2, <3>3
  <2>2. CASE WriteFails(s)
    <3>1. saver'[s] = [Idle EXCEPT !.at = "failed"] BY <2>2 DEF WriteFails, Finish, TypeOK
    <3> QED BY <3>1 DEF Idle
  <2> QED BY <2>1, <2>2
<1>7. TypeOK'
  <2>1. saver' \in [Savers -> [at : {"idle", "begun", "ok", "failed"} \cup Working,
                               rows : Rows \cup {None}, fd : Inodes \cup {None}]]
    <3>1. saver' = [saver EXCEPT ![s] = saver'[s]]
      BY DEF Write, WriteFails, Finish, TypeOK
    <3> QED BY <1>6, <3>1 DEF TypeOK, Working
  <2>2. d \in Documents \cup {Torn} BY <1>2, <1>3, DocumentType
  <2> QED BY <1>1, <1>2, <1>4, <2>1, <2>2 DEF TypeOK
<1>8. TmpApart' BY <1>1 DEF TmpApart
<1>9. OpenFiles' BY <1>1, <1>5, <1>6 DEF OpenFiles
<1>10. OneWriter' BY <1>1, <1>2, <1>5, <1>6 DEF OneWriter, IsActive, Working
<1>11. Renamed' BY <1>1, <1>2, <1>4 DEF Renamed, Named, TypeOK
<1>12. Rowed' BY <1>2, <1>5, <1>6 DEF Rowed, Working
<1>13. ASSUME tmp \in Inodes \ excused, NEW t \in Savers, saver'[t].at \in Working
       PROVE  /\ saver'[t].at = "written" /\ data'[tmp] = Document(saver'[t].rows)
  <2>1. t = s
    <3>1. CASE t # s
      <4>1. IsActive(t) BY <1>5, <1>13, <3>1 DEF IsActive
      <4> QED BY <1>2, <1>13, <3>1, <4>1
    <3> QED BY <3>1
  <2>2. IsActive(s) BY <1>1 DEF IsActive, Working
  <2>3. i = tmp BY <1>2, <1>13, <2>2
  <2>4. data[tmp] = Torn BY <1>1, <1>13 DEF Written
  <2>5. saver'[s].at = "written" /\ Write(s) BY <1>6, <1>13, <2>1 DEF Working
  <2>6. data' = [data EXCEPT ![i] = Document(saver[s].rows)]
    BY <2>3, <2>4, <2>5 DEF Write, Data
  <2>7. data'[tmp] = Document(saver[s].rows) BY <2>3, <2>6, <1>2 DEF TypeOK
  <2> QED BY <1>6, <2>1, <2>5, <2>7
<1>14. Written' BY <1>1, <1>13 DEF Written, Working
<1> QED BY <1>7, <1>8, <1>9, <1>10, <1>11, <1>12, <1>14

LEMMA SyncStep ==
  ASSUME Inv, NEW s \in Savers, Sync(s) PROVE Inv'
<1> USE DEF Inv
<1>1. /\ saver[s].at = "written" /\ UNCHANGED <<tmp, file, older, data, excused>>
      /\ saver' = [saver EXCEPT ![s].at = "synced"]
  BY DEF Sync, Goto
<1>2. /\ \A i \in Inodes \ {tmp} : onDisk'[i] = onDisk[i]
      /\ tmp \in Inodes => onDisk'[tmp] # "no"
      /\ onDisk' \in [Inodes -> {"yes", "no", "ignored"}]
  BY DEF Sync, TypeOK
<1>3. \A t \in Savers : /\ t # s => saver'[t] = saver[t]
                        /\ saver'[t].rows = saver[t].rows /\ saver'[t].fd = saver[t].fd
  BY <1>1 DEF TypeOK
<1>4. saver'[s].at = "synced" BY <1>1 DEF TypeOK
<1>5. TypeOK'
  <2>1. saver' \in [Savers -> [at : {"idle", "begun", "ok", "failed"} \cup Working,
                               rows : Rows \cup {None}, fd : Inodes \cup {None}]]
    BY <1>1 DEF TypeOK, Working
  <2> QED BY <1>1, <1>2, <2>1 DEF TypeOK
<1>6. TmpApart' BY <1>1 DEF TmpApart
<1>7. OpenFiles' BY <1>1, <1>3, <1>4 DEF OpenFiles
<1>8. OneWriter' BY <1>1, <1>3, <1>4 DEF OneWriter, IsActive, Working
<1>9. Renamed' BY <1>1, <1>2 DEF Renamed, Named
<1>10. Rowed' BY <1>1, <1>3, <1>4 DEF Rowed, Working
<1>11. Written'
  <2>1. ASSUME tmp \in Inodes \ excused, NEW t \in Savers, t # s
        PROVE  ~IsActive(t)
    BY <1>1, <2>1 DEF OneWriter, IsActive, Working
  <2> QED BY <1>1, <1>2, <1>3, <1>4, <2>1 DEF Written, IsActive, Working
<1> QED BY <1>5, <1>6, <1>7, <1>8, <1>9, <1>10, <1>11

LEMMA RenameStep ==
  ASSUME Inv, NEW s \in Savers, Rename(s) PROVE Inv'
<1> USE DEF Inv
<1>1. /\ saver[s].at = "synced" /\ tmp \in Inodes /\ file' = tmp /\ tmp' = None
      /\ older' = older \cup {file} /\ UNCHANGED <<data, onDisk, excused>>
      /\ saver' = [saver EXCEPT ![s] = [Idle EXCEPT !.at = "ok"]]
  BY DEF Rename, Finish, TypeOK
<1>2. /\ \A t \in Savers \ {s} : saver'[t] = saver[t]
      /\ saver'[s].at = "ok"
  BY <1>1 DEF TypeOK, Idle
<1>3. TypeOK'
  <2>1. saver' \in [Savers -> [at : {"idle", "begun", "ok", "failed"} \cup Working,
                               rows : Rows \cup {None}, fd : Inodes \cup {None}]]
    BY <1>1 DEF TypeOK, Idle
  <2> QED BY <1>1, <2>1 DEF TypeOK
<1>4. TmpApart' /\ OneWriter' /\ Written' BY <1>1 DEF TmpApart, OneWriter, Written
<1>5. Rowed' BY <1>2 DEF Rowed, Working
<1>6. OpenFiles'
  <2> SUFFICES ASSUME NEW t \in Savers, saver'[t].at = "opened"
               PROVE  saver'[t].fd \in Inodes /\ saver'[t].fd \in excused' /\ tmp \in excused'
    BY <1>1 DEF OpenFiles
  <2>1. t # s /\ saver'[t] = saver[t] BY <1>2
  <2>2. IsActive(s) /\ IsActive(t) BY <1>1, <2>1 DEF IsActive, Working
  <2>3. tmp \in excused BY <1>1, <2>1, <2>2 DEF OneWriter
  <2> QED BY <1>1, <2>1, <2>3 DEF OpenFiles
<1>7. tmp \notin excused => data[tmp] # Torn /\ onDisk[tmp] # "no"
  BY <1>1, DocumentType DEF Written, Rowed, Working
<1>8. Renamed' BY <1>1, <1>7 DEF Renamed, Named
<1> QED BY <1>3, <1>4, <1>5, <1>6, <1>8

LEMMA MachineSteps ==
  ASSUME Inv, Settle \/ Kill \/ PowerLoss PROVE Inv'
<1> USE DEF Inv
<1>1. CASE Settle
  <2>1. TypeOK' BY <1>1 DEF Settle, TypeOK
  <2> QED BY <1>1, <2>1 DEF Settle, TmpApart, OpenFiles, OneWriter, Written, Renamed, Named,
        Rowed, IsActive
<1>2. CASE Kill \/ PowerLoss
  <2>1. /\ \A s \in Savers : saver'[s].at = "idle"
        /\ saver' \in [Savers -> [at : {"idle"}, rows : {None}, fd : {None}]]
    BY <1>2 DEF Kill, PowerLoss, Idle
  <2>2. OpenFiles' /\ OneWriter' /\ Written' /\ Rowed'
    BY <2>1 DEF OpenFiles, OneWriter, Written, Rowed, IsActive, Working
  <2>3. CASE Kill
    <3>1. UNCHANGED <<tmp, file, older, data, onDisk, excused>> BY <2>3 DEF Kill
    <3>2. TypeOK' BY <2>1, <3>1 DEF TypeOK, Working
    <3> QED BY <2>2, <3>1, <3>2 DEF TmpApart, Renamed, Named
  <2>4. CASE PowerLoss
    <3>1. PICK i \in older \cup {file} :
            file' = i /\ tmp' \in {tmp, None} \ (Inodes \cap {i})
      BY <2>4 DEF PowerLoss
    <3>2. /\ older' = {} /\ onDisk' = [j \in Inodes |-> "yes"]
          /\ data' = [j \in Inodes |-> IF onDisk[j] = "yes" THEN data[j] ELSE Torn]
          /\ excused' = excused \cup {j \in Inodes : onDisk[j] = "ignored"}
      BY <2>4 DEF PowerLoss
    <3>3. i \in Inodes \cup {None} BY DEF TypeOK
    <3>4. TypeOK' BY <2>1, <3>1, <3>2, <3>3 DEF TypeOK, Working
    <3>5. TmpApart' BY <3>1, <3>2 DEF TmpApart
    <3>6. ASSUME i \in Inodes \ excused' PROVE data'[i] # Torn /\ onDisk'[i] # "no"
      <4>1. data[i] # Torn /\ onDisk[i] = "yes"
        BY <3>1, <3>2, <3>6 DEF Renamed, Named, TypeOK
      <4> QED BY <3>2, <3>6, <4>1
    <3>7. Renamed' BY <3>1, <3>2, <3>6 DEF Renamed, Named
    <3> QED BY <2>2, <3>4, <3>5, <3>7
  <2> QED BY <1>2, <2>3, <2>4
<1> QED BY <1>1, <1>2

LEMMA Inductive == Inv /\ [Next]_vars => Inv'
<1> SUFFICES ASSUME Inv, [Next]_vars PROVE Inv' OBVIOUS
<1>1. ASSUME NEW s \in Savers, NEW r \in Rows, Begin(s, r) PROVE Inv' BY <1>1, RestSteps
<1>2. ASSUME NEW s \in Savers, Step(s) PROVE Inv'
  BY <1>2, RestSteps, OpenStep, WriteStep, SyncStep, RenameStep DEF Step
<1>3. CASE Settle \/ Kill \/ PowerLoss BY <1>3, MachineSteps
<1>4. CASE UNCHANGED vars
  <2>1. TypeOK' BY <1>4 DEF Inv, TypeOK, vars
  <2> QED BY <1>4, <2>1 DEF Inv, vars, TmpApart, OpenFiles, OneWriter, Written, Renamed, Named,
        Rowed, IsActive
<1> QED BY <1>1, <1>2, <1>3, <1>4 DEF Next

THEOREM Invariance == Spec => []Inv
BY Initially, Inductive, PTL DEF Spec

\* Every variable has its type in every state of every behaviour.
THEOREM Types == Spec => []TypeOK
<1>1. Inv => TypeOK BY DEF Inv
<1> QED BY <1>1, Invariance, PTL

\* state.json is whole in every state of every behaviour, unless it is excused.
THEOREM FileIsWhole == Spec => []FileWhole
<1>1. Inv => FileWhole BY DEF Inv, Renamed, Named, FileWhole
<1> QED BY <1>1, Invariance, PTL

-----------------------------------------------------------------------------
(* The refinement. *)

calls == [s \in Savers |-> Calling(saver[s])]
olds  == {Load(i) : i \in older}

\* What loads give changes only where a file changes.
LEMMA SameReads ==
  ASSUME TypeOK, UNCHANGED <<file, older>>, \A i \in Named : data'[i] = data[i]
  PROVE  Load(file)' = Load(file) /\ olds' = olds
<1>1. \A i \in older \cup {file} : i = None \/ i \in Named BY DEF Named, TypeOK
<1>2. \A i \in older \cup {file} :
        (IF i = None THEN NoRows ELSE Decoded(data'[i])) = Load(i)
  BY <1>1 DEF Load
<1>3. Load(file)' = Load(file) BY <1>2 DEF Load
<1>4. olds' = {IF i = None THEN NoRows ELSE Decoded(data'[i]) : i \in older} BY DEF olds, Load
<1>5. olds' = olds BY <1>2, <1>4 DEF olds
<1> QED BY <1>3, <1>5

\* A saver's step is its caller's step.
LEMMA OneCall ==
  ASSUME NEW s \in Savers, TypeOK, NEW c, saver' = [saver EXCEPT ![s] = c]
  PROVE  calls' = [calls EXCEPT ![s] = Calling(c)] /\ calls[s] = Calling(saver[s])
<1>1. saver'[s] = c /\ \A t \in Savers \ {s} : saver'[t] = saver[t] BY DEF TypeOK
<1>2. Calling(saver'[s]) = Calling(c)
      /\ \A t \in Savers \ {s} : Calling(saver'[t]) = Calling(saver[t])
  BY <1>1
<1>3. calls' = [t \in Savers |-> Calling(saver'[t])] BY DEF calls
<1> QED BY <1>2, <1>3 DEF calls

LEMMA Ended ==
  ASSUME NEW s \in Savers, NEW at \in {"ok", "failed"}, TypeOK, Finish(s, at),
         calls[s].at = "saving"
  PROVE  Register!End(s, at)
<1>1. [Idle EXCEPT !.at = at] = [at |-> at, rows |-> None, fd |-> None] BY DEF Idle
<1>2. saver' = [saver EXCEPT ![s] = [at |-> at, rows |-> None, fd |-> None]]
  BY <1>1 DEF Finish
<1>3. Calling([at |-> at, rows |-> None, fd |-> None]) = [at |-> at, rows |-> None]
  BY DEF Calling
<1>4. calls' = [calls EXCEPT ![s] = [at |-> at, rows |-> None]] BY <1>2, <1>3, OneCall
<1>5. [Register!Idle EXCEPT !.at = at] = [at |-> at, rows |-> None] BY DEF Register!Idle
<1> QED BY <1>4, <1>5 DEF Register!End, calls

Outcome == Register!Next \/ UNCHANGED Register!vars \/ file' \in excused'

LEMMA ReadsStay ==
  ASSUME Inv, NEW s \in Savers, Open(s) \/ Write(s) \/ WriteFails(s), file' \notin excused'
  PROVE  Load(file)' = Load(file) /\ olds' = olds
<1>1. UNCHANGED <<file, older>> BY DEF Open, Write, WriteFails
<1>2. \A i \in Named : data'[i] = data[i]
  <2>1. CASE Open(s)
    <3>1. PICK i \in IF tmp = None THEN Free ELSE {tmp} : Data(i, Torn) BY <2>1 DEF Open
    <3>2. i \in Inodes /\ i \notin Named BY <3>1 DEF Free, Named, Inv, TypeOK, TmpApart
    <3> QED BY <3>1, <3>2 DEF Data, Inv, TypeOK, Named
  <2>2. CASE Write(s) \/ WriteFails(s)
    <3>1. saver[s].at = "opened" /\ UNCHANGED excused BY <2>2 DEF Write, WriteFails
    <3>2. saver[s].fd \notin Named BY <1>1, <3>1, OpenFile
    <3>3. \E d : Data(saver[s].fd, d) BY <2>2 DEF Write, WriteFails
    <3> QED BY <3>2, <3>3 DEF Data, Inv, TypeOK, Named
  <2> QED BY <2>1, <2>2
<1> QED BY <1>1, <1>2, SameReads DEF Inv

LEMMA QuietCall ==
  ASSUME Inv, NEW s \in Savers, Open(s) \/ Write(s) \/ Sync(s)
  PROVE  calls' = calls
<1> DEFINE c == saver'[s]
<1>1. saver' = [saver EXCEPT ![s] = c] BY DEF Open, Write, Sync, Goto, Inv, TypeOK
<1>2. c.rows = saver[s].rows /\ c.at \in Working /\ saver[s].at \in {"begun", "opened", "written"}
  <2>1. CASE Open(s)
    <3>1. PICK i : saver' = [saver EXCEPT ![s] = [@ EXCEPT !.at = "opened", !.fd = i]]
      BY <2>1 DEF Open
    <3>2. c = [saver[s] EXCEPT !.at = "opened", !.fd = i] BY <3>1 DEF Inv, TypeOK
    <3>3. c.at = "opened" /\ c.rows = saver[s].rows BY <3>2 DEF Inv, TypeOK
    <3>4. saver[s].at = "begun" BY <2>1 DEF Open
    <3> QED BY <3>3, <3>4 DEF Working
  <2>2. CASE Write(s)
    <3>1. c = [saver[s] EXCEPT !.at = "written", !.fd = None] BY <2>2 DEF Write, Inv, TypeOK
    <3> QED BY <2>2, <3>1 DEF Write, Inv, TypeOK, Working
  <2>3. CASE Sync(s) BY <2>3 DEF Sync, Goto, Inv, TypeOK, Working
  <2> QED BY <2>1, <2>2, <2>3
<1>3. Calling(c) = Calling(saver[s]) BY <1>2 DEF Calling, Working
<1>4. calls' = [calls EXCEPT ![s] = calls[s]] BY <1>1, <1>3, OneCall DEF Inv
<1> QED BY <1>4 DEF calls

LEMMA SaveOutcome ==
  ASSUME Inv, NEW s \in Savers, Step(s), file' \notin excused'
  PROVE  Outcome
<1> USE DEF Inv
<1>1. CASE Open(s) \/ Write(s)
  BY <1>1, ReadsStay, QuietCall DEF Outcome, Register!vars, calls, olds
<1>2. CASE Sync(s)
  <2>1. UNCHANGED <<file, older, data>> BY <1>2 DEF Sync
  <2>2. Load(file)' = Load(file) /\ olds' = olds BY <2>1, SameReads DEF Inv
  <2> QED BY <1>2, <2>2, QuietCall DEF Outcome, Register!vars, calls, olds
<1>3. CASE OpenFails(s) \/ RenameFails(s) \/ WriteFails(s)
  <2>1. Load(file)' = Load(file) /\ olds' = olds
    <3>1. CASE WriteFails(s) BY <3>1, ReadsStay
    <3>2. CASE OpenFails(s) \/ RenameFails(s)
      <4>1. UNCHANGED <<file, older, data>> BY <3>2 DEF OpenFails, RenameFails
      <4> QED BY <4>1, SameReads
    <3> QED BY <1>3, <3>1, <3>2
  <2>2. calls[s].at = "saving"
    <3>1. saver[s].at \in {"begun", "opened", "synced"}
      BY <1>3 DEF OpenFails, RenameFails, WriteFails
    <3>2. calls[s] = Calling(saver[s]) BY DEF calls
    <3> QED BY <3>1, <3>2 DEF Calling
  <2>3. Register!End(s, "failed")
    BY <1>3, <2>2, Ended DEF OpenFails, RenameFails, WriteFails
  <2>4. Register!Fail(s) BY <2>1, <2>3 DEF Register!Fail, olds
  <2> QED BY <2>4 DEF Outcome, Register!Next
<1>4. CASE Rename(s)
  <2>1. /\ saver[s].at = "synced" /\ tmp \in Inodes \ excused /\ file' = tmp
        /\ older' = older \cup {file} /\ UNCHANGED data
    BY <1>4 DEF Rename, TypeOK
  <2>2. data[tmp] = Document(saver[s].rows) /\ saver[s].rows \in Rows
    BY <2>1 DEF Written, Rowed, Working
  <2>3. Load(file)' = saver[s].rows BY <2>1, <2>2, DocumentType DEF Load
  <2>4. \A i : Load(i)' = Load(i) BY <2>1 DEF Load
  <2>5. olds' = olds \cup {Load(file)} BY <2>1, <2>4 DEF olds, Load
  <2>6. calls[s] = [at |-> "saving", rows |-> saver[s].rows]
    <3>1. calls[s] = Calling(saver[s]) BY DEF calls
    <3> QED BY <2>1, <3>1 DEF Calling
  <2>7. Register!End(s, "ok") BY <1>4, <2>6, Ended DEF Rename
  <2>8. Register!Land(s) BY <2>3, <2>5, <2>7, <2>6 DEF Register!Land, calls, olds
  <2> QED BY <2>8 DEF Outcome, Register!Next
<1>5. CASE Return(s)
  <2>1. saver[s].at \in {"ok", "failed"} /\ UNCHANGED <<file, older, data>>
        /\ saver' = [saver EXCEPT ![s] = [at |-> "idle", rows |-> None, fd |-> None]]
    BY <1>5 DEF Return, Idle
  <2>2. Load(file)' = Load(file) /\ olds' = olds BY <2>1, SameReads
  <2>3. Calling([at |-> "idle", rows |-> None, fd |-> None]) = [at |-> "idle", rows |-> None]
    BY DEF Calling
  <2>4. calls[s] = Calling(saver[s]) BY DEF calls
  <2>5. calls' = [calls EXCEPT ![s] = Calling([at |-> "idle", rows |-> None, fd |-> None])]
    BY <2>1, OneCall
  <2>6. calls[s].at \in {"ok", "failed"} BY <2>1, <2>4 DEF Calling
  <2>7. /\ calls' = [calls EXCEPT ![s] = [at |-> "idle", rows |-> None]]
        /\ calls[s].at \in {"ok", "failed"}
    BY <2>3, <2>5, <2>6
  <2>8. Register!Return(s)
    BY <2>2, <2>7 DEF Register!Return, Register!Idle, calls, olds
  <2> QED BY <2>8 DEF Outcome, Register!Next
<1> QED BY <1>1, <1>2, <1>3, <1>4, <1>5 DEF Step

LEMMA CallOutcome ==
  ASSUME Inv, NEW s \in Savers, NEW r \in Rows, Begin(s, r) PROVE Register!Begin(s, r)
<1>1. saver[s].at = "idle" /\ UNCHANGED <<file, older, data>> BY DEF Begin
<1>2. saver' = [saver EXCEPT ![s] = [at |-> "begun", rows |-> r, fd |-> None]]
  BY DEF Begin
<1>3. Load(file)' = Load(file) /\ olds' = olds BY <1>1, SameReads DEF Inv
<1>4. Calling([at |-> "begun", rows |-> r, fd |-> None]) = [at |-> "saving", rows |-> r]
  BY DEF Calling
<1>5. calls' = [calls EXCEPT ![s] = Calling([at |-> "begun", rows |-> r, fd |-> None])]
  BY <1>2, OneCall DEF Inv
<1>6. calls' = [calls EXCEPT ![s] = [at |-> "saving", rows |-> r]] BY <1>4, <1>5
<1>7. calls[s].at = "idle"
  <2>1. calls[s] = Calling(saver[s]) BY DEF calls
  <2> QED BY <1>1, <2>1 DEF Calling
<1> QED BY <1>3, <1>6, <1>7 DEF Register!Begin, calls, olds

LEMMA AllIdle ==
  ASSUME saver' = [s \in Savers |-> Idle] PROVE calls' = [s \in Savers |-> Register!Idle]
<1>1. Calling(Idle) = Register!Idle BY DEF Calling, Idle, Register!Idle
<1>2. \A s \in Savers : Calling(saver'[s]) = Register!Idle BY <1>1
<1> QED BY <1>2 DEF calls

LEMMA MachineOutcome ==
  ASSUME Inv, Settle \/ Kill \/ PowerLoss, file' \notin excused'
  PROVE  Outcome
<1>1. CASE Settle
  <2>1. UNCHANGED <<file, data, saver>> /\ older' = {} BY <1>1 DEF Settle
  <2>2. Load(file)' = Load(file) /\ olds' = {} /\ calls' = calls
    BY <2>1 DEF Load, olds, calls
  <2>3. Register!Settle BY <2>2 DEF Register!Settle, olds, calls
  <2> QED BY <2>3 DEF Outcome, Register!Next
<1>2. CASE Kill
  <2>1. UNCHANGED <<file, older, data>> /\ saver' = [s \in Savers |-> Idle] BY <1>2 DEF Kill
  <2>2. Load(file)' = Load(file) /\ olds' = olds BY <2>1, SameReads DEF Inv
  <2>3. Register!Kill BY <2>1, <2>2, AllIdle DEF Register!Kill, olds, calls
  <2> QED BY <2>3 DEF Outcome, Register!Next
<1>3. CASE PowerLoss
  <2>1. /\ file' \in older \cup {file} /\ older' = {} /\ saver' = [s \in Savers |-> Idle]
        /\ data' = [i \in Inodes |-> IF onDisk[i] = "yes" THEN data[i] ELSE Torn]
        /\ excused' = excused \cup {i \in Inodes : onDisk[i] = "ignored"}
    BY <1>3 DEF PowerLoss
  <2>2. Load(file)' \in olds \cup {Load(file)}
    <3>1. CASE file' = None BY <2>1, <3>1 DEF Load, olds
    <3>2. CASE file' # None
      <4>1. file' \in Named /\ file' \notin excused BY <2>1, <3>2 DEF Named, Inv, TypeOK
      <4>2. onDisk[file'] = "yes"
        BY <2>1, <4>1 DEF Inv, Renamed, TypeOK, Named
      <4>3. data'[file'] = data[file'] BY <2>1, <4>1, <4>2 DEF Named
      <4>4. Load(file)' = Decoded(data[file']) BY <3>2, <4>3 DEF Load
      <4>5. \A i \in older \cup {file} : i = file' => Load(i) = Decoded(data[file'])
        BY <3>2 DEF Load
      <4> QED BY <2>1, <4>4, <4>5 DEF olds
    <3> QED BY <3>1, <3>2
  <2>3. olds' = {} BY <2>1 DEF olds
  <2>4. Register!PowerLoss BY <2>1, <2>2, <2>3, AllIdle DEF Register!PowerLoss, olds, calls
  <2> QED BY <2>4 DEF Outcome, Register!Next
<1> QED BY <1>1, <1>2, <1>3

LEMMA FirstRegister == Init => Register!Init
<1> SUFFICES ASSUME Init PROVE Register!Init OBVIOUS
<1>1. Load(file) \in Rows \cup {Refused}
  <2>1. CASE file = None BY <2>1 DEF Load
  <2>2. CASE file # None
    <3>1. file \in Inodes BY <2>2 DEF Init
    <3>2. PICK d \in First : data = [i \in Inodes |-> IF i = file THEN d ELSE Torn] BY DEF Init
    <3>3. data[file] = d /\ d \in Documents BY <3>1, <3>2
    <3>4. Decoded(d) \in Rows \cup {Refused} BY <3>3 DEF Decoded, Documents
    <3> QED BY <2>2, <3>3, <3>4 DEF Load
  <2> QED BY <2>1, <2>2
<1>2. calls = [s \in Savers |-> Register!Idle]
  BY DEF Init, calls, Calling, Idle, Register!Idle
<1>3. olds = {} BY DEF Init, olds
<1> QED BY <1>1, <1>2, <1>3 DEF Register!Init, calls, olds

\* A save replaces what a load gives in one step or reports that it did not, in
\* every step of every behaviour after which the state file is not excused.
THEOREM Implementation == Spec => Implements
<1>1. Init => Register!Init BY FirstRegister
<1>2. Inv /\ [Next]_vars => [Register!Next \/ file' \in excused']_(Register!vars)
  <2> SUFFICES ASSUME Inv, [Next]_vars PROVE Outcome BY DEF Outcome
  <2>1. ASSUME NEW s \in Savers, NEW r \in Rows, Begin(s, r) PROVE Outcome
    BY <2>1, CallOutcome DEF Outcome, Register!Next
  <2>2. CASE file' \in excused' BY <2>2 DEF Outcome
  <2>3. ASSUME NEW s \in Savers, Step(s), file' \notin excused' PROVE Outcome
    BY <2>3, SaveOutcome
  <2>4. CASE (Settle \/ Kill \/ PowerLoss) /\ file' \notin excused' BY <2>4, MachineOutcome
  <2>5. CASE UNCHANGED vars
    <3>1. UNCHANGED <<file, older, data>> /\ calls' = calls BY <2>5 DEF vars, calls
    <3>2. Load(file)' = Load(file) /\ olds' = olds BY <3>1, SameReads DEF Inv
    <3> QED BY <3>1, <3>2 DEF Outcome, Register!vars, calls, olds
  <2> QED BY <2>1, <2>2, <2>3, <2>4, <2>5 DEF Next
<1> QED BY <1>1, <1>2, Invariance, PTL DEF Spec, Implements
=============================================================================
