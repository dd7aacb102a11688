---------------------------- MODULE UpdaterProofs ----------------------------
(***************************************************************************)
(* For any list of files: nothing the player has is lost (Recoverable), and *)
(* an update that is reported has been made (UpdatedIsComplete).           *)
(***************************************************************************)
EXTENDS Updater, FiniteSetTheorems, TLAPS

WritePhases  == {"opening", "downloading", "installing"}
UpdatePhases == WritePhases \cup {"backuping", "clearing"}

\* The loops: what they have not come to yet, and what is in the backup folder.
LoopInv ==
    /\ BackedUp \subseteq Replaced
    /\ phase \in RestorePhases => todo \subseteq BackedUp
    /\ phase \in {"requesting", "gathering"} => BackedUp = {}
    /\ phase = "backuping" => todo \subseteq update \cap Replaced
                              /\ \A f \in todo : backup[f] = "absent" /\ disk[f] # "new"
    /\ phase \in {"opening", "installing"} => todo \subseteq update
    /\ phase = "downloading" /\ "cut short" \notin faults =>
           update = queued \cup requests \cup fetched \cup refused
    /\ phase = "downloading" => queued \cup requests \cup fetched \subseteq update
    /\ phase \notin {"done", "finishing"} => result \notin Successes

\* The launcher that runs is whole.
LauncherInv ==
    /\ phase # "off" => disk[Launcher] \in Whole
    /\ "torn launcher" \notin faults => disk[Launcher] \in Whole
    /\ phase = "finishing" => disk[NewLauncher] \in Whole

\* Who loses a file.
Lossy == faults \cap {"torn backup", "cut short", "lost restoring"} # {}

\* Where a file of the player is safe: in place until it has been copied, in the
\* backup folder while it is written, in place before the folder is cleared.
SafeFile(f) ==
    /\ disk[f] \in Whole \/ backup[f] = "old"
    /\ backup[f] \in {"absent", "old"}
    /\ phase \in RestorePhases /\ f \notin todo /\ (phase = "rollback" => ~failed)
          => disk[f] \in Whole
    /\ phase \in ClearPhases \cup {"requesting", "gathering", "backuping"}
          => disk[f] \in Whole
    /\ phase = "backuping" /\ f \in update
          => disk[f] = "old" /\ (f \notin todo /\ ~failed => backup[f] = "old")
    /\ phase \in WritePhases => IF f \in update THEN backup[f] = "old" ELSE disk[f] \in Whole
    /\ phase = "installing" /\ ~failed /\ f \in update \ todo => disk[f] = "new"
SafeInv == ~Lossy => \A f \in Replaced : had[f] \in Whole => SafeFile(f)

\* What has been brought up to date.
NewInv ==
    /\ phase \in UpdatePhases => \A f \in Files \ update : disk[f] = "new"
    /\ "cut short" \notin faults =>
          /\ phase = "installing" /\ ~failed => \A f \in update \ todo : disk[Target(f)] = "new"
          /\ phase = "clearing" => \A f \in update : disk[Target(f)] = "new"
    /\ UpdatedIsComplete

\* What is going to be written to is not up to date.
OldInv ==
    /\ phase \in {"backuping", "opening", "downloading"} =>
           \A f \in update \cap Replaced : disk[f] # "new"
    /\ phase = "installing" => \A f \in todo \cap Replaced : disk[f] # "new"

UpdaterInv == UpdaterTypeOK /\ LoopInv /\ LauncherInv /\ SafeInv /\ NewInv /\ OldInv
------------------------------------------------------------------------------
\* Targets are paths, and only the launcher's is another one than the file.
LEMMA Targets ==
    /\ \A f \in Files : Target(f) \in Paths /\ Target(f) # Launcher
    /\ \A f \in Replaced : Target(f) = f
    /\ \A f, g \in Files : Target(f) = Target(g) => f = g
    /\ Replaced \subseteq Paths /\ Launcher \in Paths /\ NewLauncher \in Paths
    /\ NewLauncher \notin Files
BY LauncherAssumption DEF Target, Paths, Replaced

\* The pieces the actions are made of.
LEMMA TypePieces ==
    ASSUME UpdaterTypeOK
    PROVE  /\ \A p \in Paths, c \in Contents : [disk EXCEPT ![p] = c] \in [Paths -> Contents]
           /\ \A f \in Files, c \in Contents \ {"new"} :
                 [backup EXCEPT ![f] = c] \in [Files -> Contents \ {"new"}]
           /\ \A files : Kept(files) \in [Files -> Contents \ {"new"}]
           /\ CloseAllFiles => disk' \in [Paths -> Contents] /\ created' = {}
           /\ BackedUp \subseteq Files /\ Outdated \subseteq Files
           /\ [f \in Replaced |-> disk[f]] \in [Replaced -> Contents]
<1>1. "absent" \in Contents \ {"new"}
  BY DEF Contents
<1>2. CloseAllFiles => disk' \in [Paths -> Contents] /\ created' = {}
  BY <1>1 DEF CloseAllFiles, UpdaterTypeOK
<1>3. [f \in Replaced |-> disk[f]] \in [Replaced -> Contents]
  BY Targets DEF UpdaterTypeOK
<1>. QED BY <1>1, <1>2, <1>3 DEF UpdaterTypeOK, Kept, BackedUp, Outdated

\* Start returns with one of its results.
LEMMA ReturnTypes ==
    ASSUME UpdaterTypeOK, NEW r \in Results, Return(r)
    PROVE  /\ phase' \in Phases /\ todo' = {} /\ failed' \in BOOLEAN /\ result' \in Results
           /\ faults' \subseteq Faults /\ calm' \in BOOLEAN /\ had' \in [Replaced -> Contents]
<1>1. had' \in [Replaced -> Contents]
  BY TypePieces DEF Return, UpdaterTypeOK
<1>2. calm' \in BOOLEAN
  BY Zenon DEF Return, UpdaterTypeOK
<1>. QED BY <1>1, <1>2 DEF Return, Enter, Phases, UpdaterTypeOK

LEMMA TypeInit == Init => UpdaterTypeOK
<1>. SUFFICES ASSUME Init PROVE UpdaterTypeOK
  OBVIOUS
<1>1. disk \in [Paths -> Contents] /\ had \in [Replaced -> Contents]
  BY Targets DEF Init, Contents, Whole
<1>2. failed \in BOOLEAN /\ cancelled \in BOOLEAN /\ calm \in BOOLEAN
  BY DEF Init
<1>. QED BY <1>1, <1>2 DEF Init, UpdaterTypeOK, Contents, Phases, Results

\* Types of the files and of what Start goes through.
FilesTypeOK == disk \in [Paths -> Contents] /\ backup \in [Files -> Contents \ {"new"}]
StartTypeOK ==
    /\ phase \in Phases /\ todo \subseteq Files /\ failed \in BOOLEAN /\ result \in Results
HistoryTypeOK ==
    /\ had \in [Replaced -> Contents] /\ calm \in BOOLEAN /\ faults \subseteq Faults
RestTypeOK ==
    /\ update \subseteq Files /\ created \subseteq Files /\ cancelled \in BOOLEAN

LEMMA TypeParts ==
    FilesTypeOK' /\ StartTypeOK' /\ HistoryTypeOK' /\ RestTypeOK' => UpdaterTypeOK'
BY DEF UpdaterTypeOK, FilesTypeOK, StartTypeOK, HistoryTypeOK, RestTypeOK

LEMMA EnterTypes ==
    ASSUME NEW next \in Phases, NEW files \in SUBSET Files, Enter(next, files),
           result' \in Results
    PROVE  StartTypeOK'
BY DEF Enter, StartTypeOK

LEMMA SameHistory == UpdaterTypeOK /\ UNCHANGED history => HistoryTypeOK'
BY DEF UpdaterTypeOK, history, HistoryTypeOK

LEMMA ReturnTyped ==
    ASSUME UpdaterTypeOK, NEW r \in Results, Return(r)
    PROVE  StartTypeOK' /\ HistoryTypeOK'
BY ReturnTypes DEF StartTypeOK, HistoryTypeOK

LEMMA ContinueTypes ==
    ASSUME UpdaterTypeOK, NEW f, NEW error \in BOOLEAN, Continue(f, error), UNCHANGED result
    PROVE  StartTypeOK'
<1>1. failed' \in BOOLEAN
  BY Zenon DEF Continue, UpdaterTypeOK
<1>. QED BY <1>1 DEF Continue, UpdaterTypeOK, StartTypeOK

LEMMA ExitTypes == Exit => StartTypeOK' /\ RestTypeOK'
BY DEF Exit, StartTypeOK, RestTypeOK, Phases, Results

LEMMA UnchangedTypes ==
    ASSUME UpdaterTypeOK
    PROVE  /\ UNCHANGED <<disk, backup>> => FilesTypeOK'
           /\ UNCHANGED update /\ UNCHANGED created /\ UNCHANGED cancelled => RestTypeOK'
           /\ UNCHANGED <<phase, todo, failed, result>> => StartTypeOK'
BY DEF UpdaterTypeOK, FilesTypeOK, RestTypeOK, StartTypeOK

LEMMA TypeStep == UpdaterTypeOK /\ LoopInv /\ [Next]_vars => UpdaterTypeOK'
<1>. SUFFICES ASSUME UpdaterTypeOK, LoopInv, [Next]_vars PROVE UpdaterTypeOK'
  OBVIOUS
<1>a. result \in Results /\ todo \subseteq Files
  BY DEF UpdaterTypeOK
<1>1. CASE Launch
  <2>1. FilesTypeOK'
    BY <1>1, TypePieces, Targets DEF Launch, UpdaterTypeOK, FilesTypeOK, Contents
  <2>2. StartTypeOK'
    BY <1>1, EnterTypes, <1>a DEF Launch, Phases
  <2>. QED BY <1>1, <2>1, <2>2, SameHistory, UnchangedTypes, TypeParts DEF Launch
<1>2. CASE Start
  <2>1. StartTypeOK' /\ HistoryTypeOK'
    <3>1. CASE cancelled
      <4>1. StartTypeOK'
        BY <1>2, <3>1, EnterTypes DEF Start, Phases, Results
      <4>. QED BY <1>2, <3>1, <4>1 DEF Start, UpdaterTypeOK, HistoryTypeOK, Faults
    <3>2. CASE ~cancelled
      BY <1>2, <3>2, EnterTypes, <1>a, SameHistory, TypePieces DEF Start, Phases, RestorePhases
    <3>. QED BY <3>1, <3>2
  <2>. QED BY <1>2, <2>1, UnchangedTypes, TypeParts DEF Start, fileVars
<1>3. CASE Restored
  <2>1. StartTypeOK' /\ HistoryTypeOK'
    <3>1. CASE phase = "rollback" /\ failed
      BY <1>3, <3>1, ReturnTyped, <1>a DEF Restored
    <3>2. CASE ~(phase = "rollback" /\ failed)
      BY <1>3, <3>2, EnterTypes, <1>a, SameHistory DEF Restored, Phases, ClearPhases
    <3>. QED BY <3>1, <3>2
  <2>. QED BY <1>3, <2>1, UnchangedTypes, TypeParts DEF Restored, fileVars
<1>4. CASE ClearBackupFolder
  <2>1. FilesTypeOK'
    <3>1. PICK files \in SUBSET BackedUp : backup' = Kept(files)
      BY <1>4 DEF ClearBackupFolder
    <3>. QED BY <1>4, <3>1, TypePieces DEF ClearBackupFolder, UpdaterTypeOK, FilesTypeOK
  <2>2. StartTypeOK' /\ HistoryTypeOK'
    <3>1. CASE Cleared
      <4>1. UpdateResult \in Results
        BY DEF UpdateResult, Results
      <4>2. CASE phase = "clearing old"
        BY <3>1, <4>2, EnterTypes, <1>a, SameHistory DEF Cleared, Phases
      <4>3. CASE phase = "clearing restored"
        BY <3>1, <4>3, ReturnTyped, <1>a DEF Cleared
      <4>4. CASE phase = "clearing"
        BY <3>1, <4>4, ReturnTyped, <4>1 DEF Cleared
      <4>. QED BY <1>4, <4>2, <4>3, <4>4 DEF ClearBackupFolder, ClearPhases
    <3>2. CASE ~Cleared
      <4>1. Enter("done", {}) /\ result' \in Results /\ faults' \subseteq Faults /\ UNCHANGED <<had, calm>>
        BY <1>4, <3>2, <1>a DEF ClearBackupFolder, UpdaterTypeOK, Faults, Results
      <4>. QED BY <4>1, EnterTypes DEF Phases, UpdaterTypeOK, HistoryTypeOK
    <3>. QED BY <3>1, <3>2
  <2>. QED BY <1>4, <2>1, <2>2, UnchangedTypes, TypeParts DEF ClearBackupFolder
<1>5. CASE RequestFileList
  <2>1. StartTypeOK' /\ HistoryTypeOK'
    <3>1. CASE Enter("gathering", {}) /\ UNCHANGED <<result, history>>
      BY <3>1, EnterTypes, <1>a, SameHistory DEF Phases
    <3>2. ASSUME NEW r \in {"ConnectionError", "Error", "CanceledByUser"}, Return(r)
          PROVE  StartTypeOK' /\ HistoryTypeOK'
      BY <3>2, ReturnTyped DEF Results
    <3>. QED BY <1>5, <3>1, <3>2 DEF RequestFileList
  <2>. QED BY <1>5, <2>1, UnchangedTypes, TypeParts DEF RequestFileList, fileVars
<1>6. CASE GetFilesToUpdate
  <2>1. StartTypeOK' /\ HistoryTypeOK'
    <3>1. CASE Return("Error") \/ Return("NothingToUpdate")
      BY <3>1, ReturnTyped DEF Results
    <3>2. CASE Enter("backuping", NeedBackup(Outdated)) /\ UNCHANGED <<result, history>>
      BY <3>2, EnterTypes, <1>a, SameHistory, TypePieces DEF Phases, NeedBackup
    <3>. QED BY <1>6, <3>1, <3>2 DEF GetFilesToUpdate
  <2>2. update' \subseteq Files /\ (update' = update \/ update' = Outdated)
    BY <1>6, TypePieces DEF GetFilesToUpdate, UpdaterTypeOK
  <2>3. RestTypeOK'
    BY <1>6, <2>2 DEF GetFilesToUpdate, UpdaterTypeOK, RestTypeOK
  <2>. QED BY <1>6, <2>1, <2>3, UnchangedTypes, TypeParts DEF GetFilesToUpdate, fileVars
<1>7. ASSUME NEW f \in todo, FileStep(f)
      PROVE  UpdaterTypeOK'
  <2>0. f \in Files /\ f \in Paths /\ Target(f) \in Paths
    BY <1>7, <1>a, Targets DEF Paths
  <2>1. StartTypeOK'
    BY <1>7, ContinueTypes DEF FileStep, RestoreFile, BackupFile, OpenFile, InstallFile
  <2>2. RestTypeOK'
    BY <1>7, <2>0 DEF FileStep, RestoreFile, BackupFile, OpenFile, InstallFile, UpdaterTypeOK, RestTypeOK
  <2>3. HistoryTypeOK'
    BY <1>7 DEF FileStep, RestoreFile, BackupFile, OpenFile, InstallFile, UpdaterTypeOK,
                HistoryTypeOK, Faults, history
  <2>4. CASE RestoreFile(f)
    <3>1. backup[f] \in Contents /\ disk[f] \in Contents
      BY <2>0 DEF UpdaterTypeOK
    <3>2. \A c \in Contents : Emptied(c) \in Contents
      BY DEF Emptied, Contents
    <3>3. \E c \in Contents : disk' = [disk EXCEPT ![f] = c]
      BY <2>4, <3>1, <3>2 DEF RestoreFile, Copied, Contents
    <3>4. UNCHANGED backup
      BY <2>4 DEF RestoreFile
    <3>5. FilesTypeOK'
      BY <3>3, <3>4, <2>0, TypePieces DEF FilesTypeOK, UpdaterTypeOK
    <3>. QED BY <3>5, <2>1, <2>2, <2>3, TypeParts
  <2>5. CASE BackupFile(f)
    <3>1. backup[f] \in Contents \ {"new"} /\ disk[f] \in Contents
      BY <2>0 DEF UpdaterTypeOK
    <3>2. \A c \in Contents : Emptied(c) \in Contents \ {"new"}
      BY DEF Emptied, Contents
    <3>3. disk[f] # "new"
      BY <2>5, <1>7 DEF BackupFile, LoopInv
    <3>4. \E c \in Contents \ {"new"} : backup' = [backup EXCEPT ![f] = c]
      BY <2>5, <3>1, <3>2, <3>3 DEF BackupFile, Copied, Contents
    <3>5. UNCHANGED disk
      BY <2>5 DEF BackupFile
    <3>6. FilesTypeOK'
      BY <3>4, <3>5, <2>0, TypePieces DEF FilesTypeOK, UpdaterTypeOK
    <3>. QED BY <3>6, <2>1, <2>2, <2>3, TypeParts
  <2>6. CASE OpenFile(f)
    <3>1. disk' = disk \/ disk' = [disk EXCEPT ![Target(f)] = "empty"]
      BY <2>6 DEF OpenFile
    <3>. QED BY <2>6, <3>1, <2>0, <2>1, <2>2, <2>3, TypePieces, TypeParts
          DEF OpenFile, FilesTypeOK, UpdaterTypeOK, Contents
  <2>7. CASE InstallFile(f)
    <3>1. \E c \in Contents : disk' = [disk EXCEPT ![Target(f)] = c]
      BY <2>7 DEF InstallFile, Contents
    <3>. QED BY <2>7, <3>1, <2>0, <2>1, <2>2, <2>3, TypePieces, TypeParts
          DEF InstallFile, FilesTypeOK, UpdaterTypeOK
  <2>. QED BY <1>7, <2>4, <2>5, <2>6, <2>7 DEF FileStep
<1>8. CASE FilesBackedUp
  <2>1. StartTypeOK' /\ HistoryTypeOK'
    <3>1. CASE Return("Error")
      BY <3>1, ReturnTyped DEF Results
    <3>2. CASE Enter("opening", update) /\ UNCHANGED <<result, history>>
      BY <3>2, EnterTypes, <1>a, SameHistory DEF Phases, UpdaterTypeOK
    <3>. QED BY <1>8, <3>1, <3>2 DEF FilesBackedUp
  <2>. QED BY <1>8, <2>1, UnchangedTypes, TypeParts DEF FilesBackedUp, fileVars
<1>9. ASSUME NEW r \in Results, RollBack(r), UNCHANGED <<backup, update, cancelled>>, UNCHANGED history
      PROVE  UpdaterTypeOK'
  <2>1. StartTypeOK'
    BY <1>9, EnterTypes, TypePieces DEF RollBack, Phases, RestorePhases
  <2>2. FilesTypeOK' /\ RestTypeOK'
    BY <1>9, TypePieces DEF RollBack, FilesTypeOK, RestTypeOK, UpdaterTypeOK
  <2>. QED BY <1>9, <2>1, <2>2, SameHistory, TypeParts
<1>10. CASE FilesOpened
  <2>1. CASE Enter("downloading", {}) /\ UNCHANGED <<disk, created, result>>
    BY <1>10, <2>1, <1>a, EnterTypes, SameHistory, UnchangedTypes, TypeParts DEF FilesOpened, Phases
  <2>2. ASSUME NEW r \in {"Error", "CanceledByUser"}, RollBack(r)
        PROVE  UpdaterTypeOK'
    BY <1>10, <2>2, <1>9 DEF FilesOpened, Results
  <2>. QED BY <1>10, <2>1, <2>2 DEF FilesOpened
<1>11. CASE Downloads
  BY <1>11, UnchangedTypes, TypeParts DEF Downloads, fileVars, startVars, UpdaterTypeOK, HistoryTypeOK, Faults
<1>12. CASE Downloaded
  <2>1. CASE Enter("installing", fetched) /\ UNCHANGED <<disk, created, result, history>>
    <3>1. fetched \subseteq Files
      BY <1>12 DEF Downloaded, LoopInv, UpdaterTypeOK
    <3>. QED BY <1>12, <2>1, <3>1, <1>a, EnterTypes, SameHistory, UnchangedTypes, TypeParts DEF Downloaded, Phases
  <2>2. CASE RollBack("Error") /\ UNCHANGED history
    BY <1>12, <2>2, <1>9 DEF Downloaded, Results
  <2>3. CASE /\ CloseAllFiles /\ Enter("done", {}) /\ result' = "CanceledByUser"
             /\ faults' = faults \cup {"half undone"} /\ UNCHANGED <<had, calm>>
    <3>1. StartTypeOK'
      BY <2>3, EnterTypes DEF Phases, Results
    <3>2. HistoryTypeOK'
      BY <2>3 DEF UpdaterTypeOK, HistoryTypeOK, Faults
    <3>3. FilesTypeOK' /\ RestTypeOK'
      BY <1>12, <2>3, TypePieces DEF Downloaded, FilesTypeOK, RestTypeOK, UpdaterTypeOK
    <3>. QED BY <3>1, <3>2, <3>3, TypeParts
  <2>. QED BY <1>12, <2>1, <2>2, <2>3 DEF Downloaded
<1>13. CASE FilesInstalled
  <2>1. CASE failed
    BY <1>13, <2>1, <1>9 DEF FilesInstalled, Results
  <2>2. CASE ~failed
    <3>1. FilesTypeOK' /\ RestTypeOK'
      BY <1>13, <2>2, TypePieces DEF FilesInstalled, FilesTypeOK, RestTypeOK, UpdaterTypeOK
    <3>. QED BY <1>13, <2>2, <3>1, <1>a, EnterTypes, SameHistory, TypeParts
          DEF FilesInstalled, Phases, ClearPhases
  <2>. QED BY <2>1, <2>2
<1>14. CASE Leave
  BY <1>14, <1>a, ExitTypes, SameHistory, UnchangedTypes, TypeParts
     DEF Leave, startVars, fileVars, UpdaterTypeOK, StartTypeOK, Phases
<1>15. CASE FinishLauncherUpdate
  <2>1. FilesTypeOK'
    BY <1>15, TypePieces, Targets DEF FinishLauncherUpdate, UpdaterTypeOK, FilesTypeOK
  <2>. QED BY <1>15, <2>1, ExitTypes, SameHistory, TypeParts DEF FinishLauncherUpdate
<1>16. CASE Cancel
  BY <1>16, <1>a, SameHistory, UnchangedTypes, TypeParts DEF Cancel, fileVars, RestTypeOK, UpdaterTypeOK
<1>17. CASE Crash
  <2>1. HistoryTypeOK'
    BY <1>17 DEF Crash, Torn, UpdaterTypeOK, HistoryTypeOK, Faults
  <2>2. FilesTypeOK'
    <3>1. CASE UNCHANGED <<disk, backup>>
      BY <3>1, UnchangedTypes
    <3>2. ASSUME NEW p \in Paths, NEW c \in Contents, disk' = [disk EXCEPT ![p] = c], UNCHANGED backup
          PROVE  FilesTypeOK'
      BY <3>2, TypePieces DEF UpdaterTypeOK, FilesTypeOK
    <3>3. ASSUME NEW f \in Files, NEW c \in Contents \ {"new"}, backup' = [backup EXCEPT ![f] = c],
                 UNCHANGED disk
          PROVE  FilesTypeOK'
      BY <3>3, TypePieces DEF UpdaterTypeOK, FilesTypeOK
    <3>4. ASSUME NEW files, backup' = Kept(files), UNCHANGED disk
          PROVE  FilesTypeOK'
      BY <3>4, TypePieces DEF UpdaterTypeOK, FilesTypeOK
    <3>5. \A f \in todo : f \in Files /\ f \in Paths /\ Target(f) \in Paths
      BY <1>a, Targets DEF Paths
    <3>6. {"empty", "partial"} \subseteq Contents \ {"new"}
      BY DEF Contents
    <3>7. CASE \E files \in SUBSET BackedUp : backup' = Kept(files) /\ UNCHANGED disk
      BY <3>4, <3>7
    <3>8. CASE ~\E files \in SUBSET BackedUp : backup' = Kept(files) /\ UNCHANGED disk
      BY <1>17, <3>1, <3>2, <3>3, <3>5, <3>6, <3>8, Targets DEF Crash, Torn, fileVars
    <3>. QED BY <3>7, <3>8
  <2>. QED BY <1>17, <2>1, <2>2, ExitTypes, TypeParts DEF Crash
<1>18. CASE CalmDown
  BY <1>18, <1>a, UnchangedTypes, TypeParts DEF CalmDown, fileVars, startVars, UpdaterTypeOK, HistoryTypeOK
<1>19. CASE UNCHANGED vars
  BY <1>19, UnchangedTypes, SameHistory, TypeParts DEF vars, fileVars, startVars
<1>. QED BY <1>1, <1>2, <1>3, <1>4, <1>5, <1>6, <1>7, <1>8, <1>10, <1>11, <1>12, <1>13, <1>14,
            <1>15, <1>16, <1>17, <1>18, <1>19 DEF Next, UpdaterStep
------------------------------------------------------------------------------
LEMMA LoopInit == Init => LoopInv
BY DEF Init, LoopInv, BackedUp, RestorePhases, Successes

\* Where backup' is as before, or less, so is what is backed up.
LEMMA BackedUpAfter ==
    /\ UNCHANGED backup => BackedUp' = BackedUp
    /\ \A files \in SUBSET BackedUp : backup' = Kept(files) => BackedUp' = files
BY DEF BackedUp, Kept

\* Where Start goes.
LEMMA Goes ==
    /\ \A next, files : Enter(next, files) => phase' = next /\ todo' = files /\ failed' = FALSE
    /\ \A with : Return(with) => phase' = "done" /\ todo' = {} /\ result' = with
BY DEF Enter, Return

\* From these phases a loop is never in the middle.
LEMMA Entered ==
    ASSUME BackedUp' \subseteq Replaced, result' \notin Successes \/ phase' \in {"done", "finishing"},
           \/ phase' \in {"off", "starting", "done", "finishing"} \cup ClearPhases
           \/ phase' \in RestorePhases /\ todo' \subseteq BackedUp'
           \/ phase' \in {"requesting", "gathering"} /\ BackedUp' = {}
    PROVE  LoopInv'
BY DEF LoopInv, RestorePhases, ClearPhases

LEMMA LoopStep == UpdaterTypeOK /\ LoopInv /\ [Next]_vars => LoopInv'
<1>. SUFFICES ASSUME UpdaterTypeOK, LoopInv, [Next]_vars PROVE LoopInv'
  OBVIOUS
<1>a. BackedUp \subseteq Replaced
  BY DEF LoopInv
<1>b. phase \notin {"done", "finishing"} => result \notin Successes
  BY DEF LoopInv
<1>1. CASE Launch
  BY <1>1, <1>a, <1>b, BackedUpAfter, Entered DEF Launch, Enter
<1>2. CASE Start
  <2>1. UNCHANGED backup
    BY <1>2 DEF Start, fileVars
  <2>2. result' \notin Successes \/ phase' = "done"
    BY <1>2, <1>b, Goes DEF Start, Successes
  <2>3. phase' = "done" \/ (phase' = "restoring" /\ todo' = BackedUp)
    BY <1>2, Goes DEF Start
  <2>. QED BY <1>a, <2>1, <2>2, <2>3, BackedUpAfter, Entered DEF RestorePhases
<1>3. CASE Restored
  <2>1. UNCHANGED backup
    BY <1>3 DEF Restored, fileVars
  <2>2. phase' = "done" \/ (phase' \in ClearPhases /\ result' = result)
    BY <1>3 DEF Restored, Enter, Return, ClearPhases
  <2>. QED BY <1>3, <1>a, <1>b, <2>1, <2>2, BackedUpAfter, Entered DEF Restored, RestorePhases
<1>4. CASE ClearBackupFolder
  <2>1. PICK files \in SUBSET BackedUp : backup' = Kept(files) /\ (Cleared => files = {} \/ phase' = "done")
    <3>1. CASE backup' = Kept({}) /\ Cleared
      BY <3>1
    <3>2. CASE \E files \in SUBSET BackedUp \ {{}} : backup' = Kept(files) /\ Enter("done", {})
      BY <3>2 DEF Enter
    <3>. QED BY <1>4, <3>1, <3>2 DEF ClearBackupFolder
  <2>2. BackedUp' = files
    BY <2>1, BackedUpAfter
  <2>3. phase' = "done" \/ (phase' = "requesting" /\ result' = result /\ files = {})
    <3>1. CASE Cleared
      <4>1. phase \in ClearPhases /\ (files = {} \/ phase' = "done")
        BY <1>4, <2>1, <3>1 DEF ClearBackupFolder
      <4>2. phase = "clearing old" => Enter("requesting", {}) /\ UNCHANGED <<result, history>>
        BY <3>1 DEF Cleared
      <4>3. phase = "clearing restored" => Return(result)
        BY <3>1 DEF Cleared
      <4>4. phase = "clearing" => Return(UpdateResult)
        BY <3>1 DEF Cleared
      <4>5. phase' = "done" \/ (phase' = "requesting" /\ result' = result)
        BY <4>1, <4>2, <4>3, <4>4, Goes DEF ClearPhases
      <4>. QED BY <4>1, <4>5
    <3>2. CASE ~Cleared
      BY <1>4, <3>2, Goes DEF ClearBackupFolder
    <3>. QED BY <3>1, <3>2
  <2>. QED BY <1>4, <1>a, <1>b, <2>2, <2>3, Entered DEF ClearBackupFolder, ClearPhases
<1>5. CASE RequestFileList
  <2>1. UNCHANGED backup
    BY <1>5 DEF RequestFileList, fileVars
  <2>2. phase' = "done" \/ (phase' = "gathering" /\ result' = result)
    BY <1>5, Goes DEF RequestFileList
  <2>3. BackedUp = {} /\ phase = "requesting"
    BY <1>5 DEF RequestFileList, LoopInv
  <2>. QED BY <1>a, <1>b, <2>1, <2>2, <2>3, BackedUpAfter, Entered
<1>6. CASE GetFilesToUpdate
  <2>1. UNCHANGED <<disk, backup>> /\ BackedUp = {} /\ phase = "gathering"
    BY <1>6 DEF GetFilesToUpdate, fileVars, LoopInv
  <2>2. BackedUp' = {}
    BY <2>1, BackedUpAfter
  <2>3. CASE phase' = "done"
    BY <2>2, <2>3, Entered
  <2>4. CASE phase' # "done"
    <3>1. /\ phase' = "backuping" /\ todo' = NeedBackup(Outdated) /\ update' = Outdated
          /\ result' = result
      BY <1>6, <2>4 DEF GetFilesToUpdate, Enter, Return
    <3>2. todo' \subseteq update' \cap Replaced
      BY <3>1 DEF NeedBackup, Outdated, Replaced
    <3>3. \A f \in todo' : backup'[f] = "absent" /\ disk'[f] # "new"
      BY <3>1, <2>1 DEF NeedBackup, Outdated, BackedUp
    <3>. QED BY <3>1, <3>2, <3>3, <1>b, <2>1, <2>2 DEF LoopInv, RestorePhases
  <2>. QED BY <2>3, <2>4
<1>7. ASSUME NEW f \in todo, FileStep(f)
      PROVE  LoopInv'
  <2>1. todo' \subseteq todo /\ f \notin todo' /\ UNCHANGED <<phase, update, result, queued, requests, fetched, refused>>
    BY <1>7 DEF FileStep, RestoreFile, BackupFile, OpenFile, InstallFile, Continue, downloaderVars
  <2>2. CASE BackupFile(f)
    <3>1. phase = "backuping" /\ f \in Replaced /\ f \in Files /\ UNCHANGED disk
      BY <1>7, <2>2 DEF BackupFile, LoopInv, Replaced
    <3>2. \A g \in Files : g # f => backup'[g] = backup[g]
      BY <2>2 DEF BackupFile, UpdaterTypeOK
    <3>3. BackedUp' \subseteq Replaced
      BY <3>1, <3>2, <1>a DEF BackedUp
    <3>4. todo' \subseteq Files
      BY <2>1 DEF UpdaterTypeOK
    <3>. QED BY <2>1, <3>1, <3>2, <3>3, <3>4, <1>b DEF LoopInv, RestorePhases
  <2>3. CASE ~BackupFile(f)
    <3>1. UNCHANGED backup /\ phase \in RestorePhases \cup {"opening", "installing"}
      BY <1>7, <2>3 DEF FileStep, RestoreFile, OpenFile, InstallFile
    <3>. QED BY <2>1, <3>1, BackedUpAfter DEF LoopInv, RestorePhases
  <2>. QED BY <2>2, <2>3
<1>8. CASE FilesBackedUp
  <2>1. UNCHANGED backup
    BY <1>8 DEF FilesBackedUp, fileVars
  <2>2. CASE phase' = "done"
    BY <1>a, <2>1, <2>2, BackedUpAfter, Entered
  <2>3. CASE phase' # "done"
    <3>1. phase' = "opening" /\ todo' = update /\ update' = update /\ result' = result /\ phase = "backuping"
      BY <1>8, <2>3 DEF FilesBackedUp, Enter, Return
    <3>. QED BY <1>a, <1>b, <2>1, <3>1, BackedUpAfter DEF LoopInv, RestorePhases
  <2>. QED BY <2>2, <2>3
<1>9. ASSUME NEW r \in {"Error", "CanceledByUser"}, RollBack(r), UNCHANGED backup
      PROVE  LoopInv'
  BY <1>9, <1>a, BackedUpAfter, Entered DEF RollBack, Enter, RestorePhases, Successes
<1>10. CASE FilesOpened
  <2>1. CASE Enter("downloading", {}) /\ StartDownloads(update) /\ UNCHANGED result
    BY <1>10, <2>1, <1>a, <1>b, BackedUpAfter DEF FilesOpened, Enter, StartDownloads, LoopInv, RestorePhases
  <2>. QED BY <1>10, <1>9, <2>1 DEF FilesOpened
<1>11. CASE Downloads
  <2>1. PICK ended \in SUBSET requests :
           \E broken \in SUBSET (requests \ ended) : Iterate(ended, broken, cancelled)
    <3>1. PICK ended \in SUBSET requests :
             \E broken \in IF calm THEN {{}} ELSE SUBSET (requests \ ended) :
                Iterate(ended, broken, cancelled)
      BY <1>11, Zenon DEF Downloads
    <3>2. (IF calm THEN {{}} ELSE SUBSET (requests \ ended)) \subseteq SUBSET (requests \ ended)
      OBVIOUS
    <3>. QED BY <3>1, <3>2, Zenon
  <2>b. PICK broken \in SUBSET (requests \ ended) : Iterate(ended, broken, cancelled)
    BY <2>1
  <2>2. UNCHANGED <<backup, phase, update, result>> /\ phase = "downloading"
    BY <1>11 DEF Downloads, fileVars, startVars
  <2>3. queued' \cup requests' \cup fetched' \subseteq queued \cup requests \cup fetched
    BY <2>b DEF Iterate, PruneCompletedRequests, Again, Startable
  <2>4. CASE "cut short" \notin faults'
    <3>1. "cut short" \notin faults /\ (cancelled => fetched' \cup refused' = update)
      BY <1>11, <2>4 DEF Downloads
    <3>2. CASE cancelled
      <4>1. queued' = {} /\ requests' = {}
        BY <2>b, <3>2 DEF Iterate
      <4>. QED BY <2>2, <2>3, <3>1, <3>2, <4>1, <1>b, BackedUpAfter DEF LoopInv, RestorePhases
    <3>3. CASE ~cancelled
      <4>1. queued' \cup requests' \cup fetched' \cup refused' = queued \cup requests \cup fetched \cup refused
        BY <2>b, <3>3 DEF Iterate, PruneCompletedRequests, Again, Startable
      <4>. QED BY <2>2, <2>3, <3>1, <4>1, <1>b, BackedUpAfter DEF LoopInv, RestorePhases
    <3>. QED BY <3>2, <3>3
  <2>5. CASE "cut short" \in faults'
    BY <2>2, <2>3, <2>5, <1>b, BackedUpAfter DEF LoopInv, RestorePhases
  <2>. QED BY <2>4, <2>5
<1>12. CASE Downloaded
  <2>0. UNCHANGED <<backup, update>> /\ phase = "downloading"
    BY <1>12 DEF Downloaded
  <2>1. CASE Enter("installing", fetched) /\ UNCHANGED result
    <3>1. fetched \subseteq update
      BY <2>0 DEF LoopInv
    <3>2. phase' = "installing" /\ todo' = fetched /\ result' = result
      BY <2>1 DEF Enter
    <3>. QED BY <2>0, <3>1, <3>2, <1>a, <1>b, BackedUpAfter DEF LoopInv, RestorePhases
  <2>2. CASE Enter("done", {})
    BY <2>0, <2>2, <1>a, BackedUpAfter, Entered DEF Enter
  <2>. QED BY <1>12, <2>0, <1>9, <2>1, <2>2 DEF Downloaded
<1>13. CASE FilesInstalled
  <2>1. CASE failed
    BY <1>13, <2>1, <1>9 DEF FilesInstalled
  <2>2. CASE ~failed
    BY <1>13, <2>2, <1>a, <1>b, BackedUpAfter, Entered DEF FilesInstalled, Enter, ClearPhases
  <2>. QED BY <2>1, <2>2
<1>14. CASE Leave
  <2>1. UNCHANGED backup /\ (phase' = "finishing" \/ (phase' = "off" /\ result' = "none"))
    <3>1. phase' = "finishing" \/ Exit
      BY <1>14 DEF Leave
    <3>2. UNCHANGED backup
      BY <1>14 DEF Leave, fileVars
    <3>. QED BY <3>1, <3>2 DEF Exit
  <2>. QED BY <2>1, <1>a, BackedUpAfter, Entered DEF Successes
<1>15. CASE FinishLauncherUpdate
  BY <1>15, <1>a, BackedUpAfter, Entered DEF FinishLauncherUpdate, Exit, Successes
<1>16. CASE Cancel
  BY <1>16, BackedUpAfter DEF Cancel, fileVars, downloaderVars, history, LoopInv
<1>17. CASE Crash
  <2>1. phase' = "off" /\ result' = "none"
    BY <1>17 DEF Crash, Exit
  <2>2. BackedUp' \subseteq Replaced
    <3>1. CASE UNCHANGED backup
      BY <3>1, <1>a, BackedUpAfter
    <3>2. CASE \E files \in SUBSET BackedUp : backup' = Kept(files)
      BY <3>2, <1>a, BackedUpAfter
    <3>3. ASSUME NEW f \in todo, phase = "backuping", NEW c, backup' = [backup EXCEPT ![f] = c]
          PROVE  BackedUp' \subseteq Replaced
      <4>1. f \in Replaced /\ \A g \in Files : g # f => backup'[g] = backup[g]
        BY <3>3 DEF LoopInv, UpdaterTypeOK
      <4>. QED BY <4>1, <1>a DEF BackedUp
    <3>. QED BY <1>17, <3>1, <3>2, <3>3 DEF Crash, Torn, fileVars
  <2>. QED BY <2>1, <2>2, Entered DEF Successes
<1>18. CASE CalmDown
  BY <1>18, BackedUpAfter DEF CalmDown, fileVars, downloaderVars, startVars, LoopInv
<1>19. CASE UNCHANGED vars
  BY <1>19, BackedUpAfter DEF vars, fileVars, downloaderVars, startVars, history, LoopInv
<1>. QED BY <1>1, <1>2, <1>3, <1>4, <1>5, <1>6, <1>7, <1>8, <1>10, <1>11, <1>12, <1>13, <1>14,
            <1>15, <1>16, <1>17, <1>18, <1>19 DEF Next, UpdaterStep
------------------------------------------------------------------------------
LEMMA LauncherInit == Init => LauncherInv
BY DEF Init, LauncherInv

\* CloseAllFiles deletes only what was empty, and only targets.
LEMMA Closed ==
    ASSUME CloseAllFiles, NEW p \in Paths
    PROVE  disk'[p] = disk[p] \/ (disk[p] = "empty" /\ \E f \in created : p = Target(f))
BY DEF CloseAllFiles

\* Every step but the last of an update leaves the running program alone.
LEMMA LauncherKept ==
    ASSUME UpdaterTypeOK, LoopInv, [Next]_vars, phase # "finishing"
    PROVE  disk'[Launcher] = disk[Launcher]
<1>a. Launcher \in Paths /\ NewLauncher # Launcher /\ Launcher \notin Replaced
  BY LauncherAssumption DEF Paths, Replaced
<1>b. \A f \in todo \cup created : f \in Files /\ Target(f) # Launcher
  BY Targets DEF UpdaterTypeOK
<1>c. phase \in RestorePhases => Launcher \notin todo
  BY <1>a DEF LoopInv
<1>d. ASSUME CloseAllFiles PROVE disk'[Launcher] = disk[Launcher]
  BY <1>a, <1>b, <1>d, Closed
<1>1. CASE UNCHANGED disk
  BY <1>1
<1>2. ASSUME NEW p, p # Launcher, NEW c, disk' = [disk EXCEPT ![p] = c]
      PROVE  disk'[Launcher] = disk[Launcher]
  BY <1>2, <1>a DEF UpdaterTypeOK
<1>3. CASE Launch
  BY <1>1, <1>2, <1>3, <1>a DEF Launch
<1>4. ASSUME NEW f \in todo, FileStep(f)
      PROVE  disk'[Launcher] = disk[Launcher]
  <2>1. CASE RestoreFile(f)
    <3>1. f # Launcher
      BY <2>1, <1>c DEF RestoreFile
    <3>. QED BY <2>1, <3>1, <1>2 DEF RestoreFile
  <2>2. CASE OpenFile(f)
    BY <2>2, <1>1, <1>2, <1>b DEF OpenFile
  <2>3. CASE InstallFile(f)
    BY <2>3, <1>2, <1>b DEF InstallFile
  <2>4. CASE BackupFile(f)
    BY <2>4 DEF BackupFile
  <2>. QED BY <1>4, <2>1, <2>2, <2>3, <2>4 DEF FileStep
<1>5. CASE FilesOpened \/ Downloaded \/ FilesInstalled
  BY <1>5, <1>1, <1>d DEF FilesOpened, Downloaded, FilesInstalled, RollBack
<1>6. CASE Crash
  <2>1. CASE UNCHANGED disk
    BY <2>1
  <2>2. CASE ~UNCHANGED disk
    <3>1. PICK p, c : p # Launcher /\ disk' = [disk EXCEPT ![p] = c]
      <4>1. CASE phase \in RestorePhases /\ \E f \in todo : Torn(disk, f, {})
        BY <4>1, <1>c DEF Torn
      <4>2. CASE phase = "installing" /\ \E f \in todo : Torn(disk, Target(f), {})
        BY <4>2, <1>b DEF Torn
      <4>. QED BY <1>6, <2>2, <4>1, <4>2 DEF Crash, fileVars
    <3>. QED BY <3>1, <1>2
  <2>. QED BY <2>1, <2>2
<1>7. CASE \/ Start \/ Restored \/ ClearBackupFolder \/ RequestFileList \/ GetFilesToUpdate
           \/ FilesBackedUp \/ Downloads \/ Leave \/ Cancel \/ CalmDown \/ UNCHANGED vars
  <2>1. UNCHANGED disk
    BY <1>7 DEF Start, Restored, ClearBackupFolder, RequestFileList, GetFilesToUpdate, FilesBackedUp,
                Downloads, Leave, Cancel, CalmDown, vars, fileVars
  <2>. QED BY <2>1
<1>8. CASE FinishLauncherUpdate
  BY <1>8 DEF FinishLauncherUpdate
<1>. QED BY <1>3, <1>4, <1>5, <1>6, <1>7, <1>8 DEF Next, UpdaterStep

\* Who takes a fault back, or goes into a phase other than "off".
LEMMA LauncherStep == UpdaterTypeOK /\ LoopInv /\ LauncherInv /\ [Next]_vars => LauncherInv'
<1>. SUFFICES ASSUME UpdaterTypeOK, LoopInv, LauncherInv, [Next]_vars PROVE LauncherInv'
  OBVIOUS
<1>1. CASE phase = "finishing"
  <2>1. CASE FinishLauncherUpdate
    <3>1. disk'[Launcher] = disk[NewLauncher] \/ disk' = disk
      BY <2>1, Targets DEF FinishLauncherUpdate, UpdaterTypeOK
    <3>2. phase' = "off" /\ disk[Launcher] \in Whole /\ disk[NewLauncher] \in Whole
      BY <1>1, <2>1 DEF FinishLauncherUpdate, Exit, LauncherInv
    <3>. QED BY <3>1, <3>2 DEF LauncherInv
  <2>2. CASE Crash
    <3>1. phase' = "off" /\ (disk' = disk \/ "torn launcher" \in faults')
      BY <1>1, <2>2 DEF Crash, Exit, Torn, fileVars, RestorePhases, ClearPhases
    <3>. QED BY <1>1, <3>1 DEF LauncherInv
  <2>3. CASE CalmDown \/ UNCHANGED vars
    BY <2>3 DEF CalmDown, vars, fileVars, history, LauncherInv
  <2>. QED BY <1>1, <2>1, <2>2, <2>3 DEF Next, UpdaterStep, Launch, FileStep, Start, Restored,
        ClearBackupFolder, RequestFileList, GetFilesToUpdate, FilesBackedUp, FilesOpened, Downloads,
        Downloaded, FilesInstalled, Leave, Cancel, RestoreFile, BackupFile, OpenFile, InstallFile,
        RestorePhases, ClearPhases
<1>2. CASE phase # "finishing"
  <2>1. disk'[Launcher] = disk[Launcher]
    BY <1>2, LauncherKept
  <2>2. phase = "off" => disk[Launcher] \in Whole \/ (phase' = "off" /\ faults' = faults)
    BY DEF Next, UpdaterStep, Launch, FileStep, Start, Restored, ClearBackupFolder, RequestFileList,
        GetFilesToUpdate, FilesBackedUp, FilesOpened, Downloads, Downloaded, FilesInstalled, Leave,
        Cancel, Crash, CalmDown, FinishLauncherUpdate, RestoreFile, BackupFile, OpenFile, InstallFile,
        RestorePhases, ClearPhases, vars, history
  <2>3. phase' = "finishing" => disk'[NewLauncher] \in Whole
    BY <1>2 DEF Next, UpdaterStep, Launch, FileStep, Start, Restored, ClearBackupFolder, Cleared,
        RequestFileList, GetFilesToUpdate, FilesBackedUp, FilesOpened, Downloads, Downloaded,
        FilesInstalled, Leave, Cancel, Crash, CalmDown, FinishLauncherUpdate, RestoreFile, BackupFile,
        OpenFile, InstallFile, Continue, Enter, Return, RollBack, Exit, ClearPhases, vars, fileVars
  <2>. QED BY <2>1, <2>2, <2>3 DEF LauncherInv
<1>. QED BY <1>1, <1>2
------------------------------------------------------------------------------
LEMMA SafeInit == Init => SafeInv
<1>. SUFFICES ASSUME Init, NEW f \in Replaced, had[f] \in Whole PROVE SafeFile(f)
  BY DEF SafeInv
<1>1. disk[f] \in Whole /\ backup[f] = "absent" /\ phase = "off"
  BY DEF Init, Replaced
<1>. QED BY <1>1 DEF SafeFile, RestorePhases, ClearPhases, WritePhases

\* Only a success takes faults back, when the backup folder is empty.
LEMMA FaultsKept ==
    ASSUME UpdaterTypeOK, LoopInv, [Next]_vars
    PROVE  \/ had' = had /\ faults \subseteq faults'
           \/ /\ had' = [f \in Replaced |-> disk[f]] /\ BackedUp' = {}
              /\ phase' = "done" /\ disk' = disk
<1>a. ASSUME NEW r, Return(r), r \notin Successes PROVE had' = had /\ faults' = faults
  BY <1>a DEF Return
<1>b. ASSUME NEW r, Return(r)
      PROVE  \/ had' = had /\ faults' = faults
             \/ had' = [f \in Replaced |-> disk[f]] /\ phase' = "done"
  BY <1>b DEF Return, Enter
<1>c. ASSUME UNCHANGED history PROVE had' = had /\ faults' = faults
  BY <1>c DEF history
<1>1. CASE Restored
  <2>1. result \notin Successes
    BY <1>1 DEF Restored, LoopInv, RestorePhases
  <2>. QED BY <1>1, <1>a, <1>c, <2>1 DEF Restored
<1>2. CASE ClearBackupFolder
  <2>1. result \notin Successes /\ phase \in ClearPhases
    BY <1>2 DEF ClearBackupFolder, LoopInv, ClearPhases
  <2>2. CASE backup' = Kept({}) /\ Cleared
    <3>1. BackedUp' = {} /\ disk' = disk
      BY <1>2, <2>2, BackedUpAfter DEF ClearBackupFolder
    <3>2. CASE phase = "clearing old"
      BY <2>2, <3>2, <1>c DEF Cleared
    <3>3. CASE phase = "clearing restored"
      BY <2>1, <2>2, <3>3, <1>a DEF Cleared
    <3>4. CASE phase = "clearing"
      BY <2>2, <3>4, <3>1, <1>b DEF Cleared
    <3>. QED BY <2>1, <3>2, <3>3, <3>4 DEF ClearPhases
  <2>3. CASE had' = had /\ faults \subseteq faults'
    BY <2>3
  <2>. QED BY <1>2, <2>2, <2>3 DEF ClearBackupFolder
<1>3. CASE RequestFileList
  BY <1>3, <1>a, <1>c DEF RequestFileList, Successes
<1>4. CASE GetFilesToUpdate
  <2>1. BackedUp' = {} /\ disk' = disk
    BY <1>4, BackedUpAfter DEF GetFilesToUpdate, LoopInv, fileVars
  <2>. QED BY <1>4, <1>a, <1>b, <1>c, <2>1 DEF GetFilesToUpdate, Successes
<1>5. CASE FilesBackedUp
  BY <1>5, <1>a, <1>c DEF FilesBackedUp, Successes
<1>6. CASE Start
  BY <1>6, <1>c DEF Start
<1>7. ASSUME NEW f \in todo, FileStep(f) PROVE had' = had /\ faults \subseteq faults'
  BY <1>7, <1>c DEF FileStep, RestoreFile, BackupFile, OpenFile, InstallFile
<1>8. CASE Downloads \/ Downloaded \/ FilesOpened \/ FilesInstalled
  BY <1>8, <1>c DEF Downloads, Downloaded, FilesOpened, FilesInstalled
<1>9. CASE Launch \/ Leave \/ FinishLauncherUpdate \/ Cancel \/ CalmDown
  BY <1>9, <1>c DEF Launch, Leave, FinishLauncherUpdate, Cancel, CalmDown, history
<1>10. CASE Crash
  BY <1>10 DEF Crash, Torn
<1>11. CASE UNCHANGED vars
  BY <1>11, <1>c DEF vars
<1>. QED BY <1>1, <1>2, <1>3, <1>4, <1>5, <1>6, <1>7, <1>8, <1>9, <1>10, <1>11 DEF Next, UpdaterStep

\* A file stays safe when it and its backup are left alone and Start goes on
\* where the file may be as it is.
LEMMA SafeElsewhere ==
    ASSUME NEW g \in Replaced, SafeFile(g), disk'[g] = disk[g] \/ backup[g] = "old",
           backup'[g] = backup[g],
           phase' \in {"off", "starting", "done", "finishing"}
    PROVE  SafeFile(g)'
BY DEF SafeFile, RestorePhases, ClearPhases, WritePhases

LEMMA SafeStep == UpdaterTypeOK /\ LoopInv /\ SafeInv /\ [Next]_vars => SafeInv'
<1>. SUFFICES ASSUME UpdaterTypeOK, LoopInv, SafeInv, [Next]_vars,
                     ~Lossy', NEW g \in Replaced, had'[g] \in Whole
              PROVE  SafeFile(g)'
  BY DEF SafeInv
<1>g. g \in Files /\ g \in Paths /\ Target(g) = g
  BY Targets DEF Replaced
<1>t. \A f \in Files : f # g => Target(f) # g
  BY <1>g, Targets
<1>0. CASE had' = [f \in Replaced |-> disk[f]] /\ BackedUp' = {} /\ phase' = "done" /\ disk' = disk
  <2>1. disk'[g] \in Whole /\ backup'[g] = "absent"
    BY <1>0, <1>g DEF BackedUp
  <2>. QED BY <1>0, <2>1 DEF SafeFile, RestorePhases, ClearPhases, WritePhases
<1>. SUFFICES ASSUME had' = had, faults \subseteq faults' PROVE SafeFile(g)'
  BY <1>0, FaultsKept
<1>s. ~Lossy /\ SafeFile(g)
  BY DEF Lossy, SafeInv
<1>w. "cut short" \notin faults' /\ "torn backup" \notin faults' /\ "lost restoring" \notin faults'
  BY DEF Lossy
<1>1. CASE Launch
  <2>1. disk'[g] = disk[g] /\ backup' = backup /\ phase' = "starting"
    BY <1>1, <1>g, Targets DEF Launch, Enter, UpdaterTypeOK
  <2>. QED BY <2>1, <1>s, SafeElsewhere
<1>2. CASE Start
  <2>1. UNCHANGED <<disk, backup>>
    BY <1>2 DEF Start, fileVars
  <2>2. CASE phase' = "done"
    BY <2>1, <2>2, <1>s, SafeElsewhere
  <2>3. CASE phase' = "restoring" /\ todo' = BackedUp
    BY <1>g, <1>s, <2>1, <2>3 DEF SafeFile, BackedUp, RestorePhases, ClearPhases, WritePhases
  <2>. QED BY <1>2, <2>2, <2>3 DEF Start, Enter
<1>3. CASE Restored
  <2>1. UNCHANGED <<disk, backup>> /\ phase \in RestorePhases /\ todo = {}
    BY <1>3 DEF Restored, fileVars
  <2>2. CASE phase' = "done"
    BY <2>1, <2>2, <1>s, SafeElsewhere
  <2>3. CASE phase' \in ClearPhases /\ ~(phase = "rollback" /\ failed)
    <3>1. disk[g] \in Whole
      BY <2>1, <2>3, <1>s DEF SafeFile
    <3>. QED BY <1>s, <2>1, <2>3, <3>1 DEF SafeFile, RestorePhases, ClearPhases, WritePhases
  <2>. QED BY <1>3, <2>2, <2>3, Goes DEF Restored, ClearPhases
<1>4. CASE ClearBackupFolder
  <2>1. disk' = disk /\ disk[g] \in Whole
    BY <1>4, <1>s DEF ClearBackupFolder, SafeFile
  <2>2. backup'[g] \in {"absent", "old"}
    BY <1>4, <1>g, <1>s DEF ClearBackupFolder, Kept, SafeFile
  <2>3. phase' \in {"done", "requesting"}
    BY <1>4, Goes DEF ClearBackupFolder, Cleared, ClearPhases
  <2>. QED BY <2>1, <2>2, <2>3 DEF SafeFile, RestorePhases, ClearPhases, WritePhases
<1>5. CASE RequestFileList
  <2>1. UNCHANGED <<disk, backup>> /\ disk[g] \in Whole
    BY <1>5, <1>s DEF RequestFileList, fileVars, SafeFile
  <2>2. phase' \in {"done", "gathering"}
    BY <1>5, Goes DEF RequestFileList
  <2>. QED BY <1>s, <2>1, <2>2 DEF SafeFile, RestorePhases, ClearPhases, WritePhases
<1>6. CASE GetFilesToUpdate
  <2>1. UNCHANGED <<disk, backup>> /\ disk[g] \in Whole
    BY <1>6, <1>s DEF GetFilesToUpdate, fileVars, SafeFile
  <2>2. CASE phase' = "done"
    BY <1>s, <2>1, <2>2, SafeElsewhere
  <2>3. CASE Enter("backuping", NeedBackup(Outdated)) /\ update' = Outdated
    <3>1. phase' = "backuping" /\ todo' = NeedBackup(Outdated) /\ update' = Outdated
      BY <2>3, Goes
    <3>2. g \in update' => disk'[g] = "old" /\ g \in todo'
      BY <3>1, <2>1 DEF Outdated, NeedBackup, Whole, Replaced
    <3>. QED BY <1>s, <2>1, <3>1, <3>2 DEF SafeFile, RestorePhases, ClearPhases, WritePhases
  <2>. QED BY <1>6, <2>2, <2>3, Goes DEF GetFilesToUpdate
<1>7. ASSUME NEW f \in todo, FileStep(f)
      PROVE  SafeFile(g)'
  <2>1. f \in Files /\ todo' = todo \ {f} /\ UNCHANGED <<phase, update>> /\ (failed => failed')
    BY <1>7 DEF FileStep, RestoreFile, BackupFile, OpenFile, InstallFile, Continue, UpdaterTypeOK
  <2>2. CASE f # g
    <3>1. disk'[g] = disk[g] /\ backup'[g] = backup[g]
      BY <1>7, <2>1, <2>2, <1>g, <1>t
         DEF FileStep, RestoreFile, BackupFile, OpenFile, InstallFile, UpdaterTypeOK
    <3>. QED BY <2>1, <2>2, <3>1, <1>s DEF SafeFile
  <2>3. CASE f = g /\ RestoreFile(g)
    <3>1. backup' = backup /\ backup[g] = "old" /\ phase \in RestorePhases
      BY <1>7, <2>3, <1>s, <1>g DEF RestoreFile, LoopInv, BackedUp, SafeFile
    <3>2. (phase = "rollback" /\ failed') \/ disk'[g] = "old"
      <4>1. CASE disk' = [disk EXCEPT ![g] = Copied(backup[g], disk[g])]
        BY <4>1, <3>1, <1>g DEF Copied, UpdaterTypeOK
      <4>2. CASE Continue(g, TRUE) /\ (phase = "rollback" \/ "lost restoring" \in faults')
        BY <4>2, <3>1, <1>w DEF Continue
      <4>. QED BY <2>3, <4>1, <4>2, <3>1 DEF RestoreFile, RestorePhases
    <3>. QED BY <2>1, <3>1, <3>2 DEF SafeFile, Whole, RestorePhases, ClearPhases, WritePhases
  <2>4. CASE f = g /\ BackupFile(g)
    <3>1. disk' = disk /\ phase = "backuping" /\ backup[g] = "absent" /\ g \in update
      BY <1>7, <2>4 DEF BackupFile, LoopInv
    <3>2. disk[g] = "old"
      BY <3>1, <1>s DEF SafeFile
    <3>3. backup'[g] = "old" \/ (failed' /\ backup'[g] = "absent")
      <4>1. CASE backup' = [backup EXCEPT ![g] = Copied(disk[g], backup[g])]
        BY <4>1, <3>2, <1>g DEF Copied, UpdaterTypeOK
      <4>2. ASSUME Continue(g, TRUE), NEW c \in {backup[g], Emptied(backup[g]), "partial"},
                   backup' = [backup EXCEPT ![g] = c], c = "partial" => "torn backup" \in faults'
            PROVE  failed' /\ backup'[g] = "absent"
        BY <4>2, <3>1, <1>g, <1>w DEF Continue, Emptied, UpdaterTypeOK
      <4>. QED BY <2>4, <4>1, <4>2 DEF BackupFile
    <3>. QED BY <2>1, <3>1, <3>2, <3>3 DEF SafeFile, Whole, RestorePhases, ClearPhases, WritePhases
  <2>5. CASE f = g /\ OpenFile(g)
    <3>1. backup' = backup /\ phase = "opening" /\ g \in update
      BY <1>7, <2>5 DEF OpenFile, LoopInv
    <3>. QED BY <2>1, <3>1, <1>s DEF SafeFile, RestorePhases, ClearPhases, WritePhases
  <2>6. CASE f = g /\ InstallFile(g)
    <3>1. backup' = backup /\ phase = "installing" /\ g \in update
      BY <1>7, <2>6 DEF InstallFile, LoopInv
    <3>2. ~failed' => disk'[g] = "new"
      BY <2>6, <1>g DEF InstallFile, Continue, UpdaterTypeOK
    <3>. QED BY <2>1, <3>1, <3>2, <1>s DEF SafeFile, Whole, RestorePhases, ClearPhases, WritePhases
  <2>. QED BY <1>7, <2>2, <2>3, <2>4, <2>5, <2>6 DEF FileStep
<1>8. CASE FilesBackedUp
  <2>1. UNCHANGED <<disk, backup, update>> /\ phase = "backuping" /\ todo = {}
    BY <1>8 DEF FilesBackedUp, fileVars
  <2>2. CASE phase' = "done"
    BY <1>s, <2>1, <2>2, SafeElsewhere
  <2>3. CASE phase' = "opening" /\ ~failed
    BY <1>s, <2>1, <2>3 DEF SafeFile, RestorePhases, ClearPhases, WritePhases
  <2>. QED BY <1>8, <2>2, <2>3, Goes DEF FilesBackedUp
<1>9. ASSUME NEW r, RollBack(r), backup' = backup, phase \in WritePhases
      PROVE  SafeFile(g)'
  <2>1. phase' = "rollback" /\ todo' = BackedUp
    BY <1>9, Goes DEF RollBack
  <2>2. backup[g] = "old" \/ (disk[g] \in Whole /\ disk'[g] = disk[g])
    BY <1>9, <1>s, <1>g, Closed DEF RollBack, SafeFile, Whole
  <2>. QED BY <1>9, <1>s, <1>g, <2>1, <2>2
       DEF SafeFile, BackedUp, RestorePhases, ClearPhases, WritePhases
<1>10. CASE FilesOpened
  <2>1. CASE Enter("downloading", {}) /\ disk' = disk
    <3>1. UNCHANGED <<disk, backup, update>> /\ phase = "opening" /\ phase' = "downloading"
      BY <1>10, <2>1, Goes DEF FilesOpened
    <3>. QED BY <3>1, <1>s DEF SafeFile, RestorePhases, ClearPhases, WritePhases
  <2>. QED BY <1>10, <1>9, <2>1 DEF FilesOpened, WritePhases
<1>11. CASE Downloads \/ Cancel \/ CalmDown \/ UNCHANGED vars
  <2>1. UNCHANGED <<disk, backup, phase, todo, update, failed>>
    BY <1>11 DEF Downloads, Cancel, CalmDown, fileVars, startVars, vars
  <2>. QED BY <2>1, <1>s DEF SafeFile
<1>12. CASE Downloaded
  <2>0. backup' = backup /\ update' = update /\ phase = "downloading" /\ AllDownloadsCompleted
    BY <1>12 DEF Downloaded
  <2>1. CASE Enter("installing", fetched) /\ disk' = disk /\ refused = {}
    <3>1. fetched = update
      BY <2>0, <2>1, <1>w DEF LoopInv, AllDownloadsCompleted
    <3>2. phase' = "installing" /\ todo' = update
      BY <2>1, <3>1, Goes
    <3>. QED BY <1>s, <2>0, <2>1, <3>2 DEF SafeFile, RestorePhases, ClearPhases, WritePhases
  <2>2. CASE CloseAllFiles /\ Enter("done", {})
    <3>1. disk'[g] = disk[g] \/ backup[g] = "old"
      BY <1>s, <1>g, <2>0, <2>2, Closed DEF SafeFile, Whole, WritePhases
    <3>. QED BY <1>s, <2>0, <2>2, <3>1, Goes, SafeElsewhere
  <2>. QED BY <1>12, <1>9, <2>0, <2>1, <2>2 DEF Downloaded, WritePhases
<1>13. CASE FilesInstalled
  <2>1. backup' = backup /\ phase = "installing" /\ todo = {}
    BY <1>13 DEF FilesInstalled
  <2>2. CASE failed
    BY <1>13, <2>1, <2>2, <1>9 DEF FilesInstalled, WritePhases
  <2>3. CASE ~failed
    <3>1. phase' = "clearing" /\ CloseAllFiles
      BY <1>13, <2>3, Goes DEF FilesInstalled
    <3>2. disk[g] \in Whole
      BY <1>s, <2>1, <2>3 DEF SafeFile, Whole, WritePhases
    <3>3. disk'[g] = disk[g]
      BY <3>1, <3>2, <1>g, Closed DEF Whole
    <3>. QED BY <1>s, <2>1, <3>1, <3>2, <3>3 DEF SafeFile, RestorePhases, ClearPhases, WritePhases
  <2>. QED BY <2>2, <2>3
<1>14. CASE Leave
  <2>1. UNCHANGED <<disk, backup>> /\ phase' \in {"finishing", "off"}
    BY <1>14 DEF Leave, Exit, fileVars
  <2>. QED BY <1>s, <2>1, SafeElsewhere
<1>15. CASE FinishLauncherUpdate
  <2>1. disk'[g] = disk[g] /\ backup' = backup /\ phase' = "off"
    BY <1>15, <1>g DEF FinishLauncherUpdate, Exit, UpdaterTypeOK, Replaced
  <2>. QED BY <1>s, <2>1, SafeElsewhere
<1>16. CASE Crash
  <2>1. phase' = "off"
    BY <1>16 DEF Crash, Exit
  <2>2. CASE UNCHANGED <<disk, backup>>
    BY <2>1, <2>2, <1>s, SafeElsewhere
  <2>3. CASE phase = "backuping" /\ \E f \in todo : Torn(backup, f, {"torn backup"})
    BY <2>3, <1>w DEF Torn
  <2>4. CASE /\ phase \in RestorePhases \cup {"installing"} /\ backup' = backup
             /\ \E f \in todo : \E c : disk' = [disk EXCEPT ![Target(f)] = c]
    <3>1. PICK f \in todo : \E c : disk' = [disk EXCEPT ![Target(f)] = c]
      BY <2>4
    <3>2. disk'[g] = disk[g] \/ f = g
      BY <3>1, <1>g, <1>t DEF UpdaterTypeOK
    <3>3. f = g => backup[g] = "old"
      BY <2>4, <1>s, <1>g DEF LoopInv, SafeFile, BackedUp, WritePhases
    <3>. QED BY <2>1, <2>4, <3>2, <3>3, <1>s, SafeElsewhere
  <2>5. CASE phase \in ClearPhases /\ \E files \in SUBSET BackedUp : backup' = Kept(files) /\ disk' = disk
    <3>1. disk'[g] \in Whole /\ backup'[g] \in {"absent", "old"}
      BY <2>5, <1>s, <1>g DEF SafeFile, Kept
    <3>. QED BY <2>1, <3>1 DEF SafeFile, RestorePhases, ClearPhases, WritePhases
  <2>6. CASE phase = "finishing" /\ Torn(disk, Launcher, {"torn launcher"}) /\ backup' = backup
    <3>1. disk'[g] = disk[g]
      BY <2>6, <1>g DEF Torn, UpdaterTypeOK, Replaced
    <3>. QED BY <2>1, <2>6, <3>1, <1>s, SafeElsewhere
  <2>7. CASE phase \in RestorePhases /\ backup' = backup /\ \E f \in todo : Torn(disk, f, {})
    <3>1. \A f \in todo : Target(f) = f
      BY <2>7, Targets DEF LoopInv
    <3>. QED BY <2>4, <2>7, <3>1 DEF Torn
  <2>8. CASE phase = "installing" /\ backup' = backup /\ \E f \in todo : Torn(disk, Target(f), {})
    BY <2>4, <2>8 DEF Torn
  <2>. QED BY <1>16, <2>2, <2>3, <2>5, <2>6, <2>7, <2>8 DEF Crash, fileVars
<1>. QED BY <1>1, <1>2, <1>3, <1>4, <1>5, <1>6, <1>7, <1>8, <1>10, <1>11, <1>12, <1>13, <1>14,
            <1>15, <1>16 DEF Next, UpdaterStep
------------------------------------------------------------------------------
LEMMA NewInit == Init => NewInv
BY DEF Init, NewInv, UpdatedIsComplete, UpdatePhases, WritePhases, Successes

\* From these phases there is nothing to show.
LEMMA NewElsewhere ==
    ASSUME phase' \notin UpdatePhases, phase' # "done" \/ result' \notin Successes
    PROVE  NewInv'
BY DEF NewInv, UpdatedIsComplete, UpdatePhases, WritePhases

LEMMA NewStep == UpdaterTypeOK /\ LoopInv /\ NewInv /\ [Next]_vars => NewInv'
<1>. SUFFICES ASSUME UpdaterTypeOK, LoopInv, NewInv, [Next]_vars PROVE NewInv'
  OBVIOUS
<1>l. phase \notin {"done", "finishing"} => result \notin Successes
  BY DEF LoopInv
<1>1. CASE Launch
  <2>1. phase' = "starting"
    BY <1>1, Goes DEF Launch
  <2>. QED BY <2>1, NewElsewhere DEF UpdatePhases, WritePhases
<1>2. CASE Start
  <2>1. phase' \in {"done", "restoring"} /\ result' \notin Successes
    BY <1>2, <1>l, Goes DEF Start, Successes
  <2>. QED BY <2>1, NewElsewhere DEF UpdatePhases, WritePhases
<1>3. CASE Restored
  <2>1. phase' \in {"done", "clearing old", "clearing restored"} /\ result' \notin Successes
    BY <1>3, <1>l, Goes DEF Restored, RestorePhases
  <2>. QED BY <2>1, NewElsewhere DEF UpdatePhases, WritePhases
<1>4. CASE ClearBackupFolder
  <2>1. CASE phase = "clearing" /\ backup' = Kept({}) /\ Return(UpdateResult)
    <3>1. phase' = "done" /\ disk' = disk /\ BackedUp' = {}
      BY <1>4, <2>1, Goes, BackedUpAfter DEF ClearBackupFolder
    <3>2. "cut short" \notin faults' => \A f \in Files : disk[Target(f)] = "new" \/ (f = Launcher /\ disk[f] = "new")
      <4>1. "cut short" \in faults => "cut short" \in faults'
        BY <2>1 DEF Return, UpdateResult, Successes
      <4>2. \A f \in Files : Target(f) = f \/ f = Launcher
        BY DEF Target
      <4>. QED BY <2>1, <4>1, <4>2 DEF NewInv, UpdatePhases
    <3>. QED BY <3>1, <3>2 DEF NewInv, UpdatedIsComplete, UpdatePhases, WritePhases, Target, Replaced
  <2>2. CASE phase' \in {"done", "requesting"} /\ result' \notin Successes
    BY <2>2, NewElsewhere DEF UpdatePhases, WritePhases
  <2>3. CASE backup' = Kept({}) /\ Cleared /\ phase # "clearing"
    <3>1. phase' \in {"done", "requesting"} /\ result' \notin Successes
      BY <1>4, <2>3, <1>l, Goes DEF ClearBackupFolder, Cleared, ClearPhases
    <3>. QED BY <3>1, <2>2
  <2>4. CASE Enter("done", {}) /\ result' = IF phase = "clearing restored" THEN result ELSE "Error"
    <3>1. phase' = "done" /\ result' \notin Successes
      BY <1>4, <2>4, <1>l, Goes DEF ClearBackupFolder, ClearPhases, Successes
    <3>. QED BY <3>1, <2>2
  <2>. QED BY <1>4, <2>1, <2>3, <2>4 DEF ClearBackupFolder, Cleared
<1>5. CASE RequestFileList
  <2>1. phase' \in {"done", "gathering"} /\ result' \notin Successes
    BY <1>5, <1>l, Goes DEF RequestFileList, Successes
  <2>. QED BY <2>1, NewElsewhere DEF UpdatePhases, WritePhases
<1>6. CASE GetFilesToUpdate
  <2>1. disk' = disk /\ backup' = backup /\ phase = "gathering" /\ BackedUp = {}
    BY <1>6 DEF GetFilesToUpdate, fileVars, LoopInv
  <2>2. CASE Outdated = {} /\ Return("NothingToUpdate")
    <3>1. phase' = "done" /\ \A f \in Files : disk'[f] = "new"
      BY <2>1, <2>2, Goes DEF Outdated
    <3>. QED BY <2>1, <3>1, BackedUpAfter
         DEF NewInv, UpdatedIsComplete, UpdatePhases, WritePhases, Replaced
  <2>3. CASE Return("Error")
    BY <2>3, Goes, NewElsewhere DEF UpdatePhases, WritePhases, Successes
  <2>4. CASE Enter("backuping", NeedBackup(Outdated)) /\ update' = Outdated
    <3>1. phase' = "backuping" /\ \A f \in Files \ update' : disk'[f] = "new"
      BY <2>1, <2>4, Goes DEF Outdated
    <3>. QED BY <3>1 DEF NewInv, UpdatedIsComplete
  <2>. QED BY <1>6, <2>2, <2>3, <2>4 DEF GetFilesToUpdate
<1>7. ASSUME NEW f \in todo, FileStep(f)
      PROVE  NewInv'
  <2>1. f \in Files /\ todo' = todo \ {f} /\ UNCHANGED <<phase, update, result>>
    BY <1>7 DEF FileStep, RestoreFile, BackupFile, OpenFile, InstallFile, Continue, UpdaterTypeOK
  <2>3. phase \in RestorePhases \cup {"backuping", "opening", "installing"}
    BY <1>7 DEF FileStep, RestoreFile, BackupFile, OpenFile, InstallFile
  <2>4. CASE phase \in RestorePhases
    BY <2>1, <2>4, NewElsewhere DEF RestorePhases, UpdatePhases, WritePhases
  <2>5. CASE phase = "backuping"
    <3>1. disk' = disk
      BY <1>7, <2>5 DEF FileStep, RestoreFile, BackupFile, OpenFile, InstallFile, RestorePhases
    <3>. QED BY <2>1, <2>5, <3>1 DEF NewInv, UpdatedIsComplete, UpdatePhases, WritePhases
  <2>6. CASE phase \in {"opening", "installing"}
    <3>1. f \in update
      BY <1>7, <2>6 DEF LoopInv
    <3>2. \A g \in Files : Target(g) # Target(f) => disk'[Target(g)] = disk[Target(g)]
      BY <1>7, <2>1, <2>6, Targets
         DEF FileStep, RestoreFile, BackupFile, OpenFile, InstallFile, RestorePhases, UpdaterTypeOK
    <3>3. \A g \in Files \ update : disk'[g] = "new"
      <4>1. disk'[Launcher] = disk[Launcher]
        BY LauncherKept, <2>6
      <4>2. \A g \in Files \ update : g # f /\ disk[g] = "new"
        BY <2>6, <3>1 DEF NewInv, UpdatePhases, WritePhases
      <4>3. \A g \in Files \ update : g # Launcher => disk'[g] = disk[g]
        BY <2>1, <3>2, <4>2, Targets DEF Replaced
      <4>. QED BY <4>1, <4>2, <4>3
    <3>4. CASE phase = "opening"
      BY <2>1, <3>3, <3>4 DEF NewInv, UpdatedIsComplete
    <3>5. CASE phase = "installing"
      <4>1. ~failed' => ~failed /\ disk'[Target(f)] = "new"
        BY <1>7, <2>1, <3>5, Targets
           DEF FileStep, RestoreFile, BackupFile, OpenFile, InstallFile, Continue, RestorePhases,
               UpdaterTypeOK
      <4>2. faults' = faults
        BY <1>7, <3>5 DEF FileStep, RestoreFile, BackupFile, OpenFile, InstallFile, RestorePhases, history
      <4>3. ASSUME "cut short" \notin faults', ~failed', NEW g \in update' \ todo'
            PROVE  disk'[Target(g)] = "new"
        <5>1. CASE g = f
          BY <4>1, <4>3, <5>1
        <5>2. CASE g # f
          <6>1. g \in Files /\ g \in update \ todo
            BY <2>1, <4>3, <5>2 DEF UpdaterTypeOK
          <6>2. disk[Target(g)] = "new"
            BY <3>5, <4>1, <4>2, <4>3, <6>1 DEF NewInv
          <6>. QED BY <2>1, <3>2, <5>2, <6>1, <6>2, Targets
        <5>. QED BY <5>1, <5>2
      <4>. QED BY <2>1, <3>3, <3>5, <4>3 DEF NewInv, UpdatedIsComplete
    <3>. QED BY <2>6, <3>4, <3>5
  <2>. QED BY <2>3, <2>4, <2>5, <2>6
<1>8. CASE FilesBackedUp
  <2>1. UNCHANGED <<disk, update>> /\ phase = "backuping"
    BY <1>8 DEF FilesBackedUp, fileVars
  <2>2. CASE Return("Error")
    BY <2>2, Goes, NewElsewhere DEF UpdatePhases, WritePhases, Successes
  <2>3. CASE Enter("opening", update)
    <3>1. phase' = "opening"
      BY <2>3, Goes
    <3>. QED BY <2>1, <3>1 DEF NewInv, UpdatedIsComplete, UpdatePhases
  <2>. QED BY <1>8, <2>2, <2>3 DEF FilesBackedUp
<1>9. ASSUME NEW r, RollBack(r), r \notin Successes
      PROVE  NewInv'
  BY <1>9, Goes, NewElsewhere DEF RollBack, UpdatePhases, WritePhases
<1>10. CASE FilesOpened
  <2>1. CASE Enter("downloading", {}) /\ disk' = disk
    <3>1. phase' = "downloading" /\ UNCHANGED <<disk, update>> /\ phase = "opening"
      BY <1>10, <2>1, Goes DEF FilesOpened
    <3>. QED BY <3>1 DEF NewInv, UpdatedIsComplete, UpdatePhases, WritePhases
  <2>. QED BY <1>10, <1>9, <2>1 DEF FilesOpened, Successes
<1>11. CASE Downloads
  <2>1. UNCHANGED <<disk, phase, update>> /\ phase = "downloading"
    BY <1>11 DEF Downloads, fileVars, startVars
  <2>. QED BY <2>1 DEF NewInv, UpdatedIsComplete
<1>12. CASE Downloaded
  <2>0. update' = update /\ phase = "downloading" /\ AllDownloadsCompleted
    BY <1>12 DEF Downloaded
  <2>1. CASE Enter("installing", fetched) /\ disk' = disk /\ refused = {} /\ UNCHANGED history
    <3>1. phase' = "installing" /\ todo' = fetched
      BY <2>1, Goes
    <3>2. "cut short" \notin faults => fetched = update
      BY <2>0, <2>1 DEF LoopInv, AllDownloadsCompleted
    <3>3. faults' = faults
      BY <2>1 DEF history
    <3>. QED BY <2>0, <2>1, <3>1, <3>2, <3>3 DEF NewInv, UpdatedIsComplete, UpdatePhases, WritePhases
  <2>2. CASE Enter("done", {}) /\ result' = "CanceledByUser"
    BY <2>2, Goes, NewElsewhere DEF UpdatePhases, WritePhases, Successes
  <2>. QED BY <1>12, <1>9, <2>1, <2>2 DEF Downloaded, Successes
<1>13. CASE FilesInstalled
  <2>1. CASE RollBack("Error")
    BY <2>1, <1>9 DEF Successes
  <2>2. CASE ~failed /\ CloseAllFiles /\ Enter("clearing", {})
    <3>1. phase = "installing" /\ todo = {} /\ update' = update /\ faults' = faults /\ phase' = "clearing"
      BY <1>13, <2>2, Goes DEF FilesInstalled, history
    <3>2. \A p \in Paths : disk[p] = "new" => disk'[p] = "new"
      BY <2>2, Closed
    <3>3. \A f \in Files \ update' : disk'[f] = "new"
      BY <3>1, <3>2 DEF NewInv, UpdatePhases, WritePhases, Paths
    <3>4. "cut short" \notin faults' => \A f \in update' : disk'[Target(f)] = "new"
      BY <2>2, <3>1, <3>2, Targets DEF NewInv, UpdaterTypeOK
    <3>. QED BY <3>1, <3>3, <3>4 DEF NewInv, UpdatedIsComplete
  <2>. QED BY <1>13, <2>1, <2>2 DEF FilesInstalled
<1>14. CASE Leave \/ FinishLauncherUpdate \/ Crash
  <2>1. phase' \in {"finishing", "off"}
    BY <1>14 DEF Leave, FinishLauncherUpdate, Crash, Exit
  <2>. QED BY <2>1, NewElsewhere DEF UpdatePhases, WritePhases
<1>15. CASE Cancel
  <2>1. UNCHANGED <<disk, backup, phase, todo, update, failed, result, faults>>
    BY <1>15 DEF Cancel, fileVars, history
  <2>. QED BY <2>1 DEF NewInv, UpdatedIsComplete, BackedUp
<1>16. CASE CalmDown \/ UNCHANGED vars
  <2>1. UNCHANGED <<disk, backup, phase, todo, update, failed, result, faults>>
    BY <1>16 DEF CalmDown, vars, fileVars, startVars, history
  <2>. QED BY <2>1 DEF NewInv, UpdatedIsComplete, BackedUp
<1>. QED BY <1>1, <1>2, <1>3, <1>4, <1>5, <1>6, <1>7, <1>8, <1>10, <1>11, <1>12, <1>13, <1>14,
            <1>15, <1>16 DEF Next, UpdaterStep
------------------------------------------------------------------------------
LEMMA OldInit == Init => OldInv
BY DEF Init, OldInv

LEMMA OldElsewhere ==
    ASSUME phase' \notin {"backuping", "opening", "downloading", "installing"}
    PROVE  OldInv'
BY DEF OldInv

\* Who opens, restores and installs which file.
LEMMA FileWritten ==
    ASSUME UpdaterTypeOK, NEW f \in todo, FileStep(f), NEW g \in Replaced, disk'[g] # disk[g]
    PROVE  g = f /\ phase \in RestorePhases \cup {"opening", "installing"}
<1>1. g \in Files /\ g \in Paths /\ Target(g) = g /\ f \in Files
  BY Targets DEF Replaced, UpdaterTypeOK
<1>2. Target(f) = g => f = g
  BY <1>1, Targets
<1>. QED BY <1>1, <1>2 DEF FileStep, RestoreFile, BackupFile, OpenFile, InstallFile, UpdaterTypeOK

LEMMA OldStep == UpdaterTypeOK /\ LoopInv /\ OldInv /\ [Next]_vars => OldInv'
<1>. SUFFICES ASSUME UpdaterTypeOK, LoopInv, OldInv, [Next]_vars PROVE OldInv'
  OBVIOUS
<1>1. CASE \/ Launch \/ Start \/ Restored \/ ClearBackupFolder \/ RequestFileList
           \/ FilesInstalled \/ Leave \/ FinishLauncherUpdate \/ Crash
  <2>1. phase' \notin {"backuping", "opening", "downloading", "installing"}
    <3>1. CASE Launch \/ Start
      <4>1. phase' \in {"starting", "done", "restoring"}
        BY <3>1, Goes DEF Launch, Start
      <4>. QED BY <4>1
    <3>2. CASE Restored \/ ClearBackupFolder
      <4>1. Restored => phase' \in {"done", "clearing old", "clearing restored"}
        BY Goes DEF Restored
      <4>2. ClearBackupFolder => phase' \in {"done", "requesting"}
        BY Goes DEF ClearBackupFolder, Cleared, ClearPhases
      <4>. QED BY <3>2, <4>1, <4>2
    <3>4. CASE RequestFileList \/ FilesInstalled
      <4>1. RequestFileList => phase' \in {"done", "gathering"}
        BY Goes DEF RequestFileList
      <4>2. FilesInstalled => phase' \in {"rollback", "clearing"}
        BY Goes DEF FilesInstalled, RollBack
      <4>. QED BY <3>4, <4>1, <4>2
    <3>3. CASE Leave \/ FinishLauncherUpdate \/ Crash
      BY <3>3 DEF Leave, FinishLauncherUpdate, Crash, Exit
    <3>. QED BY <1>1, <3>1, <3>2, <3>3, <3>4
  <2>. QED BY <2>1, OldElsewhere
<1>2. CASE GetFilesToUpdate
  <2>1. disk' = disk /\ (phase' = "done" \/ (phase' = "backuping" /\ update' = Outdated))
    BY <1>2, Goes DEF GetFilesToUpdate, fileVars
  <2>. QED BY <2>1 DEF OldInv, Outdated
<1>3. ASSUME NEW f \in todo, FileStep(f)
      PROVE  OldInv'
  <2>1. todo' = todo \ {f} /\ UNCHANGED <<phase, update>>
    BY <1>3 DEF FileStep, RestoreFile, BackupFile, OpenFile, InstallFile, Continue
  <2>2. \A g \in Replaced : disk'[g] = disk[g] \/ (g = f /\ phase \in RestorePhases \cup {"opening", "installing"})
    BY <1>3, FileWritten
  <2>3. phase = "opening" /\ f \in Replaced => disk'[f] # "new"
    BY <1>3, Targets DEF FileStep, RestoreFile, BackupFile, OpenFile, InstallFile, RestorePhases,
                         UpdaterTypeOK, LoopInv, OldInv
  <2>. QED BY <2>1, <2>2, <2>3 DEF OldInv, RestorePhases
<1>4. CASE FilesBackedUp
  <2>1. phase = "backuping" /\ UNCHANGED <<disk, update>> /\ phase' \in {"done", "opening"}
    BY <1>4, Goes DEF FilesBackedUp, fileVars
  <2>. QED BY <2>1 DEF OldInv
<1>5. CASE FilesOpened
  <2>1. CASE Enter("downloading", {}) /\ disk' = disk
    <3>1. phase = "opening" /\ update' = update /\ phase' = "downloading"
      BY <1>5, <2>1, Goes DEF FilesOpened
    <3>. QED BY <2>1, <3>1 DEF OldInv
  <2>. QED BY <1>5, <2>1, Goes, OldElsewhere DEF FilesOpened, RollBack
<1>6. CASE Downloaded
  <2>1. CASE Enter("installing", fetched) /\ disk' = disk
    <3>1. phase = "downloading" /\ fetched \subseteq update /\ phase' = "installing" /\ todo' = fetched
      BY <1>6, <2>1, Goes DEF Downloaded, LoopInv
    <3>. QED BY <2>1, <3>1 DEF OldInv
  <2>2. CASE Enter("done", {}) \/ RollBack("Error")
    BY <2>2, Goes, OldElsewhere DEF RollBack
  <2>. QED BY <1>6, <2>1, <2>2 DEF Downloaded
<1>7. CASE Downloads \/ Cancel \/ CalmDown \/ UNCHANGED vars
  <2>1. UNCHANGED <<disk, phase, todo, update>>
    BY <1>7 DEF Downloads, Cancel, CalmDown, vars, fileVars, startVars
  <2>. QED BY <2>1 DEF OldInv
<1>. QED BY <1>1, <1>2, <1>3, <1>4, <1>5, <1>6, <1>7 DEF Next, UpdaterStep

\* What is up to date, and not in the backup folder, is left as it is.
LEMMA Untouched ==
    ASSUME UpdaterTypeOK, LoopInv, OldInv, [Next]_vars,
           NEW g \in Replaced, disk[g] = "new", backup[g] = "absent"
    PROVE  disk'[g] = "new"
<1>1. g \in Files /\ g \in Paths /\ Target(g) = g /\ g # NewLauncher /\ g # Launcher
  BY Targets DEF Replaced
<1>2. ASSUME NEW f \in todo, FileStep(f)
      PROVE  disk'[g] = "new"
  <2>1. phase \in RestorePhases => g \notin todo
    BY DEF LoopInv, BackedUp
  <2>2. phase \in {"opening", "installing"} => g \notin todo
    BY DEF LoopInv, OldInv
  <2>. QED BY <1>2, <2>1, <2>2, FileWritten
<1>3. CASE FilesOpened \/ Downloaded \/ FilesInstalled
  <2>1. CloseAllFiles => disk'[g] = "new"
    BY <1>1, Closed
  <2>. QED BY <1>3, <2>1 DEF FilesOpened, Downloaded, FilesInstalled, RollBack
<1>4. CASE Crash
  <2>1. phase \in RestorePhases \cup {"installing"} => g \notin todo
    BY <1>1 DEF LoopInv, OldInv, BackedUp
  <2>2. \A f \in todo : Target(f) = g => f = g
    BY <1>1, Targets DEF UpdaterTypeOK
  <2>3. CASE phase \in RestorePhases /\ \E f \in todo : Torn(disk, f, {})
    BY <1>1, <2>1, <2>3 DEF Torn, UpdaterTypeOK
  <2>4. CASE phase = "installing" /\ \E f \in todo : Torn(disk, Target(f), {})
    BY <1>1, <2>1, <2>2, <2>4 DEF Torn, UpdaterTypeOK
  <2>5. CASE Torn(disk, Launcher, {"torn launcher"})
    BY <1>1, <2>5 DEF Torn, UpdaterTypeOK
  <2>6. CASE disk' = disk
    BY <2>6
  <2>. QED BY <1>4, <2>3, <2>4, <2>5, <2>6 DEF Crash, fileVars
<1>5. CASE Launch \/ FinishLauncherUpdate
  BY <1>1, <1>5 DEF Launch, FinishLauncherUpdate, UpdaterTypeOK
<1>6. CASE \/ Start \/ Restored \/ ClearBackupFolder \/ RequestFileList \/ GetFilesToUpdate
           \/ FilesBackedUp \/ Downloads \/ Leave \/ Cancel \/ CalmDown \/ UNCHANGED vars
  <2>1. UNCHANGED disk
    BY <1>6 DEF Start, Restored, ClearBackupFolder, RequestFileList, GetFilesToUpdate, FilesBackedUp,
                Downloads, Leave, Cancel, CalmDown, vars, fileVars
  <2>. QED BY <2>1
<1>. QED BY <1>2, <1>3, <1>4, <1>5, <1>6 DEF Next, UpdaterStep
-----------------------------------------------------------------------------
\* While nothing has gone wrong that the updater has no answer to, each file of
\* the player is as it was, or the backup folder has it; only such files are in
\* the backup folder; and where Start may return, all files are as they were.
VersionFile(f) ==
    /\ disk[f] = had[f] \/ backup[f] = "old"
    /\ backup[f] # "absent" => had[f] = "old"
    /\ phase \in RestorePhases /\ f \notin todo => disk[f] = had[f]
    /\ phase \in {"clearing old", "clearing restored", "requesting", "gathering", "backuping", "done"}
          => disk[f] = had[f]
VersionInv == faults = {} => \A f \in Replaced : had[f] \in Whole => VersionFile(f)

LEMMA VersionInit == Init => VersionInv
<1>. SUFFICES ASSUME Init, NEW f \in Replaced PROVE VersionFile(f)
  BY DEF VersionInv
<1>1. disk[f] = had[f] /\ backup[f] = "absent" /\ phase = "off"
  BY DEF Init, Replaced
<1>. QED BY <1>1 DEF VersionFile, RestorePhases

\* Where the process is when it does not restore and Start does not return.
LEMMA VersionElsewhere ==
    ASSUME NEW g \in Replaced, VersionFile(g), had'[g] = had[g],
           disk'[g] = disk[g] \/ backup[g] = "old", backup'[g] = backup[g],
           phase' \in {"off", "starting", "finishing", "opening", "downloading", "installing", "clearing"}
    PROVE  VersionFile(g)'
BY DEF VersionFile, RestorePhases

\* Where nothing is written to and all the files are as they were.
LEMMA VersionSame ==
    ASSUME NEW g \in Replaced, VersionFile(g), had'[g] = had[g], disk[g] = had[g],
           disk'[g] = disk[g], backup'[g] \in {backup[g], "absent"}
    PROVE  VersionFile(g)'
BY DEF VersionFile

LEMMA VersionStep ==
    UpdaterTypeOK /\ LoopInv /\ SafeInv /\ VersionInv /\ [Next]_vars => VersionInv'
<1>. SUFFICES ASSUME UpdaterTypeOK, LoopInv, SafeInv, VersionInv, [Next]_vars,
                     faults' = {}, NEW g \in Replaced, had'[g] \in Whole
              PROVE  VersionFile(g)'
  BY DEF VersionInv
<1>g. g \in Files /\ g \in Paths /\ Target(g) = g
  BY Targets DEF Replaced
<1>t. \A f \in Files : f # g => Target(f) # g
  BY <1>g, Targets
<1>0. CASE had' = [f \in Replaced |-> disk[f]] /\ BackedUp' = {} /\ phase' = "done" /\ disk' = disk
  <2>1. disk'[g] = had'[g] /\ backup'[g] = "absent"
    BY <1>0, <1>g DEF BackedUp
  <2>. QED BY <1>0, <2>1 DEF VersionFile, RestorePhases
<1>. SUFFICES ASSUME had' = had, faults \subseteq faults' PROVE VersionFile(g)'
  BY <1>0, FaultsKept
<1>n. faults = {} /\ had'[g] = had[g]
  OBVIOUS
<1>s. SafeFile(g) /\ VersionFile(g)
  BY <1>n DEF Lossy, SafeInv, VersionInv
<1>w. \A x : x \notin faults'
  OBVIOUS
<1>1. CASE Launch
  <2>1. disk'[g] = disk[g] /\ backup' = backup /\ phase' = "starting"
    BY <1>1, <1>g, Targets DEF Launch, Enter, UpdaterTypeOK
  <2>. QED BY <2>1, <1>n, <1>s, VersionElsewhere
<1>2. CASE Start
  <2>1. UNCHANGED <<disk, backup>>
    BY <1>2 DEF Start, fileVars
  <2>2. CASE phase' = "restoring" /\ todo' = BackedUp
    BY <1>g, <1>n, <1>s, <2>1, <2>2 DEF VersionFile, BackedUp, RestorePhases
  <2>3. CASE BackedUp = {}
    <3>1. disk[g] = had[g]
      BY <1>g, <1>s, <2>3 DEF BackedUp, VersionFile
    <3>. QED BY <2>1, <3>1, <1>n, <1>s, VersionSame
  <2>4. CASE cancelled /\ BackedUp # {}
    BY <1>2, <2>4, <1>w DEF Start
  <2>. QED BY <1>2, <2>2, <2>3, <2>4 DEF Start, Enter
<1>3. CASE Restored
  <2>1. UNCHANGED <<disk, backup>> /\ disk[g] = had[g]
    BY <1>3, <1>s DEF Restored, fileVars, VersionFile
  <2>. QED BY <2>1, <1>n, <1>s, VersionSame
<1>4. CASE ClearBackupFolder
  <2>0. CASE phase = "clearing" /\ backup' = Kept({}) /\ Cleared
    <3>1. Return(UpdateResult) /\ UpdateResult \in Successes
      BY <2>0 DEF Cleared, UpdateResult, Successes
    <3>2. had' = [f \in Replaced |-> disk[f]] /\ BackedUp' = {} /\ phase' = "done" /\ disk' = disk
      BY <1>4, <2>0, <3>1, <1>n, Goes, BackedUpAfter DEF Return, ClearBackupFolder
    <3>. QED BY <3>2, <1>0
  <2>1. disk' = disk /\ (phase # "clearing" \/ (backup' = Kept({}) /\ Cleared))
    BY <1>4, <1>w DEF ClearBackupFolder
  <2>2. backup'[g] \in {backup[g], "absent"}
    BY <1>4, <1>g DEF ClearBackupFolder, Kept
  <2>3. phase # "clearing" => disk[g] = had[g]
    BY <1>4, <1>s DEF ClearBackupFolder, ClearPhases, VersionFile
  <2>. QED BY <2>0, <2>1, <2>2, <2>3, <1>n, <1>s, VersionSame
<1>5. CASE RequestFileList \/ GetFilesToUpdate
  <2>1. UNCHANGED <<disk, backup>> /\ phase \in {"requesting", "gathering"}
    BY <1>5 DEF RequestFileList, GetFilesToUpdate, fileVars
  <2>2. disk[g] = had[g]
    BY <2>1, <1>s DEF VersionFile
  <2>. QED BY <2>1, <2>2, <1>n, <1>s, VersionSame
<1>7. ASSUME NEW f \in todo, FileStep(f)
      PROVE  VersionFile(g)'
  <2>1. f \in Files /\ todo' = todo \ {f} /\ phase' = phase
    BY <1>7 DEF FileStep, RestoreFile, BackupFile, OpenFile, InstallFile, Continue, UpdaterTypeOK
  <2>2. CASE f # g
    <3>1. disk'[g] = disk[g] /\ backup'[g] = backup[g]
      BY <1>7, <2>1, <2>2, <1>g, <1>t
         DEF FileStep, RestoreFile, BackupFile, OpenFile, InstallFile, UpdaterTypeOK
    <3>. QED BY <2>1, <2>2, <3>1, <1>n, <1>s DEF VersionFile
  <2>3. CASE f = g /\ RestoreFile(g)
    <3>1. backup' = backup /\ backup[g] = "old" /\ had[g] = "old"
      BY <1>7, <2>3, <1>s, <1>g DEF RestoreFile, LoopInv, BackedUp, SafeFile, VersionFile
    <3>2. disk' = [disk EXCEPT ![g] = Copied(backup[g], disk[g])]
      BY <2>3, <1>w DEF RestoreFile
    <3>3. disk'[g] = "old"
      BY <3>1, <3>2, <1>g DEF Copied, UpdaterTypeOK
    <3>. QED BY <3>1, <3>3, <1>n DEF VersionFile
  <2>4. CASE f = g /\ BackupFile(g)
    <3>1. disk' = disk /\ phase = "backuping" /\ backup[g] = "absent" /\ g \in update
      BY <1>7, <2>4 DEF BackupFile, LoopInv
    <3>2. disk[g] = "old" /\ had[g] = "old"
      BY <3>1, <1>s DEF SafeFile, VersionFile
    <3>. QED BY <3>1, <3>2, <1>n DEF VersionFile
  <2>5. CASE f = g /\ (OpenFile(g) \/ InstallFile(g))
    <3>1. backup' = backup /\ phase \in {"opening", "installing"} /\ g \in update
      BY <1>7, <2>5 DEF OpenFile, InstallFile, LoopInv
    <3>2. backup[g] = "old"
      BY <3>1, <1>s DEF SafeFile, WritePhases
    <3>. QED BY <2>1, <3>1, <3>2, <1>n, <1>s, VersionElsewhere
  <2>. QED BY <1>7, <2>2, <2>3, <2>4, <2>5 DEF FileStep
<1>8. CASE FilesBackedUp
  <2>1. UNCHANGED <<disk, backup>> /\ phase = "backuping"
    BY <1>8 DEF FilesBackedUp, fileVars
  <2>2. disk[g] = had[g]
    BY <2>1, <1>s DEF VersionFile
  <2>. QED BY <2>1, <2>2, <1>n, <1>s, VersionSame
<1>9. ASSUME CloseAllFiles
      PROVE  disk'[g] = disk[g] \/ backup[g] = "old"
  BY <1>9, <1>n, <1>s, <1>g, Closed DEF VersionFile, Whole
<1>10. ASSUME NEW r, RollBack(r), backup' = backup
       PROVE  VersionFile(g)'
  <2>1. phase' = "rollback" /\ todo' = BackedUp /\ (disk'[g] = disk[g] \/ backup[g] = "old")
    BY <1>9, <1>10, Goes DEF RollBack
  <2>. QED BY <1>10, <1>n, <1>s, <1>g, <2>1 DEF VersionFile, BackedUp, RestorePhases
<1>11. CASE FilesOpened
  <2>1. CASE Enter("downloading", {}) /\ disk' = disk
    <3>1. backup' = backup /\ phase' = "downloading"
      BY <1>11, <2>1, Goes DEF FilesOpened
    <3>. QED BY <2>1, <3>1, <1>n, <1>s, VersionElsewhere
  <2>. QED BY <1>11, <1>10, <2>1 DEF FilesOpened
<1>12. CASE Downloads \/ Cancel \/ CalmDown \/ UNCHANGED vars
  <2>1. UNCHANGED <<disk, backup, phase, todo>>
    BY <1>12 DEF Downloads, Cancel, CalmDown, fileVars, startVars, vars
  <2>. QED BY <2>1, <1>n, <1>s DEF VersionFile
<1>13. CASE Downloaded
  <2>1. CASE Enter("installing", fetched) /\ disk' = disk
    <3>1. backup' = backup /\ phase' = "installing"
      BY <1>13, <2>1, Goes DEF Downloaded
    <3>. QED BY <2>1, <3>1, <1>n, <1>s, VersionElsewhere
  <2>. QED BY <1>13, <1>10, <1>w, <2>1 DEF Downloaded
<1>14. CASE FilesInstalled
  <2>1. CASE CloseAllFiles /\ Enter("clearing", {})
    <3>1. backup' = backup /\ phase' = "clearing" /\ (disk'[g] = disk[g] \/ backup[g] = "old")
      BY <1>14, <1>9, <2>1, Goes DEF FilesInstalled
    <3>. QED BY <3>1, <1>n, <1>s, VersionElsewhere
  <2>. QED BY <1>14, <1>10, <2>1 DEF FilesInstalled
<1>15. CASE Leave \/ FinishLauncherUpdate
  <2>1. disk'[g] = disk[g] /\ backup' = backup /\ phase' \in {"finishing", "off"}
    BY <1>15, <1>g DEF Leave, FinishLauncherUpdate, Exit, fileVars, UpdaterTypeOK, Replaced
  <2>. QED BY <2>1, <1>n, <1>s, VersionElsewhere
<1>16. CASE Crash
  <2>1. phase' = "off"
    BY <1>16 DEF Crash, Exit
  <2>2. CASE UNCHANGED <<disk, backup>>
    BY <2>1, <2>2, <1>n, <1>s, VersionElsewhere
  <2>3. CASE /\ phase \in RestorePhases \cup {"installing"} /\ backup' = backup
             /\ \E f \in todo : \E c : disk' = [disk EXCEPT ![Target(f)] = c]
    <3>1. PICK f \in todo : \E c : disk' = [disk EXCEPT ![Target(f)] = c]
      BY <2>3
    <3>2. disk'[g] = disk[g] \/ f = g
      BY <3>1, <1>g, <1>t DEF UpdaterTypeOK
    <3>3. f = g => backup[g] = "old"
      BY <2>3, <1>s, <1>g DEF LoopInv, SafeFile, BackedUp, WritePhases
    <3>. QED BY <2>1, <2>3, <3>2, <3>3, <1>n, <1>s, VersionElsewhere
  <2>4. CASE phase \in RestorePhases /\ backup' = backup /\ \E f \in todo : Torn(disk, f, {})
    <3>1. \A f \in todo : Target(f) = f
      BY <2>4, Targets DEF LoopInv
    <3>. QED BY <2>3, <2>4, <3>1 DEF Torn
  <2>5. CASE phase = "installing" /\ backup' = backup /\ \E f \in todo : Torn(disk, Target(f), {})
    BY <2>3, <2>5 DEF Torn
  <2>6. CASE phase \in ClearPhases \ {"clearing"} /\ disk' = disk
             /\ \E files \in SUBSET BackedUp : backup' = Kept(files)
    <3>1. disk[g] = had[g] /\ backup'[g] \in {backup[g], "absent"}
      BY <2>6, <1>g, <1>s DEF ClearPhases, VersionFile, Kept
    <3>. QED BY <2>6, <3>1, <1>n, <1>s, VersionSame
  <2>7. ASSUME NEW contents, NEW p, NEW x, Torn(contents, p, {x})
        PROVE  FALSE
    BY <2>7, <1>w DEF Torn
  <2>. QED BY <1>16, <1>w, <2>2, <2>4, <2>5, <2>6, <2>7 DEF Crash, fileVars
<1>. QED BY <1>1, <1>2, <1>3, <1>4, <1>5, <1>7, <1>8, <1>11, <1>12, <1>13, <1>14,
            <1>15, <1>16 DEF Next, UpdaterStep
-----------------------------------------------------------------------------
LEMMA DownloaderReset ==
    ASSUME NEW files \in SUBSET Files, StartDownloads(files)
    PROVE  DownloaderTypeOK'
<1>1. Cardinality({}) <= MaxActiveRequests
  BY FS_EmptySet, DownloaderAssumption
<1>2. 0 \in 0 .. MaxRetries + 1
  BY DownloaderAssumption
<1>. QED BY <1>1, <1>2 DEF StartDownloads, DownloaderTypeOK

\* One turn of the loop leaves every file in one place.
LEMMA DownloaderTurn ==
    ASSUME DownloaderTypeOK, NEW ended, NEW broken, NEW cancel, Iterate(ended, broken, cancel)
    PROVE  DownloaderTypeOK'
<1>1. ended \cup broken \subseteq requests /\ ended \cap broken = {}
  BY DEF Iterate
<1>2. Again(broken) \subseteq broken /\ \A f \in Again(broken) : retry[f] <= MaxRetries
  BY DEF Again
<1>3. \A f \in broken \ Again(broken) : retry[f] = MaxRetries + 1
  BY <1>1, DownloaderAssumption DEF Again, DownloaderTypeOK
<1>4. /\ fetched' = fetched \cup ended
      /\ refused' = refused \cup (broken \ Again(broken))
      /\ retry' = [f \in Files |-> IF f \in Again(broken) THEN retry[f] + 1 ELSE retry[f]]
  BY DEF Iterate, PruneCompletedRequests
<1>5. retry' \in [Files -> 0 .. MaxRetries + 1]
  BY <1>2, <1>4, DownloaderAssumption DEF DownloaderTypeOK
<1>6. \A f \in refused' : retry'[f] = MaxRetries + 1
  <2>1. \A f \in refused' : f \in Files /\ retry[f] = MaxRetries + 1
    BY <1>1, <1>3, <1>4 DEF DownloaderTypeOK
  <2>2. \A f \in refused' : f \notin Again(broken)
    BY <2>1, <1>2, DownloaderAssumption
  <2>. QED BY <1>4, <2>1, <2>2
<1>7. /\ queued' \cup requests' \subseteq (requests \ (ended \cup broken)) \cup queued \cup Again(broken)
      /\ queued' \cap requests' = {}
      /\ Cardinality(requests') <= MaxActiveRequests
  <2>1. CASE cancel
    <3>1. Cardinality({}) <= MaxActiveRequests
      BY FS_EmptySet, DownloaderAssumption
    <3>. QED BY <2>1, <3>1 DEF Iterate
  <2>2. CASE ~cancel
    <3>. DEFINE active  == requests \ (ended \cup broken)
                waiting == queued \cup Again(broken)
    <3>1. PICK started \in Startable(active, waiting) :
             requests' = active \cup started /\ queued' = waiting \ started
      BY <2>2 DEF Iterate
    <3>2. started \subseteq waiting /\ Cardinality(active \cup started) <= MaxActiveRequests
      BY <3>1, DownloaderAssumption DEF Startable
    <3>3. active \cap waiting = {}
      BY <1>2 DEF DownloaderTypeOK
    <3>. QED BY <3>1, <3>2, <3>3
  <2>. QED BY <2>1, <2>2
<1>8. /\ queued' \subseteq Files /\ requests' \subseteq Files
      /\ fetched' \subseteq Files /\ refused' \subseteq Files
  BY <1>1, <1>2, <1>4, <1>7 DEF DownloaderTypeOK
<1>9. fetched' \cap refused' = {} /\ (queued' \cup requests') \cap (fetched' \cup refused') = {}
  BY <1>1, <1>2, <1>4, <1>7 DEF DownloaderTypeOK
<1>. QED BY <1>5, <1>6, <1>7, <1>8, <1>9 DEF DownloaderTypeOK

LEMMA DownloaderInitial == Init => DownloaderTypeOK
<1>1. Cardinality({}) <= MaxActiveRequests
  BY FS_EmptySet, DownloaderAssumption
<1>2. 0 \in 0 .. MaxRetries + 1
  BY DownloaderAssumption
<1>. QED BY <1>1, <1>2 DEF Init, DownloaderInit, DownloaderTypeOK

LEMMA DownloaderStep == UpdaterTypeOK /\ DownloaderTypeOK /\ [Next]_vars => DownloaderTypeOK'
<1>. SUFFICES ASSUME UpdaterTypeOK, DownloaderTypeOK, [Next]_vars PROVE DownloaderTypeOK'
  OBVIOUS
<1>1. CASE UNCHANGED downloaderVars
  BY <1>1 DEF downloaderVars, DownloaderTypeOK
<1>2. CASE Downloads
  BY <1>2, DownloaderTurn DEF Downloads
<1>3. CASE StartDownloads({}) \/ StartDownloads(update)
  BY <1>3, DownloaderReset DEF UpdaterTypeOK
<1>4. CASE FilesOpened \/ Downloaded \/ Leave \/ FinishLauncherUpdate \/ Crash
  BY <1>1, <1>3, <1>4 DEF FilesOpened, Downloaded, Leave, FinishLauncherUpdate, Crash, Exit
<1>5. CASE \/ Launch \/ Start \/ Restored \/ ClearBackupFolder \/ RequestFileList
           \/ GetFilesToUpdate \/ FilesBackedUp \/ FilesInstalled \/ Cancel \/ CalmDown
           \/ \E f \in todo : FileStep(f)
  BY <1>1, <1>5 DEF Launch, Start, Restored, ClearBackupFolder, RequestFileList, GetFilesToUpdate,
     FilesBackedUp, FilesInstalled, Cancel, CalmDown, FileStep, RestoreFile, BackupFile, OpenFile,
     InstallFile
<1>6. CASE UNCHANGED vars
  BY <1>1, <1>6 DEF vars
<1>. QED BY <1>2, <1>4, <1>5, <1>6 DEF Next, UpdaterStep
------------------------------------------------------------------------------
\* The invariant holds of every state the updater and its environment reach.
THEOREM UpdaterInvariant == Spec => []UpdaterInv
<1>1. Init => UpdaterInv
  BY TypeInit, LoopInit, LauncherInit, SafeInit, NewInit, OldInit DEF UpdaterInv
<1>2. UpdaterInv /\ [Next]_vars => UpdaterInv'
  BY TypeStep, LoopStep, LauncherStep, SafeStep, NewStep, OldStep DEF UpdaterInv
<1>. QED BY <1>1, <1>2, PTL DEF Spec

\* The files and Start's state have the types of the code.
THEOREM UpdaterTypeCorrect == Spec => []UpdaterTypeOK
<1>1. UpdaterInv => UpdaterTypeOK
  BY DEF UpdaterInv
<1>. QED BY <1>1, UpdaterInvariant, PTL

\* For any list of files, whatever is locked or torn and wherever the process
\* dies: what the player has is in place or in the backup folder, and there is a
\* launcher to start, but for the cases that Recoverable names.
THEOREM NothingIsLost == Spec => []Recoverable
<1>1. LauncherInv /\ SafeInv => Recoverable
  <2>1. SafeInv /\ ~Lossy => \A f \in Replaced : had[f] \in Whole => disk[f] \in Whole \/ backup[f] = "old"
    BY DEF SafeInv, SafeFile
  <2>. QED BY <2>1 DEF Lossy, LauncherInv, Recoverable
<1>2. UpdaterInv => Recoverable
  BY <1>1 DEF UpdaterInv
<1>. QED BY <1>2, UpdaterInvariant, PTL

\* For any list of files, an update that Start reports has been made in full,
\* unless its downloads were cut short.
THEOREM UpdatesAreComplete == Spec => []UpdatedIsComplete
<1>1. UpdaterInv => UpdatedIsComplete
  BY DEF UpdaterInv, NewInv
<1>. QED BY <1>1, UpdaterInvariant, PTL

\* For any list of files and any order of answers, no file is lost on its way
\* through the downloader before a cancellation.
THEOREM DownloadsAreAccounted == Spec => []DownloadsAccounted
<1>1. UpdaterInv => DownloadsAccounted
  BY DEF UpdaterInv, LoopInv, DownloadsAccounted
<1>. QED BY <1>1, UpdaterInvariant, PTL

\* Neither restoring nor updating nor a crash of either writes to a file that is
\* up to date and not in the backup folder.
THEOREM UpToDateIsNeverWritten == Spec => UpToDateIsUntouched
<1>1. UpdaterInv /\ [Next]_vars =>
        [\A f \in Replaced : disk[f] = "new" /\ backup[f] = "absent" => disk'[f] = "new"]_vars
  BY Untouched DEF UpdaterInv
<1>. QED BY <1>1, UpdaterInvariant, PTL DEF Spec, UpToDateIsUntouched

\* For any list of files, and wherever the process is cancelled or dies: when
\* Start has returned and no fault is left that the updater has no answer to, the
\* game is started with the files the player had, or with those of the update.
THEOREM OneVersionIsStarted == Spec => []StartsOneVersion
<1>1. Init => VersionInv
  BY VersionInit
<1>2. UpdaterInv /\ VersionInv /\ [Next]_vars => VersionInv'
  BY VersionStep DEF UpdaterInv
<1>3. VersionInv => StartsOneVersion
  BY DEF VersionInv, VersionFile, StartsOneVersion
<1>. QED BY <1>1, <1>2, <1>3, UpdaterInvariant, PTL DEF Spec

\* For any list of files and any order of answers, each file is in one place on
\* its way through the downloader, there are never too many requests, and a file
\* is given up only when it has been asked for as often as it may.
THEOREM DownloaderTypeCorrect == Spec => []DownloaderTypeOK
<1>1. Init => DownloaderTypeOK
  BY DownloaderInitial
<1>2. UpdaterInv /\ DownloaderTypeOK /\ [Next]_vars => DownloaderTypeOK'
  BY DownloaderStep DEF UpdaterInv
<1>. QED BY <1>1, <1>2, UpdaterInvariant, PTL DEF Spec
==============================================================================
