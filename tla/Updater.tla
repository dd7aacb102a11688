------------------------------ MODULE Updater ------------------------------
(***************************************************************************)
(* NextUpdater::Start and the launcher around it: files are replaced one   *)
(* after another behind a copy in the backup folder, from which the next   *)
(* start restores.  The process may die between any two steps and in the   *)
(* middle of a write; any file may be locked; the player may cancel.       *)
(*                                                                         *)
(* had and faults are history variables: what the player had before the    *)
(* update, and what has happened since that the updater has no answer to.  *)
(* calm becomes TRUE when faults have stopped.                             *)
(***************************************************************************)
EXTENDS HttpFileDownloader

CONSTANTS Launcher,      \* the running program, cs.exe
          NewLauncher,   \* cs_new.exe, where its update is installed
          FaultsStop     \* whether there comes a time without faults

ASSUME LauncherAssumption == NewLauncher \notin Files \cup {Launcher}
ASSUME FaultsAssumption   == FaultsStop \in BOOLEAN

VARIABLES disk,       \* contents of the installed files
          backup,     \* contents of the backup folder
          phase,      \* where Start is, and the launcher
          todo,       \* files the loop of this phase has not come to
          update,     \* files_to_update
          created,    \* files that opening for installation has created
          failed,     \* the error string of this phase is not empty
          cancelled,  \* ct_ is set
          result,     \* what Start returns, or will return after restoring
          had, faults, calm

fileVars  == <<disk, backup>>
startVars == <<todo, update, created, failed, cancelled, result>>
history   == <<had, faults, calm>>
vars      == <<downloaderVars, fileVars, phase, startVars, history>>

Paths    == Files \cup {Launcher, NewLauncher}
Replaced == Files \ {Launcher}   \* the files that are written to in place
Contents == {"absent", "empty", "partial", "old", "new"}
Whole    == {"old", "new"}

RestorePhases == {"restoring", "rollback"}
ClearPhases   == {"clearing old", "clearing restored", "clearing"}
Phases == RestorePhases \cup ClearPhases \cup
          {"off", "starting", "requesting", "gathering", "backuping", "opening",
           "downloading", "installing", "done", "finishing"}
Results == {"none", "Updated", "UpdatedIncludingLauncher", "CanceledByUser",
            "NothingToUpdate", "ConnectionError", "Error"}
Successes == {"Updated", "UpdatedIncludingLauncher", "NothingToUpdate"}
Faults == {"torn backup", "cut short", "lost restoring", "half undone", "torn launcher"}

Init ==
    /\ DownloaderInit
    /\ disk \in [Paths -> {"absent"} \cup Whole]
    /\ disk[Launcher] \in Whole /\ disk[NewLauncher] = "absent"
    /\ backup = [f \in Files |-> "absent"]
    /\ phase = "off"
    /\ todo = {} /\ update = {} /\ created = {}
    /\ failed = FALSE /\ cancelled = FALSE /\ result = "none"
    /\ had = [f \in Replaced |-> disk[f]] /\ faults = {} /\ calm = FALSE

\* UpdaterFileInfo::get_install_path; the hash is taken of disk[f].
Target(f) == IF f = Launcher THEN NewLauncher ELSE f

\* A file that is opened for writing and closed again is empty, or is deleted
\* if it was not there before.
Emptied(content) == IF content = "absent" THEN "absent" ELSE "empty"
Copied(from, to) == IF from = "empty" THEN Emptied(to) ELSE from

BackedUp == {f \in Files : backup[f] # "absent"}

\* Loops and switches between phases.
Continue(f, error) ==
    /\ f \in todo
    /\ todo' = todo \ {f}
    /\ failed' = (failed \/ error)
    /\ UNCHANGED phase

Enter(next, files) ==
    /\ phase' = next
    /\ todo' = files
    /\ failed' = FALSE

\* Start returns.  A success is the end of all that went wrong before.
Return(with) ==
    /\ Enter("done", {})
    /\ result' = with
    /\ IF with \in Successes /\ "cut short" \notin faults
       THEN faults' = {} /\ had' = [f \in Replaced |-> disk[f]]
       ELSE UNCHANGED <<faults, had>>
    /\ UNCHANGED calm

\* FileOpener::CloseAllFiles, also by its destructor.
CloseAllFiles ==
    /\ created' = {}
    /\ disk' = [p \in Paths |-> IF /\ \E f \in created : p = Target(f)
                                   /\ disk[p] = "empty"
                                THEN "absent" ELSE disk[p]]

\* Mutant of RollBack: Start returns without restoring.
RollBackNever(with) ==
    /\ CloseAllFiles
    /\ Enter("done", {})
    /\ result' = with

\* CloseAllFiles and then RestoreFromBackup; Start returns "with" after that.
RollBack(with) ==
    /\ CloseAllFiles
    /\ Enter("rollback", BackedUp)
    /\ result' = with
------------------------------------------------------------------------------
\* The process ends, and what it had in memory is gone.
Exit ==
    /\ phase' = "off"
    /\ todo' = {} /\ update' = {} /\ created' = {}
    /\ failed' = FALSE /\ cancelled' = FALSE /\ result' = "none"
    /\ StartDownloads({})

\* The player starts the launcher; FinishLauncherUpdate deletes what is left of
\* an update of the launcher.
Launch ==
    /\ phase = "off" /\ disk[Launcher] \in Whole
    /\ \/ disk' = [disk EXCEPT ![NewLauncher] = "absent"]
       \/ ~calm /\ UNCHANGED disk
    /\ Enter("starting", {})
    /\ UNCHANGED <<downloaderVars, backup, update, created, cancelled, result, history>>

Start ==
    /\ phase = "starting"
    /\ IF cancelled
       THEN /\ Enter("done", {})
            /\ result' = "CanceledByUser"
            /\ faults' = IF BackedUp = {} THEN faults ELSE faults \cup {"half undone"}
            /\ UNCHANGED <<had, calm>>
       ELSE Enter("restoring", BackedUp) /\ UNCHANGED <<result, history>>
    /\ UNCHANGED <<downloaderVars, fileVars, update, created, cancelled>>

\* RestoreFilesFromBackup, one file.  The installed file is opened, and so
\* emptied, even if its backup could not be opened.
RestoreFile(f) ==
    /\ phase \in RestorePhases
    /\ \/ /\ Continue(f, FALSE)
          /\ disk' = [disk EXCEPT ![f] = Copied(backup[f], disk[f])]
          /\ UNCHANGED history
       \/ /\ ~calm /\ Continue(f, TRUE)
          /\ \E c \in {disk[f], Emptied(disk[f]), "partial"} : disk' = [disk EXCEPT ![f] = c]
          /\ faults' = faults \cup
                {IF phase = "restoring" THEN "lost restoring" ELSE "half undone"}
          /\ UNCHANGED <<had, calm>>
    /\ UNCHANGED <<downloaderVars, backup, update, created, cancelled, result>>

\* RestoreFromBackup: on a start the folder is cleared even if that has failed
\* (ClearBackupFolderEvenIfRestoreFail), later it is kept for the next start.
Restored ==
    /\ phase \in RestorePhases /\ todo = {}
    /\ IF phase = "rollback" /\ failed
       THEN Return(result)
       ELSE /\ Enter(IF phase = "restoring" THEN "clearing old" ELSE "clearing restored", {})
            /\ UNCHANGED <<result, history>>
    /\ UNCHANGED <<downloaderVars, fileVars, update, created, cancelled>>

\* What is in the backup folder when only these files are left in it.
Kept(files) == [f \in Files |-> IF f \in files THEN backup[f] ELSE "absent"]

\* What follows the successful end of each ClearBackupFolder.
UpdateResult == IF Launcher \in update THEN "UpdatedIncludingLauncher" ELSE "Updated"
Cleared ==
    CASE phase = "clearing old" -> Enter("requesting", {}) /\ UNCHANGED <<result, history>>
      [] phase = "clearing restored" -> Return(result)
      [] phase = "clearing" -> Return(UpdateResult)

\* remove_all, which may stop half way.  RestoreFromBackup's result is looked at
\* only at the start.
ClearBackupFolder ==
    /\ phase \in ClearPhases
    /\ \/ backup' = Kept({}) /\ Cleared
       \/ /\ ~calm
          /\ \E files \in SUBSET BackedUp \ {{}} : backup' = Kept(files)
          /\ Enter("done", {})
          /\ result' = IF phase = "clearing restored" THEN result ELSE "Error"
          /\ faults' = IF phase = "clearing" THEN faults \cup {"half undone"} ELSE faults
          /\ UNCHANGED <<had, calm>>
    /\ UNCHANGED <<downloaderVars, disk, update, created, cancelled>>

\* SendUpdateFilesRequest and SelectBaseUrl.
RequestFileList ==
    /\ phase = "requesting"
    /\ \/ Enter("gathering", {}) /\ UNCHANGED <<result, history>>
       \/ ~calm /\ ~cancelled /\ \E r \in {"ConnectionError", "Error"} : Return(r)
       \/ cancelled /\ Return("CanceledByUser")
    /\ UNCHANGED <<downloaderVars, fileVars, update, created, cancelled>>

\* Mutant of Outdated: what is up to date is replaced as well.
OutdatedAll == Files
\* The files whose hash is not that of the list.
Outdated == {f \in Files : disk[f] # "new"}

\* is_need_backup
NeedBackup(files) == {f \in files \ {Launcher} : disk[f] # "absent"}

GetFilesToUpdate ==
    /\ phase = "gathering"
    /\ \/ /\ update' = Outdated
          /\ IF Outdated = {}
             THEN Return("NothingToUpdate")
             ELSE Enter("backuping", NeedBackup(Outdated)) /\ UNCHANGED <<result, history>>
       \/ ~calm /\ Return("Error") /\ UNCHANGED update
    /\ UNCHANGED <<downloaderVars, fileVars, created, cancelled>>

\* BackupFiles, one file, and its end.
BackupFile(f) ==
    /\ phase = "backuping"
    /\ \/ /\ Continue(f, FALSE)
          /\ backup' = [backup EXCEPT ![f] = Copied(disk[f], backup[f])]
          /\ UNCHANGED history
       \/ /\ ~calm /\ Continue(f, TRUE)
          /\ \E c \in {backup[f], Emptied(backup[f]), "partial"} :
                /\ backup' = [backup EXCEPT ![f] = c]
                /\ faults' = IF c = "partial" THEN faults \cup {"torn backup"} ELSE faults
          /\ UNCHANGED <<had, calm>>
    /\ UNCHANGED <<downloaderVars, disk, update, created, cancelled, result>>

\* Mutants: an error does not keep the updater from going on; it goes on with all
\* the files of the list.
BackedUpAnyway ==
    /\ phase = "backuping" /\ todo = {}
    /\ Enter("opening", update)
    /\ UNCHANGED <<downloaderVars, fileVars, update, created, cancelled, result, history>>
BackedUpForAll ==
    /\ phase = "backuping" /\ todo = {}
    /\ IF failed
       THEN Return("Error")
       ELSE Enter("opening", Files) /\ UNCHANGED <<result, history>>
    /\ UNCHANGED <<downloaderVars, fileVars, update, created, cancelled>>

FilesBackedUp ==
    /\ phase = "backuping" /\ todo = {}
    /\ IF failed
       THEN Return("Error")
       ELSE Enter("opening", update) /\ UNCHANGED <<result, history>>
    /\ UNCHANGED <<downloaderVars, fileVars, update, created, cancelled>>
------------------------------------------------------------------------------
\* The files to install are opened, which empties them.
OpenFile(f) ==
    /\ phase = "opening"
    /\ \/ /\ Continue(f, FALSE)
          /\ disk' = [disk EXCEPT ![Target(f)] = "empty"]
          /\ created' = IF disk[Target(f)] = "absent" THEN created \cup {f} ELSE created
       \/ ~calm /\ Continue(f, TRUE) /\ UNCHANGED <<disk, created>>
    /\ UNCHANGED <<downloaderVars, backup, update, cancelled, result, history>>

FilesOpened ==
    /\ phase = "opening" /\ todo = {}
    /\ \/ failed /\ RollBack("Error") /\ UNCHANGED downloaderVars
       \/ ~failed /\ cancelled /\ RollBack("CanceledByUser") /\ UNCHANGED downloaderVars
       \/ /\ ~failed /\ ~cancelled
          /\ Enter("downloading", {})
          /\ StartDownloads(update)
          /\ UNCHANGED <<disk, created, result>>
    /\ UNCHANGED <<backup, update, cancelled, history>>

\* One turn of the downloader's loop.
Downloads ==
    /\ phase = "downloading" /\ ~AllDownloadsCompleted
    /\ \E ended \in SUBSET requests :
       \E broken \in IF calm THEN {{}} ELSE SUBSET (requests \ ended) :
          Iterate(ended, broken, cancelled)
    /\ faults' = IF cancelled /\ fetched' \cup refused' # update
                 THEN faults \cup {"cut short"} ELSE faults
    /\ UNCHANGED <<fileVars, phase, startVars, had, calm>>

\* Mutant of Downloaded: the results are installed without a look at errors.
DownloadedUnchecked ==
    /\ phase = "downloading" /\ AllDownloadsCompleted
    /\ Enter("installing", fetched)
    /\ StartDownloads({})
    /\ UNCHANGED <<fileVars, update, created, cancelled, result, history>>

\* After an error a cancelled update returns at once, and nothing is restored
\* before the next start; without one it is installed as if it were complete.
Downloaded ==
    /\ phase = "downloading" /\ AllDownloadsCompleted
    /\ \/ /\ refused = {}
          /\ Enter("installing", fetched)
          /\ UNCHANGED <<disk, created, result, history>>
       \/ /\ refused # {} /\ cancelled
          /\ CloseAllFiles
          /\ Enter("done", {})
          /\ result' = "CanceledByUser"
          /\ faults' = faults \cup {"half undone"}
          /\ UNCHANGED <<had, calm>>
       \/ /\ refused # {} /\ ~cancelled
          /\ RollBack("Error")
          /\ UNCHANGED history
    /\ StartDownloads({})
    /\ UNCHANGED <<backup, update, cancelled>>

\* InstallFiles, one file, and its end.
InstallFile(f) ==
    /\ phase = "installing"
    /\ \/ Continue(f, FALSE) /\ disk' = [disk EXCEPT ![Target(f)] = "new"]
       \/ /\ ~calm /\ Continue(f, TRUE)
          /\ \E c \in {"empty", "partial"} : disk' = [disk EXCEPT ![Target(f)] = c]
    /\ UNCHANGED <<downloaderVars, backup, update, created, cancelled, result, history>>

FilesInstalled ==
    /\ phase = "installing" /\ todo = {}
    /\ IF failed
       THEN RollBack("Error")
       ELSE CloseAllFiles /\ Enter("clearing", {}) /\ UNCHANGED result
    /\ UNCHANGED <<downloaderVars, backup, update, cancelled, history>>

\* Mutant of Leave: cs_new.exe is not started.
LeaveAtOnce == phase = "done" /\ Exit /\ UNCHANGED <<fileVars, history>>

\* Start has returned, the game is played and left; or cs_new.exe is started.
\* The reason of a cancellation replaces what Start has returned.
Leave ==
    /\ phase = "done"
    /\ IF /\ result = "UpdatedIncludingLauncher" /\ ~cancelled
          /\ disk[NewLauncher] \in Whole
       THEN phase' = "finishing" /\ UNCHANGED <<downloaderVars, startVars>>
       ELSE Exit
    /\ UNCHANGED <<fileVars, history>>

\* FinishLauncherUpdate in cs_new.exe, which tries five times.
FinishLauncherUpdate ==
    /\ phase = "finishing"
    /\ \/ disk' = [disk EXCEPT ![Launcher] = disk[NewLauncher]]
       \/ ~calm /\ UNCHANGED disk
    /\ Exit
    /\ UNCHANGED <<backup, history>>
------------------------------------------------------------------------------
\* The environment.
Cancel ==
    /\ phase \notin {"off", "done", "finishing"} /\ ~cancelled /\ ~calm
    /\ cancelled' = TRUE
    /\ UNCHANGED <<downloaderVars, fileVars, phase, todo, update, created, failed, result, history>>

\* The process dies, perhaps in the middle of the write it is making.
Torn(contents, p, fault) ==
    /\ \E c \in {"empty", "partial"} : contents' = [contents EXCEPT ![p] = c]
    /\ faults' = faults \cup fault

Crash ==
    /\ phase # "off" /\ ~calm
    /\ Exit
    /\ \/ UNCHANGED <<fileVars, faults>>
       \/ /\ phase = "backuping"
          /\ \E f \in todo : Torn(backup, f, {"torn backup"}) /\ UNCHANGED disk
       \/ /\ phase \in RestorePhases
          /\ \E f \in todo : Torn(disk, f, {}) /\ UNCHANGED backup
       \/ /\ phase = "installing"
          /\ \E f \in todo : Torn(disk, Target(f), {}) /\ UNCHANGED backup
       \/ /\ phase \in ClearPhases
          /\ \E files \in SUBSET BackedUp : backup' = Kept(files)
          /\ faults' = IF phase = "clearing" THEN faults \cup {"half undone"} ELSE faults
          /\ UNCHANGED disk
       \/ /\ phase = "finishing"
          /\ Torn(disk, Launcher, {"torn launcher"}) /\ UNCHANGED backup
    /\ UNCHANGED <<had, calm>>

CalmDown ==
    /\ FaultsStop /\ ~calm
    /\ calm' = TRUE
    /\ UNCHANGED <<downloaderVars, fileVars, phase, startVars, had, faults>>
------------------------------------------------------------------------------
FileStep(f) == RestoreFile(f) \/ BackupFile(f) \/ OpenFile(f) \/ InstallFile(f)
UpdaterStep ==
    \/ Start \/ Restored \/ ClearBackupFolder \/ RequestFileList
    \/ GetFilesToUpdate \/ FilesBackedUp \/ FilesOpened \/ Downloads
    \/ Downloaded \/ FilesInstalled \/ Leave \/ FinishLauncherUpdate
    \/ \E f \in todo : FileStep(f)

Next == Launch \/ UpdaterStep \/ Cancel \/ Crash \/ CalmDown

Spec == Init /\ [][Next]_vars

\* The process runs on, the player starts the game again, and a request that
\* has been made ends: its timeouts see to that.
Fairness ==
    /\ WF_vars(Launch)
    /\ WF_vars(UpdaterStep)
    /\ WF_vars(Downloads /\ requests' \cap requests # requests)

FairSpec == Spec /\ Fairness
------------------------------------------------------------------------------
UpdaterTypeOK ==
    /\ disk \in [Paths -> Contents] /\ had \in [Replaced -> Contents]
    /\ backup \in [Files -> Contents \ {"new"}]
    /\ phase \in Phases /\ result \in Results
    /\ todo \subseteq Files /\ update \subseteq Files /\ created \subseteq Files
    /\ failed \in BOOLEAN /\ cancelled \in BOOLEAN /\ calm \in BOOLEAN
    /\ faults \subseteq Faults

\* No file is lost on its way through the downloader, unless it is cancelled.
DownloadsAccounted ==
    phase = "downloading" /\ "cut short" \notin faults
        => update = queued \cup requests \cup fetched \cup refused

\* An update that is reported has been made, whatever has gone wrong before, and
\* leaves no backup that would undo it at the next start.
UpdatedIsComplete ==
    phase = "done" /\ result \in Successes /\ "cut short" \notin faults
        => /\ \A f \in Replaced : disk[f] = "new"
           /\ Launcher \in Files => "new" \in {disk[Launcher], disk[NewLauncher]}
           /\ BackedUp = {}

\* The same without the exception.  NextUpdaterTests.cpp asserts the contents of
\* every file after NextUpdaterResult::Updated.
UpdatedMeansNew ==
    phase = "done" /\ result \in Successes => \A f \in Replaced : disk[f] = "new"

\* Nothing the player has is lost: at any time, a file is whole or the backup
\* folder has it, and the program that is to start is whole.  This fails after a
\* write to the backup folder that has been torn (the next start copies it over
\* the file, which was whole), after a download that has been cut short (which is
\* installed), and after an error in restoring at the start (the folder is
\* cleared).
Recoverable ==
    /\ faults \cap {"torn backup", "cut short", "lost restoring"} = {} =>
          \A f \in Replaced : had[f] \in Whole => disk[f] \in Whole \/ backup[f] = "old"
    /\ "torn launcher" \notin faults => disk[Launcher] \in Whole

\* The game is started with what there was before or with the update, not with a
\* mixture: Start has undone all it has done, or all that an earlier start did.
StartsOneVersion ==
    phase = "done" /\ faults = {} =>
        \/ \A f \in Replaced : had[f] \in Whole => disk[f] = had[f]
        \/ \A f \in Replaced : disk[f] = "new"

\* What is up to date, and not in the backup folder, is not written to again.
UpToDateIsUntouched ==
    [][\A f \in Replaced : disk[f] = "new" /\ backup[f] = "absent" => disk'[f] = "new"]_vars

\* When faults stop, whatever they have left behind, the player's files are
\* brought up to date, except when there is no launcher left to start.
AllNew == (\A f \in Files : disk[f] = "new") /\ BackedUp = {}
Repairs == calm ~> (AllNew \/ disk[Launcher] \notin Whole)
==============================================================================
