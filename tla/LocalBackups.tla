----------------------------- MODULE LocalBackups -----------------------------
(***************************************************************************)
(* Backups of one title on the SD card: NsSaveService of                   *)
(* save_service_switch.cpp, write_package_as_backup of save_backup_io.cpp, *)
(* the listing and deletion of core/backup_store.cpp and the screen of     *)
(* save_detail_activity.cpp that calls them.                               *)
(*                                                                         *)
(* Backup, restore and import run one after the other on the worker        *)
(* thread; listing and deletion run on the UI thread beside it.  A save is *)
(* a set of files per profile; a mounted save is written to a transaction  *)
(* that only fsdevCommitDevice makes permanent.                            *)
(*                                                                         *)
(* Every step may fail.  Some failures the code does not notice: a read    *)
(* error ends a file or a directory early, a file that is to be wiped or   *)
(* removed stays, a second backup is written into the directory of the     *)
(* first.  Three history variables tell where that has happened: job.slip, *)
(* spoiled and harmed.  No step depends on them.                           *)
(***************************************************************************)
EXTENDS Naturals, Sequences, FiniteSets

CONSTANTS
    Profiles,   \* users of the console
    Files,      \* names of files in a save
    Versions,   \* saves a game has written, and the one in the cloud
    FilesOf,    \* FilesOf[v]: the files of version v
    Cloud,      \* Cloud[p]: version of profile p in the downloaded package, or None
    MaxTime,    \* bounds the seconds, hence the backups
    MaxQueue,   \* bounds the jobs waiting for the worker
    None, Absent, Torn, NoSave, Broken

Times == 0..MaxTime

ASSUME LocalBackupsAssumption ==
    /\ FilesOf \in [Versions -> SUBSET Files]
    /\ Cloud \in [Profiles -> Versions \cup {None}]
    /\ None \notin Versions /\ None \notin Profiles /\ None \notin Times
    /\ Absent \notin Versions /\ Torn \notin Versions /\ Absent # Torn
    /\ MaxTime \in Nat /\ MaxQueue \in Nat

Content == [Files -> Versions \cup {Absent, Torn}]
Empty == [f \in Files |-> Absent]
Whole(v) == [f \in Files |-> IF f \in FilesOf[v] THEN v ELSE Absent]
WholeSaves == {Whole(v) : v \in Versions}
Present(c) == {f \in Files : c[f] # Absent}

ASSUME NoSaveAssumption == NoSave \notin Content /\ Broken \notin Content \cup {NoSave}

VARIABLES
    live,       \* live[p]: the committed save of profile p, or NoSave
    backup,     \* backup[t]: the directory named after second t
    clock,      \* the present second
    queue,      \* jobs waiting for the worker
    job,        \* the job that is running
    deletion,   \* the deletion that is running on the UI thread
    refresh,    \* a refreshHistory has been posted
    listed,     \* the entries of the history on the screen
    spoiled,    \* history: directories that were to be deleted, were begun
                \* again, or hold a copy with a slip
    harmed      \* history: profiles restored with a slip or from such a directory

vars == <<live, backup, clock, queue, job, deletion, refresh, listed, spoiled, harmed>>
screen == <<deletion, refresh, listed>>
history == <<spoiled, harmed>>

NoDirectory == [manifest |-> "none", names |-> {}, dirs |-> {}, file |-> [p \in Profiles |-> Empty]]
Directories ==
    [manifest : {"none", "torn", "valid"}, names : SUBSET Profiles, dirs : SUBSET Profiles,
     file : [Profiles -> Content]]

Requests == [kind : {"backup", "restore", "import"}, time : Times, todo : SUBSET Profiles]
Jobs ==
    [kind : {"none", "backup", "restore", "import"}, time : Times, todo : SUBSET Profiles,
     at : Profiles \cup {None}, copied : SUBSET Files, mount : Content,
     done : SUBSET Profiles, stage : {"none", "profiles", "copy", "manifest"},
     slip : BOOLEAN]    \* history: the copy at hand is not known to be whole
Deletions == [time : Times \cup {None}, at : Profiles \cup {None}]
Entries == [time : Times, profiles : SUBSET Profiles]

\* list_backups: directories without a valid manifest are skipped.
ListUnparsed(b) ==                                    \* mutant: the file need only be there
    {[time |-> t, profiles |-> b[t].dirs] : t \in {u \in Times : b[u].manifest # "none"}}
List(b) ==
    {[time |-> t, profiles |-> b[t].names] : t \in {u \in Times : b[u].manifest = "valid"}}

NoJob == [kind |-> "none", time |-> 0, todo |-> {}, at |-> None, copied |-> {},
          mount |-> Empty, done |-> {}, stage |-> "none", slip |-> FALSE]
NoDeletion == [time |-> None, at |-> None]

Init ==
    /\ live \in [Profiles -> WholeSaves \cup {NoSave}]
    /\ backup = [t \in Times |-> NoDirectory]
    /\ clock = 0
    /\ queue = <<>> /\ job = NoJob
    /\ deletion = NoDeletion /\ refresh = FALSE /\ listed = {}
    /\ spoiled = {} /\ harmed = {}

-------------------------------------------------------------------------------
(* The screen *)

UiFree == deletion = NoDeletion

Tap(kind, t, profiles) ==
    /\ UiFree
    /\ Len(queue) < MaxQueue
    /\ queue' = Append(queue, [kind |-> kind, time |-> t, todo |-> profiles])
    /\ UNCHANGED <<live, backup, clock, job, screen, history>>

TapBackup == Tap("backup", 0, Profiles)
TapRestore == \E e \in listed : Tap("restore", e.time, e.profiles)

\* The second half of a download that has arrived (doDownload).
TapImport == Tap("import", 0, {p \in Profiles : Cloud[p] # None})

\* delete_backup on the UI thread, after the dialog; the worker is not asked.
TapDelete ==
    /\ UiFree
    /\ \E e \in listed :
           deletion' = [time |-> e.time, at |-> None] /\ spoiled' = spoiled \cup {e.time}
    /\ UNCHANGED <<live, backup, clock, queue, job, refresh, listed, harmed>>

\* remove_tree goes through the entries in the order of the directory and
\* empties a subdirectory before it goes on.  What cannot be removed stays,
\* with the directories above it, and the rest is removed all the same.
RemoveManifest ==
    /\ deletion.at = None
    /\ backup[deletion.time].manifest # "none"
    /\ backup' = [backup EXCEPT ![deletion.time].manifest = "none", ![deletion.time].names = {}]
    /\ UNCHANGED deletion
RemoveEnter ==
    /\ deletion.at = None
    /\ \E p \in backup[deletion.time].dirs : deletion' = [deletion EXCEPT !.at = p]
    /\ UNCHANGED backup
RemoveFile ==
    /\ deletion.at # None
    /\ \E f \in Present(backup[deletion.time].file[deletion.at]) :
           backup' = [backup EXCEPT ![deletion.time].file[deletion.at][f] = Absent]
    /\ UNCHANGED deletion
RemoveLeave ==
    /\ deletion.at # None
    /\ \/ UNCHANGED backup
       \/ /\ Present(backup[deletion.time].file[deletion.at]) = {}
          /\ backup' = [backup EXCEPT ![deletion.time].dirs = @ \ {deletion.at}]
    /\ deletion' = [deletion EXCEPT !.at = None]

DeletionStep ==
    /\ ~UiFree
    /\ RemoveManifest \/ RemoveEnter \/ RemoveFile \/ RemoveLeave
    /\ UNCHANGED <<live, clock, queue, job, refresh, listed, history>>

\* The history is read again when all is gone; otherwise, whatever is left,
\* the screen only says so and stays as it is.
DeletionDone ==
    /\ ~UiFree /\ deletion.at = None
    /\ deletion' = NoDeletion
    /\ \/ UNCHANGED listed
       \/ backup[deletion.time] = NoDirectory /\ listed' = List(backup)
    /\ UNCHANGED <<live, backup, clock, queue, job, refresh, history>>

\* The UI half of a job that went well: refreshHistory.
RefreshHistory ==
    /\ refresh /\ UiFree
    /\ refresh' = FALSE /\ listed' = List(backup)
    /\ UNCHANGED <<live, backup, clock, queue, job, deletion, history>>

-------------------------------------------------------------------------------
(* The worker *)

Makes(kind) == kind \in {"backup", "import"}

Begin ==
    /\ job = NoJob /\ queue # <<>>
    /\ LET q == Head(queue) IN
       /\ job' = [NoJob EXCEPT !.kind = q.kind, !.todo = q.todo, !.stage = "profiles",
                               !.time = IF Makes(q.kind) THEN clock ELSE q.time]
       /\ spoiled' = spoiled \cup
              (IF Makes(q.kind) /\ backup[clock] # NoDirectory THEN {clock} ELSE {})
    /\ queue' = Tail(queue)
    /\ UNCHANGED <<live, backup, clock, screen, harmed>>

\* The job is over; after a success a refresh is posted.
Finish(ok) == job' = NoJob /\ refresh' = (refresh \/ ok)

\* readdir fails, which copy_tree takes for the end of the directory.
Overlook ==
    /\ job.kind \in {"backup", "restore"} /\ job.stage = "copy"
    /\ job' = [job EXCEPT !.copied = Files, !.slip = TRUE]
    /\ UNCHANGED <<live, backup, clock, queue, screen, history>>

\* What copy_file may leave when it reports success: the file, or, for a
\* read error it takes for the end, a part of it.
Copies(v) == {v, Torn}

\* clear_tree and rmdir after a failure: all goes that can be removed.
Remnants(b) ==
    {r \in [manifest : {b.manifest, "none"}, names : {b.names, {}}, dirs : SUBSET b.dirs,
            file : {[p \in Profiles |-> [f \in Files |->
                         IF <<p, f>> \in left THEN b.file[p][f] ELSE Absent]] :
                    left \in SUBSET (Profiles \X Files)}] :
        /\ r.names = IF r.manifest = "none" THEN {} ELSE b.names
        /\ \A p \in Profiles : Present(r.file[p]) # {} => p \in r.dirs}

DiscardAll(b) == backup' = [t \in Times |-> NoDirectory]  \* mutant: the title's directory
Discard(b) == \E r \in Remnants(b) : backup' = [backup EXCEPT ![job.time] = r]

\* The device is unmounted, which discards what was not committed.
UnmountForgotten(done) ==                             \* mutant: the device stays mounted
    job' = [job EXCEPT !.done = done, !.stage = "profiles"]
Unmount(done) ==
    job' = [job EXCEPT !.done = done, !.at = None, !.copied = {}, !.mount = Empty,
                       !.stage = "profiles", !.slip = FALSE]

\* Backup: each profile with a save is mounted and copied.
BackupMount(p) ==
    /\ job.kind = "backup" /\ job.stage = "profiles" /\ p \in job.todo
    /\ \/ job' = [job EXCEPT !.todo = @ \ {p}] /\ UNCHANGED backup    \* it cannot be mounted
       \/ /\ live[p] # NoSave
          /\ job' = [job EXCEPT !.todo = @ \ {p}, !.at = p, !.stage = "copy",
                                !.slip = p \in harmed]
          /\ backup' = [backup EXCEPT ![job.time].dirs = @ \cup {p}]
    /\ UNCHANGED <<live, clock, queue, screen, history>>

BackupCopy(f) ==
    LET p == job.at IN
    /\ job.kind = "backup" /\ job.stage = "copy"
    /\ f \in Present(live[p]) \ job.copied
    /\ \/ \E c \in Copies(live[p][f]) :
              /\ backup' = [backup EXCEPT ![job.time].file[p][f] = c]
              /\ job' = [job EXCEPT !.copied = @ \cup {f}, !.slip = @ \/ c # live[p][f]]
       \/ /\ \E c \in {Absent, Torn} :                    \* not created, or cut short
                 backup' = [backup EXCEPT ![job.time].file[p][f] = c]
          /\ Unmount(job.done)
    /\ UNCHANGED <<live, clock, queue, screen, history>>

CopiedUnchecked == job.stage = "copy"                 \* mutant: result ignored
Copied == Present(live[job.at]) \subseteq job.copied
BackupCopied ==
    /\ job.kind = "backup" /\ job.stage = "copy"
    /\ Copied
    /\ Unmount(job.done \cup {job.at})
    /\ spoiled' = spoiled \cup (IF job.slip THEN {job.time} ELSE {})
    /\ UNCHANGED <<live, backup, clock, queue, screen, harmed>>

\* No profile was saved: the directory goes.
BackupNothing ==
    /\ job.kind = "backup" /\ job.stage = "profiles" /\ job.todo = {} /\ job.done = {}
    /\ Discard(backup[job.time]) /\ Finish(FALSE)
    /\ UNCHANGED <<live, clock, queue, deletion, listed, history>>

\* The manifest is the last file, truncated and then filled.
ManifestOpen ==
    /\ \/ job.kind = "backup" /\ job.stage = "profiles" /\ job.todo = {} /\ job.done # {}
       \/ job.kind = "import" /\ job.stage = "profiles" /\ job.todo = {}
    /\ \/ /\ backup' = [backup EXCEPT ![job.time].manifest = "torn", ![job.time].names = {}]
          /\ job' = [job EXCEPT !.stage = "manifest"] /\ UNCHANGED refresh
       \/ Discard(backup[job.time]) /\ Finish(FALSE)
    /\ UNCHANGED <<live, clock, queue, deletion, listed, history>>

ManifestWrite ==
    /\ Makes(job.kind) /\ job.stage = "manifest"
    /\ \/ /\ backup' = [backup EXCEPT ![job.time].manifest = "valid", ![job.time].names = job.done]
          /\ Finish(TRUE)
       \/ Discard(backup[job.time]) /\ Finish(FALSE)
    /\ UNCHANGED <<live, clock, queue, deletion, listed, history>>

\* Import: the files of the package, with an error for any of them fatal.
ImportEnter(p) ==
    /\ job.kind = "import" /\ job.stage = "profiles" /\ p \in job.todo
    /\ job' = [job EXCEPT !.todo = @ \ {p}, !.at = p, !.stage = "copy"]
    /\ UNCHANGED <<live, backup, clock, queue, screen, history>>

FileIn(b, p, f, c) == [b EXCEPT !.dirs = @ \cup {p}, !.file[p][f] = c]
ImportFile(f) ==
    LET p == job.at
        b == backup[job.time] IN
    /\ job.kind = "import" /\ job.stage = "copy"
    /\ f \in FilesOf[Cloud[p]] \ job.copied
    /\ \/ /\ backup' = [backup EXCEPT ![job.time] = FileIn(b, p, f, Cloud[p])]
          /\ job' = [job EXCEPT !.copied = @ \cup {f}, !.done = @ \cup {p}]
          /\ UNCHANGED refresh
       \/ Discard(FileIn(b, p, f, Torn)) /\ Finish(FALSE)
    /\ UNCHANGED <<live, clock, queue, deletion, listed, history>>

ImportLeave ==
    /\ job.kind = "import" /\ job.stage = "copy"
    /\ FilesOf[Cloud[job.at]] \subseteq job.copied
    /\ job' = [job EXCEPT !.at = None, !.copied = {}, !.stage = "profiles"]
    /\ UNCHANGED <<live, backup, clock, queue, screen, history>>

\* Restore: a profile without a save is skipped; else its save is wiped in
\* the transaction, but for what cannot be removed, and the backup copied
\* back.
ClearedNot(c, left) == c                              \* mutant: copied over the old save
Cleared(c, left) == [f \in Files |-> IF f \in left THEN c[f] ELSE Absent]
RestoreSkip(p) ==
    /\ job.kind = "restore" /\ job.stage = "profiles" /\ p \in job.todo
    /\ live[p] = NoSave \/ p \notin backup[job.time].dirs
    /\ job' = [job EXCEPT !.todo = @ \ {p}]
    /\ UNCHANGED <<live, backup, clock, queue, screen, history>>

RestoreMount(p) ==
    /\ job.kind = "restore" /\ job.stage = "profiles" /\ p \in job.todo
    /\ live[p] # NoSave /\ p \in backup[job.time].dirs
    /\ \E left \in SUBSET Present(live[p]) :
           job' = [job EXCEPT !.todo = @ \ {p}, !.at = p, !.stage = "copy",
                              !.mount = Cleared(live[p], left), !.slip = left # {}]
    /\ UNCHANGED <<live, backup, clock, queue, screen, history>>

RestoreCopy(f) ==
    LET src == backup[job.time].file[job.at] IN
    /\ job.kind = "restore" /\ job.stage = "copy"
    /\ f \in Present(src) \ job.copied
    /\ \E c \in Copies(src[f]) :
           job' = [job EXCEPT !.mount[f] = c, !.copied = @ \cup {f}, !.slip = @ \/ c # src[f]]
    /\ UNCHANGED <<live, backup, clock, queue, screen, history>>

\* The copy, or the commit, fails.
RestoreFail ==
    /\ job.kind = "restore" /\ job.stage = "copy"
    /\ Unmount(job.done)
    /\ UNCHANGED <<live, backup, clock, queue, screen, history>>

FullCopyUnchecked == job.stage = "copy"               \* mutant: commit always
FullCopy == Present(backup[job.time].file[job.at]) \subseteq job.copied
RestoreCommit ==
    /\ job.kind = "restore" /\ job.stage = "copy"
    /\ FullCopy
    /\ live' = [live EXCEPT ![job.at] = job.mount]
    /\ harmed' = IF job.slip \/ job.time \in spoiled
                 THEN harmed \cup {job.at} ELSE harmed \ {job.at}
    /\ Unmount(job.done \cup {job.at})
    /\ UNCHANGED <<backup, clock, queue, screen, spoiled>>

RestoreEnd ==
    /\ job.kind = "restore" /\ job.stage = "profiles" /\ job.todo = {}
    /\ Finish(job.done # {})
    /\ UNCHANGED <<live, backup, clock, queue, deletion, listed, history>>

Worker ==
    \/ Begin \/ Overlook \/ BackupCopied \/ BackupNothing \/ ManifestOpen \/ ManifestWrite
    \/ ImportLeave \/ RestoreFail \/ RestoreCommit \/ RestoreEnd
    \/ \E p \in Profiles : BackupMount(p) \/ ImportEnter(p) \/ RestoreSkip(p) \/ RestoreMount(p)
    \/ \E f \in Files : BackupCopy(f) \/ ImportFile(f) \/ RestoreCopy(f)

-------------------------------------------------------------------------------

Tick == clock < MaxTime /\ clock' = clock + 1
        /\ UNCHANGED <<live, backup, queue, job, screen, history>>

\* The program ends, by a power cut or otherwise; the game may be played, its
\* save removed or made; the screen is opened again.
Restart ==
    /\ queue' = <<>> /\ job' = NoJob /\ deletion' = NoDeletion /\ refresh' = FALSE
    /\ \/ UNCHANGED <<live, harmed>>
       \/ \E p \in Profiles, s \in WholeSaves \cup {NoSave} :
              live' = [live EXCEPT ![p] = s] /\ harmed' = harmed \ {p}
    /\ listed' = List(backup)
    /\ UNCHANGED <<backup, clock, spoiled>>

Next ==
    \/ TapBackup \/ TapRestore \/ TapImport \/ TapDelete
    \/ DeletionStep \/ DeletionDone \/ RefreshHistory
    \/ Worker \/ Tick \/ Restart

Spec == Init /\ [][Next]_vars

-------------------------------------------------------------------------------
(* Properties *)

\* The range of every variable; a save is mounted while it is copied only.
TypeOK ==
    /\ live \in [Profiles -> {NoSave} \cup Content]
    /\ backup \in [Times -> Directories]
    /\ clock \in Times
    /\ queue \in Seq(Requests)
    /\ job \in Jobs /\ (job.at # None <=> job.stage = "copy")
    /\ deletion \in Deletions
    /\ refresh \in BOOLEAN
    /\ listed \subseteq Entries
    /\ spoiled \subseteq Times /\ harmed \subseteq Profiles

\* The design's "fsdevCommitDevice runs only after the full copy succeeds" and
\* the invariant WR-03 of NsSaveService::restore: wherever a restore breaks
\* off, the save of a profile is one that the game (or the cloud) once had,
\* never a part of one nor a mixture.  The exception is one that was restored
\* with a failure the code did not notice, or from a directory that such a
\* failure, a deletion or a second backup in its second had spoiled.
LiveIsWhole ==
    \A p \in Profiles \ harmed : live[p] \in WholeSaves \cup {NoSave}

\* A directory with a valid manifest holds a whole save of each profile the
\* manifest names, wherever backup and import break off: the manifest is
\* written last.  The exception are the spoiled ones: of a deletion that could
\* not remove everything, or was cut short, the history may still list the rest.
ListedIsWhole ==
    \A t \in Times \ spoiled : backup[t].manifest = "valid"
        => \A p \in backup[t].names : p \in backup[t].dirs /\ backup[t].file[p] \in WholeSaves

\* A backup that was complete stays as it is until the user deletes it or
\* begins another in the same second; the clean-up after a failure removes
\* "partial/empty" directories only.
Making(t) == Makes(job.kind) /\ job.time = t
KeptUntilDeleted ==
    [][\A t \in Times : backup[t].manifest = "valid" /\ deletion.time # t /\ ~Making(t)
           => backup'[t] = backup[t]]_vars

\* What a restore changes is what the backup holds, nothing of the old save
\* remains, unless the profile counts as harmed.
RestoredIsBackup ==
    [][\A p \in Profiles : live'[p] # live[p] /\ job' # NoJob /\ p \notin harmed'
           => live'[p] = backup[job.time].file[p]]_vars
-------------------------------------------------------------------------------
(* The promise to the screen *)

\* A directory is on the shelf from the moment its manifest is whole until
\* it is spoiled: by a deletion, however that ends, above all.
OnShelf(t) == backup[t].manifest = "valid" /\ t \notin spoiled
Slot(t) == [p \in Profiles |->
               IF OnShelf(t) /\ p \in backup[t].names THEN backup[t].file[p] ELSE NoSave]
shelf == [t \in Times |-> Slot(t)]
saves == [p \in Profiles |-> IF p \in harmed THEN Broken ELSE live[p]]
doing == [kind |-> job.kind, time |-> job.time]

HasFiles(p) == Cloud[p] # None /\ FilesOf[Cloud[p]] # {}
Package == [p \in Profiles |-> IF HasFiles(p) THEN Whole(Cloud[p]) ELSE NoSave]

Shelf == INSTANCE BackupShelf WITH Saves <- WholeSaves, save <- saves

\* Seen from the screen, a backup, an import and the restore of a profile each
\* happen at once or not at all, in the directory they were asked for,
\* wherever the worker, a deletion or the program breaks off.  A deletion
\* takes a backup off the shelf when it begins, and what it leaves behind is
\* never taken for a backup: a restore from there is a broken one.
ImplementsShelf == Shelf!Spec
===============================================================================
