--------------------------------- MODULE Mods ---------------------------------
(***************************************************************************)
(* The mods of one title: the library of imported mods, the romfs that the *)
(* game is started with and the marker that names the mod applied          *)
(* (platform/mods/mod_actions.cpp, mod_store.cpp, mod_download.cpp,        *)
(* libarchive_extractor.cpp, fs_util.cpp), driven by the manager screen,   *)
(* which works on the UI thread, and by the detail screen, whose downloads *)
(* are imported on the worker thread.                                      *)
(*                                                                         *)
(* The directory of incoming archives is not a variable: the user fills it *)
(* by other means too, so any archive may be there to be imported.         *)
(***************************************************************************)
EXTENDS Naturals, Sequences, FiniteSets

CONSTANTS
    Mods,       \* names of mods
    Versions,   \* archives: every version of every mod
    ModOf,      \* ModOf[v]: the mod whose version v is
    Files,      \* names of files in a romfs
    FilesOf,    \* FilesOf[v]: the files of version v
    MaxQueue,   \* bounds the downloads waiting for the worker
    Troubles,   \* which of AllTroubles may happen
    None

\* "marker": the marker can be neither read nor removed.  "overlap": the
\* manager is used while the worker imports.  Everything else that the code
\* can meet is always possible: a file that cannot be removed, opened, written
\* or flushed, a read error that passes for an end, an archive that breaks
\* off, and the end of the program in the middle of anything.
AllTroubles == {"marker", "overlap"}

ASSUME ModsAssumption ==
    /\ ModOf \in [Versions -> Mods]
    /\ FilesOf \in [Versions -> SUBSET Files]
    /\ MaxQueue \in Nat
    /\ Troubles \subseteq AllTroubles
    /\ None \notin Mods /\ None \notin Files /\ None \notin Versions
    /\ None \notin Versions \X {"whole", "torn"}

Trouble(t) == t \in Troubles

\* A file is absent, or of some version, or the beginning of such a file.
Written == Versions \X {"whole", "torn"}
Trees == [Files -> Written \cup {None}]
Empty == [f \in Files |-> None]
Present(tree) == {f \in Files : tree[f] # None}
Owners(tree) == {ModOf[tree[f][1]] : f \in Present(tree)}

VARIABLES
    staged,     \* staged[m]: the files of mod m in the library
    dirs,       \* mods that have a directory in the library
    live,       \* the romfs of the title under /atmosphere/contents
    marker,     \* the mod that .active names, or None
    half,       \* history: an enabling broke off with part of a mod in the romfs
    task,       \* what the UI thread and the worker thread are doing
    queue,      \* downloads waiting for the worker
    screen,     \* the manager, or the detail screen above it
    posted,     \* the UI half of a successful install is waiting
    rows        \* what the manager shows of each mod

disk == <<staged, dirs, live, marker, half>>
screens == <<queue, screen, posted, rows>>
vars == <<disk, task, screens>>

Threads == {"ui", "worker"}
Jobs == [ver : Versions, cancelled : BOOLEAN]
Tasks ==
    [op : {"none", "enable", "disable", "uninstall", "import"},
     stage : {"none", "download", "extract", "discard", "remove", "clear", "copy", "mark", "unstage"},
     mod : Mods \cup {None}, ver : Versions \cup {None}, cancelled : BOOLEAN,
     at : Files \cup {None},    \* the file being written
     seen : SUBSET Files,       \* files that are dealt with
     holds : SUBSET Files,      \* files that can be read from the archive
     slip : BOOLEAN]            \* history: an error has passed unnoticed

NoTask == [op |-> "none", stage |-> "none", mod |-> None, ver |-> None, cancelled |-> FALSE,
           at |-> None, seen |-> {}, holds |-> {}, slip |-> FALSE]
Idle(t) == task[t] = NoTask

\* installed_mods: the directories of the library and the marker.
List(d, k) == [m \in Mods |-> IF m \notin d THEN "none" ELSE IF m = k THEN "on" ELSE "off"]

Init ==
    /\ staged = [m \in Mods |-> Empty] /\ dirs = {}
    /\ live = Empty /\ marker = None /\ half = FALSE
    /\ task = [t \in Threads |-> NoTask]
    /\ queue = <<>> /\ screen = "manager" /\ posted = FALSE
    /\ rows = [m \in Mods |-> "none"]

-------------------------------------------------------------------------------
(* Steps of a task *)

Enter(t, s) == task' = [task EXCEPT ![t].stage = s, ![t].at = None, ![t].seen = {}]
End(t) == task' = [task EXCEPT ![t] = NoTask]
Refresh == rows' = List(dirs', marker')

\* A file of the library that is open; the console's file system neither
\* removes it nor opens it for writing.
InUse(m, f) ==
    \E t \in Threads : task[t].stage \in {"copy", "extract"} /\ task[t].mod = m /\ task[t].at = f

\* remove_tree takes file after file; one that cannot be removed stays and
\* the others are removed all the same.
Removed(tree, f) == [tree EXCEPT ![f] = None]
Kept(t, f) == task' = [task EXCEPT ![t].seen = @ \cup {f}]

RemoveLive(f) ==
    /\ task["ui"].stage = "remove"
    /\ f \in Present(live) \ task["ui"].seen
    /\ \/ live' = Removed(live, f) /\ UNCHANGED task
       \/ Kept("ui", f) /\ UNCHANGED live
    /\ UNCHANGED <<staged, dirs, marker, half, screens>>

\* disable_mod: the marker goes when the romfs is gone; a failure, if only to
\* remove the empty directory, ends whatever disable_mod was called for.
AllRemovedUnchecked == TRUE                         \* mutant: result ignored
AllRemoved == Present(live) = {}
RemoveDone ==
    /\ task["ui"].stage = "remove"
    /\ Present(live) \subseteq task["ui"].seen
    /\ UNCHANGED <<staged, dirs, live, marker, queue, screen, posted>>
    /\ \/ AllRemoved /\ half' = FALSE /\ Enter("ui", "clear") /\ UNCHANGED rows
       \/ /\ End("ui") /\ UNCHANGED half
          /\ IF task["ui"].op = "uninstall" THEN Refresh ELSE UNCHANGED rows

ClearedNot == {marker}                              \* mutant: the marker is left
ClearedEmptied == {"emptied"}                       \* mutant: emptied, not removed
Cleared == {None} \cup (IF Trouble("marker") THEN {marker} ELSE {})
ClearMarker ==
    /\ task["ui"].stage = "clear"
    /\ marker' \in Cleared
    /\ UNCHANGED <<staged, dirs, live, half, queue, screen, posted>>
    /\ CASE task["ui"].op = "enable" -> Enter("ui", "copy") /\ UNCHANGED rows
         [] task["ui"].op = "disable" -> End("ui") /\ Refresh
         [] OTHER -> Enter("ui", "unstage") /\ UNCHANGED rows

\* copy_tree from the library to the romfs: a file is opened, then filled.
CopyOpen(f) ==
    LET src == staged[task["ui"].mod] IN
    /\ task["ui"].stage = "copy" /\ task["ui"].at = None
    /\ f \in Present(src) \ task["ui"].seen
    /\ ~InUse(task["ui"].mod, f)
    /\ live' = [live EXCEPT ![f] = <<src[f][1], "torn">>]
    /\ task' = [task EXCEPT !["ui"].at = f]
    /\ UNCHANGED <<staged, dirs, marker, half, screens>>

\* A read error is taken for the end of the file.
CopyWrite ==
    LET f == task["ui"].at
        src == staged[task["ui"].mod][f] IN
    /\ task["ui"].stage = "copy" /\ f # None
    /\ \E c \in {src} \cup (IF src = None THEN {} ELSE {<<src[1], "torn">>}) :
           /\ live' = [live EXCEPT ![f] = c]
           /\ task' = [task EXCEPT !["ui"].at = None, !["ui"].seen = @ \cup {f},
                                   !["ui"].slip = @ \/ c # src]
    /\ UNCHANGED <<staged, dirs, marker, half, screens>>

\* readdir fails and the rest of the directory is overlooked.
CopyOverlook ==
    /\ task["ui"].stage = "copy" /\ task["ui"].at = None
    /\ ~ Present(staged[task["ui"].mod]) \subseteq task["ui"].seen
    /\ task' = [task EXCEPT !["ui"].seen = Files, !["ui"].slip = TRUE]
    /\ UNCHANGED <<disk, screens>>

\* A file cannot be read, opened or written, what has been copied stays.  The
\* switch in the row goes back; the rows are not read again.
CopyFail ==
    /\ task["ui"].stage = "copy"
    /\ half' = TRUE
    /\ End("ui")
    /\ UNCHANGED <<staged, dirs, live, marker, screens>>

CopiedUnchecked == TRUE                             \* mutant: result ignored
Copied == task["ui"].at = None /\ Present(staged[task["ui"].mod]) \subseteq task["ui"].seen
CopyDone ==
    /\ task["ui"].stage = "copy"
    /\ task["ui"].mod \in dirs
    /\ Copied
    /\ Enter("ui", "mark")
    /\ UNCHANGED <<disk, screens>>

WriteMarker ==
    /\ task["ui"].stage = "mark"
    /\ UNCHANGED <<staged, dirs, live, queue, screen, posted>>
    /\ \E ok \in BOOLEAN :
           /\ marker' = IF ok THEN task["ui"].mod ELSE None
           /\ half' = ~ok
           /\ IF ok THEN Refresh ELSE UNCHANGED rows
    /\ End("ui")

\* remove_tree of a directory in the library: of a mod that is uninstalled,
\* or that could not be extracted.
Unstage(t, f) ==
    LET m == task[t].mod IN
    /\ task[t].stage \in {"unstage", "discard"}
    /\ f \in Present(staged[m]) \ task[t].seen
    /\ \/ ~InUse(m, f) /\ staged' = [staged EXCEPT ![m] = Removed(@, f)] /\ UNCHANGED task
       \/ Kept(t, f) /\ UNCHANGED staged
    /\ UNCHANGED <<dirs, live, marker, half, screens>>

UnstageDone(t) ==
    LET m == task[t].mod IN
    /\ task[t].stage \in {"unstage", "discard"}
    /\ Present(staged[m]) \subseteq task[t].seen
    /\ dirs' \in {dirs} \cup (IF Present(staged[m]) = {} THEN {dirs \ {m}} ELSE {})
    /\ End(t)
    /\ UNCHANGED <<staged, live, marker, half, queue, screen, posted>>
    /\ IF t = "ui" THEN Refresh ELSE UNCHANGED rows

\* extract_archive: the directory and the files of an earlier import stay.
\* An error takes all of it away.
ExtractOpen(t, f) ==
    LET k == task[t] IN
    /\ k.stage = "extract" /\ k.at = None
    /\ f \in k.holds \ k.seen
    /\ ~InUse(k.mod, f)
    /\ staged' = [staged EXCEPT ![k.mod][f] = <<k.ver, "torn">>]
    /\ dirs' = dirs \cup {k.mod}
    /\ task' = [task EXCEPT ![t].at = f]
    /\ UNCHANGED <<live, marker, half, screens>>

\* What fclose says is not looked at: the end of the file may be missing.
ExtractWrite(t) ==
    LET k == task[t] IN
    /\ k.stage = "extract" /\ k.at # None
    /\ \E form \in {"whole", "torn"} :
           /\ staged' = [staged EXCEPT ![k.mod][k.at] = <<k.ver, form>>]
           /\ task' = [task EXCEPT ![t].at = None, ![t].seen = @ \cup {k.at},
                                   ![t].slip = @ \/ form = "torn"]
    /\ UNCHANGED <<dirs, live, marker, half, screens>>

ExtractFail(t) ==
    /\ task[t].stage = "extract"
    /\ Enter(t, "discard")
    /\ UNCHANGED <<disk, screens>>

ExtractedUnchecked(t) == TRUE                       \* mutant: a read error is the end
Extracted(t) == task[t].at = None /\ task[t].holds \subseteq task[t].seen
ExtractDone(t) ==
    /\ task[t].stage = "extract"
    /\ Extracted(t)
    /\ dirs' = dirs \cup {task[t].mod}
    /\ End(t)
    /\ UNCHANGED <<staged, live, marker, half, queue, screen>>
    /\ IF t = "ui" THEN Refresh /\ UNCHANGED posted
       ELSE posted' = (posted \/ ~task[t].cancelled) /\ UNCHANGED rows

-------------------------------------------------------------------------------
(* The manager screen *)

UiFree ==
    /\ Idle("ui") /\ screen = "manager"
    /\ Trouble("overlap") \/ (Idle("worker") /\ queue = <<>>)

Start(t, op, stage, m) ==
    task' = [task EXCEPT ![t] = [NoTask EXCEPT !.op = op, !.stage = stage, !.mod = m]]

Enable(m) ==
    /\ UiFree /\ rows[m] = "off"
    /\ Start("ui", "enable", "remove", m)
    /\ UNCHANGED <<disk, screens>>

Disable(m) ==
    /\ UiFree /\ rows[m] = "on"
    /\ Start("ui", "disable", "remove", m)
    /\ UNCHANGED <<disk, screens>>

\* active_mod; a marker that cannot be read says that no mod is active.
ActiveNever(m) == {FALSE}                           \* mutant: never disabled first
Active(m) == {marker = m} \cup (IF Trouble("marker") THEN {FALSE} ELSE {})
Uninstall(m) ==
    /\ UiFree /\ rows[m] # "none"
    /\ \E active \in Active(m) :
           Start("ui", "uninstall", IF active THEN "remove" ELSE "unstage", m)
    /\ UNCHANGED <<disk, screens>>

\* What can be read from an archive of version v: one that breaks off between
\* two entries is taken for a shorter one.  An archive in which plan_install
\* finds no file is refused and changes nothing.
Readable(v) == SUBSET FilesOf[v] \ {{}}

\* import_archive: plan_install has accepted the archive.
Importing(v, cancelled, stage, holds) ==
    [NoTask EXCEPT !.op = "import", !.stage = stage, !.mod = ModOf[v], !.ver = v,
                   !.cancelled = cancelled, !.holds = holds]

ImportFromCard(v) ==
    /\ UiFree
    /\ \E holds \in Readable(v) :
           task' = [task EXCEPT !["ui"] = Importing(v, FALSE, "extract", holds)]
    /\ UNCHANGED <<disk, screens>>

-------------------------------------------------------------------------------
(* The detail screen and the worker *)

OpenDetail ==
    /\ UiFree
    /\ screen' = "detail"
    /\ UNCHANGED <<disk, task, queue, posted, rows>>

TapDownload(v) ==
    /\ screen = "detail" /\ Idle("ui")
    /\ Len(queue) < MaxQueue
    /\ queue' = Append(queue, [ver |-> v, cancelled |-> FALSE])
    /\ UNCHANGED <<disk, task, screen, posted, rows>>

\* The screen is destroyed: its downloads are cancelled, its UI halves dropped.
Leave ==
    /\ screen' = "manager" /\ posted' = FALSE
    /\ queue' = [i \in DOMAIN queue |-> [queue[i] EXCEPT !.cancelled = TRUE]]
    /\ task' = IF Idle("worker") THEN task ELSE [task EXCEPT !["worker"].cancelled = TRUE]
    /\ UNCHANGED <<disk, rows>>

LeaveDetail == screen = "detail" /\ Leave
InstallDone == posted /\ Leave                      \* popActivity

StartDownload ==
    /\ Idle("worker") /\ queue # <<>>
    /\ LET q == Head(queue) IN
       task' = [task EXCEPT !["worker"] = Importing(q.ver, q.cancelled, "download", {})]
    /\ queue' = Tail(queue)
    /\ UNCHANGED <<disk, screen, posted, rows>>

\* The download fails, is aborted, or the archive is refused.
DownloadFail ==
    /\ task["worker"].stage = "download"
    /\ End("worker")
    /\ UNCHANGED <<disk, screens>>

\* The flag is read once more before the import; nothing reads it after that.
NotLeft == ~task["worker"].cancelled
DownloadDone ==
    /\ task["worker"].stage = "download" /\ NotLeft
    /\ LET k == task["worker"] IN
       \E holds \in Readable(k.ver) :
           task' = [task EXCEPT !["worker"] = Importing(k.ver, k.cancelled, "extract", holds)]
    /\ UNCHANGED <<disk, screens>>

\* The program ends, whatever it was doing, and is started anew with the
\* manager opened.
Restart ==
    /\ half' = (half \/ task["ui"].stage \in {"copy", "mark"})
    /\ task' = [t \in Threads |-> NoTask]
    /\ queue' = <<>> /\ screen' = "manager" /\ posted' = FALSE
    /\ rows' = List(dirs, marker)
    /\ UNCHANGED <<staged, dirs, live, marker>>

Next ==
    \/ \E m \in Mods : Enable(m) \/ Disable(m) \/ Uninstall(m)
    \/ \E v \in Versions : ImportFromCard(v) \/ TapDownload(v)
    \/ \E f \in Files : RemoveLive(f) \/ CopyOpen(f)
    \/ RemoveDone \/ ClearMarker
    \/ CopyWrite \/ CopyOverlook \/ CopyFail \/ CopyDone \/ WriteMarker
    \/ \E t \in Threads : ExtractWrite(t) \/ ExtractFail(t) \/ ExtractDone(t) \/ UnstageDone(t)
    \/ \E t \in Threads, f \in Files : ExtractOpen(t, f) \/ Unstage(t, f)
    \/ OpenDetail \/ LeaveDetail \/ InstallDone
    \/ StartDownload \/ DownloadFail \/ DownloadDone
    \/ Restart

Spec == Init /\ [][Next]_vars

-------------------------------------------------------------------------------
(* Properties *)

\* The range of every variable; the UI thread alone touches the romfs.
TypeOK ==
    /\ staged \in [Mods -> Trees]
    /\ dirs \subseteq Mods
    /\ live \in Trees
    /\ marker \in Mods \cup {None} /\ half \in BOOLEAN
    /\ task \in [Threads -> Tasks]
    /\ task["worker"].stage \in {"none", "download", "extract", "discard"}
    /\ queue \in Seq(Jobs)
    /\ screen \in {"manager", "detail"} /\ posted \in BOOLEAN
    /\ rows \in [Mods -> {"none", "off", "on"}]

\* enable_mod's comment "rather than a half-merged romfs": the romfs never
\* holds files of two mods, whatever fails, overlaps or breaks off.
OneModLive == \A f, g \in Present(live) : ModOf[live[f][1]] = ModOf[live[g][1]]

\* The mod that the marker (and so the screen) names as active is the one
\* whose files are in the romfs, also while one mod replaces another.
MarkerTells == marker # None => Owners(live) \subseteq {marker}

\* The marker is written when the romfs is a copy of the mod as the library
\* has it: nothing of another version and nothing that the library lacks, and
\* when no read error has passed for an end (fs_util.cpp), all of it.
EnabledIsStaged ==
    [][marker' # marker /\ marker' # None =>
           /\ \A f \in Present(live') : /\ f \in Present(staged[marker'])
                                        /\ live'[f][1] = staged[marker'][f][1]
           /\ task["ui"].slip \/ live' = staged[marker']]_vars

\* "If it is the active mod, disable it first" (mod_actions.hpp): a mod that
\* has been uninstalled is not in the romfs, unless an enabling of it broke off
\* and has left it there without a marker.
UninstalledIsGone ==
    [][LET k == task["ui"] IN
       k.op = "uninstall" /\ k.stage = "unstage" /\ task'["ui"] = NoTask /\ k.mod \notin dirs'
           => k.mod \notin Owners(live') \/ half']_vars

\* An import that is reported as done has put into the library every file that
\* the archive gave: whole, unless a flush has failed unnoticed.
ImportIsWhole ==
    [][\A t \in Threads : ExtractDone(t) =>
           LET k == task[t] IN
           \A f \in k.holds :
               staged'[k.mod][f] \in {<<k.ver, "whole">>}
                                     \cup (IF k.slip THEN {<<k.ver, "torn">>} ELSE {})]_vars
===============================================================================
