-------------------------------- MODULE Themes --------------------------------
(***************************************************************************)
(* Home menu themes: the detail screen (app/theme_detail_activity.cpp),    *)
(* the worker's jobs it starts (theme_download.cpp, theme_compat.cpp,      *)
(* theme_install.cpp, firmware_extract_switch.cpp) and what they keep on   *)
(* the card: downloaded folders, base layouts, the cache of compatibility  *)
(* checks, the live outputs and the record of the active theme.            *)
(*                                                                         *)
(* One worker thread runs the jobs in the order they were queued, a job's  *)
(* UI half runs only if the screen that queued it is still there.  A UI    *)
(* half is part of the job's last step: until it has run the screen is     *)
(* busy, unresolved or unchecked, and takes no tap that would notice.      *)
(* Dialogs that only ask to go on are part of the action they lead to.     *)
(* Left out: gallery and texts, the qlaunch patch and the fsmitm flags,    *)
(* which change no answer of this code.                                    *)
(***************************************************************************)
EXTENDS Naturals, Sequences, FiniteSets

CONSTANTS
    Themes,        \* theme entries (hex ids)
    Parts,         \* targets of the home menu: ResidentMenu, Entrance, ...
    PartsOf,       \* PartsOf[t]: the targets theme t has parts for
    Verdict,       \* Verdict[t][p]: what the engine makes of the part's layout
    Backgrounds,   \* <<t, p>> for the parts that have a background image
    MaxQueue,      \* bound on the worker's queue when a screen is opened
    Troubles,      \* faults of this instance, see AllTroubles
    None

\* A file that is no theme; a part without a layout; a layout that applies,
\* applies with parts dropped, or is refused by the engine.
Verdicts == {"invalid", "plain", "fits", "drops", "breaks"}

\* Writes of outputs and base layouts, of the record, and removals that
\* fail; the program ended while outputs change.
AllTroubles == {"write", "record", "remove", "kill"}

ASSUME ThemesAssumption ==
    /\ PartsOf \in [Themes -> SUBSET Parts]
    /\ Verdict \in [Themes -> [Parts -> Verdicts]]
    /\ Backgrounds \subseteq Themes \X Parts
    /\ MaxQueue \in Nat
    /\ Troubles \subseteq AllTroubles
    /\ None \notin Themes

VARIABLES
    base,      \* base[p]: the extracted layout of a target, see Layouts
    folder,    \* folder[t]: whether the theme's folder exists, and its parts in it
    cache,     \* cache[t]: remembered result of a complete check
    out,       \* out[p]: what LayeredFS holds for a target
    record,    \* the active theme and its targets, as .thomaz_active.json has it
    screen,    \* the detail screen
    queue,     \* the worker's jobs, the first one running
    task       \* progress of the running install, download or removal

Layouts == {"none", "empty", "torn", "whole"}

disk == <<base, folder, cache, out, record>>
vars == <<base, folder, cache, out, record, screen, queue, task>>

NoOutput == [theme |-> None, mode |-> "none"]
TornOutput == [theme |-> None, mode |-> "torn"]
NoRecord == [theme |-> None, targets |-> {}]
NoScreen == [theme |-> None, resolved |-> FALSE, busy |-> FALSE, downloaded |-> FALSE,
             applied |-> FALSE, checked |-> FALSE, risky |-> FALSE]
Idle == [on |-> FALSE, todo |-> {}, written |-> {}, before |-> [p \in Parts |-> NoOutput]]

\* A job; "asked": the user chose between full and background (history),
\* "dry": a check that may try the layouts.
Job(kind, t) == [kind |-> kind, theme |-> t, mode |-> "none", mine |-> TRUE,
                 cancel |-> FALSE, asked |-> FALSE, dry |-> FALSE]

Init ==
    /\ base \in [Parts -> {"none", "whole"}]
    /\ folder = [t \in Themes |-> [there |-> FALSE, parts |-> {}]]
    /\ cache = [t \in Themes |-> "none"]
    /\ out = [p \in Parts |-> NoOutput]
    /\ record = NoRecord
    /\ screen = NoScreen
    /\ queue = <<>>
    /\ task = Idle

-------------------------------------------------------------------------------
(* The screen *)

base_layouts_available(t) == PartsOf[t] # {} /\ \A p \in PartsOf[t] : base[p] # "none"

Set(fields) == [f \in DOMAIN screen |-> IF f \in DOMAIN fields THEN fields[f] ELSE screen[f]]

\* The progress modal is up: only its Cancel button can be reached.
Installing(q) ==
    \E i \in DOMAIN q : q[i].kind = "install" /\ q[i].mine /\ ~q[i].cancel

Open(t) ==
    /\ screen = NoScreen
    /\ Len(queue) < MaxQueue
    /\ screen' = [NoScreen EXCEPT !.theme = t]
    /\ queue' = Append(queue, Job("resolve", t))
    /\ UNCHANGED <<disk, task>>

\* Leaving orphans the screen's jobs; it cancels a download, not an install.
Leave ==
    /\ screen # NoScreen
    /\ ~Installing(queue)
    /\ screen' = NoScreen
    /\ queue' = [i \in DOMAIN queue |-> [queue[i] EXCEPT !.mine = FALSE]]
    /\ UNCHANGED <<disk, task>>

\* A tap on the action button, or what its dialogs lead to, starts a job.
CanTap == screen.resolved /\ ~screen.busy
Start(job) ==
    /\ queue' = Append(queue, job)
    /\ screen' = [screen EXCEPT !.busy = TRUE]
    /\ UNCHANGED <<disk, task>>

TapDownload ==
    /\ CanTap /\ ~screen.applied /\ ~screen.downloaded
    /\ Start(Job("download", screen.theme))

\* Not before the check has told how the theme fits.
TapApply == CanTap /\ ~screen.applied /\ screen.downloaded /\ screen.checked

\* showBaseMissingDialog: extract now.
Extract ==
    /\ TapApply
    /\ ~base_layouts_available(screen.theme)
    /\ Start(Job("extract", screen.theme))

InstallJob(mode, asked) ==
    [Job("install", screen.theme) EXCEPT !.mode = mode, !.asked = asked]

Apply ==
    /\ TapApply
    /\ base_layouts_available(screen.theme)
    /\ IF screen.risky
       THEN \E mode \in {"background", "full"} : Start(InstallJob(mode, TRUE))
       ELSE Start(InstallJob("full", FALSE))

Cancel ==
    /\ Installing(queue)
    /\ queue' = [i \in DOMAIN queue |->
           IF queue[i].mine THEN [queue[i] EXCEPT !.cancel = TRUE] ELSE queue[i]]
    /\ UNCHANGED <<disk, screen, task>>

TapRemove ==
    /\ CanTap /\ screen.applied
    /\ Start(Job("remove", screen.theme))

-------------------------------------------------------------------------------
(* The worker *)

job == Head(queue)
Running(kind) == queue # <<>> /\ job.kind = kind

\* The job ends; its UI half sets fields of its screen and may queue a job,
\* unless that screen was left.
FinishAnyway(fields, more) ==                         \* mutant: alive not asked
    /\ queue' = Tail(queue) \o more
    /\ screen' = IF screen = NoScreen THEN screen ELSE Set(fields)
    /\ task' = Idle
Finish(fields, more) ==
    /\ queue' = Tail(queue) \o (IF job.mine THEN more ELSE <<>>)
    /\ screen' = IF job.mine THEN Set(fields) ELSE screen
    /\ task' = Idle

Unbusy == [busy |-> FALSE]
Begin(todo) == task' = [on |-> TRUE, todo |-> todo, written |-> {}, before |-> out]

\* analyzeCompat: whether it may try the layouts is decided when it is queued.
Check(t) == [Job("check", t) EXCEPT !.dry = base_layouts_available(t)]

\* The folder is what tells that a theme is downloaded.
Resolve ==
    /\ Running("resolve") /\ ~task.on
    /\ LET t == job.theme IN
       \/ Finish([resolved |-> FALSE], <<>>)
       \/ Finish([resolved |-> TRUE, downloaded |-> folder[t].there, applied |-> record.theme = t],
                 IF folder[t].there THEN <<Check(t)>> ELSE <<>>)
    /\ UNCHANGED disk

\* download_theme: the folder, then part after part; a part that fails, as
\* it does soon after the screen was left, takes the whole folder away.
DownloadBegin ==
    /\ Running("download") /\ ~task.on
    /\ folder' = [folder EXCEPT ![job.theme].there = TRUE]
    /\ Begin(PartsOf[job.theme])
    /\ UNCHANGED <<base, cache, out, record, screen, queue>>

DownloadPart(p) ==
    /\ Running("download") /\ p \in task.todo
    /\ folder' = [folder EXCEPT ![job.theme].parts = @ \cup {p}]
    /\ task' = [task EXCEPT !.todo = @ \ {p}]
    /\ UNCHANGED <<base, cache, out, record, screen, queue>>

DownloadFail ==
    /\ Running("download") /\ task.on /\ task.todo # {}
    /\ folder' = [folder EXCEPT ![job.theme] = [there |-> FALSE, parts |-> {}]]
    /\ Finish(Unbusy, <<>>)
    /\ UNCHANGED <<base, cache, out, record>>

DownloadDone ==
    /\ Running("download") /\ task.on /\ task.todo = {}
    /\ Finish([busy |-> FALSE, downloaded |-> TRUE], <<Check(job.theme)>>)
    /\ UNCHANGED disk

\* analyze_part_compat: a layout that is not tried, for want of a base layout
\* or because it is an empty file, passes for safe.
PartRisky(t, p, dry) ==
    \/ Verdict[t][p] = "invalid"
    \/ /\ dry /\ base[p] \in {"torn", "whole"}
       /\ Verdict[t][p] # "plain"
       /\ base[p] = "torn" \/ Verdict[t][p] \in {"drops", "breaks"}
DryRunDone(t, dry) == dry /\ \E p \in folder[t].parts : base[p] # "none"
Analyze(t, dry) == \E p \in folder[t].parts : PartRisky(t, p, dry)

\* compat_cache_put keeps complete results only.
Remember(t, dry, risky) ==
    IF DryRunDone(t, dry)
    THEN [cache EXCEPT ![t] = IF risky THEN "risky" ELSE "safe"]
    ELSE cache

CheckTheme ==
    /\ Running("check") /\ ~task.on
    /\ LET t == job.theme
           hit == cache[t] # "none"
           risky == IF hit THEN cache[t] = "risky" ELSE Analyze(t, job.dry)
       IN  /\ cache' = IF hit THEN cache ELSE Remember(t, job.dry, risky)
           /\ Finish([checked |-> TRUE, risky |-> risky], <<>>)
    /\ UNCHANGED <<base, folder, out, record>>

-------------------------------------------------------------------------------
(* install_theme and remove_active_theme *)

\* The engine patches a part, or refuses it.
apply_nxtheme(t, p, mode) ==
    /\ base[p] = "whole"
    /\ Verdict[t][p] # "invalid"
    /\ IF mode = "full" THEN Verdict[t][p] # "breaks" ELSE <<t, p>> \in Backgrounds

\* What the call has written is removed, not restored.
RollbackNot(o) == o                                   \* mutant: early return without it
Rollback(o) == [p \in Parts |-> IF p \in task.written THEN NoOutput ELSE o[p]]

\* The screen has seen the base layouts, and nothing takes them away.
InstallBegin ==
    /\ Running("install") /\ ~task.on
    /\ Begin(PartsOf[job.theme])
    /\ UNCHANGED <<disk, screen, queue>>

\* An install can go on with a part when it is not cancelled.
Reached(p) == Running("install") /\ p \in task.todo /\ ~job.cancel

InstallPart(p) ==
    /\ Reached(p)
    /\ p \in folder[job.theme].parts
    /\ apply_nxtheme(job.theme, p, job.mode)
    /\ out' = [out EXCEPT ![p] = [theme |-> job.theme, mode |-> job.mode]]
    /\ task' = [task EXCEPT !.todo = @ \ {p}, !.written = @ \cup {p}]
    /\ UNCHANGED <<base, folder, cache, record, screen, queue>>

\* Background only: a part without a background is skipped.
InstallSkip(p) ==
    /\ Reached(p)
    /\ job.mode = "background" /\ p \in folder[job.theme].parts
    /\ ~apply_nxtheme(job.theme, p, job.mode)
    /\ task' = [task EXCEPT !.todo = @ \ {p}]
    /\ UNCHANGED <<disk, screen, queue>>

\* Cancelled, a file missing, the layout refused, or nothing applied.
InstallFails ==
    \/ task.todo # {} /\ job.cancel
    \/ \E p \in task.todo :
           \/ p \notin folder[job.theme].parts
           \/ job.mode = "full" /\ ~apply_nxtheme(job.theme, p, job.mode)
    \/ task.todo = {} /\ task.written = {}

InstallFail ==
    /\ Running("install") /\ task.on
    /\ InstallFails
    /\ out' = Rollback(out)
    /\ Finish(Unbusy, <<>>)
    /\ UNCHANGED <<base, folder, cache, record>>

\* An output that cannot be written is not yet in the list to roll back.
InstallWriteFail(p) ==
    /\ "write" \in Troubles
    /\ Reached(p)
    /\ p \in folder[job.theme].parts
    /\ apply_nxtheme(job.theme, p, job.mode)
    /\ out' \in {Rollback(out), Rollback([out EXCEPT ![p] = TornOutput])}
    /\ Finish(Unbusy, <<>>)
    /\ UNCHANGED <<base, folder, cache, record>>

\* set_active_theme; what it returns is not looked at.
RecordedInFull == [theme |-> job.theme, targets |-> PartsOf[job.theme]]  \* mutant: all targets
Recorded == [theme |-> job.theme, targets |-> task.written]

InstallDone ==
    /\ Running("install") /\ task.on
    /\ task.todo = {} /\ task.written # {}
    /\ record' \in {Recorded} \cup (IF "record" \in Troubles THEN {record, NoRecord} ELSE {})
    /\ Finish([busy |-> FALSE, applied |-> TRUE], <<>>)
    /\ UNCHANGED <<base, folder, cache, out>>

\* remove_active_theme: the recorded outputs, whatever theme's screen it is.
RemoveOutputs ==
    /\ Running("remove") /\ ~task.on
    /\ \E gone \in SUBSET record.targets :
           /\ gone = record.targets \/ "remove" \in Troubles
           /\ out' = [p \in Parts |-> IF p \in gone THEN NoOutput ELSE out[p]]
    /\ Begin({})
    /\ UNCHANGED <<base, folder, cache, record, screen, queue>>

clear_no_targets == [record EXCEPT !.targets = {}]    \* mutant: the file is kept
clear_active_theme == NoRecord

RemoveDone ==
    /\ Running("remove") /\ task.on
    /\ record' = clear_active_theme
    /\ Finish([busy |-> FALSE, applied |-> FALSE], <<>>)
    /\ UNCHANGED <<base, folder, cache, out>>

\* extract_all_base_layouts: the applet gate or the keys fail, or each
\* target is extracted or not.
ExtractAll ==
    /\ Running("extract") /\ ~task.on
    /\ base' \in {b \in [Parts -> Layouts] :
           \A p \in Parts : \/ b[p] \in {base[p], "whole"}
                            \/ b[p] \in {"torn", "empty"} /\ "write" \in Troubles}
    /\ Finish(Unbusy, <<>>)
    /\ UNCHANGED <<folder, cache, out, record>>

\* The program ends; with "kill", also while outputs are being changed.
Restart ==
    /\ task.on => job.kind = "download" \/ "kill" \in Troubles
    /\ screen' = NoScreen /\ queue' = <<>> /\ task' = Idle
    /\ out' \in {out} \cup (IF Running("install")
                             THEN {[out EXCEPT ![p] = TornOutput] : p \in task.todo} ELSE {})
    /\ UNCHANGED <<base, folder, cache, record>>

-------------------------------------------------------------------------------

User ==
    \/ \E t \in Themes : Open(t)
    \/ Leave \/ TapDownload \/ Extract \/ Apply \/ Cancel \/ TapRemove

Worker ==
    \/ Resolve
    \/ DownloadBegin \/ DownloadFail \/ DownloadDone
    \/ CheckTheme
    \/ InstallBegin \/ InstallFail \/ InstallDone
    \/ \E p \in Parts :
           DownloadPart(p) \/ InstallPart(p) \/ InstallSkip(p) \/ InstallWriteFail(p)
    \/ RemoveOutputs \/ RemoveDone
    \/ ExtractAll

Next == User \/ Worker \/ Restart

Spec == Init /\ [][Next]_vars

-------------------------------------------------------------------------------
(* Properties *)

Outputs == {NoOutput, TornOutput} \cup [theme : Themes, mode : {"full", "background"}]
Jobs == [kind : {"resolve", "download", "check", "install", "remove", "extract"},
         theme : Themes, mode : {"none", "full", "background"}, mine : BOOLEAN,
         cancel : BOOLEAN, asked : BOOLEAN, dry : BOOLEAN]

\* The range of every variable; nothing is under way without a job.
TypeOK ==
    /\ base \in [Parts -> Layouts]
    /\ folder \in [Themes -> [there : BOOLEAN, parts : SUBSET Parts]]
    /\ cache \in [Themes -> {"none", "safe", "risky"}]
    /\ out \in [Parts -> Outputs]
    /\ record \in [theme : Themes \cup {None}, targets : SUBSET Parts]
    /\ screen \in [theme : Themes \cup {None}, resolved : BOOLEAN, busy : BOOLEAN,
                   downloaded : BOOLEAN, applied : BOOLEAN, checked : BOOLEAN,
                   risky : BOOLEAN]
    /\ queue \in Seq(Jobs)
    /\ task \in [on : BOOLEAN, todo : SUBSET Parts, written : SUBSET Parts,
                 before : [Parts -> Outputs]]
    /\ task.on => queue # <<>>
    /\ record.theme = None <=> record.targets = {}

\* What the record says of the card: while no install runs, a recorded
\* target holds the recorded theme's output or nothing, so "Remove Theme"
\* never takes another theme's file, whatever installs failed, were
\* cancelled or replaced one another.
RecordNotForeign ==
    ~(Running("install") /\ task.on) =>
        \A p \in record.targets : out[p].theme \in {record.theme, None}

\* The button of a screen that is not busy tells the truth: it says Remove
\* exactly when this theme is the recorded one.
AppliedShown ==
    screen.resolved /\ ~screen.busy => (screen.applied <=> record.theme = screen.theme)

\* "Don't let the user apply until the compatibility check has finished -
\* otherwise an unverified theme would be treated as Safe"
\* (theme_detail_activity.cpp): an output with a layout the engine has trouble
\* with goes live only after the user was asked.
RiskIsAsked ==
    [][\A p \in Parts :
           out'[p] # out[p] /\ out'[p].mode = "full" /\ ~job.asked
               => Verdict[job.theme][p] \in {"plain", "fits"}]_vars

\* theme_install.cpp 92-94 ("so we never leave a half-installed theme"):
\* an install that ends either recorded what it wrote or has left none of
\* it, save the one file whose write failed; what was there before is at
\* most gone.  (The program ended in the middle, "kill", is another case.)
AllOrNothing ==
    [][Running("install") /\ task.on /\ ~task'.on =>
           \/ record' = Recorded
           \/ \A p \in Parts : out'[p] \in {task.before[p], NoOutput, TornOutput}]_vars
===============================================================================
