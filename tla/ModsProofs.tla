------------------------------ MODULE ModsProofs ------------------------------
(***************************************************************************)
(* Theorems about Mods: the romfs is of one mod whatever fails, overlaps   *)
(* or breaks off; the marker tells which one and is written for a copy of  *)
(* what the library holds, an uninstalled mod is gone, and an import that  *)
(* is done has what its archive gave, each without the trouble it names.   *)
(***************************************************************************)
EXTENDS Mods, TLAPS

-------------------------------------------------------------------------------
(* The inductive invariants *)

Stage(t) == task[t].stage
ModAt(t) == task[t].mod

\* Every file that the tree holds is of mod m.
Of(tree, m) == \A f \in Files : tree[f] # None => ModOf[tree[f][1]] = m

\* A task names its mod; an import names a version of it.
TaskInv ==
    \A t \in Threads :
        /\ Stage(t) # "none" => ModAt(t) \in Mods
        /\ Stage(t) \in {"download", "extract"} =>
               task[t].ver \in Versions /\ ModAt(t) = ModOf[task[t].ver]

\* Each directory of the library holds files of its mod; the romfs is empty
\* before a copy starts, and then of the mod that is copied.
StagedInv == \A m \in Mods : Of(staged[m], m)
LiveInv ==
    /\ Stage("ui") = "clear" => live = Empty
    /\ Stage("ui") \in {"copy", "mark"} => Of(live, ModAt("ui"))

Inv == TypeOK /\ TaskInv /\ StagedInv /\ LiveInv /\ OneModLive

\* The marker is gone before a copy starts.
MarkerInv ==
    /\ Stage("ui") \in {"copy", "mark"} => marker = None
    /\ marker # None => Of(live, marker)

\* Without overlap the worker rests while the manager works, and what has
\* been copied is of the version that the library holds: all of it, unless an
\* error has passed unnoticed.
AloneInv == ~Idle("ui") => Idle("worker") /\ queue = <<>>
SameVersion(tree, src) ==
    \A f \in Files : tree[f] # None => src[f] # None /\ tree[f][1] = src[f][1]
CopyInv ==
    /\ Stage("ui") \in {"copy", "mark"} => SameVersion(live, staged[ModAt("ui")])
    /\ Stage("ui") = "copy" =>
           /\ task["ui"].at # None => staged[ModAt("ui")][task["ui"].at] # None
           /\ ~task["ui"].slip =>
                  \A f \in Files :
                      /\ f \in task["ui"].seen => live[f] = staged[ModAt("ui")][f]
                      /\ f \notin task["ui"].seen /\ f # task["ui"].at => live[f] = None
    /\ Stage("ui") = "mark" /\ ~task["ui"].slip => live = staged[ModAt("ui")]

\* A romfs that holds something is marked or about to be, or has been left by
\* an enabling that broke off, and the marker is not of the mod that is being
\* uninstalled.
AppliedInv ==
    /\ live # Empty /\ Stage("ui") \notin {"copy", "mark"} => marker # None \/ half
    /\ Stage("ui") = "unstage" => marker # ModAt("ui")

-------------------------------------------------------------------------------
(* Trees of files *)

Put(tree, f, c) == [tree EXCEPT ![f] = c]

LEMMA OfEmpty == Empty \in Trees /\ Present(Empty) = {} /\ \A m \in Mods : Of(Empty, m)
BY DEF Empty, Trees, Present, Of

LEMMA OfRemoved ==
    ASSUME NEW tree \in Trees, NEW f \in Files
    PROVE  /\ Removed(tree, f) \in Trees
           /\ \A m \in Mods : Of(tree, m) => Of(Removed(tree, f), m)
BY DEF Removed, Trees, Of

LEMMA OfPut ==
    ASSUME NEW tree \in Trees, NEW f \in Files, NEW c \in Written
    PROVE  /\ Put(tree, f, c) \in Trees
           /\ \A m \in Mods : Of(tree, m) /\ ModOf[c[1]] = m => Of(Put(tree, f, c), m)
BY DEF Put, Trees, Of

\* A tree of one mod satisfies OneModLive, and so does what remains of it.
LEMMA OneOf ==
    ASSUME NEW m \in Mods, Of(live, m)
    PROVE  OneModLive
BY DEF Of, OneModLive, Present

\* Replacing the directory of one mod.
LEMMA StagedPut ==
    ASSUME TypeOK, StagedInv, NEW m \in Mods, NEW tree \in Trees, Of(tree, m),
           staged' = [staged EXCEPT ![m] = tree]
    PROVE  staged' \in [Mods -> Trees] /\ StagedInv'
BY DEF TypeOK, StagedInv

LEMMA ListType ==
    ASSUME NEW d, NEW k
    PROVE  List(d, k) \in [Mods -> {"none", "off", "on"}]
BY DEF List

-------------------------------------------------------------------------------
(* Steps of a task *)

Stages == {"none", "download", "extract", "discard", "remove", "clear", "copy", "mark", "unstage"}

LEMMA Idling ==
    /\ NoTask \in Tasks /\ NoTask.stage = "none" /\ NoTask.mod = None
    /\ NoTask.at = None /\ NoTask.seen = {} /\ NoTask.slip = FALSE
BY DEF NoTask, Tasks

LEMMA Entering ==
    ASSUME TypeOK, NEW t \in Threads, NEW s \in Stages, Enter(t, s)
    PROVE  /\ task' \in [Threads -> Tasks]
           /\ task'[t].stage = s /\ task'[t].mod = task[t].mod /\ task'[t].ver = task[t].ver
           /\ task'[t].at = None /\ task'[t].seen = {} /\ task'[t].slip = task[t].slip
           /\ \A u \in Threads : u # t => task'[u] = task[u]
<1>1. task \in [Threads -> Tasks]
    BY DEF TypeOK
<1>2. task[t] \in Tasks
    BY <1>1
<1>3. task' = [task EXCEPT ![t] = [task[t] EXCEPT !.stage = s, !.at = None, !.seen = {}]]
    BY <1>1 DEF Enter
<1>4. [task[t] EXCEPT !.stage = s, !.at = None, !.seen = {}] \in Tasks
    BY <1>2 DEF Tasks, Stages
<1>5. task'[t] = [task[t] EXCEPT !.stage = s, !.at = None, !.seen = {}]
    BY <1>1, <1>3
<1>6. \A u \in Threads : u # t => task'[u] = task[u]
    BY <1>1, <1>3
<1>7. task' \in [Threads -> Tasks]
    BY <1>1, <1>3, <1>4
<1> QED BY <1>2, <1>5, <1>6, <1>7 DEF Tasks

LEMMA Ending ==
    ASSUME TypeOK, NEW t \in Threads, End(t)
    PROVE  /\ task' \in [Threads -> Tasks] /\ task'[t] = NoTask
           /\ \A u \in Threads : u # t => task'[u] = task[u]
BY Idling DEF End, TypeOK

\* A step within a stage: only the file at hand, the files seen and the slip
\* change.
LEMMA Seeing ==
    ASSUME TypeOK, NEW t \in Threads, NEW g \in Files \cup {None},
           NEW seen \in SUBSET Files, NEW slip \in BOOLEAN,
           task' = [task EXCEPT ![t].at = g, ![t].seen = seen, ![t].slip = slip]
    PROVE  /\ task' \in [Threads -> Tasks]
           /\ task'[t].stage = task[t].stage /\ task'[t].mod = task[t].mod
           /\ task'[t].ver = task[t].ver /\ task'[t].at = g /\ task'[t].seen = seen
           /\ task'[t].holds = task[t].holds /\ task'[t].slip = slip
           /\ \A u \in Threads : u # t => task'[u] = task[u]
<1>1. task \in [Threads -> Tasks] /\ task[t] \in Tasks
    BY DEF TypeOK
<1>2. task' = [task EXCEPT ![t] = [task[t] EXCEPT !.at = g, !.seen = seen, !.slip = slip]]
    BY <1>1
<1>3. [task[t] EXCEPT !.at = g, !.seen = seen, !.slip = slip] \in Tasks
    BY <1>1 DEF Tasks
<1>4. task'[t] = [task[t] EXCEPT !.at = g, !.seen = seen, !.slip = slip]
    BY <1>1, <1>2
<1>5. \A u \in Threads : u # t => task'[u] = task[u]
    BY <1>1, <1>2
<1> QED BY <1>1, <1>2, <1>3, <1>4, <1>5 DEF Tasks

\* Steps of the stages in which nothing is imported keep TaskInv.
LEMMA EnteringInv ==
    ASSUME TypeOK, TaskInv, NEW t \in Threads, Stage(t) # "none",
           NEW s \in Stages \ {"none", "download", "extract"}, Enter(t, s)
    PROVE  TaskInv'
BY Entering DEF TaskInv, Stage, ModAt

LEMMA EndingInv ==
    ASSUME TypeOK, TaskInv, NEW t \in Threads, End(t)
    PROVE  TaskInv'
BY Ending, Idling DEF TaskInv, Stage, ModAt

\* A step within a stage.
Within(t) ==
    \E g \in Files \cup {None}, seen \in SUBSET Files, slip \in BOOLEAN :
        task' = [task EXCEPT ![t].at = g, ![t].seen = seen, ![t].slip = slip]

LEMMA WithinInv ==
    ASSUME TypeOK, TaskInv, NEW t \in Threads, Within(t)
    PROVE  /\ TaskInv' /\ task' \in [Threads -> Tasks]
           /\ Stage(t)' = Stage(t) /\ ModAt(t)' = ModAt(t) /\ task'[t].ver = task[t].ver
           /\ \A u \in Threads : u # t => task'[u] = task[u]
<1>1. PICK g \in Files \cup {None}, seen \in SUBSET Files, slip \in BOOLEAN :
          task' = [task EXCEPT ![t].at = g, ![t].seen = seen, ![t].slip = slip]
    BY DEF Within
<1>2. /\ task' \in [Threads -> Tasks]
      /\ task'[t].stage = task[t].stage /\ task'[t].mod = task[t].mod
      /\ task'[t].ver = task[t].ver
      /\ \A u \in Threads : u # t => task'[u] = task[u]
    BY <1>1, Seeing
<1>3. TaskInv'
    BY <1>2 DEF TaskInv, Stage, ModAt
<1> QED BY <1>2, <1>3 DEF Stage, ModAt

LEMMA WithinForms ==
    ASSUME TypeOK, NEW t \in Threads, NEW f \in Files, NEW b \in BOOLEAN
    PROVE  /\ Kept(t, f) => Within(t)
           /\ task' = [task EXCEPT ![t].at = f] => Within(t)
           /\ task' = [task EXCEPT ![t].seen = Files, ![t].slip = TRUE] => Within(t)
           /\ task[t].at = f /\ task' = [task EXCEPT ![t].at = None, ![t].seen = @ \cup {f},
                                                    ![t].slip = @ \/ b]
                  => Within(t)
<1>1. task \in [Threads -> Tasks] /\ task[t] \in Tasks
    BY DEF TypeOK
<1>2. /\ task[t].at \in Files \cup {None} /\ task[t].seen \in SUBSET Files
      /\ task[t].seen \cup {f} \in SUBSET Files /\ task[t].slip \in BOOLEAN
    BY <1>1 DEF Tasks
<1>3. ASSUME Kept(t, f)
      PROVE  Within(t)
    <2>1. [task[t] EXCEPT !.seen = task[t].seen \cup {f}]
              = [task[t] EXCEPT !.at = task[t].at, !.seen = task[t].seen \cup {f}, !.slip = task[t].slip]
        BY <1>1 DEF Tasks
    <2>2. task' = [task EXCEPT ![t].at = task[t].at, ![t].seen = task[t].seen \cup {f},
                               ![t].slip = task[t].slip]
        BY <1>1, <1>3, <2>1 DEF Kept
    <2> QED BY <1>2, <2>2 DEF Within
<1>4. ASSUME task' = [task EXCEPT ![t].at = f]
      PROVE  Within(t)
    <2>1. [task[t] EXCEPT !.at = f]
              = [task[t] EXCEPT !.at = f, !.seen = task[t].seen, !.slip = task[t].slip]
        BY <1>1 DEF Tasks
    <2>2. task' = [task EXCEPT ![t].at = f, ![t].seen = task[t].seen, ![t].slip = task[t].slip]
        BY <1>1, <1>4, <2>1
    <2> QED BY <1>2, <2>2 DEF Within
<1>5. ASSUME task' = [task EXCEPT ![t].seen = Files, ![t].slip = TRUE]
      PROVE  Within(t)
    <2>1. [task[t] EXCEPT !.seen = Files, !.slip = TRUE]
              = [task[t] EXCEPT !.at = task[t].at, !.seen = Files, !.slip = TRUE]
        BY <1>1 DEF Tasks
    <2>2. task' = [task EXCEPT ![t].at = task[t].at, ![t].seen = Files, ![t].slip = TRUE]
        BY <1>1, <1>5, <2>1
    <2> QED BY <1>2, <2>2 DEF Within
<1>6. ASSUME task[t].at = f, task' = [task EXCEPT ![t].at = None, ![t].seen = @ \cup {f},
                                                 ![t].slip = @ \/ b]
      PROVE  Within(t)
    <2>1. PICK slip \in BOOLEAN : slip = (task[t].slip \/ b)
        BY <1>2
    <2>2. task' = [task EXCEPT ![t].at = None, ![t].seen = task[t].seen \cup {f}, ![t].slip = slip]
        BY <1>1, <1>6, <2>1
    <2> QED BY <1>2, <2>2 DEF Within
<1> QED BY <1>3, <1>4, <1>5, <1>6

\* What is written or overlooked is within its stage.
LEMMA WithinSteps ==
    ASSUME TypeOK
    PROVE  /\ \A t \in Threads : ExtractWrite(t) => Within(t)
           /\ CopyWrite \/ CopyOverlook => Within("ui")
<1>0. task \in [Threads -> Tasks] /\ "ui" \in Threads
    BY DEF TypeOK, Threads
<1>1. ASSUME NEW t \in Threads, ExtractWrite(t)
      PROVE  Within(t)
    <2>1. PICK x \in {"whole", "torn"} :
              task' = [task EXCEPT ![t].at = None, ![t].seen = @ \cup {task[t].at},
                                   ![t].slip = @ \/ x = "torn"]
        BY <1>1 DEF ExtractWrite
    <2>2. task[t].at \in Files
        BY <1>0, <1>1 DEF ExtractWrite, Tasks
    <2>3. (x = "torn") \in BOOLEAN
        OBVIOUS
    <2> QED BY <2>1, <2>2, <2>3, WithinForms
<1>2. ASSUME CopyWrite
      PROVE  Within("ui")
    <2> DEFINE f == task["ui"].at
               src == staged[task["ui"].mod][f]
    <2>1. PICK c \in {src} \cup (IF src = None THEN {} ELSE {<<src[1], "torn">>}) :
              task' = [task EXCEPT !["ui"].at = None, !["ui"].seen = @ \cup {f},
                                   !["ui"].slip = @ \/ c # src]
        BY <1>2 DEF CopyWrite
    <2>2. f \in Files
        BY <1>0, <1>2 DEF CopyWrite, Tasks
    <2>3. (c # src) \in BOOLEAN
        OBVIOUS
    <2> QED BY <1>0, <2>1, <2>2, <2>3, WithinForms
<1>3. ASSUME CopyOverlook
      PROVE  Within("ui")
    <2>1. Files # {}
        BY <1>3 DEF CopyOverlook, Present
    <2> QED BY <1>0, <1>3, <2>1, WithinForms DEF CopyOverlook
<1> QED BY <1>1, <1>2, <1>3

-------------------------------------------------------------------------------
(* The romfs is of one mod *)

LEMMA InvInit == Init => Inv
<1> SUFFICES ASSUME Init
             PROVE  Inv
    OBVIOUS
<1>1. TypeOK
    <2>1. task \in [Threads -> Tasks] /\ task["worker"].stage = "none"
        BY Idling DEF Init, Threads
    <2>2. staged \in [Mods -> Trees] /\ live \in Trees
        BY OfEmpty DEF Init
    <2>3. queue \in Seq(Jobs) /\ rows \in [Mods -> {"none", "off", "on"}]
        BY DEF Init
    <2> QED BY <2>1, <2>2, <2>3 DEF Init, TypeOK
<1>2. TaskInv
    BY Idling DEF Init, TaskInv, Stage, ModAt
<1>3. StagedInv
    BY OfEmpty DEF Init, StagedInv
<1>4. LiveInv /\ OneModLive
    BY OfEmpty, Idling DEF Init, LiveInv, OneModLive, Stage, Threads
<1> QED BY <1>1, <1>2, <1>3, <1>4 DEF Inv

\* Removing what the game is started with.
LEMMA RemovingInv ==
    ASSUME Inv, \/ \E f \in Files : RemoveLive(f)
                \/ RemoveDone
                \/ ClearMarker
    PROVE  Inv'
<1> USE DEF Inv, Threads
<1>0. "ui" \in Threads
    OBVIOUS
<1>1. ASSUME NEW f \in Files, RemoveLive(f)
      PROVE  Inv'
    <2> USE <1>1
    <2>1. UNCHANGED <<staged, dirs, marker, half, screens>> /\ Stage("ui") = "remove"
        BY DEF RemoveLive, Stage
    <2>2. CASE live' = Removed(live, f) /\ UNCHANGED task
        <3>1. live' \in Trees /\ OneModLive'
            BY <2>2, OfRemoved DEF TypeOK, OneModLive, Present, Removed, Trees
        <3> QED BY <2>1, <2>2, <3>1 DEF TypeOK, TaskInv, StagedInv, LiveInv, screens, Stage, ModAt
    <2>3. CASE Kept("ui", f) /\ UNCHANGED live
        <3>1. TaskInv' /\ task' \in [Threads -> Tasks]
              /\ Stage("ui")' = "remove" /\ task'["worker"] = task["worker"]
            BY <1>0, <2>1, <2>3, WithinForms, WithinInv
        <3> QED BY <2>1, <2>3, <3>1 DEF TypeOK, StagedInv, LiveInv, OneModLive, screens
    <2> QED BY <2>2, <2>3 DEF RemoveLive
<1>2. ASSUME RemoveDone
      PROVE  Inv'
    <2> USE <1>2
    <2>1. /\ UNCHANGED <<staged, dirs, live, marker, queue, screen, posted>>
          /\ Stage("ui") = "remove" /\ half' \in BOOLEAN
        BY DEF RemoveDone, Stage, TypeOK
    <2>2. rows' \in [Mods -> {"none", "off", "on"}]
        BY ListType DEF RemoveDone, Refresh, TypeOK
    <2>3. CASE AllRemoved /\ Enter("ui", "clear")
        <3>1. live = Empty
            BY <2>3 DEF AllRemoved, Present, Empty, TypeOK, Trees
        <3>2. TaskInv' /\ task' \in [Threads -> Tasks]
              /\ Stage("ui")' = "clear" /\ task'["worker"] = task["worker"]
            BY <1>0, <2>1, <2>3, Entering, EnteringInv DEF Stage, Stages
        <3> QED BY <2>1, <2>2, <3>1, <3>2 DEF TypeOK, StagedInv, LiveInv, OneModLive
    <2>4. CASE End("ui")
        <3>1. TaskInv' /\ task' \in [Threads -> Tasks]
              /\ Stage("ui")' = "none" /\ task'["worker"] = task["worker"]
            BY <1>0, <2>4, Ending, EndingInv, Idling DEF Stage
        <3> QED BY <2>1, <2>2, <3>1 DEF TypeOK, StagedInv, LiveInv, OneModLive
    <2> QED BY <2>3, <2>4 DEF RemoveDone
<1>3. ASSUME ClearMarker
      PROVE  Inv'
    <2> USE <1>3
    <2>1. UNCHANGED <<staged, dirs, live, half, queue, screen, posted>> /\ Stage("ui") = "clear"
        BY DEF ClearMarker, Stage
    <2>2. marker' \in Mods \cup {None} /\ live = Empty
        BY <2>1 DEF ClearMarker, Cleared, TypeOK, LiveInv
    <2>3. rows' \in [Mods -> {"none", "off", "on"}]
        BY ListType DEF ClearMarker, Refresh, TypeOK
    <2>4. ASSUME NEW s \in {"copy", "unstage"}, Enter("ui", s)
          PROVE  Inv'
        <3>1. /\ TaskInv' /\ task' \in [Threads -> Tasks] /\ Stage("ui")' = s
              /\ ModAt("ui")' = ModAt("ui") /\ task'["worker"] = task["worker"]
            BY <1>0, <2>1, <2>4, Entering, EnteringInv DEF Stage, Stages, ModAt
        <3>2. ModAt("ui") \in Mods
            BY <1>0, <2>1 DEF TaskInv
        <3>3. LiveInv'
            BY <2>1, <2>2, <3>1, <3>2, OfEmpty DEF LiveInv
        <3> QED BY <2>1, <2>2, <2>3, <3>1, <3>3 DEF TypeOK, StagedInv, OneModLive
    <2>5. CASE End("ui")
        <3>1. TaskInv' /\ task' \in [Threads -> Tasks]
              /\ Stage("ui")' = "none" /\ task'["worker"] = task["worker"]
            BY <1>0, <2>5, Ending, EndingInv, Idling DEF Stage
        <3> QED BY <2>1, <2>2, <2>3, <3>1 DEF TypeOK, StagedInv, LiveInv, OneModLive
    <2> QED BY <2>4, <2>5 DEF ClearMarker
<1> QED BY <1>1, <1>2, <1>3

\* Copying a mod and marking it.
LEMMA CopyingInv ==
    ASSUME Inv, \/ \E f \in Files : CopyOpen(f)
                \/ CopyWrite
                \/ CopyOverlook
                \/ CopyFail
                \/ CopyDone
                \/ WriteMarker
    PROVE  Inv'
<1> USE DEF Inv, Threads
<1> DEFINE m == ModAt("ui")
<1>0. "ui" \in Threads /\ task["ui"] \in Tasks
    BY DEF TypeOK
<1>1. ASSUME NEW f \in Files, NEW c \in Written, m \in Mods, ModOf[c[1]] = m,
             Stage("ui") = "copy", live' = Put(live, f, c), Within("ui"),
             UNCHANGED <<staged, dirs, marker, half, screens>>
      PROVE  Inv'
    <2>1. TaskInv' /\ task' \in [Threads -> Tasks] /\ Stage("ui")' = "copy"
          /\ ModAt("ui")' = m /\ task'["worker"] = task["worker"]
        BY <1>0, <1>1, WithinInv
    <2>2. live' \in Trees /\ Of(live', m)
        BY <1>1, OfPut DEF TypeOK, LiveInv
    <2>3. LiveInv' /\ OneModLive'
        BY <1>1, <2>1, <2>2 DEF LiveInv, Of, OneModLive, Present
    <2> QED BY <1>1, <2>1, <2>2, <2>3 DEF TypeOK, StagedInv, screens
<1>2. ASSUME NEW f \in Files, m \in Mods, staged[m][f] # None
      PROVE  staged[m][f] \in Written /\ ModOf[staged[m][f][1]] = m /\ staged[m][f][1] \in Versions
    <2>1. staged[m] \in Trees
        BY <1>2 DEF TypeOK
    <2>2. staged[m][f] \in Written
        BY <1>2, <2>1 DEF Trees
    <2>3. ModOf[staged[m][f][1]] = m
        BY <1>2 DEF StagedInv, Of
    <2> QED BY <2>2, <2>3 DEF Written
<1>3. Stage("ui") # "none" => m \in Mods
    BY <1>0 DEF TaskInv
<1>4. ASSUME NEW f \in Files, CopyOpen(f)
      PROVE  Inv'
    <2>1. /\ Stage("ui") = "copy" /\ m \in Mods /\ staged[m][f] # None
          /\ live' = Put(live, f, <<staged[m][f][1], "torn">>)
          /\ UNCHANGED <<staged, dirs, marker, half, screens>>
        BY <1>3, <1>4 DEF CopyOpen, Put, Present, Stage, ModAt
    <2>2. <<staged[m][f][1], "torn">> \in Written
        BY <1>2, <2>1 DEF Written
    <2>3. Within("ui")
        BY <1>0, <1>4, WithinForms DEF CopyOpen
    <2> QED BY <1>1, <1>2, <2>1, <2>2, <2>3
<1>5. ASSUME CopyWrite
      PROVE  Inv'
    <2> DEFINE f == task["ui"].at
               src == staged[m][f]
    <2>1. PICK c \in {src} \cup (IF src = None THEN {} ELSE {<<src[1], "torn">>}) :
              live' = [live EXCEPT ![f] = c]
        BY <1>5 DEF CopyWrite, ModAt
    <2>2. /\ Stage("ui") = "copy" /\ m \in Mods /\ f \in Files /\ live' = Put(live, f, c)
          /\ UNCHANGED <<staged, dirs, marker, half, screens>>
        BY <1>0, <1>3, <1>5, <2>1 DEF CopyWrite, Put, Stage, Tasks
    <2>3. Within("ui")
        BY <1>5, WithinSteps
    <2>4. CASE src # None
        <3>1. c \in Written /\ ModOf[c[1]] = m
            <4>1. src \in Written /\ ModOf[src[1]] = m /\ src[1] \in Versions
                BY <1>2, <2>2, <2>4
            <4>2. c = src \/ c = <<src[1], "torn">>
                BY <2>1
            <4> HIDE DEF src, f
            <4> QED BY <4>1, <4>2 DEF Written
        <3> QED BY <1>1, <2>2, <2>3, <3>1
    <2>5. CASE src = None
        <3>1. live' = Removed(live, f)
            BY <2>1, <2>2, <2>5 DEF Put, Removed
        <3>2. live' \in Trees /\ Of(live', m)
            BY <2>2, <3>1, OfRemoved DEF TypeOK, LiveInv
        <3>3. TaskInv' /\ task' \in [Threads -> Tasks] /\ Stage("ui")' = "copy"
              /\ ModAt("ui")' = m /\ task'["worker"] = task["worker"]
            BY <1>0, <2>2, <2>3, WithinInv
        <3>4. LiveInv' /\ OneModLive'
            BY <2>2, <3>2, <3>3 DEF LiveInv, Of, OneModLive, Present
        <3> QED BY <2>2, <3>2, <3>3, <3>4 DEF TypeOK, StagedInv, screens
    <2> QED BY <2>4, <2>5
<1>9. ASSUME CopyOverlook
      PROVE  Inv'
    <2>2. Within("ui")
        BY <1>9, WithinSteps
    <2>3. TaskInv' /\ task' \in [Threads -> Tasks] /\ Stage("ui")' = "copy" /\ Stage("ui") = "copy"
          /\ ModAt("ui")' = m /\ task'["worker"] = task["worker"]
        BY <1>0, <1>9, <2>2, WithinInv DEF CopyOverlook, Stage
    <2> QED BY <1>9, <2>3 DEF CopyOverlook, disk, screens, TypeOK, StagedInv, LiveInv, OneModLive
<1>6. ASSUME CopyFail
      PROVE  Inv'
    <2>1. TaskInv' /\ task' \in [Threads -> Tasks]
          /\ Stage("ui")' = "none" /\ task'["worker"] = task["worker"]
        BY <1>0, <1>6, Ending, EndingInv, Idling DEF Stage, CopyFail
    <2> QED BY <1>6, <2>1 DEF CopyFail, screens, TypeOK, StagedInv, LiveInv, OneModLive
<1>7. ASSUME CopyDone
      PROVE  Inv'
    <2>1. Stage("ui") = "copy" /\ Enter("ui", "mark") /\ UNCHANGED <<disk, screens>>
        BY <1>7 DEF CopyDone, Stage
    <2>2. TaskInv' /\ task' \in [Threads -> Tasks] /\ Stage("ui")' = "mark"
          /\ ModAt("ui")' = m /\ task'["worker"] = task["worker"]
        BY <1>0, <2>1, Entering, EnteringInv DEF Stage, Stages, ModAt
    <2> QED BY <2>1, <2>2 DEF disk, screens, TypeOK, StagedInv, LiveInv, OneModLive
<1>8. ASSUME WriteMarker
      PROVE  Inv'
    <2>1. TaskInv' /\ task' \in [Threads -> Tasks]
          /\ Stage("ui")' = "none" /\ task'["worker"] = task["worker"]
        BY <1>0, <1>8, Ending, EndingInv, Idling DEF Stage, WriteMarker
    <2>2. UNCHANGED <<staged, dirs, live, queue, screen, posted>> /\ half' \in BOOLEAN
        BY <1>8 DEF WriteMarker
    <2>3. marker' \in Mods \cup {None}
        BY <1>3, <1>8 DEF WriteMarker, Stage, ModAt
    <2>4. rows' \in [Mods -> {"none", "off", "on"}]
        BY <1>8, ListType DEF WriteMarker, Refresh, TypeOK
    <2> QED BY <2>1, <2>2, <2>3, <2>4 DEF TypeOK, StagedInv, LiveInv, OneModLive
<1> QED BY <1>4, <1>5, <1>6, <1>7, <1>8, <1>9

\* Importing into the library and removing from it.
LEMMA LibraryInv ==
    ASSUME Inv, NEW t \in Threads,
           \/ ExtractWrite(t) \/ ExtractFail(t) \/ ExtractDone(t) \/ UnstageDone(t)
           \/ \E f \in Files : ExtractOpen(t, f) \/ Unstage(t, f)
    PROVE  Inv'
<1> USE DEF Inv
<1> DEFINE m == ModAt(t)
<1>0. task[t] \in Tasks /\ Threads = {"ui", "worker"}
    BY DEF TypeOK, Threads
<1>1. Stage(t) # "none" => m \in Mods
    BY DEF TaskInv
<1>2. ASSUME NEW f \in Files, NEW tree \in Trees, m \in Mods, Of(tree, m),
             staged' = [staged EXCEPT ![m] = tree], Within(t),
             dirs' \subseteq Mods, Stage(t) \in {"extract", "unstage", "discard"},
             UNCHANGED <<live, marker, half, screens>>
      PROVE  Inv'
    <2>1. TaskInv' /\ task' \in [Threads -> Tasks] /\ Stage(t)' = Stage(t)
          /\ \A u \in Threads : u # t => task'[u] = task[u]
        BY <1>2, WithinInv
    <2>2. staged' \in [Mods -> Trees] /\ StagedInv'
        BY <1>2, StagedPut
    <2>3. task'["worker"].stage \in {"none", "download", "extract", "discard"}
        BY <1>0, <2>1 DEF TypeOK, Stage
    <2>4. LiveInv'
        BY <1>0, <1>2, <2>1 DEF LiveInv, Stage, ModAt
    <2> QED BY <1>2, <2>1, <2>2, <2>3, <2>4 DEF TypeOK, OneModLive, screens
<1>3. ASSUME NEW f \in Files, NEW x \in {"whole", "torn"}, Stage(t) = "extract"
      PROVE  /\ Put(staged[m], f, <<task[t].ver, x>>) \in Trees
             /\ Of(Put(staged[m], f, <<task[t].ver, x>>), m)
    <2>1. task[t].ver \in Versions /\ m = ModOf[task[t].ver] /\ m \in Mods
        BY <1>3 DEF TaskInv
    <2>2. <<task[t].ver, x>> \in Written /\ <<task[t].ver, x>>[1] = task[t].ver
        BY <2>1 DEF Written
    <2>3. staged[m] \in Trees /\ Of(staged[m], m)
        BY <2>1 DEF TypeOK, StagedInv
    <2> QED BY <2>1, <2>2, <2>3, OfPut
<1>4. ASSUME NEW f \in Files, ExtractOpen(t, f)
      PROVE  Inv'
    <2>1. /\ Stage(t) = "extract" /\ m \in Mods /\ dirs' \subseteq Mods
          /\ staged' = [staged EXCEPT ![m] = Put(staged[m], f, <<task[t].ver, "torn">>)]
          /\ UNCHANGED <<live, marker, half, screens>>
        BY <1>1, <1>4 DEF ExtractOpen, Stage, ModAt, Put, TypeOK
    <2>2. Within(t)
        BY <1>4, WithinForms DEF ExtractOpen
    <2> QED BY <1>2, <1>3, <2>1, <2>2
<1>5. ASSUME ExtractWrite(t)
      PROVE  Inv'
    <2> DEFINE f == task[t].at
    <2>1. PICK x \in {"whole", "torn"} :
              staged' = [staged EXCEPT ![m] = Put(staged[m], f, <<task[t].ver, x>>)]
        BY <1>5 DEF ExtractWrite, ModAt, Put
    <2>2. /\ Stage(t) = "extract" /\ m \in Mods /\ dirs' \subseteq Mods /\ f \in Files
          /\ UNCHANGED <<live, marker, half, screens>>
        BY <1>0, <1>1, <1>5 DEF ExtractWrite, Stage, TypeOK, Tasks
    <2>3. Within(t)
        BY <1>5, WithinSteps
    <2> QED BY <1>2, <1>3, <2>1, <2>2, <2>3
<1>6. ASSUME NEW f \in Files, Unstage(t, f)
      PROVE  Inv'
    <2>1. /\ Stage(t) \in {"unstage", "discard"} /\ m \in Mods
          /\ UNCHANGED <<dirs, live, marker, half, screens>>
        BY <1>1, <1>6 DEF Unstage, Stage, ModAt
    <2>2. staged[m] \in Trees /\ Of(staged[m], m)
        BY <2>1 DEF TypeOK, StagedInv
    <2>3. CASE staged' = [staged EXCEPT ![m] = Removed(staged[m], f)] /\ UNCHANGED task
        <3>1. staged' \in [Mods -> Trees] /\ StagedInv'
            BY <2>1, <2>2, <2>3, OfRemoved, StagedPut
        <3>2. TypeOK'
            BY <2>1, <2>3, <3>1 DEF TypeOK, screens
        <3>3. TaskInv' /\ LiveInv' /\ OneModLive'
            BY <2>1, <2>3 DEF TaskInv, LiveInv, OneModLive, Stage, ModAt
        <3> QED BY <3>1, <3>2, <3>3
    <2>4. CASE Kept(t, f) /\ UNCHANGED staged
        <3>1. TaskInv' /\ task' \in [Threads -> Tasks] /\ Stage(t)' = Stage(t)
              /\ \A u \in Threads : u # t => task'[u] = task[u]
            BY <2>4, WithinForms, WithinInv
        <3>2. TypeOK'
            BY <1>0, <2>1, <2>4, <3>1 DEF TypeOK, screens, Stage
        <3>3. StagedInv' /\ LiveInv' /\ OneModLive'
            BY <1>0, <2>1, <2>4, <3>1 DEF StagedInv, LiveInv, OneModLive, Stage, ModAt
        <3> QED BY <3>1, <3>2, <3>3
    <2> QED BY <1>6, <2>3, <2>4 DEF Unstage, ModAt
<1>7. ASSUME ExtractFail(t)
      PROVE  Inv'
    <2>1. Stage(t) = "extract" /\ Enter(t, "discard") /\ UNCHANGED <<disk, screens>>
        BY <1>7 DEF ExtractFail, Stage
    <2>2. TaskInv' /\ task' \in [Threads -> Tasks] /\ Stage(t)' = "discard"
          /\ \A u \in Threads : u # t => task'[u] = task[u]
        BY <2>1, Entering, EnteringInv DEF Stage, Stages
    <2>3. TypeOK'
        BY <1>0, <2>1, <2>2 DEF TypeOK, disk, screens, Stage
    <2> QED BY <1>0, <2>1, <2>2, <2>3 DEF StagedInv, LiveInv, OneModLive, disk, Stage, ModAt
<1>8. ASSUME End(t), dirs' \subseteq Mods, UNCHANGED <<staged, live, marker, half, queue, screen>>,
             posted' \in BOOLEAN, Refresh \/ UNCHANGED rows
      PROVE  Inv'
    <2>1. TaskInv' /\ task' \in [Threads -> Tasks] /\ task'[t].stage = "none"
          /\ \A u \in Threads : u # t => task'[u] = task[u]
        BY <1>8, Ending, EndingInv, Idling
    <2>2. rows' \in [Mods -> {"none", "off", "on"}]
        BY <1>8, ListType DEF Refresh, TypeOK
    <2>3. TypeOK'
        BY <1>0, <1>8, <2>1, <2>2 DEF TypeOK
    <2> QED BY <1>0, <1>8, <2>1, <2>3 DEF StagedInv, LiveInv, OneModLive, Stage, ModAt
<1>9. ASSUME ExtractDone(t)
      PROVE  Inv'
    <2>1. m \in Mods /\ dirs' = dirs \cup {m} /\ posted \in BOOLEAN
        BY <1>1, <1>9 DEF ExtractDone, Stage, ModAt, TypeOK
    <2>2. posted' \in BOOLEAN
        BY <1>9, <2>1 DEF ExtractDone
    <2> QED BY <1>8, <1>9, <2>1, <2>2 DEF ExtractDone, TypeOK
<1>10. ASSUME UnstageDone(t)
       PROVE  Inv'
    BY <1>8, <1>10 DEF UnstageDone, TypeOK
<1> QED BY <1>4, <1>5, <1>6, <1>7, <1>9, <1>10

\* The manager screen, the detail screen and a restart.
LEMMA ScreensInv ==
    ASSUME Inv, \/ \E m \in Mods : Enable(m) \/ Disable(m) \/ Uninstall(m)
                \/ \E v \in Versions : ImportFromCard(v) \/ TapDownload(v)
                \/ OpenDetail \/ LeaveDetail \/ InstallDone
                \/ StartDownload \/ DownloadFail \/ DownloadDone
                \/ Restart
    PROVE  Inv'
<1> USE DEF Inv
<1>0. /\ Threads = {"ui", "worker"} /\ task \in [Threads -> Tasks]
      /\ task["ui"] \in Tasks /\ task["worker"] \in Tasks
    BY DEF TypeOK, Threads
\* One thread has a new task; the disk is as it was.
<1>1. ASSUME NEW t \in Threads, NEW k \in Tasks, task' = [task EXCEPT ![t] = k],
             k.stage # "none" => k.mod \in Mods,
             k.stage \in {"download", "extract"} => k.ver \in Versions /\ k.mod = ModOf[k.ver],
             t = "ui" => k.stage \notin {"clear", "copy", "mark"},
             t = "worker" => k.stage \in {"none", "download", "extract", "discard"},
             UNCHANGED disk, queue' \in Seq(Jobs), screen' \in {"manager", "detail"},
             posted' \in BOOLEAN, rows' \in [Mods -> {"none", "off", "on"}]
      PROVE  Inv'
    <2>1. task' \in [Threads -> Tasks] /\ task'[t] = k
          /\ \A u \in Threads : u # t => task'[u] = task[u]
        BY <1>0, <1>1
    <2>2. TypeOK'
        BY <1>0, <1>1, <2>1 DEF TypeOK, disk
    <2>3. TaskInv'
        BY <1>1, <2>1 DEF TaskInv, Stage, ModAt
    <2>4. LiveInv'
        BY <1>0, <1>1, <2>1 DEF LiveInv, Stage, ModAt, disk
    <2> QED BY <1>1, <2>2, <2>3, <2>4 DEF StagedInv, OneModLive, disk
<1>2. UNCHANGED screens => /\ queue' \in Seq(Jobs) /\ screen' \in {"manager", "detail"}
                           /\ posted' \in BOOLEAN /\ rows' \in [Mods -> {"none", "off", "on"}]
    BY DEF screens, TypeOK
<1>3. ASSUME NEW m \in Mods, NEW op \in {"enable", "disable", "uninstall"},
             NEW s \in {"remove", "unstage"}, Start("ui", op, s, m), UNCHANGED <<disk, screens>>
      PROVE  Inv'
    <2> DEFINE k == [NoTask EXCEPT !.op = op, !.stage = s, !.mod = m]
    <2>1. k \in Tasks /\ k.stage = s /\ k.mod = m
        BY DEF Tasks, NoTask
    <2>2. task' = [task EXCEPT !["ui"] = k]
        BY <1>3 DEF Start
    <2> HIDE DEF k
    <2> QED BY <1>0, <1>1, <1>2, <1>3, <2>1, <2>2 DEF disk
<1>4. ASSUME NEW v \in Versions, NEW c \in BOOLEAN, NEW s \in {"download", "extract"},
             NEW h \in SUBSET Files
      PROVE  /\ Importing(v, c, s, h) \in Tasks /\ Importing(v, c, s, h).stage = s
             /\ Importing(v, c, s, h).ver = v /\ Importing(v, c, s, h).mod = ModOf[v]
             /\ ModOf[v] \in Mods
    <2>1. ModOf[v] \in Mods
        BY ModsAssumption
    <2> QED BY <2>1 DEF Importing, Tasks, NoTask
<1>5. \A v \in Versions : Readable(v) \subseteq SUBSET Files
    BY ModsAssumption DEF Readable
<1>15. ASSUME NEW t \in Threads, NEW v \in Versions, NEW c \in BOOLEAN,
              NEW s \in {"download", "extract"}, NEW h \in SUBSET Files,
              task' = [task EXCEPT ![t] = Importing(v, c, s, h)],
              UNCHANGED disk, queue' \in Seq(Jobs), screen' \in {"manager", "detail"},
              posted' \in BOOLEAN, rows' \in [Mods -> {"none", "off", "on"}]
       PROVE  Inv'
    <2> DEFINE k == Importing(v, c, s, h)
    <2>1. k \in Tasks /\ k.stage = s /\ k.ver = v /\ k.mod = ModOf[v] /\ ModOf[v] \in Mods
        BY <1>4
    <2>2. task' = [task EXCEPT ![t] = k]
        BY <1>15
    <2> HIDE DEF k
    <2> QED BY <1>1, <1>15, <2>1, <2>2
<1>6. ASSUME NEW m \in Mods, Enable(m) \/ Disable(m) \/ Uninstall(m)
      PROVE  Inv'
    <2>1. CASE Enable(m)
        BY <1>3, <2>1 DEF Enable
    <2>2. CASE Disable(m)
        BY <1>3, <2>2 DEF Disable
    <2>3. CASE Uninstall(m)
        BY <1>3, <2>3 DEF Uninstall
    <2> QED BY <1>6, <2>1, <2>2, <2>3
<1>7. ASSUME NEW v \in Versions, ImportFromCard(v)
      PROVE  Inv'
    <2>1. PICK h \in Readable(v) :
              task' = [task EXCEPT !["ui"] = Importing(v, FALSE, "extract", h)]
        BY <1>7 DEF ImportFromCard
    <2>2. h \in SUBSET Files /\ UNCHANGED <<disk, screens>>
        BY <1>5, <1>7 DEF ImportFromCard
    <2> QED BY <1>0, <1>2, <1>15, <2>1, <2>2 DEF disk
<1>8. ASSUME NEW v \in Versions, TapDownload(v)
      PROVE  Inv'
    <2>1. queue' \in Seq(Jobs)
        BY <1>8 DEF TapDownload, TypeOK, Jobs
    <2>2. UNCHANGED <<disk, task, screen, posted, rows>>
        BY <1>8 DEF TapDownload
    <2> QED BY <2>1, <2>2 DEF TypeOK, TaskInv, StagedInv, LiveInv, OneModLive, disk, Stage, ModAt
<1>9. ASSUME OpenDetail
      PROVE  Inv'
    BY <1>9 DEF OpenDetail, TypeOK, TaskInv, StagedInv, LiveInv, OneModLive, disk, Stage, ModAt
<1>10. ASSUME Leave
       PROVE  Inv'
    <2> DEFINE k == IF Idle("worker") THEN task["worker"]
                                      ELSE [task["worker"] EXCEPT !.cancelled = TRUE]
    <2>2. /\ k \in Tasks /\ k.stage = task["worker"].stage /\ k.mod = task["worker"].mod
          /\ k.ver = task["worker"].ver
        <3> DEFINE w == task["worker"]
                   c == [w EXCEPT !.cancelled = TRUE]
        <3>1. c \in Tasks
            BY <1>0 DEF Tasks
        <3>2. c.stage = w.stage /\ c.mod = w.mod /\ c.ver = w.ver
            BY <1>0 DEF Tasks
        <3>3. k = w \/ k = c
            OBVIOUS
        <3> HIDE DEF c
        <3> QED BY <1>0, <3>1, <3>2, <3>3
    <2>3. task' = [task EXCEPT !["worker"] = k]
        BY <1>0, <1>10 DEF Leave
    <2>4. queue' \in Seq(Jobs)
        <3>1. queue \in Seq(Jobs) /\ DOMAIN queue = 1..Len(queue) /\ Len(queue) \in Nat
            BY DEF TypeOK
        <3>2. \A i \in DOMAIN queue : [queue[i] EXCEPT !.cancelled = TRUE] \in Jobs
            <4> SUFFICES ASSUME NEW i \in DOMAIN queue
                         PROVE  [queue[i] EXCEPT !.cancelled = TRUE] \in Jobs
                OBVIOUS
            <4>1. queue[i] \in Jobs
                BY <3>1
            <4> QED BY <4>1 DEF Jobs
        <3>3. queue' \in [1..Len(queue) -> Jobs]
            BY <1>10, <3>1, <3>2 DEF Leave
        <3> QED BY <3>1, <3>3
    <2>5. /\ k.stage # "none" => k.mod \in Mods
          /\ k.stage \in {"download", "extract"} => k.ver \in Versions /\ k.mod = ModOf[k.ver]
          /\ k.stage \in {"none", "download", "extract", "discard"}
        BY <1>0, <2>2 DEF TaskInv, TypeOK, Stage, ModAt
    <2>6. /\ UNCHANGED disk /\ screen' \in {"manager", "detail"}
          /\ posted' \in BOOLEAN /\ rows' \in [Mods -> {"none", "off", "on"}]
        BY <1>10 DEF Leave, TypeOK
    <2> HIDE DEF k
    <2> QED BY <1>0, <1>1, <2>2, <2>3, <2>4, <2>5, <2>6
<1>11. ASSUME StartDownload
       PROVE  Inv'
    <2> DEFINE q == Head(queue)
    <2>1. q \in Jobs /\ Tail(queue) \in Seq(Jobs)
        BY <1>11 DEF StartDownload, TypeOK
    <2>2. q.ver \in Versions /\ q.cancelled \in BOOLEAN
        BY <2>1 DEF Jobs
    <2>3. /\ task' = [task EXCEPT !["worker"] = Importing(q.ver, q.cancelled, "download", {})]
          /\ queue' = Tail(queue) /\ UNCHANGED <<disk, screen, posted, rows>>
        BY <1>11 DEF StartDownload
    <2> HIDE DEF q
    <2>4. screen' \in {"manager", "detail"} /\ posted' \in BOOLEAN
          /\ rows' \in [Mods -> {"none", "off", "on"}] /\ queue' \in Seq(Jobs)
        BY <2>1, <2>3 DEF TypeOK
    <2>5. PICK v \in Versions, c \in BOOLEAN : v = q.ver /\ c = q.cancelled
        BY <2>2
    <2>6. task' = [task EXCEPT !["worker"] = Importing(v, c, "download", {})]
        BY <2>3, <2>5
    <2>7. UNCHANGED disk /\ {} \in SUBSET Files /\ "worker" \in Threads
        BY <1>0, <2>3
    <2> QED BY <1>15, <2>4, <2>6, <2>7
<1>12. ASSUME DownloadFail
       PROVE  Inv'
    <2>1. task' = [task EXCEPT !["worker"] = NoTask] /\ UNCHANGED <<disk, screens>>
        BY <1>12 DEF DownloadFail, End
    <2> QED BY <1>0, <1>1, <1>2, <2>1, Idling
<1>13. ASSUME DownloadDone
       PROVE  Inv'
    <2> DEFINE v == task["worker"].ver
               c == task["worker"].cancelled
    <2>1. v \in Versions /\ c \in BOOLEAN
        BY <1>0, <1>13 DEF DownloadDone, TaskInv, Stage, Tasks
    <2>2. PICK h \in Readable(v) : task' = [task EXCEPT !["worker"] = Importing(v, c, "extract", h)]
        BY <1>13 DEF DownloadDone
    <2>3. h \in SUBSET Files /\ UNCHANGED <<disk, screens>>
        BY <1>5, <1>13, <2>1 DEF DownloadDone
    <2> HIDE DEF v, c
    <2> QED BY <1>0, <1>2, <1>15, <2>1, <2>2, <2>3
<1>14. ASSUME Restart
       PROVE  Inv'
    <2>1. task' \in [Threads -> Tasks] /\ \A t \in Threads : task'[t] = NoTask
        BY <1>14, Idling DEF Restart
    <2>2. TypeOK'
        <3>1. rows' \in [Mods -> {"none", "off", "on"}] /\ queue' \in Seq(Jobs)
            BY <1>14, ListType DEF Restart
        <3>2. /\ UNCHANGED <<staged, dirs, live, marker>> /\ half' \in BOOLEAN
              /\ screen' = "manager" /\ posted' = FALSE
            BY <1>14 DEF Restart, TypeOK
        <3>3. task'["worker"].stage = "none"
            BY <1>0, <2>1, Idling
        <3> QED BY <2>1, <3>1, <3>2, <3>3 DEF TypeOK
    <2>3. TaskInv' /\ LiveInv'
        BY <1>0, <2>1, Idling DEF TaskInv, LiveInv, Stage, ModAt
    <2> QED BY <1>14, <2>2, <2>3 DEF Restart, StagedInv, OneModLive
<1> QED BY <1>6, <1>7, <1>8, <1>9, <1>10, <1>11, <1>12, <1>13, <1>14 DEF LeaveDetail, InstallDone

LEMMA InvNext == Inv /\ [Next]_vars => Inv'
<1> SUFFICES ASSUME Inv, [Next]_vars
             PROVE  Inv'
    OBVIOUS
<1>1. CASE UNCHANGED vars
    BY <1>1 DEF Inv, TypeOK, TaskInv, StagedInv, LiveInv, OneModLive, vars, disk, screens, Stage, ModAt
<1>2. CASE Next
    BY <1>2, RemovingInv, CopyingInv, LibraryInv, ScreensInv DEF Next
<1> QED BY <1>1, <1>2

LEMMA AlwaysInv == Spec => []Inv
BY InvInit, InvNext, PTL DEF Spec

\* The range of every variable, whatever happens.
THEOREM ModsTyped == Spec => []TypeOK
<1>1. Inv => TypeOK
    BY DEF Inv
<1> QED BY <1>1, AlwaysInv, PTL

\* enable_mod never leaves files of two mods in the romfs, also when copies,
\* removals and markers fail, the worker imports beside it or the program ends.
THEOREM RomfsOfOneMod == Spec => []OneModLive
<1>1. Inv => OneModLive
    BY DEF Inv
<1> QED BY <1>1, AlwaysInv, PTL

-------------------------------------------------------------------------------
(* The marker tells which mod *)

LibraryStep ==
    \E t \in Threads :
        \/ ExtractWrite(t) \/ ExtractFail(t) \/ ExtractDone(t) \/ UnstageDone(t)
        \/ \E f \in Files : ExtractOpen(t, f) \/ Unstage(t, f)
ScreenStep ==
    \/ \E m \in Mods : Enable(m) \/ Disable(m) \/ Uninstall(m)
    \/ \E v \in Versions : ImportFromCard(v) \/ TapDownload(v)
    \/ OpenDetail \/ LeaveDetail \/ InstallDone
    \/ StartDownload \/ DownloadFail \/ DownloadDone

\* Steps of the library and the screens leave romfs and marker alone, and do
\* not begin, go on with or end a copy.
LEMMA QuietLibrary ==
    ASSUME Inv, LibraryStep
    PROVE  /\ UNCHANGED <<live, marker, half, queue>>
           /\ Stage("ui") \in {"copy", "mark"} \/ Stage("ui")' \in {"copy", "mark"}
                  => task'["ui"] = task["ui"]
           /\ Stage("ui")' = "unstage" => Stage("ui") = "unstage" /\ ModAt("ui")' = ModAt("ui")
           /\ \E t \in Threads : /\ Stage(t) \in {"extract", "discard", "unstage"}
                                 /\ \A u \in Threads : u # t => task'[u] = task[u]
<1> USE DEF Inv
<1>1. PICK t \in Threads :
          \/ ExtractWrite(t) \/ ExtractFail(t) \/ ExtractDone(t) \/ UnstageDone(t)
          \/ \E f \in Files : ExtractOpen(t, f) \/ Unstage(t, f)
    BY DEF LibraryStep
<1>2. UNCHANGED <<live, marker, half, queue>>
    BY <1>1 DEF ExtractWrite, ExtractFail, ExtractDone, UnstageDone, ExtractOpen, Unstage, disk, screens
<1>3. Threads = {"ui", "worker"} /\ task[t] \in Tasks
    BY DEF Threads, TypeOK
<1>4. /\ Stage(t) \in {"extract", "discard", "unstage"}
      /\ Stage(t)' \in {"extract", "discard", "unstage", "none"}
      /\ Stage(t)' = "unstage" => Stage(t) = "unstage" /\ ModAt(t)' = ModAt(t)
      /\ \A u \in Threads : u # t => task'[u] = task[u]
    <2>1. CASE ExtractFail(t)
        BY <2>1, Entering DEF ExtractFail, Stage, Stages
    <2>2. CASE End(t) /\ Stage(t) \in {"extract", "discard", "unstage"}
        BY <2>2, Ending, Idling DEF Stage
    <2>3. CASE Within(t) /\ Stage(t) \in {"extract", "discard", "unstage"}
        BY <2>3, WithinInv
    <2>4. CASE UNCHANGED task /\ Stage(t) \in {"extract", "discard", "unstage"}
        BY <2>4 DEF Stage, ModAt
    <2>5. CASE ExtractWrite(t)
        BY <2>3, <2>5, WithinSteps DEF ExtractWrite, Stage
    <2>6. CASE ExtractDone(t) \/ UnstageDone(t)
        BY <2>2, <2>6 DEF ExtractDone, UnstageDone, Stage
    <2>7. ASSUME NEW f \in Files, ExtractOpen(t, f) \/ Unstage(t, f)
          PROVE  Stage(t) \in {"extract", "discard", "unstage"} /\ (Within(t) \/ UNCHANGED task)
        BY <2>7, WithinForms DEF ExtractOpen, Unstage, Stage
    <2> QED BY <1>1, <2>1, <2>3, <2>4, <2>5, <2>6, <2>7
<1>5. CASE t = "worker"
    BY <1>2, <1>3, <1>4, <1>5 DEF Stage, ModAt
<1>6. CASE t = "ui"
    BY <1>2, <1>4, <1>6 DEF Stage, ModAt
<1> QED BY <1>3, <1>5, <1>6

LEMMA QuietScreens ==
    ASSUME Inv, ScreenStep
    PROVE  /\ UNCHANGED disk
           /\ task'["ui"] = task["ui"] \/ Idle("ui")
           /\ Stage("ui")' \in {"copy", "mark"} => task'["ui"] = task["ui"]
           /\ Stage("ui")' = "unstage" /\ ~Trouble("marker") =>
                  \/ task'["ui"] = task["ui"]
                  \/ marker # ModAt("ui")'
<1> USE DEF Inv
<1>0. Threads = {"ui", "worker"} /\ task \in [Threads -> Tasks]
    BY DEF Threads, TypeOK
<1>1. CASE OpenDetail \/ LeaveDetail \/ InstallDone \/ StartDownload \/ DownloadFail \/ DownloadDone
    BY <1>0, <1>1 DEF OpenDetail, LeaveDetail, InstallDone, Leave, StartDownload, DownloadFail,
                      DownloadDone, End
<1>2. ASSUME NEW v \in Versions, ImportFromCard(v) \/ TapDownload(v)
      PROVE  UNCHANGED disk /\ (task'["ui"] = task["ui"] \/ Idle("ui"))
             /\ (task'["ui"] = task["ui"] \/ Stage("ui")' = "extract")
    <2>1. CASE TapDownload(v)
        BY <2>1 DEF TapDownload
    <2>2. CASE ImportFromCard(v)
        BY <1>0, <2>2 DEF ImportFromCard, Importing, UiFree, NoTask, Stage
    <2> QED BY <1>2, <2>1, <2>2
<1>3. ASSUME NEW m \in Mods, Enable(m) \/ Disable(m) \/ Uninstall(m)
      PROVE  /\ UNCHANGED disk /\ Idle("ui")
             /\ Stage("ui")' \in {"remove", "unstage"}
             /\ Stage("ui")' = "unstage" /\ ~Trouble("marker") => marker # ModAt("ui")'
    <2>1. CASE Enable(m)
        BY <1>0, <2>1 DEF Enable, Start, UiFree, NoTask, Stage
    <2>2. CASE Disable(m)
        BY <1>0, <2>2 DEF Disable, Start, UiFree, NoTask, Stage
    <2>3. CASE Uninstall(m)
        <3>1. PICK active \in Active(m) :
                  Start("ui", "uninstall", IF active THEN "remove" ELSE "unstage", m)
            BY <2>3 DEF Uninstall
        <3>2. Stage("ui")' = (IF active THEN "remove" ELSE "unstage") /\ ModAt("ui")' = m
            BY <1>0, <3>1 DEF Start, NoTask, Stage, ModAt
        <3>3. ~active /\ ~Trouble("marker") => marker # m
            BY DEF Active
        <3> QED BY <2>3, <3>2, <3>3 DEF Uninstall, UiFree
    <2> QED BY <1>3, <2>1, <2>2, <2>3
<1> QED BY <1>1, <1>2, <1>3 DEF ScreenStep

LEMMA MarkerInit == Init => MarkerInv
BY Idling DEF Init, MarkerInv, Stage, Threads

LEMMA MarkerNext ==
    ASSUME Inv, MarkerInv, ~Trouble("marker"), [Next]_vars
    PROVE  MarkerInv'
<1> USE DEF Inv
<1>0. Threads = {"ui", "worker"} /\ task["ui"] \in Tasks
      /\ (Stage("ui") # "none" => ModAt("ui") \in Mods)
    BY DEF Threads, TypeOK, TaskInv
<1>1. CASE UNCHANGED vars
    BY <1>1 DEF MarkerInv, vars, disk, Stage
<1>2. CASE LibraryStep
    BY <1>2, QuietLibrary DEF MarkerInv, Stage
<1>3. CASE ScreenStep
    BY <1>3, QuietScreens DEF MarkerInv, Stage, disk
<1>4. CASE Restart
    BY <1>0, <1>4, Idling DEF Restart, MarkerInv, Stage
<1>5. ASSUME NEW f \in Files, RemoveLive(f)
      PROVE  MarkerInv'
    <2>1. Stage("ui")' = "remove" /\ marker' = marker
        <3>1. CASE UNCHANGED task
            BY <1>5, <3>1 DEF RemoveLive, Stage
        <3>2. CASE Kept("ui", f)
            BY <1>0, <1>5, <3>2, WithinForms, WithinInv DEF RemoveLive, Stage
        <3> QED BY <1>5, <3>1, <3>2 DEF RemoveLive
    <2>2. marker # None => marker \in Mods /\ Of(live, marker)
        BY DEF MarkerInv, TypeOK
    <2>3. marker # None => Of(live', marker)
        BY <1>5, <2>2, OfRemoved DEF RemoveLive, TypeOK
    <2> QED BY <2>1, <2>3 DEF MarkerInv
<1>6. CASE RemoveDone
    <2>1. Stage("ui")' \in {"clear", "none"} /\ UNCHANGED <<live, marker>>
        BY <1>0, <1>6, Entering, Ending, Idling DEF RemoveDone, Stage, Stages
    <2> QED BY <2>1 DEF MarkerInv
<1>7. CASE ClearMarker
    BY <1>7 DEF ClearMarker, Cleared, MarkerInv
<1>8. ASSUME NEW f \in Files, CopyOpen(f)
      PROVE  MarkerInv'
    BY <1>8 DEF CopyOpen, MarkerInv, Stage
<1>9. CASE CopyWrite
    BY <1>9 DEF CopyWrite, MarkerInv, Stage
<1>10. CASE CopyFail
    BY <1>10 DEF CopyFail, MarkerInv, Stage
<1>11. CASE CopyDone
    BY <1>11 DEF CopyDone, MarkerInv, Stage, disk
<1>12. CASE WriteMarker
    <2>1. Stage("ui")' = "none" /\ live' = live
        BY <1>0, <1>12, Ending, Idling DEF WriteMarker, Stage
    <2>2. Of(live, ModAt("ui")) /\ marker' \in {ModAt("ui"), None}
        BY <1>12 DEF WriteMarker, LiveInv, Stage, ModAt
    <2> QED BY <2>1, <2>2 DEF MarkerInv
<1>13. CASE CopyOverlook
    BY <1>13 DEF CopyOverlook, MarkerInv, Stage, disk
<1> QED BY <1>1, <1>2, <1>3, <1>4, <1>5, <1>6, <1>7, <1>8, <1>9, <1>10, <1>11, <1>12, <1>13
        DEF Next, LibraryStep, ScreenStep

\* While the marker can be read and removed, the mod that it names is the one
\* in the romfs, whatever else happens.
THEOREM MarkerIsTrue == ~Trouble("marker") => (Spec => []MarkerTells)
<1> SUFFICES ASSUME ~Trouble("marker")
             PROVE  Spec => []MarkerTells
    OBVIOUS
<1>1. Init => Inv /\ MarkerInv
    BY InvInit, MarkerInit
<1>2. (Inv /\ MarkerInv) /\ [Next]_vars => (Inv /\ MarkerInv)'
    BY InvNext, MarkerNext
<1>3. MarkerInv => MarkerTells
    BY DEF MarkerInv, MarkerTells, Of, Owners, Present
<1> QED BY <1>1, <1>2, <1>3, PTL DEF Spec

-------------------------------------------------------------------------------
(* The marker is written for a copy of what the library holds *)

\* The steps of enable, disable and uninstall that work on the romfs.
UiStep ==
    \/ \E f \in Files : RemoveLive(f) \/ CopyOpen(f)
    \/ RemoveDone \/ ClearMarker
    \/ CopyWrite \/ CopyOverlook \/ CopyFail \/ CopyDone \/ WriteMarker

LEMMA NextCases == Next <=> LibraryStep \/ ScreenStep \/ UiStep \/ Restart
BY DEF Next, LibraryStep, ScreenStep, UiStep

LEMMA UiSteps ==
    ASSUME Inv, UiStep
    PROVE  /\ UNCHANGED <<staged, dirs, queue>> /\ task'["worker"] = task["worker"]
           /\ ~Idle("ui") /\ Stage("ui")' # "extract"
<1> USE DEF Inv
<1>0. Threads = {"ui", "worker"} /\ task["ui"] \in Tasks /\ task \in [Threads -> Tasks]
    BY DEF Threads, TypeOK
<1>1. ASSUME Stage("ui") \notin {"none", "extract"}, Within("ui") \/ UNCHANGED task
      PROVE  task'["worker"] = task["worker"] /\ ~Idle("ui") /\ Stage("ui")' # "extract"
    BY <1>0, <1>1, WithinInv, Idling DEF Idle, Stage
<1>2. ASSUME Stage("ui") # "none", End("ui")
      PROVE  task'["worker"] = task["worker"] /\ ~Idle("ui") /\ Stage("ui")' # "extract"
    BY <1>0, <1>2, Ending, Idling DEF Idle, Stage
<1>3. ASSUME Stage("ui") # "none", NEW s \in Stages \ {"extract"}, Enter("ui", s)
      PROVE  task'["worker"] = task["worker"] /\ ~Idle("ui") /\ Stage("ui")' # "extract"
    BY <1>0, <1>3, Entering, Idling DEF Idle, Stage
<1>4. ASSUME NEW f \in Files, RemoveLive(f)
      PROVE  Stage("ui") = "remove" /\ (Within("ui") \/ UNCHANGED task)
             /\ UNCHANGED <<staged, dirs, queue>>
    BY <1>0, <1>4, WithinForms DEF RemoveLive, Stage, screens
<1>5. ASSUME NEW f \in Files, CopyOpen(f)
      PROVE  Stage("ui") = "copy" /\ Within("ui") /\ UNCHANGED <<staged, dirs, queue>>
    BY <1>0, <1>5, WithinForms DEF CopyOpen, Stage, screens
<1>6. CASE CopyWrite \/ CopyOverlook
    <2>1. Stage("ui") = "copy" /\ Within("ui") /\ UNCHANGED <<staged, dirs, queue>>
        BY <1>6, WithinSteps DEF CopyWrite, CopyOverlook, Stage, disk, screens
    <2> QED BY <1>1, <2>1
<1>7. CASE RemoveDone
    BY <1>2, <1>3, <1>7 DEF RemoveDone, Stage, Stages, disk
<1>8. CASE ClearMarker
    BY <1>2, <1>3, <1>8 DEF ClearMarker, Stage, Stages
<1>9. CASE CopyFail
    BY <1>2, <1>9 DEF CopyFail, Stage, disk, screens
<1>10. CASE CopyDone
    BY <1>3, <1>10 DEF CopyDone, Stage, Stages, disk, screens
<1>11. CASE WriteMarker
    BY <1>2, <1>11 DEF WriteMarker, Stage
<1> QED BY <1>1, <1>4, <1>5, <1>6, <1>7, <1>8, <1>9, <1>10, <1>11 DEF UiStep

LEMMA AloneNext ==
    ASSUME Inv, AloneInv, ~Trouble("overlap"), [Next]_vars
    PROVE  AloneInv'
<1> USE DEF Inv
<1>0. Threads = {"ui", "worker"} /\ task \in [Threads -> Tasks]
    BY DEF Threads, TypeOK
<1>1. CASE UNCHANGED vars
    BY <1>1 DEF AloneInv, Idle, vars, screens
<1>2. CASE LibraryStep
    <2>1. PICK t \in Threads :
              /\ Stage(t) \in {"extract", "discard", "unstage"}
              /\ \A u \in Threads : u # t => task'[u] = task[u]
        BY <1>2, QuietLibrary
    <2>2. ~Idle(t)
        BY <2>1, Idling DEF Idle, Stage
    <2>3. queue' = queue
        BY <1>2, QuietLibrary
    <2> QED BY <1>0, <2>1, <2>2, <2>3 DEF AloneInv, Idle
<1>3. CASE UiStep
    BY <1>3, UiSteps DEF AloneInv, Idle
<1>4. CASE Restart
    BY <1>0, <1>4 DEF Restart, AloneInv, Idle
<1>5. ASSUME NEW m \in Mods, Enable(m) \/ Disable(m) \/ Uninstall(m)
      PROVE  AloneInv'
    BY <1>0, <1>5 DEF Enable, Disable, Uninstall, Start, UiFree, AloneInv, Idle, screens
<1>6. ASSUME NEW v \in Versions, ImportFromCard(v)
      PROVE  AloneInv'
    BY <1>0, <1>6 DEF ImportFromCard, UiFree, AloneInv, Idle, screens
<1>7. ASSUME NEW v \in Versions, TapDownload(v)
      PROVE  AloneInv'
    BY <1>7 DEF TapDownload, AloneInv, Idle
<1>8. CASE OpenDetail
    BY <1>8 DEF OpenDetail, AloneInv, Idle
<1>9. CASE Leave
    <2>1. task'["ui"] = task["ui"] /\ (queue = <<>> => queue' = <<>>)
        BY <1>0, <1>9 DEF Leave
    <2>2. ASSUME Idle("worker")
          PROVE  Idle("worker")'
        BY <2>2, <1>9 DEF Leave, Idle
    <2> QED BY <2>1, <2>2 DEF AloneInv, Idle
<1>10. CASE StartDownload
    BY <1>0, <1>10 DEF StartDownload, AloneInv, Idle
<1>11. CASE DownloadFail \/ DownloadDone
    <2>1. ~Idle("worker") /\ task'["ui"] = task["ui"]
        BY <1>0, <1>11, Idling DEF DownloadFail, DownloadDone, End, Idle
    <2> QED BY <2>1 DEF AloneInv, Idle
<1> QED BY <1>1, <1>2, <1>3, <1>4, <1>5, <1>6, <1>7, <1>8, <1>9, <1>10, <1>11, NextCases
        DEF ScreenStep, LeaveDetail, InstallDone

LEMMA CopyNext ==
    ASSUME Inv, AloneInv, CopyInv, ~Trouble("overlap"), [Next]_vars
    PROVE  CopyInv'
<1> USE DEF Inv
<1> DEFINE m == ModAt("ui")
           k == task["ui"]
<1>0. /\ Threads = {"ui", "worker"} /\ task \in [Threads -> Tasks] /\ k \in Tasks
      /\ Stage("ui") # "none" => m \in Mods
      /\ staged \in [Mods -> Trees] /\ live \in Trees
    BY DEF Threads, TypeOK, TaskInv
<1>1. CASE UNCHANGED vars
    BY <1>1 DEF CopyInv, SameVersion, vars, disk, Stage, ModAt
<1>2. ASSUME Stage("ui")' \notin {"copy", "mark"}
      PROVE  CopyInv'
    BY <1>2 DEF CopyInv
<1>3. CASE LibraryStep
    <2>1. PICK t \in Threads :
              /\ Stage(t) \in {"extract", "discard", "unstage"}
              /\ \A u \in Threads : u # t => task'[u] = task[u]
        BY <1>3, QuietLibrary
    <2>2. CASE t = "worker"
        <3>1. ~Idle("worker")
            BY <2>1, <2>2, Idling DEF Idle, Stage
        <3>2. Stage("ui")' = "none"
            BY <1>0, <2>1, <2>2, <3>1, Idling DEF AloneInv, Idle, Stage
        <3> QED BY <1>2, <3>2
    <2>3. CASE t = "ui"
        <3>1. Stage("ui") \notin {"copy", "mark"}
            BY <2>1, <2>3
        <3>2. Stage("ui")' \notin {"copy", "mark"}
            BY <1>3, <3>1, QuietLibrary DEF Stage
        <3> QED BY <1>2, <3>2
    <2> QED BY <1>0, <2>2, <2>3
<1>4. CASE ScreenStep
    BY <1>2, <1>4, QuietScreens DEF CopyInv, SameVersion, Stage, ModAt, disk
<1>5. CASE Restart
    BY <1>0, <1>2, <1>5, Idling DEF Restart, Stage
<1>6. ASSUME NEW f \in Files, RemoveLive(f)
      PROVE  CopyInv'
    BY <1>0, <1>2, <1>6, WithinForms, WithinInv DEF RemoveLive, Stage
<1>7. CASE RemoveDone
    BY <1>0, <1>2, <1>7, Entering, Ending, Idling DEF RemoveDone, Stage, Stages
<1>8. CASE ClearMarker
    <2>1. live' = Empty /\ Stage("ui") = "clear"
        BY <1>8 DEF ClearMarker, LiveInv, Stage
    <2>2. CASE Enter("ui", "copy")
        BY <1>0, <2>1, <2>2, Entering, ModsAssumption DEF CopyInv, SameVersion, Stage, Stages, Empty
    <2>3. CASE Enter("ui", "unstage") \/ End("ui")
        BY <1>0, <1>2, <2>3, Entering, Ending, Idling DEF Stage, Stages
    <2> QED BY <1>8, <2>2, <2>3 DEF ClearMarker
<1>9. ASSUME NEW f \in Files, CopyOpen(f)
      PROVE  CopyInv'
    <2> DEFINE src == staged[m]
    <2>1. /\ Stage("ui") = "copy" /\ k.at = None /\ f \notin k.seen /\ src[f] # None
          /\ staged' = staged /\ task' = [task EXCEPT !["ui"].at = f]
        BY <1>9 DEF CopyOpen, Stage, ModAt, Present
    <2>2. /\ k'.stage = "copy" /\ k'.mod = k.mod /\ k'.seen = k.seen /\ k'.at = f
          /\ k'.slip = k.slip
        BY <1>0, <2>1 DEF Tasks, Stage
    <2>3. live'[f] = <<src[f][1], "torn">> /\ \A g \in Files : g # f => live'[g] = live[g]
        BY <1>0, <1>9 DEF CopyOpen, Trees, ModAt
    <2>4. f # None
        BY ModsAssumption
    <2>5. SameVersion(live, src)'
        <3>1. SameVersion(live, src)
            BY <2>1 DEF CopyInv
        <3>2. src' = src
            BY <2>1, <2>2 DEF ModAt
        <3>3. \A g \in Files : live'[g] # None => src[g] # None /\ live'[g][1] = src[g][1]
            BY <2>1, <2>3, <3>1 DEF SameVersion
        <3> HIDE DEF src
        <3> QED BY <3>2, <3>3 DEF SameVersion
    <2>6. \A g \in Files : g # None
        BY ModsAssumption
    <2> QED BY <1>0, <2>1, <2>2, <2>3, <2>4, <2>5, <2>6 DEF CopyInv, Stage, ModAt
<1>10. CASE CopyWrite
    <2> DEFINE f == k.at
               src == staged[m]
    <2>1. PICK c \in {src[f]} \cup (IF src[f] = None THEN {} ELSE {<<src[f][1], "torn">>}) :
              /\ live' = [live EXCEPT ![f] = c]
              /\ task' = [task EXCEPT !["ui"].at = None, !["ui"].seen = @ \cup {f},
                                      !["ui"].slip = @ \/ c # src[f]]
        BY <1>10 DEF CopyWrite, ModAt
    <2>2. Stage("ui") = "copy" /\ f \in Files /\ staged' = staged
        BY <1>0, <1>10 DEF CopyWrite, Stage, Tasks
    <2>3. /\ k'.stage = "copy" /\ k'.mod = k.mod /\ k'.seen = k.seen \cup {f} /\ k'.at = None
          /\ k'.slip = (k.slip \/ c # src[f])
        BY <1>0, <2>1, <2>2 DEF Tasks, Stage
    <2>4. live'[f] = c /\ \A g \in Files : g # f => live'[g] = live[g]
        BY <1>0, <2>1, <2>2 DEF Trees
    <2>5. /\ SameVersion(live, src)
          /\ ~k.slip => \A g \in Files : /\ g \in k.seen => live[g] = src[g]
                                        /\ g \notin k.seen /\ g # f => live[g] = None
        BY <2>2 DEF CopyInv
    <2>6. c # None => src[f] # None /\ c[1] = src[f][1]
        BY <2>1
    <2>7. SameVersion(live, src)'
        <3>1. src' = src
            BY <2>2, <2>3 DEF ModAt
        <3>2. \A g \in Files : live'[g] # None => src[g] # None /\ live'[g][1] = src[g][1]
            BY <2>4, <2>5, <2>6 DEF SameVersion
        <3> HIDE DEF src
        <3> QED BY <3>1, <3>2 DEF SameVersion
    <2>8. k'.stage # "mark" /\ \A g \in Files : g # None
        BY <2>3, ModsAssumption
    <2> QED BY <2>2, <2>3, <2>4, <2>5, <2>7, <2>8 DEF CopyInv, Stage, ModAt
<1>11. CASE CopyFail
    BY <1>0, <1>2, <1>11, Ending, Idling DEF CopyFail, Stage
<1>12. CASE CopyDone
    <2> DEFINE src == staged[m]
    <2>1. /\ Stage("ui") = "copy" /\ k.at = None /\ Present(src) \subseteq k.seen
          /\ UNCHANGED <<staged, live>>
        BY <1>12 DEF CopyDone, Copied, Stage, ModAt, disk
    <2>2. Stage("ui")' = "mark" /\ ModAt("ui")' = m /\ k'.slip = k.slip
        BY <1>0, <1>12, Entering DEF CopyDone, Stage, ModAt, Stages
    <2>3. m \in Mods /\ src \in Trees
        BY <1>0, <2>1
    <2>4. ASSUME ~k.slip
          PROVE  live = src
        <3>1. \A f \in Files : live[f] = src[f]
            BY <2>1, <2>4, ModsAssumption DEF CopyInv, Present
        <3> QED BY <1>0, <2>3, <3>1 DEF Trees
    <2>5. SameVersion(live, src)
        BY <2>1 DEF CopyInv
    <2> QED BY <2>1, <2>2, <2>4, <2>5 DEF CopyInv, SameVersion
<1>13. CASE WriteMarker
    BY <1>0, <1>2, <1>13, Ending, Idling DEF WriteMarker, Stage
<1>14. CASE CopyOverlook
    <2>1. /\ Stage("ui") = "copy" /\ UNCHANGED <<staged, live>>
          /\ task' = [task EXCEPT !["ui"].seen = Files, !["ui"].slip = TRUE]
        BY <1>14 DEF CopyOverlook, Stage, disk
    <2>2. k'.stage = "copy" /\ k'.mod = k.mod /\ k'.at = k.at /\ k'.slip = TRUE
        BY <1>0, <2>1 DEF Tasks, Stage
    <2> QED BY <2>1, <2>2 DEF CopyInv, SameVersion, Stage, ModAt
<1> QED BY <1>1, <1>3, <1>4, <1>5, <1>6, <1>7, <1>8, <1>9, <1>10, <1>11, <1>12, <1>13, <1>14,
           NextCases
        DEF UiStep

LEMMA AloneInit == Init => AloneInv /\ CopyInv
BY Idling DEF Init, AloneInv, CopyInv, Idle, Stage, Threads

\* Without overlap the marker is written only for a romfs in which everything
\* is of the version that the library has of the mod, and, when no error has
\* passed unnoticed, for an exact copy, whatever fails or breaks off.
THEOREM MarkedIsCopied == ~Trouble("overlap") => (Spec => EnabledIsStaged)
<1> SUFFICES ASSUME ~Trouble("overlap")
             PROVE  Spec => EnabledIsStaged
    OBVIOUS
<1> DEFINE AsStaged ==
        /\ \A f \in Present(live') : /\ f \in Present(staged[marker'])
                                     /\ live'[f][1] = staged[marker'][f][1]
        /\ task["ui"].slip \/ live' = staged[marker']
<1>1. Init => Inv /\ AloneInv /\ CopyInv
    BY InvInit, AloneInit
<1>2. (Inv /\ AloneInv /\ CopyInv) /\ [Next]_vars => (Inv /\ AloneInv /\ CopyInv)'
    BY InvNext, AloneNext, CopyNext
<1>3. (Inv /\ AloneInv /\ CopyInv) /\ [Next]_vars
          => [marker' # marker /\ marker' # None => AsStaged]_vars
    <2> SUFFICES ASSUME Inv, CopyInv, Next, marker' # marker, marker' # None
                 PROVE  AsStaged
        OBVIOUS
    <2>1. CASE LibraryStep
        BY <2>1, QuietLibrary
    <2>2. CASE ScreenStep
        BY <2>2, QuietScreens DEF disk
    <2>3. CASE Restart
        BY <2>3 DEF Restart
    <2>4. CASE UiStep
        <3>1. CASE WriteMarker
            <4>1. live' = live /\ marker' = ModAt("ui") /\ Stage("ui") = "mark"
                BY <3>1 DEF WriteMarker, Stage, ModAt
            <4>2. /\ SameVersion(live', staged[marker'])
                  /\ task["ui"].slip \/ live' = staged[marker']
                BY <4>1 DEF CopyInv, SameVersion
            <4> QED BY <4>2 DEF SameVersion, Present
        <3>2. CASE ClearMarker
            BY <3>2 DEF ClearMarker, Cleared
        <3> QED BY <2>4, <3>1, <3>2 DEF UiStep, RemoveLive, RemoveDone, CopyOpen, CopyWrite,
                                       CopyOverlook, CopyFail, CopyDone, disk
    <2> QED BY <2>1, <2>2, <2>3, <2>4, NextCases
<1> QED BY <1>1, <1>2, <1>3, PTL DEF Spec, EnabledIsStaged

-------------------------------------------------------------------------------
(* An uninstalled mod is gone *)

LEMMA AppliedNext ==
    ASSUME Inv, AppliedInv, ~Trouble("marker"), [Next]_vars
    PROVE  AppliedInv'
<1> USE DEF Inv
<1>0. /\ Threads = {"ui", "worker"} /\ task["ui"] \in Tasks /\ live \in Trees
      /\ Stage("ui") # "none" => ModAt("ui") \in Mods
    BY DEF Threads, TypeOK, TaskInv
<1>1. CASE UNCHANGED vars
    BY <1>1 DEF AppliedInv, vars, disk, Stage, ModAt
<1>2. CASE LibraryStep
    BY <1>2, QuietLibrary DEF AppliedInv, Stage, ModAt
<1>3. CASE ScreenStep
    BY <1>3, QuietScreens, Idling DEF AppliedInv, Stage, ModAt, disk, Idle
<1>4. CASE Restart
    BY <1>0, <1>4, Idling DEF Restart, AppliedInv, Stage
<1>5. ASSUME NEW f \in Files, RemoveLive(f)
      PROVE  AppliedInv'
    <2>1. /\ Stage("ui") = "remove" /\ Stage("ui")' = "remove"
          /\ UNCHANGED <<marker, half>>
        BY <1>0, <1>5, WithinForms, WithinInv DEF RemoveLive, Stage
    <2>2. live' # Empty => live # Empty
        BY <1>5 DEF RemoveLive, Present, Empty
    <2> QED BY <2>1, <2>2 DEF AppliedInv
<1>6. CASE RemoveDone
    <2>1. /\ Stage("ui") = "remove" /\ Stage("ui")' \in {"clear", "none"}
          /\ UNCHANGED <<live, marker>> /\ (live = Empty \/ half' = half)
        <3>1. AllRemoved => live = Empty
            BY <1>0 DEF AllRemoved, Present, Empty, Trees
        <3> QED BY <1>0, <1>6, <3>1, Entering, Ending, Idling DEF RemoveDone, Stage, Stages
    <2> QED BY <2>1 DEF AppliedInv
<1>7. CASE ClearMarker
    <2>1. live' = Empty /\ marker' = None /\ ModAt("ui") \in Mods
        BY <1>0, <1>7 DEF ClearMarker, Cleared, LiveInv, Stage
    <2>2. Stage("ui")' = "unstage" => ModAt("ui")' = ModAt("ui")
        BY <1>0, <1>7, Entering, Ending, Idling DEF ClearMarker, Stage, ModAt, Stages
    <2> QED BY <2>1, <2>2, ModsAssumption DEF AppliedInv
<1>8. ASSUME NEW f \in Files, CopyOpen(f)
      PROVE  AppliedInv'
    BY <1>0, <1>8, WithinForms, WithinInv DEF CopyOpen, AppliedInv, Stage
<1>9. CASE CopyWrite \/ CopyOverlook
    <2>1. Stage("ui")' = "copy"
        BY <1>0, <1>9, WithinSteps, WithinInv DEF CopyWrite, CopyOverlook, Stage
    <2> QED BY <2>1 DEF AppliedInv
<1>10. CASE CopyFail
    BY <1>0, <1>10, Ending, Idling DEF CopyFail, AppliedInv, Stage
<1>11. CASE CopyDone
    BY <1>0, <1>11, Entering DEF CopyDone, AppliedInv, Stage, Stages
<1>12. CASE WriteMarker
    <2>1. Stage("ui")' = "none" /\ (half' \/ marker' \in Mods)
        BY <1>0, <1>12, Ending, Idling DEF WriteMarker, Stage, ModAt
    <2> QED BY <2>1, ModsAssumption DEF AppliedInv
<1> QED BY <1>1, <1>2, <1>3, <1>4, <1>5, <1>6, <1>7, <1>8, <1>9, <1>10, <1>11, <1>12, NextCases
        DEF UiStep

LEMMA AppliedInit == Init => AppliedInv
BY Idling DEF Init, AppliedInv, Stage, Threads

\* While the marker can be read and removed, a mod that has been uninstalled is
\* not in the romfs unless an enabling that broke off has left it there,
\* whatever else fails, overlaps or breaks off.
THEOREM UninstallIsComplete == ~Trouble("marker") => (Spec => UninstalledIsGone)
<1> SUFFICES ASSUME ~Trouble("marker")
             PROVE  Spec => UninstalledIsGone
    OBVIOUS
<1> DEFINE All == Inv /\ MarkerInv /\ AppliedInv
           Gone == LET k == task["ui"] IN
                   k.op = "uninstall" /\ k.stage = "unstage" /\ task'["ui"] = NoTask
                       /\ k.mod \notin dirs'
                       => k.mod \notin Owners(live') \/ half'
<1>1. Init => All
    BY InvInit, MarkerInit, AppliedInit
<1>2. All /\ [Next]_vars => All'
    BY InvNext, MarkerNext, AppliedNext
<1>3. All /\ [Next]_vars => [Gone]_vars
    <2> SUFFICES ASSUME All, Next, Stage("ui") = "unstage", task'["ui"] = NoTask, ~half'
                 PROVE  ModAt("ui") \notin Owners(live')
        BY DEF Stage, ModAt
    <2>1. live' = live /\ ~half
        <3>1. CASE LibraryStep
            BY <3>1, QuietLibrary
        <3>2. CASE ScreenStep
            BY <3>2, QuietScreens DEF disk
        <3>3. CASE Restart
            BY <3>3 DEF Restart
        <3>4. ~UiStep
            BY DEF UiStep, RemoveLive, CopyOpen, RemoveDone, ClearMarker, CopyWrite, CopyOverlook,
                   CopyFail, CopyDone, WriteMarker, Stage
        <3> QED BY <3>1, <3>2, <3>3, <3>4, NextCases
    <2>2. CASE live = Empty
        BY <2>1, <2>2, OfEmpty DEF Owners
    <2>3. CASE live # Empty
        BY <2>1, <2>3 DEF AppliedInv, MarkerInv, Of, Owners, Present
    <2> QED BY <2>2, <2>3
<1> QED BY <1>1, <1>2, <1>3, PTL DEF Spec, UninstalledIsGone

-------------------------------------------------------------------------------
(* An import has what its archive gave *)

\* What an import may have made of a file: cut short only after a slip.
Extracts(k) == {<<k.ver, "whole">>} \cup (IF k.slip THEN {<<k.ver, "torn">>} ELSE {})

\* The files that an import has dealt with are in the library.
ExtractInv ==
    \A t \in Threads : Stage(t) = "extract" =>
        \A f \in task[t].seen : staged[ModAt(t)][f] \in Extracts(task[t])

LEMMA ExtractInit == Init => ExtractInv
BY Idling DEF Init, ExtractInv, Stage, Threads

LEMMA ExtractNext ==
    ASSUME Inv, AloneInv, ExtractInv, ~Trouble("overlap"), [Next]_vars
    PROVE  ExtractInv'
<1> USE DEF Inv
<1>0. /\ Threads = {"ui", "worker"} /\ task \in [Threads -> Tasks]
      /\ staged \in [Mods -> Trees]
    BY DEF Threads, TypeOK
\* The library is as it was, and a task extracts what it did or begins to.
<1>1. ASSUME UNCHANGED staged,
             \A t \in Threads :
                 \/ Stage(t)' # "extract"
                 \/ task'[t].seen = {}
                 \/ /\ Stage(t)' = Stage(t) /\ ModAt(t)' = ModAt(t) /\ task'[t].ver = task[t].ver
                    /\ task'[t].seen = task[t].seen /\ task'[t].slip = task[t].slip
      PROVE  ExtractInv'
    BY <1>1 DEF ExtractInv, Extracts
<1>2. CASE UNCHANGED vars
    BY <1>1, <1>2 DEF vars, disk, Stage, ModAt
<1>3. CASE UiStep
    BY <1>0, <1>1, <1>3, UiSteps DEF Stage, ModAt
<1>4. CASE Restart
    BY <1>0, <1>1, <1>4, Idling DEF Restart, Stage, disk
<1>5. CASE ScreenStep
    <2>0. UNCHANGED staged
        BY <1>5, QuietScreens DEF disk
    <2>1. ASSUME NEW t \in Threads,
                 Stage(t)' # "extract" \/ task'[t].seen = {},
                 \A u \in Threads : u # t => task'[u] = task[u]
          PROVE  ExtractInv'
        BY <1>1, <2>0, <2>1 DEF Stage, ModAt
    <2>2. CASE UNCHANGED task
        BY <1>1, <2>0, <2>2 DEF Stage, ModAt
    <2>3. ASSUME NEW m \in Mods, NEW op, NEW s, s # "extract", Start("ui", op, s, m)
          PROVE  ExtractInv'
        BY <1>0, <2>1, <2>3 DEF Start, NoTask, Stage
    <2>4. ASSUME NEW t \in Threads, NEW v, NEW c, NEW holds,
                 task' = [task EXCEPT ![t] = Importing(v, c, "extract", holds)]
          PROVE  ExtractInv'
        BY <1>0, <2>1, <2>4 DEF Importing, NoTask
    <2>5. ASSUME NEW m \in Mods, Enable(m) \/ Disable(m) \/ Uninstall(m)
          PROVE  ExtractInv'
        BY <2>3, <2>5 DEF Enable, Disable, Uninstall
    <2>6. ASSUME NEW v \in Versions, ImportFromCard(v) \/ TapDownload(v)
          PROVE  ExtractInv'
        BY <1>0, <2>2, <2>4, <2>6 DEF ImportFromCard, TapDownload
    <2>7. CASE OpenDetail
        BY <2>2, <2>7 DEF OpenDetail
    <2>8. CASE Leave
        <3>1. \A t \in Threads : task'[t] = task[t] \/ task'[t] = [task[t] EXCEPT !.cancelled = TRUE]
            BY <1>0, <2>8 DEF Leave
        <3>2. \A t \in Threads :
                  /\ Stage(t)' = Stage(t) /\ ModAt(t)' = ModAt(t) /\ task'[t].ver = task[t].ver
                  /\ task'[t].seen = task[t].seen /\ task'[t].slip = task[t].slip
            BY <1>0, <3>1 DEF Tasks, Stage, ModAt
        <3> QED BY <1>1, <2>0, <3>2
    <2>9. CASE StartDownload
        <3>1. task'["worker"].stage = "download" /\ task'["ui"] = task["ui"]
            BY <1>0, <2>9 DEF StartDownload, Importing, NoTask
        <3> QED BY <1>0, <2>1, <3>1 DEF Stage
    <2>10. CASE DownloadFail
        BY <1>0, <2>1, <2>10, Ending, Idling DEF DownloadFail, Stage
    <2>11. CASE DownloadDone
        BY <1>0, <2>4, <2>11 DEF DownloadDone
    <2> QED BY <1>5, <2>5, <2>6, <2>7, <2>8, <2>9, <2>10, <2>11 DEF ScreenStep, LeaveDetail, InstallDone
<1>6. CASE LibraryStep
    <2>1. PICK t \in Threads :
              \/ ExtractWrite(t) \/ ExtractFail(t) \/ ExtractDone(t) \/ UnstageDone(t)
              \/ \E f \in Files : ExtractOpen(t, f) \/ Unstage(t, f)
        BY <1>6 DEF LibraryStep
    <2> DEFINE m == ModAt(t)
    <2>2. Stage(t) # "none" /\ m \in Mods /\ task[t] \in Tasks
        BY <1>0, <2>1 DEF ExtractWrite, ExtractFail, ExtractDone, UnstageDone, ExtractOpen, Unstage,
                          Stage, TaskInv
    <2>3. \A u \in Threads : u # t => Idle(u)
        BY <1>0, <2>2, Idling DEF AloneInv, Idle, Stage
    <2>4. \A u \in Threads : u # t => Stage(u)' # "extract"
        <3>1. PICK s \in Threads :
                  /\ Stage(s) \in {"extract", "discard", "unstage"}
                  /\ \A u \in Threads : u # s => task'[u] = task[u]
            BY <1>6, QuietLibrary
        <3>2. s = t
            BY <2>3, <3>1, Idling DEF Idle, Stage
        <3> QED BY <2>3, <3>1, <3>2, Idling DEF Idle, Stage
    <2>5. ASSUME Stage(t)' = "extract" =>
                     \A f \in task'[t].seen : staged'[ModAt(t)'][f] \in Extracts(task'[t])
          PROVE  ExtractInv'
        BY <2>4, <2>5 DEF ExtractInv
    <2>6. CASE ExtractWrite(t)
        <3> DEFINE g == task[t].at
        <3>1. PICK x \in {"whole", "torn"} :
                  /\ task' = [task EXCEPT ![t].at = None, ![t].seen = @ \cup {g},
                                          ![t].slip = @ \/ x = "torn"]
                  /\ staged' = [staged EXCEPT ![m][g] = <<task[t].ver, x>>]
            BY <2>6 DEF ExtractWrite, ModAt
        <3>2. g \in Files /\ Stage(t) = "extract" /\ staged[m] \in Trees
            BY <1>0, <2>2, <2>6 DEF ExtractWrite, Tasks, Stage
        <3>3. /\ task'[t].ver = task[t].ver /\ ModAt(t)' = m /\ task[t].seen \subseteq Files
              /\ task'[t].seen = task[t].seen \cup {g}
              /\ task'[t].slip = (task[t].slip \/ x = "torn")
            BY <1>0, <2>2, <3>1, <3>2 DEF Tasks, ModAt
        <3>4. \A f \in Files : staged'[m][f] = IF f = g THEN <<task[t].ver, x>> ELSE staged[m][f]
            BY <1>0, <2>2, <3>1, <3>2 DEF Trees
        <3>5. \A f \in task[t].seen : staged[m][f] \in Extracts(task[t])
            BY <3>2 DEF ExtractInv
        <3>6. Extracts(task[t]) \subseteq Extracts(task'[t]) /\ <<task[t].ver, x>> \in Extracts(task'[t])
            BY <3>1, <3>3 DEF Extracts
        <3>7. \A f \in task[t].seen \cup {g} : staged'[m][f] \in Extracts(task'[t])
            BY <3>2, <3>3, <3>4, <3>5, <3>6
        <3> HIDE DEF m, g
        <3> QED BY <2>5, <3>3, <3>7
    <2>7. CASE ExtractFail(t)
        BY <2>5, <2>7, Entering DEF ExtractFail, Stages, Stage
    <2>8. CASE ExtractDone(t) \/ UnstageDone(t)
        BY <2>5, <2>8, Ending, Idling DEF ExtractDone, UnstageDone, Stage
    <2>9. ASSUME NEW f \in Files, ExtractOpen(t, f)
          PROVE  ExtractInv'
        <3>1. /\ Stage(t) = "extract" /\ f \notin task[t].seen /\ staged[m] \in Trees
              /\ task' = [task EXCEPT ![t].at = f]
              /\ staged' = [staged EXCEPT ![m][f] = <<task[t].ver, "torn">>]
            BY <1>0, <2>2, <2>9 DEF ExtractOpen, Stage, ModAt
        <3>2. task'[t] = [task[t] EXCEPT !.at = f]
            BY <1>0, <3>1
        <3>3. /\ task'[t].slip = task[t].slip /\ task'[t].ver = task[t].ver
              /\ task'[t].seen = task[t].seen /\ ModAt(t)' = m /\ task[t].seen \subseteq Files
            BY <2>2, <3>2 DEF Tasks, ModAt
        <3>4. \A g \in Files : g # f => staged'[m][g] = staged[m][g]
            BY <1>0, <2>2, <3>1 DEF Trees
        <3> QED BY <2>5, <3>1, <3>3, <3>4 DEF ExtractInv, Extracts
    <2>10. ASSUME NEW f \in Files, Unstage(t, f)
           PROVE  ExtractInv'
        <3>1. Stage(t) # "extract" /\ Stage(t)' = Stage(t)
            BY <2>10, WithinForms, WithinInv DEF Unstage, Stage
        <3> QED BY <2>5, <3>1
    <2> QED BY <2>1, <2>6, <2>7, <2>8, <2>9, <2>10
<1> QED BY <1>2, <1>3, <1>4, <1>5, <1>6, NextCases

\* When the manager is left alone while the worker imports, an import that is
\* reported as done has put every file that the archive gave into the library,
\* whole unless a flush has failed unnoticed, whatever else fails.
THEOREM ImportIsComplete == ~Trouble("overlap") => (Spec => ImportIsWhole)
<1> SUFFICES ASSUME ~Trouble("overlap")
             PROVE  Spec => ImportIsWhole
    OBVIOUS
<1> DEFINE All == Inv /\ AloneInv /\ ExtractInv
           Whole == \A t \in Threads : ExtractDone(t) =>
                        LET k == task[t] IN
                        \A f \in k.holds :
                            staged'[k.mod][f] \in {<<k.ver, "whole">>}
                                \cup (IF k.slip THEN {<<k.ver, "torn">>} ELSE {})
<1>1. Init => All
    BY InvInit, AloneInit, ExtractInit
<1>2. All /\ [Next]_vars => All'
    BY InvNext, AloneNext, ExtractNext
<1>3. All /\ [Next]_vars => [Whole]_vars
    <2> SUFFICES ASSUME All, NEW t \in Threads, ExtractDone(t)
                 PROVE  \A f \in task[t].holds : staged'[task[t].mod][f] \in Extracts(task[t])
        BY DEF Extracts
    <2>1. Stage(t) = "extract" /\ task[t].holds \subseteq task[t].seen /\ staged' = staged
        BY DEF ExtractDone, Extracted, Stage
    <2> QED BY <2>1 DEF ExtractInv, ModAt
<1> QED BY <1>1, <1>2, <1>3, PTL DEF Spec, ImportIsWhole
===============================================================================
