-------------------------- MODULE LocalBackupsProofs --------------------------
(***************************************************************************)
(* Theorems about LocalBackups, for any profiles, files, versions and      *)
(* times and whatever fails, is overlapped or cut short: no step changes a *)
(* complete backup but the user's own, what is listed and restored is      *)
(* whole unless the history variables say that a failure the code does not *)
(* notice is behind it, and the steps implement BackupShelf.               *)
(***************************************************************************)
EXTENDS LocalBackups, TLAPS

-------------------------------------------------------------------------------
(* The inductive invariant *)

\* A package names profiles of which the cloud has a save, and what is
\* copied, for a backup or a restore, is a save that is there.
CloudProfiles == {p \in Profiles : Cloud[p] # None}
Sane ==
    /\ TypeOK /\ (deletion.time = None => deletion.at = None)
    /\ \A i \in 1..Len(queue) : queue[i].kind = "import" => queue[i].todo = CloudProfiles
    /\ job.kind = "import" => job.todo \subseteq CloudProfiles
    /\ job.stage = "copy" => job.kind # "none"
    /\ job.stage # "copy" => job.copied = {} /\ ~job.slip
    /\ job.kind = "import" => ~job.slip
    /\ job.stage = "copy" /\ job.kind = "import" => Cloud[job.at] \in Versions
    /\ job.stage = "copy" /\ job.kind # "import" => live[job.at] # NoSave

\* A directory is spoiled when its deletion begins, and then stays so.
DeletionInv == deletion.time # None => deletion.time \in spoiled

\* A directory that was offered once, with some profiles.
Offered(t, profiles) ==
    t \notin spoiled => /\ backup[t].manifest = "valid" /\ profiles \subseteq backup[t].names
                        /\ ~Making(t)

\* What the screen and the jobs that wait or run know of the backups.
OfferInv ==
    /\ \A e \in listed : Offered(e.time, e.profiles)
    /\ \A i \in 1..Len(queue) :
           queue[i].kind = "restore" => Offered(queue[i].time, queue[i].todo)
    /\ job.kind = "restore" => /\ Offered(job.time, job.todo)
                               /\ job.at # None => Offered(job.time, {job.at})

\* A part of a save.
Some(c, part) == [f \in Files |-> IF f \in part THEN c[f] ELSE Absent]

\* What a backup, or an import, copies of a profile.
Source(p) == IF job.kind = "backup" THEN live[p] ELSE Whole(Cloud[p])
Given(p) == IF job.kind = "backup" THEN p \notin harmed /\ live[p] # NoSave
                                   ELSE Cloud[p] \in Versions

\* The directory that is made, when it is not spoiled, holds nothing of the
\* profiles to come, what was copied of the one at hand, and all of those done.
Made(b, j) ==
    /\ b.manifest # "valid"
    /\ \A p \in j.todo : b.file[p] = Empty /\ p \notin j.done /\ p # j.at
    /\ \A p \in j.done \ {j.at} : p \in b.dirs /\ b.file[p] = Source(p) /\ Given(p)
    /\ j.stage = "copy" /\ ~j.slip =>
           Given(j.at) /\ b.file[j.at] = Some(Source(j.at), j.copied)
    /\ j.stage = "copy" /\ j.kind = "backup" => j.at \in b.dirs /\ j.at \notin j.done
    /\ j.stage = "copy" /\ j.kind = "import" =>
           ~j.slip /\ (j.at \in j.done => j.at \in b.dirs)
MakingInv == Makes(job.kind) /\ job.time \notin spoiled => Made(backup[job.time], job)

\* An import has done the profiles with files that are not to come.
ImportInv ==
    job.kind = "import" =>
        /\ \A p \in Profiles : HasFiles(p) => p \in job.done \cup job.todo \cup {job.at}
        /\ \A p \in job.done : HasFiles(p)
        /\ job.copied # {} => job.at \in job.done
        /\ job.stage = "manifest" => job.todo = {}

\* A mounted save that is restored has what was copied so far, and nothing else.
RestoringInv ==
    job.kind = "restore" /\ job.stage = "copy" /\ ~job.slip /\ job.time \notin spoiled =>
        job.mount = Some(backup[job.time].file[job.at], job.copied)

Inv ==
    /\ Sane /\ DeletionInv /\ OfferInv /\ MakingInv /\ ImportInv /\ RestoringInv
    /\ LiveIsWhole /\ ListedIsWhole

-------------------------------------------------------------------------------
(* Saves and directories *)

\* A version is a content.
LEMMA Versioned ==
    ASSUME NEW v \in Versions
    PROVE  /\ Whole(v) \in Content /\ Whole(v) \in WholeSaves
           /\ \A f \in Files : Whole(v)[f] # Absent <=> f \in FilesOf[v]
           /\ \A f \in FilesOf[v] : f \in Files /\ Whole(v)[f] = v
<1> USE LocalBackupsAssumption
<1>1. FilesOf[v] \subseteq Files /\ v # Absent
    OBVIOUS
<1>2. Whole(v) \in Content /\ Whole(v) \in WholeSaves
    BY DEF Whole, Content, WholeSaves
<1> QED BY <1>1, <1>2 DEF Whole

LEMMA Constants ==
    /\ Empty \in Content /\ NoDirectory \in Directories /\ NoJob \in Jobs
    /\ WholeSaves \subseteq Content /\ 0 \in Times
    /\ NoJob.kind = "none" /\ NoJob.at = None /\ NoJob.stage = "none" /\ NoJob.time = 0
    /\ NoJob.copied = {} /\ ~NoJob.slip
    /\ NoDirectory.manifest = "none" /\ \A p \in Profiles : NoDirectory.file[p] = Empty
    /\ NoDeletion.time = None /\ NoDeletion.at = None /\ None \notin Times /\ None \notin Profiles
    /\ NoDeletion \in Deletions
<1> USE LocalBackupsAssumption
<1>1. Empty \in Content
    BY DEF Empty, Content
<1>2. 0 \in Times
    BY DEF Times
<1>3. WholeSaves \subseteq Content
    BY Versioned DEF WholeSaves
<1>4. NoDirectory \in Directories
    BY <1>1 DEF NoDirectory, Directories
<1>5. NoJob \in Jobs
    BY <1>1, <1>2 DEF NoJob, Jobs
<1> QED BY <1>1, <1>2, <1>3, <1>4, <1>5 DEF NoJob, NoDirectory, NoDeletion, Deletions

\* A part of a save grows by the file that is copied, is empty at first and
\* the save itself in the end.
LEMMA Parts ==
    ASSUME NEW c \in Content, NEW part
    PROVE  /\ Some(c, part) \in Content /\ Some(c, {}) = Empty
           /\ \A f \in Files : [Some(c, part) EXCEPT ![f] = c[f]] = Some(c, part \cup {f})
           /\ Present(c) \subseteq part => Some(c, part) = c
<1>1. Some(c, part) \in Content
    BY DEF Some, Content
<1>2. Some(c, {}) = Empty
    BY DEF Some, Empty
<1>3. \A f \in Files : [Some(c, part) EXCEPT ![f] = c[f]] = Some(c, part \cup {f})
    BY DEF Some
<1>4. ASSUME Present(c) \subseteq part
      PROVE  Some(c, part) = c
    <2>1. \A f \in Files : f \notin part => c[f] = Absent
        BY <1>4 DEF Present
    <2> QED BY <2>1 DEF Some, Content
<1> QED BY <1>1, <1>2, <1>3, <1>4

\* A directory is replaced by another one.
LEMMA DirectoryUpdate ==
    ASSUME backup \in [Times -> Directories], NEW t \in Times, NEW d \in Directories,
           backup' = [backup EXCEPT ![t] = d]
    PROVE  /\ backup' \in [Times -> Directories] /\ backup'[t] = d
           /\ \A u \in Times \ {t} : backup'[u] = backup[u]
OBVIOUS

\* A file of a directory is replaced by another one.
Replaced(b, dirs, p, f, c) == [b EXCEPT !.dirs = dirs, !.file[p][f] = c]

LEMMA FileUpdate ==
    ASSUME NEW b \in Directories, NEW p \in Profiles, NEW f \in Files,
           NEW c \in Versions \cup {Absent, Torn}, NEW dirs \in SUBSET Profiles
    PROVE  LET d == Replaced(b, dirs, p, f, c) IN
           /\ d \in Directories /\ d.manifest = b.manifest /\ d.names = b.names /\ d.dirs = dirs
           /\ d.file[p] = [b.file[p] EXCEPT ![f] = c]
           /\ \A q \in Profiles \ {p} : d.file[q] = b.file[q]
<1> DEFINE g == [b.file EXCEPT ![p] = [b.file[p] EXCEPT ![f] = c]]
<1>1. b.file \in [Profiles -> Content] /\ b.file[p] \in Content
    BY DEF Directories
<1>2. [b.file[p] EXCEPT ![f] = c] \in Content
    BY <1>1 DEF Content
<1>3. g \in [Profiles -> Content] /\ g[p] = [b.file[p] EXCEPT ![f] = c]
      /\ \A q \in Profiles \ {p} : g[q] = b.file[q]
    BY <1>1, <1>2
<1> HIDE DEF g
<1>4. [b EXCEPT !.dirs = dirs, !.file = g] \in Directories
    BY <1>3 DEF Directories
<1> QED BY <1>3, <1>4 DEF Directories, Replaced, g

\* What a clean-up leaves is a directory.
LEMMA Remains ==
    ASSUME NEW b \in Directories, NEW r \in Remnants(b)
    PROVE  r \in Directories
<1>1. PICK left \in SUBSET (Profiles \X Files) :
          r.file = [p \in Profiles |-> [f \in Files |->
                        IF <<p, f>> \in left THEN b.file[p][f] ELSE Absent]]
    BY DEF Remnants
<1>2. \A p \in Profiles : [f \in Files |-> IF <<p, f>> \in left THEN b.file[p][f] ELSE Absent] \in Content
    BY DEF Directories, Content
<1>3. r.file \in [Profiles -> Content]
    BY <1>1, <1>2
<1>4. /\ r = [manifest |-> r.manifest, names |-> r.names, dirs |-> r.dirs, file |-> r.file]
      /\ r.manifest \in {b.manifest, "none"} /\ r.names \in {b.names, {}} /\ r.dirs \in SUBSET b.dirs
    BY DEF Remnants
<1>5. r.manifest \in {"none", "torn", "valid"} /\ r.names \in SUBSET Profiles /\ r.dirs \in SUBSET Profiles
    BY <1>4 DEF Directories
<1> QED BY <1>3, <1>4, <1>5 DEF Directories

\* What waits in a queue.
LEMMA Elements ==
    ASSUME NEW q \in Seq(Requests), NEW i \in 1..Len(q)
    PROVE  /\ q[i] \in Requests /\ q[i].time \in Times /\ q[i].todo \subseteq Profiles
           /\ q[i].kind \in {"backup", "restore", "import"}
<1>1. q[i] \in Requests
    OBVIOUS
<1> QED BY <1>1 DEF Requests

\* What the screen shows of any directories.
LEMMA Listing ==
    ASSUME backup \in [Times -> Directories]
    PROVE  List(backup) \subseteq Entries
BY DEF List, Entries, Directories

\* The shapes of the state.
LEMMA Shapes ==
    ASSUME TypeOK
    PROVE  /\ job \in Jobs /\ job.time \in Times /\ job.todo \subseteq Profiles
           /\ job.done \subseteq Profiles /\ job.at \in Profiles \cup {None}
           /\ job.at # None <=> job.stage = "copy"
           /\ job.kind \in {"none", "backup", "restore", "import"}
           /\ job.copied \subseteq Files /\ job.mount \in Content
           /\ backup \in [Times -> Directories] /\ backup[job.time] \in Directories
           /\ \A t \in Times : /\ backup[t] \in Directories /\ backup[t].names \subseteq Profiles
                               /\ backup[t].dirs \subseteq Profiles
                               /\ backup[t].file \in [Profiles -> Content]
           /\ queue \in Seq(Requests) /\ listed \subseteq Entries
           /\ \A e \in listed : e.time \in Times /\ e.profiles \subseteq Profiles
           /\ live \in [Profiles -> {NoSave} \cup Content] /\ deletion \in Deletions
           /\ clock \in Times /\ spoiled \subseteq Times /\ harmed \subseteq Profiles
           /\ refresh \in BOOLEAN
<1>1. \A t \in Times : /\ backup[t] \in Directories /\ backup[t].names \subseteq Profiles
                       /\ backup[t].dirs \subseteq Profiles
                       /\ backup[t].file \in [Profiles -> Content]
    BY DEF TypeOK, Directories
<1>2. \A e \in listed : e.time \in Times /\ e.profiles \subseteq Profiles
    BY DEF TypeOK, Entries
<1> QED BY <1>1, <1>2 DEF TypeOK, Jobs

-------------------------------------------------------------------------------
(* Types: Sane is inductive by itself *)

JobSane ==
    /\ job \in Jobs /\ (job.at # None <=> job.stage = "copy")
    /\ job.kind = "import" => job.todo \subseteq CloudProfiles
    /\ job.stage = "copy" => job.kind # "none"
    /\ job.stage # "copy" => job.copied = {} /\ ~job.slip
    /\ job.kind = "import" => ~job.slip
    /\ job.stage = "copy" /\ job.kind = "import" => Cloud[job.at] \in Versions
    /\ job.stage = "copy" /\ job.kind # "import" => live[job.at] # NoSave

LEMMA SaneInit == Init => Sane
<1> SUFFICES ASSUME Init
             PROVE  Sane
    OBVIOUS
<1> USE Constants
<1>1. live \in [Profiles -> {NoSave} \cup Content] /\ backup \in [Times -> Directories]
    BY DEF Init
<1>2. queue \in Seq(Requests) /\ Len(queue) = 0
    BY DEF Init
<1>3. job = NoJob /\ deletion = NoDeletion /\ listed = {} /\ refresh = FALSE /\ clock = 0
      /\ spoiled = {} /\ harmed = {}
    BY DEF Init
<1>4. TypeOK
    BY <1>1, <1>2, <1>3 DEF TypeOK
<1>5. JobSane
    BY <1>3 DEF JobSane
<1> QED BY <1>2, <1>3, <1>4, <1>5 DEF Sane, JobSane

\* A step of the worker keeps the types when its directory and its job are sane.
LEMMA SaneFrame ==
    ASSUME Sane, UNCHANGED <<clock, queue, deletion, listed>>,
           live' \in [Profiles -> {NoSave} \cup Content], refresh' \in BOOLEAN,
           spoiled' \subseteq Times, harmed' \subseteq Profiles,
           backup' \in [Times -> Directories], JobSane'
    PROVE  Sane'
<1>1. TypeOK'
    BY DEF Sane, TypeOK, JobSane
<1>2. (\A i \in 1..Len(queue) : queue[i].kind = "import" => queue[i].todo = CloudProfiles)'
    BY DEF Sane, CloudProfiles
<1> QED BY <1>1, <1>2 DEF Sane, JobSane

LEMMA Idle ==
    ASSUME job' = NoJob
    PROVE  JobSane'
BY Constants DEF JobSane

LEMMA DiscardTyped ==
    ASSUME TypeOK, NEW b \in Directories, Discard(b)
    PROVE  /\ backup' \in [Times -> Directories]
           /\ \A u \in Times \ {job.time} : backup'[u] = backup[u]
           /\ backup'[job.time].manifest \in {b.manifest, "none"}
<1>1. PICK r \in Remnants(b) : backup' = [backup EXCEPT ![job.time] = r]
    BY DEF Discard
<1>2. r \in Directories /\ r.manifest \in {b.manifest, "none"}
    BY Remains DEF Remnants
<1> QED BY <1>1, <1>2, Shapes, DirectoryUpdate

\* What the steps do to the job and the directory it makes, spelled out.
LEMMA BackupMountEffect ==
    ASSUME Sane, NEW p \in Profiles, BackupMount(p)
    PROVE  LET b == backup[job.time] IN
           /\ job.kind = "backup" /\ job.stage = "profiles" /\ p \in job.todo /\ job.at = None
           /\ UNCHANGED <<live, clock, queue, deletion, refresh, listed, spoiled, harmed>>
           /\ JobSane' /\ job'.kind = job.kind /\ job'.time = job.time
           /\ job'.todo = job.todo \ {p} /\ job'.done = job.done
           /\ \/ UNCHANGED backup /\ job'.stage = "profiles" /\ job'.at = None
                 /\ job'.copied = job.copied /\ job'.slip = job.slip
              \/ /\ live[p] # NoSave
                 /\ job'.stage = "copy" /\ job'.at = p /\ job'.slip = (p \in harmed)
                 /\ job'.copied = job.copied
                 /\ backup' = [backup EXCEPT ![job.time] = [b EXCEPT !.dirs = @ \cup {p}]]
                 /\ [b EXCEPT !.dirs = @ \cup {p}] \in Directories
<1>0. job \in Jobs /\ job.at = None /\ backup \in [Times -> Directories] /\ job.time \in Times
    BY Shapes DEF Sane, BackupMount
<1>1. UNCHANGED <<live, clock, queue, deletion, refresh, listed, spoiled, harmed>>
    BY DEF BackupMount, screen, history
<1>2. CASE job' = [job EXCEPT !.todo = @ \ {p}] /\ UNCHANGED backup
    BY <1>0, <1>1, <1>2 DEF BackupMount, Jobs, JobSane, Sane
<1>3. CASE /\ live[p] # NoSave
           /\ job' = [job EXCEPT !.todo = @ \ {p}, !.at = p, !.stage = "copy",
                                 !.slip = p \in harmed]
           /\ backup' = [backup EXCEPT ![job.time].dirs = @ \cup {p}]
    <2>1. [backup[job.time] EXCEPT !.dirs = @ \cup {p}] \in Directories
        BY <1>0 DEF Directories
    <2>2. (p \in harmed) \in BOOLEAN
        OBVIOUS
    <2> DEFINE slip == p \in harmed
    <2> HIDE DEF slip
    <2>3. /\ job' \in Jobs /\ job'.kind = "backup" /\ job'.at = p /\ job'.stage = "copy"
          /\ job'.todo = job.todo \ {p} /\ job'.done = job.done /\ job'.time = job.time
          /\ job'.slip = slip /\ job'.copied = job.copied
        BY <1>0, <1>3, <2>2 DEF BackupMount, Jobs, slip
    <2>4. JobSane'
        BY <1>1, <1>3, <2>3, Constants DEF JobSane
    <2> QED BY <1>0, <1>1, <1>3, <2>1, <2>3, <2>4 DEF BackupMount, slip
<1> QED BY <1>2, <1>3 DEF BackupMount

LEMMA BackupCopyEffect ==
    ASSUME Sane, NEW f \in Files, BackupCopy(f)
    PROVE  LET b == backup[job.time]
               p == job.at IN
           /\ job.kind = "backup" /\ job.stage = "copy" /\ p \in Profiles
           /\ live[p] \in Content /\ f \in Present(live[p])
           /\ UNCHANGED <<live, clock, queue, deletion, refresh, listed, spoiled, harmed>>
           /\ JobSane' /\ job'.kind = job.kind /\ job'.time = job.time
           /\ job'.todo = job.todo /\ job'.done = job.done
           /\ \E c \in Versions \cup {Absent, Torn} :
                  /\ backup' = [backup EXCEPT ![job.time] = Replaced(b, b.dirs, p, f, c)]
                  /\ Replaced(b, b.dirs, p, f, c) \in Directories
                  /\ \/ /\ job'.stage = "copy" /\ job'.at = p
                        /\ job'.copied = job.copied \cup {f}
                        /\ ~job'.slip => ~job.slip /\ c = live[p][f]
                     \/ job'.stage = "profiles" /\ job'.at = None
<1> DEFINE b == backup[job.time]
           p == job.at
<1>0. /\ job \in Jobs /\ job.time \in Times /\ backup \in [Times -> Directories] /\ b \in Directories
      /\ job.kind = "backup" /\ job.stage = "copy" /\ p \in Profiles
      /\ live[p] \in Content /\ f \in Present(live[p])
    BY Shapes DEF Sane, BackupCopy
<1>1. UNCHANGED <<live, clock, queue, deletion, refresh, listed, spoiled, harmed>>
    BY DEF BackupCopy, screen, history
<1>2. live[p][f] \in Versions \cup {Absent, Torn}
    BY <1>0 DEF Content
<1>3. \A c \in Versions \cup {Absent, Torn} :
          /\ Replaced(b, b.dirs, p, f, c) \in Directories
          /\ backup' = [backup EXCEPT ![job.time].file[p][f] = c] =>
                 backup' = [backup EXCEPT ![job.time] = Replaced(b, b.dirs, p, f, c)]
    <2> SUFFICES ASSUME NEW c \in Versions \cup {Absent, Torn}
                 PROVE  /\ Replaced(b, b.dirs, p, f, c) \in Directories
                        /\ backup' = [backup EXCEPT ![job.time].file[p][f] = c] =>
                               backup' = [backup EXCEPT ![job.time] = Replaced(b, b.dirs, p, f, c)]
        OBVIOUS
    <2>1. b.dirs \in SUBSET Profiles
        BY <1>0 DEF Directories
    <2>2. Replaced(b, b.dirs, p, f, c) \in Directories
        <3> HIDE DEF b, p
        <3> QED BY ONLY <1>0, <2>1, FileUpdate, c \in Versions \cup {Absent, Torn}, f \in Files
    <2>3. [b EXCEPT !.file[p][f] = c] = Replaced(b, b.dirs, p, f, c)
        BY <1>0 DEF Replaced, Directories
    <2> QED BY <2>2, <2>3
<1>4. ASSUME NEW c \in Copies(live[p][f]),
             backup' = [backup EXCEPT ![job.time].file[p][f] = c],
             job' = [job EXCEPT !.copied = @ \cup {f}, !.slip = @ \/ c # live[p][f]]
      PROVE  /\ JobSane' /\ job'.kind = job.kind /\ job'.time = job.time
             /\ job'.todo = job.todo /\ job'.done = job.done
             /\ job'.stage = "copy" /\ job'.at = p /\ job'.copied = job.copied \cup {f}
             /\ ~job'.slip => ~job.slip /\ c = live[p][f]
             /\ c \in Versions \cup {Absent, Torn}
    <2> DEFINE slip == job.slip \/ c # live[p][f]
    <2>0. slip \in BOOLEAN /\ c \in Versions \cup {Absent, Torn}
        BY <1>2 DEF Copies
    <2>00. job' = [job EXCEPT !.copied = @ \cup {f}, !.slip = slip]
        BY <1>4
    <2>01. ~slip => ~job.slip /\ c = live[p][f]
        OBVIOUS
    <2> HIDE DEF slip
    <2>1. /\ job' \in Jobs /\ job'.kind = job.kind /\ job'.at = p /\ job'.stage = "copy"
          /\ job'.todo = job.todo /\ job'.done = job.done /\ job'.time = job.time
          /\ job'.slip = slip /\ job'.copied = job.copied \cup {f}
        BY <1>0, <2>0, <2>00 DEF Jobs
    <2>2. JobSane'
        BY <1>0, <1>1, <2>1, Constants DEF JobSane, Sane
    <2> QED BY <2>0, <2>01, <2>1, <2>2
<1>5. ASSUME Unmount(job.done)
      PROVE  /\ JobSane' /\ job'.kind = job.kind /\ job'.time = job.time
             /\ job'.todo = job.todo /\ job'.done = job.done
             /\ job'.stage = "profiles" /\ job'.at = None
    BY <1>0, <1>1, <1>5, Constants DEF Unmount, Jobs, JobSane, Sane
<1> HIDE DEF b, p
<1>6. CASE \E c \in Copies(live[p][f]) :
               /\ backup' = [backup EXCEPT ![job.time].file[p][f] = c]
               /\ job' = [job EXCEPT !.copied = @ \cup {f}, !.slip = @ \/ c # live[p][f]]
    BY <1>0, <1>1, <1>3, <1>4, <1>6 DEF b, p
<1>7. CASE /\ \E c \in {Absent, Torn} : backup' = [backup EXCEPT ![job.time].file[p][f] = c]
           /\ Unmount(job.done)
    BY <1>0, <1>1, <1>3, <1>5, <1>7 DEF b, p
<1> QED BY <1>6, <1>7 DEF BackupCopy, p

\* The directory gets or loses nothing.
LEMMA CopyEndEffect ==
    ASSUME Sane, Overlook \/ BackupCopied \/ ImportLeave \/ RestoreFail
                     \/ (\E p \in Profiles : RestoreSkip(p))
                     \/ RestoreCommit
    PROVE  /\ UNCHANGED <<backup, clock, queue, deletion, refresh, listed>>
           /\ job \in Jobs /\ JobSane' /\ job'.kind = job.kind /\ job'.time = job.time
           /\ job'.todo \subseteq job.todo
           /\ live' \in [Profiles -> {NoSave} \cup Content]
           /\ spoiled' \subseteq Times /\ harmed' \subseteq Profiles
           /\ spoiled \subseteq spoiled'
<1>0. /\ job \in Jobs /\ job.time \in Times /\ job.mount \in Content /\ job.at \in Profiles \cup {None}
      /\ live \in [Profiles -> {NoSave} \cup Content] /\ spoiled \subseteq Times
      /\ harmed \subseteq Profiles /\ job.done \subseteq Profiles
      /\ job.at # None <=> job.stage = "copy"
    BY Shapes DEF Sane
<1>1. CASE Overlook
    BY <1>0, <1>1, Constants DEF Overlook, JobSane, Sane, Jobs, screen, history
<1>2. CASE BackupCopied
    BY <1>0, <1>2, Constants DEF BackupCopied, Unmount, JobSane, Sane, Jobs, screen
<1>3. CASE ImportLeave
    BY <1>0, <1>3, Constants DEF ImportLeave, JobSane, Sane, Jobs, screen, history
<1>4. CASE RestoreFail
    BY <1>0, <1>4, Constants DEF RestoreFail, Unmount, JobSane, Sane, Jobs, screen, history
<1>5. ASSUME NEW p \in Profiles, RestoreSkip(p)
      PROVE  /\ UNCHANGED <<backup, clock, queue, deletion, refresh, listed>>
             /\ job \in Jobs /\ JobSane' /\ job'.kind = job.kind /\ job'.time = job.time
             /\ job'.todo \subseteq job.todo
             /\ live' \in [Profiles -> {NoSave} \cup Content]
             /\ spoiled' \subseteq Times /\ harmed' \subseteq Profiles
             /\ spoiled \subseteq spoiled'
    BY <1>0, <1>5, Constants DEF RestoreSkip, JobSane, Sane, Jobs, screen, history
<1>6. CASE RestoreCommit
    <2>1. job' \in Jobs /\ job'.stage = "profiles" /\ job'.at = None /\ job'.kind = "restore"
          /\ job'.time = job.time /\ job'.todo = job.todo /\ job'.copied = {} /\ ~job'.slip
        BY <1>0, <1>6, Constants DEF RestoreCommit, Unmount, Jobs
    <2>2. JobSane'
        BY <2>1 DEF JobSane
    <2>3. UNCHANGED <<backup, clock, queue, deletion, refresh, listed, spoiled>>
        BY <1>6 DEF RestoreCommit, screen
    <2>4. live' \in [Profiles -> {NoSave} \cup Content] /\ harmed' \subseteq Profiles
        BY <1>0, <1>6 DEF RestoreCommit
    <2> QED BY <1>0, <1>6, <2>1, <2>2, <2>3, <2>4 DEF RestoreCommit
<1> QED BY <1>1, <1>2, <1>3, <1>4, <1>5, <1>6

LEMMA RestoreMountEffect ==
    ASSUME Sane, NEW p \in Profiles, RestoreMount(p)
    PROVE  /\ job.kind = "restore" /\ job.stage = "profiles" /\ job.at = None /\ p \in job.todo
           /\ live[p] \in Content
           /\ UNCHANGED <<live, backup, clock, queue, deletion, refresh, listed, spoiled, harmed>>
           /\ JobSane' /\ job'.kind = job.kind /\ job'.time = job.time
           /\ job'.todo = job.todo \ {p} /\ job'.copied = job.copied
           /\ job'.at = p /\ job'.stage = "copy"
           /\ ~job'.slip => job'.mount = Empty
<1>0. /\ job \in Jobs /\ job.at = None /\ live[p] \in Content /\ job.kind = "restore"
    BY Shapes DEF Sane, RestoreMount
<1>1. PICK left \in SUBSET Present(live[p]) :
          job' = [job EXCEPT !.todo = @ \ {p}, !.at = p, !.stage = "copy",
                             !.mount = Cleared(live[p], left), !.slip = left # {}]
    BY DEF RestoreMount
<1>2. UNCHANGED <<live, backup, clock, queue, deletion, refresh, listed, spoiled, harmed>>
    BY DEF RestoreMount, screen, history
<1> DEFINE slip == left # {}
           mount == Cleared(live[p], left)
<1>3. slip \in BOOLEAN /\ mount \in Content /\ (~slip => mount = Empty)
    BY <1>0 DEF Cleared, Content, Empty
<1>4. job' = [job EXCEPT !.todo = @ \ {p}, !.at = p, !.stage = "copy",
                         !.mount = mount, !.slip = slip]
    BY <1>1
<1> HIDE DEF slip, mount
<1>5. /\ job' \in Jobs /\ job'.kind = job.kind /\ job'.time = job.time
      /\ job'.todo = job.todo \ {p} /\ job'.copied = job.copied
      /\ job'.at = p /\ job'.stage = "copy" /\ job'.mount = mount /\ job'.slip = slip
    BY <1>0, <1>3, <1>4 DEF Jobs
<1>6. JobSane'
    BY <1>0, <1>2, <1>5, Constants, NoSaveAssumption DEF JobSane
<1> QED BY <1>0, <1>2, <1>3, <1>5, <1>6 DEF RestoreMount

LEMMA RestoreCopyEffect ==
    ASSUME Sane, NEW f \in Files, RestoreCopy(f)
    PROVE  LET src == backup[job.time].file[job.at] IN
           /\ job.kind = "restore" /\ job.stage = "copy" /\ job.at \in Profiles
           /\ src \in Content /\ f \in Present(src)
           /\ UNCHANGED <<live, backup, clock, queue, deletion, refresh, listed, spoiled, harmed>>
           /\ JobSane' /\ job'.kind = job.kind /\ job'.time = job.time
           /\ job'.todo = job.todo /\ job'.at = job.at /\ job'.stage = "copy"
           /\ job'.copied = job.copied \cup {f}
           /\ ~job'.slip => ~job.slip /\ job'.mount = [job.mount EXCEPT ![f] = src[f]]
<1> DEFINE src == backup[job.time].file[job.at]
<1>0. /\ job \in Jobs /\ job.at \in Profiles /\ job.kind = "restore" /\ job.stage = "copy"
      /\ job.mount \in Content /\ backup[job.time].file \in [Profiles -> Content]
      /\ f \in Present(src)
    BY Shapes DEF Sane, RestoreCopy
<1>00. src \in Content /\ src[f] \in Versions \cup {Absent, Torn}
    BY <1>0 DEF Content
<1>1. PICK c \in Copies(src[f]) :
          job' = [job EXCEPT !.mount[f] = c, !.copied = @ \cup {f}, !.slip = @ \/ c # src[f]]
    BY DEF RestoreCopy
<1>2. UNCHANGED <<live, backup, clock, queue, deletion, refresh, listed, spoiled, harmed>>
    BY DEF RestoreCopy, screen, history
<1> DEFINE slip == job.slip \/ c # src[f]
           mount == [job.mount EXCEPT ![f] = c]
<1>3. slip \in BOOLEAN /\ mount \in Content
      /\ (~slip => ~job.slip /\ mount = [job.mount EXCEPT ![f] = src[f]])
    BY <1>0, <1>00 DEF Content, Copies
<1>4. job' = [job EXCEPT !.mount = mount, !.copied = @ \cup {f}, !.slip = slip]
    BY <1>1
<1> HIDE DEF slip, mount
<1>5. /\ job' \in Jobs /\ job'.kind = job.kind /\ job'.time = job.time
      /\ job'.todo = job.todo /\ job'.copied = job.copied \cup {f}
      /\ job'.at = job.at /\ job'.stage = job.stage /\ job'.mount = mount /\ job'.slip = slip
    BY <1>0, <1>3, <1>4 DEF Jobs
<1>6. JobSane'
    BY <1>0, <1>2, <1>5, Constants DEF JobSane, Sane
<1> QED BY <1>0, <1>00, <1>2, <1>3, <1>5, <1>6

LEMMA ImportEnterEffect ==
    ASSUME Sane, NEW p \in Profiles, ImportEnter(p)
    PROVE  /\ job.kind = "import" /\ job.stage = "profiles" /\ job.at = None /\ p \in job.todo
           /\ Cloud[p] \in Versions
           /\ UNCHANGED <<live, backup, clock, queue, deletion, refresh, listed, spoiled, harmed>>
           /\ JobSane' /\ job'.kind = job.kind /\ job'.time = job.time
           /\ job'.todo = job.todo \ {p} /\ job'.done = job.done /\ job'.copied = job.copied
           /\ job'.at = p /\ job'.stage = "copy" /\ job'.slip = job.slip
<1>0. /\ job \in Jobs /\ job.at = None /\ job.kind = "import" /\ p \in job.todo
      /\ job.todo \subseteq CloudProfiles
    BY Shapes DEF Sane, ImportEnter
<1>1. Cloud[p] \in Versions
    BY <1>0, LocalBackupsAssumption DEF CloudProfiles
<1>2. UNCHANGED <<live, backup, clock, queue, deletion, refresh, listed, spoiled, harmed>>
    BY DEF ImportEnter, screen, history
<1>3. /\ job' \in Jobs /\ job'.kind = job.kind /\ job'.time = job.time
      /\ job'.todo = job.todo \ {p} /\ job'.done = job.done /\ job'.copied = job.copied
      /\ job'.at = p /\ job'.stage = "copy" /\ job'.slip = job.slip
    BY <1>0 DEF ImportEnter, Jobs
<1>4. JobSane'
    BY <1>0, <1>1, <1>3, Constants DEF JobSane, Sane
<1> QED BY <1>0, <1>1, <1>2, <1>3, <1>4 DEF ImportEnter

\* The clean-up ends the job.
Cleaned ==
    /\ job' = NoJob /\ refresh' = refresh
    /\ backup' \in [Times -> Directories]
    /\ \A u \in Times \ {job.time} : backup'[u] = backup[u]
    /\ backup'[job.time].manifest \in {backup[job.time].manifest, "none"}

LEMMA CleanUp ==
    ASSUME Sane, NEW b \in Directories, b.manifest = backup[job.time].manifest,
           Discard(b), Finish(FALSE)
    PROVE  Cleaned
<1>1. TypeOK
    BY DEF Sane
<1>2. /\ backup' \in [Times -> Directories]
      /\ \A u \in Times \ {job.time} : backup'[u] = backup[u]
      /\ backup'[job.time].manifest \in {backup[job.time].manifest, "none"}
    BY <1>1, DiscardTyped
<1>3. refresh \in BOOLEAN
    BY <1>1 DEF TypeOK
<1>4. job' = NoJob /\ refresh' = (refresh \/ FALSE)
    BY DEF Finish
<1>5. refresh' = refresh
    BY <1>3, <1>4
<1> QED BY <1>2, <1>4, <1>5 DEF Cleaned

LEMMA ImportFileEffect ==
    ASSUME Sane, NEW f \in Files, ImportFile(f)
    PROVE  LET b == backup[job.time]
               p == job.at
               d == Replaced(b, b.dirs \cup {p}, p, f, Cloud[p]) IN
           /\ job.kind = "import" /\ job.stage = "copy" /\ p \in Profiles
           /\ Cloud[p] \in Versions /\ f \in FilesOf[Cloud[p]]
           /\ UNCHANGED <<live, clock, queue, deletion, listed, spoiled, harmed>>
           /\ b.dirs \cup {p} \in SUBSET Profiles
           /\ \/ Cleaned
              \/ /\ JobSane' /\ job'.kind = job.kind /\ job'.time = job.time
                 /\ job'.todo = job.todo /\ job'.at = p /\ job'.stage = "copy"
                 /\ job'.copied = job.copied \cup {f} /\ job'.done = job.done \cup {p}
                 /\ job'.slip = job.slip /\ UNCHANGED refresh
                 /\ backup' = [backup EXCEPT ![job.time] = d] /\ d \in Directories
<1> DEFINE b == backup[job.time]
           p == job.at
<1>0. /\ job \in Jobs /\ job.time \in Times /\ backup \in [Times -> Directories] /\ b \in Directories
      /\ job.kind = "import" /\ job.stage = "copy" /\ p \in Profiles
      /\ Cloud[p] \in Versions /\ f \in FilesOf[Cloud[p]]
      /\ UNCHANGED <<live, clock, queue, deletion, listed, spoiled, harmed>>
    BY Shapes DEF Sane, ImportFile, history
<1>1. b.dirs \cup {p} \in SUBSET Profiles
    BY <1>0 DEF Directories
<1>2. \A c : FileIn(b, p, f, c) = Replaced(b, b.dirs \cup {p}, p, f, c)
    BY DEF FileIn, Replaced
<1>3. \A c \in Versions \cup {Absent, Torn} : Replaced(b, b.dirs \cup {p}, p, f, c) \in Directories
    <2> HIDE DEF b, p
    <2> QED BY ONLY <1>0, <1>1, FileUpdate, f \in Files
<1>4. CASE /\ backup' = [backup EXCEPT ![job.time] = FileIn(b, p, f, Cloud[p])]
           /\ job' = [job EXCEPT !.copied = @ \cup {f}, !.done = @ \cup {p}]
           /\ UNCHANGED refresh
    <2>1. /\ job' \in Jobs /\ job'.kind = job.kind /\ job'.time = job.time
          /\ job'.todo = job.todo /\ job'.at = p /\ job'.stage = "copy"
          /\ job'.copied = job.copied \cup {f} /\ job'.done = job.done \cup {p}
          /\ job'.slip = job.slip
        BY <1>0, <1>4 DEF Jobs
    <2>2. JobSane'
        BY <1>0, <2>1, Constants DEF JobSane, Sane
    <2> HIDE DEF b, p
    <2> QED BY <1>0, <1>1, <1>2, <1>3, <1>4, <2>1, <2>2 DEF b, p
<1>5. CASE Discard(FileIn(b, p, f, Torn)) /\ Finish(FALSE)
    <2>1. FileIn(b, p, f, Torn) \in Directories /\ FileIn(b, p, f, Torn).manifest = b.manifest
        BY <1>0, <1>2, <1>3 DEF FileIn, Directories
    <2>2. Cleaned
        BY <1>5, <2>1, CleanUp
    <2> QED BY <1>0, <1>1, <2>2
<1> QED BY <1>4, <1>5 DEF ImportFile

LEMMA ManifestOpenEffect ==
    ASSUME Sane, ManifestOpen
    PROVE  LET d == [backup[job.time] EXCEPT !.manifest = "torn", !.names = {}] IN
           /\ Makes(job.kind) /\ job.stage = "profiles" /\ job.at = None /\ job.todo = {}
           /\ job.kind = "backup" => job.done # {}
           /\ UNCHANGED <<live, clock, queue, deletion, listed, spoiled, harmed>>
           /\ \/ Cleaned
              \/ /\ JobSane' /\ job'.kind = job.kind /\ job'.time = job.time
                 /\ job'.todo = job.todo /\ job'.at = None /\ job'.stage = "manifest"
                 /\ job'.done = job.done /\ job'.copied = job.copied /\ UNCHANGED refresh
                 /\ backup' = [backup EXCEPT ![job.time] = d] /\ d \in Directories
<1> DEFINE b == backup[job.time]
<1>0. /\ job \in Jobs /\ job.time \in Times /\ backup \in [Times -> Directories] /\ b \in Directories
      /\ Makes(job.kind) /\ job.stage = "profiles" /\ job.at = None /\ job.todo = {}
      /\ job.kind = "backup" => job.done # {}
      /\ UNCHANGED <<live, clock, queue, deletion, listed, spoiled, harmed>>
    BY Shapes DEF Sane, ManifestOpen, history, Makes
<1>1. CASE /\ backup' = [backup EXCEPT ![job.time].manifest = "torn", ![job.time].names = {}]
           /\ job' = [job EXCEPT !.stage = "manifest"] /\ UNCHANGED refresh
    <2>1. [b EXCEPT !.manifest = "torn", !.names = {}] \in Directories
        BY <1>0 DEF Directories
    <2>2. backup' = [backup EXCEPT ![job.time] = [b EXCEPT !.manifest = "torn", !.names = {}]]
        BY <1>0, <1>1
    <2>3. /\ job' \in Jobs /\ job'.kind = job.kind /\ job'.time = job.time
          /\ job'.todo = job.todo /\ job'.at = None /\ job'.stage = "manifest"
          /\ job'.done = job.done /\ job'.copied = job.copied /\ job'.slip = job.slip
        BY <1>0, <1>1 DEF Jobs
    <2>4. JobSane'
        BY <1>0, <2>3 DEF JobSane, Sane
    <2> QED BY <1>0, <1>1, <2>1, <2>2, <2>3, <2>4
<1>2. CASE Discard(b) /\ Finish(FALSE)
    BY <1>0, <1>2, CleanUp
<1> QED BY <1>1, <1>2 DEF ManifestOpen

\* The manifest is whole: the job is done.
Completed ==
    LET d == [backup[job.time] EXCEPT !.manifest = "valid", !.names = job.done] IN
    /\ backup' = [backup EXCEPT ![job.time] = d] /\ d \in Directories
    /\ job' = NoJob /\ refresh' = TRUE

LEMMA ManifestWriteEffect ==
    ASSUME Sane, ManifestWrite
    PROVE  /\ Makes(job.kind) /\ job.stage = "manifest" /\ job.at = None
           /\ UNCHANGED <<live, clock, queue, deletion, listed, spoiled, harmed>>
           /\ Completed \/ Cleaned
<1> DEFINE b == backup[job.time]
<1>0. /\ job \in Jobs /\ job.time \in Times /\ backup \in [Times -> Directories] /\ b \in Directories
      /\ Makes(job.kind) /\ job.stage = "manifest" /\ job.at = None /\ job.done \subseteq Profiles
      /\ UNCHANGED <<live, clock, queue, deletion, listed, spoiled, harmed>>
    BY Shapes DEF Sane, ManifestWrite, history
<1>1. CASE /\ backup' = [backup EXCEPT ![job.time].manifest = "valid", ![job.time].names = job.done]
           /\ Finish(TRUE)
    <2>1. [b EXCEPT !.manifest = "valid", !.names = job.done] \in Directories
        BY <1>0 DEF Directories
    <2>2. backup' = [backup EXCEPT ![job.time] = [b EXCEPT !.manifest = "valid", !.names = job.done]]
        BY <1>0, <1>1
    <2> QED BY <1>0, <1>1, <2>1, <2>2 DEF Completed, Finish
<1>2. CASE Discard(b) /\ Finish(FALSE)
    BY <1>0, <1>2, CleanUp
<1> QED BY <1>1, <1>2 DEF ManifestWrite

LEMMA BackupNothingEffect ==
    ASSUME Sane, BackupNothing
    PROVE  /\ job.kind = "backup" /\ Cleaned
           /\ UNCHANGED <<live, clock, queue, deletion, listed, spoiled, harmed>>
<1>1. backup[job.time] \in Directories
    BY Shapes DEF Sane
<1> QED BY <1>1, CleanUp DEF BackupNothing, history

LEMMA BeginEffect ==
    ASSUME Sane, Begin
    PROVE  LET q == queue[1] IN
           /\ job = NoJob /\ queue \in Seq(Requests) /\ Len(queue) > 0 /\ 1 \in 1..Len(queue)
           /\ UNCHANGED <<live, backup, clock, deletion, refresh, listed, harmed>>
           /\ queue' \in Seq(Requests)
           /\ \A i \in 1..Len(queue') : i + 1 \in 1..Len(queue) /\ queue'[i] = queue[i + 1]
           /\ JobSane' /\ job'.kind = q.kind /\ job'.todo = q.todo /\ job'.stage = "profiles"
           /\ job'.at = None /\ job'.done = {} /\ job'.copied = {} /\ ~job'.slip
           /\ job'.time = IF Makes(q.kind) THEN clock ELSE q.time
           /\ spoiled' = spoiled \cup
                  (IF Makes(q.kind) /\ backup[clock] # NoDirectory THEN {clock} ELSE {})
           /\ q.kind \in {"backup", "restore", "import"}
<1> DEFINE q == Head(queue)
<1>0. /\ job = NoJob /\ queue \in Seq(Requests) /\ queue # <<>> /\ clock \in Times
      /\ UNCHANGED <<live, backup, clock, deletion, refresh, listed, harmed>>
    BY Shapes DEF Begin, screen, Sane
<1>1. q = queue[1] /\ 1 \in 1..Len(queue) /\ Len(queue) > 0
    BY <1>0
<1>2. /\ queue' \in Seq(Requests)
      /\ \A i \in 1..Len(queue') : i + 1 \in 1..Len(queue) /\ queue'[i] = queue[i + 1]
    BY <1>0 DEF Begin
<1>3. /\ q.kind \in {"backup", "restore", "import"} /\ q.time \in Times /\ q.todo \subseteq Profiles
      /\ q.kind = "import" => q.todo = CloudProfiles
    BY <1>0, <1>1, Elements DEF Sane
<1>4. /\ job' = [NoJob EXCEPT !.kind = q.kind, !.todo = q.todo, !.stage = "profiles",
                              !.time = IF Makes(q.kind) THEN clock ELSE q.time]
      /\ spoiled' = spoiled \cup
             (IF Makes(q.kind) /\ backup[clock] # NoDirectory THEN {clock} ELSE {})
    BY DEF Begin
<1> HIDE DEF q
<1> DEFINE t == IF Makes(q.kind) THEN clock ELSE q.time
<1>5. t \in Times
    BY <1>0, <1>3
<1> HIDE DEF t
<1>6. /\ job' \in Jobs /\ job'.kind = q.kind /\ job'.todo = q.todo /\ job'.stage = "profiles"
      /\ job'.at = None /\ job'.done = {} /\ job'.copied = {} /\ job'.time = t /\ ~job'.slip
    <2>1. job' = [NoJob EXCEPT !.kind = q.kind, !.todo = q.todo, !.stage = "profiles", !.time = t]
        BY <1>4 DEF t
    <2> QED BY <1>3, <1>5, <2>1, Constants DEF NoJob, Jobs
<1>7. JobSane'
    BY <1>3, <1>6 DEF JobSane, CloudProfiles
<1> QED BY <1>0, <1>1, <1>2, <1>3, <1>4, <1>6, <1>7 DEF t

\* A job that is asked for.
LEMMA TapEffect ==
    ASSUME Sane, TapBackup \/ TapRestore \/ TapImport
    PROVE  /\ UNCHANGED <<live, backup, clock, job, deletion, refresh, listed, spoiled, harmed>>
           /\ \E q \in Requests :
                  /\ queue' = Append(queue, q)
                  /\ q.kind = "import" => q.todo = CloudProfiles
                  /\ q.kind = "restore" => \E e \in listed : q.time = e.time /\ q.todo = e.profiles
<1>1. CASE TapBackup
    <2> DEFINE q == [kind |-> "backup", time |-> 0, todo |-> Profiles]
    <2>1. q \in Requests
        BY Constants DEF Requests
    <2> QED BY <1>1, <2>1 DEF TapBackup, Tap, screen, history
<1>2. CASE TapRestore
    <2>1. PICK e \in listed : Tap("restore", e.time, e.profiles)
        BY <1>2 DEF TapRestore
    <2> DEFINE q == [kind |-> "restore", time |-> e.time, todo |-> e.profiles]
    <2>2. q \in Requests
        BY Shapes DEF Requests, Sane
    <2> QED BY <2>1, <2>2 DEF Tap, screen, history
<1>3. CASE TapImport
    <2> DEFINE q == [kind |-> "import", time |-> 0, todo |-> CloudProfiles]
    <2>1. q \in Requests
        BY Constants DEF Requests, CloudProfiles
    <2> QED BY <1>3, <2>1 DEF TapImport, Tap, screen, history, CloudProfiles
<1> QED BY <1>1, <1>2, <1>3

LEMMA Appended ==
    ASSUME NEW s \in Seq(Requests), NEW q \in Requests
    PROVE  /\ Append(s, q) \in Seq(Requests) /\ Len(Append(s, q)) = Len(s) + 1
           /\ \A i \in 1..Len(Append(s, q)) :
                  \/ i \in 1..Len(s) /\ Append(s, q)[i] = s[i]
                  \/ Append(s, q)[i] = q
OBVIOUS

\* A step of remove_tree leaves its mark in one directory only.
LEMMA Removal ==
    ASSUME Sane, DeletionStep
    PROVE  /\ UNCHANGED <<live, clock, queue, job, refresh, listed, spoiled, harmed>>
           /\ backup' \in [Times -> Directories]
           /\ deletion' \in Deletions /\ deletion'.time = deletion.time /\ deletion.time \in Times
           /\ \A t \in Times \ {deletion.time} : backup'[t] = backup[t]
<1>0. /\ deletion.time \in Times /\ deletion \in Deletions /\ backup \in [Times -> Directories]
      /\ UNCHANGED <<live, clock, queue, job, refresh, listed, spoiled, harmed>>
    BY Shapes DEF DeletionStep, Sane, UiFree, Deletions, NoDeletion, history
<1> DEFINE t == deletion.time
           b == backup[t]
           p == deletion.at
<1>1. b \in Directories /\ p \in Profiles \cup {None}
    BY <1>0 DEF Deletions
<1>2. CASE RemoveManifest
    <2> DEFINE d == [b EXCEPT !.manifest = "none", !.names = {}]
    <2>1. d \in Directories
        BY <1>1 DEF Directories
    <2>2. backup' = [backup EXCEPT ![t] = d] /\ deletion' = deletion
        BY <1>2 DEF RemoveManifest
    <2> HIDE DEF d
    <2> QED BY <1>0, <2>1, <2>2, DirectoryUpdate
<1>3. CASE RemoveEnter
    <2>1. PICK q \in b.dirs : deletion' = [deletion EXCEPT !.at = q]
        BY <1>3 DEF RemoveEnter
    <2>2. q \in Profiles
        BY <1>1, <2>1 DEF Directories
    <2> QED BY <1>0, <1>3, <2>1, <2>2 DEF RemoveEnter, Deletions
<1>4. CASE RemoveFile
    <2>1. PICK f \in Present(b.file[p]) :
              backup' = [backup EXCEPT ![t].file[p][f] = Absent]
        BY <1>4 DEF RemoveFile
    <2> DEFINE d == Replaced(b, b.dirs, p, f, Absent)
    <2>2. p \in Profiles /\ f \in Files /\ Absent \in Versions \cup {Absent, Torn}
          /\ b.dirs \in SUBSET Profiles
        BY <1>1, <1>4 DEF RemoveFile, Present, Directories
    <2>3. backup' = [backup EXCEPT ![t] = d] /\ deletion' = deletion
        BY <1>1, <1>4, <2>1, <2>2 DEF RemoveFile, Directories, Replaced
    <2>4. d \in Directories
        <3> HIDE DEF b, p
        <3> QED BY ONLY <1>1, <2>2, FileUpdate
    <2> HIDE DEF d
    <2> QED BY <1>0, <2>3, <2>4, DirectoryUpdate
<1>5. CASE RemoveLeave
    <2> DEFINE d == [b EXCEPT !.dirs = b.dirs \ {p}]
    <2>1. d \in Directories
        BY <1>1 DEF Directories
    <2>2. /\ UNCHANGED backup \/ backup' = [backup EXCEPT ![t] = d]
          /\ deletion' = [deletion EXCEPT !.at = None]
        BY <1>5 DEF RemoveLeave
    <2> HIDE DEF d
    <2>3. deletion' \in Deletions /\ deletion'.time = deletion.time
        BY <1>0, <2>2 DEF Deletions
    <2> QED BY <1>0, <2>1, <2>2, <2>3, DirectoryUpdate
<1> QED BY <1>2, <1>3, <1>4, <1>5 DEF DeletionStep

LEMMA RestartEffect ==
    ASSUME Sane, Restart
    PROVE  /\ queue' = <<>> /\ job' = NoJob /\ deletion' = NoDeletion /\ refresh' = FALSE
           /\ UNCHANGED <<backup, clock, spoiled>> /\ listed' = List(backup)
           /\ \/ UNCHANGED <<live, harmed>>
              \/ \E p \in Profiles, s \in WholeSaves \cup {NoSave} :
                     live' = [live EXCEPT ![p] = s] /\ harmed' = harmed \ {p}
           /\ live' \in [Profiles -> {NoSave} \cup Content] /\ harmed' \subseteq Profiles
<1>1. live \in [Profiles -> {NoSave} \cup Content] /\ harmed \subseteq Profiles
    BY Shapes DEF Sane
<1>2. \A p \in Profiles, s \in WholeSaves \cup {NoSave} :
          [live EXCEPT ![p] = s] \in [Profiles -> {NoSave} \cup Content]
    BY <1>1, Constants
<1> QED BY <1>1, <1>2 DEF Restart

LEMMA SaneStep ==
    ASSUME Sane, [Next]_vars
    PROVE  Sane'
<1>0. /\ backup \in [Times -> Directories] /\ live \in [Profiles -> {NoSave} \cup Content]
      /\ queue \in Seq(Requests) /\ spoiled \subseteq Times /\ harmed \subseteq Profiles
      /\ refresh \in BOOLEAN /\ job.time \in Times /\ clock \in Times
      /\ List(backup) \subseteq Entries /\ listed \subseteq Entries /\ JobSane
      /\ \A e \in listed : e.time \in Times /\ e.profiles \subseteq Profiles
    BY Shapes, Listing DEF Sane, JobSane
<1>1. ASSUME NEW p \in Profiles, BackupMount(p)
      PROVE  Sane'
    <2>1. backup' \in [Times -> Directories]
        BY <1>0, <1>1, BackupMountEffect, DirectoryUpdate
    <2> QED BY <1>0, <1>1, <2>1, BackupMountEffect, SaneFrame
<1>2. ASSUME NEW f \in Files, BackupCopy(f)
      PROVE  Sane'
    <2>1. backup' \in [Times -> Directories]
        BY <1>0, <1>2, BackupCopyEffect, DirectoryUpdate
    <2> QED BY <1>0, <1>2, <2>1, BackupCopyEffect, SaneFrame
<1>3. CASE Overlook \/ BackupCopied \/ ImportLeave \/ RestoreFail
                     \/ (\E p \in Profiles : RestoreSkip(p))
                     \/ RestoreCommit
    BY <1>0, <1>3, CopyEndEffect, SaneFrame
<1>4. ASSUME NEW p \in Profiles, RestoreMount(p)
      PROVE  Sane'
    BY <1>0, <1>4, RestoreMountEffect, SaneFrame
<1>5. ASSUME NEW f \in Files, RestoreCopy(f)
      PROVE  Sane'
    BY <1>0, <1>5, RestoreCopyEffect, SaneFrame
<1>6. ASSUME NEW p \in Profiles, ImportEnter(p)
      PROVE  Sane'
    BY <1>0, <1>6, ImportEnterEffect, SaneFrame
<1>7. ASSUME Cleaned, UNCHANGED <<live, clock, queue, deletion, listed, spoiled, harmed>>
      PROVE  Sane'
    BY <1>0, <1>7, Idle, SaneFrame DEF Cleaned
<1>8. ASSUME NEW f \in Files, ImportFile(f)
      PROVE  Sane'
    <2>1. backup' \in [Times -> Directories] \/ Cleaned
        BY <1>0, <1>8, ImportFileEffect, DirectoryUpdate
    <2> QED BY <1>0, <1>7, <1>8, <2>1, ImportFileEffect, SaneFrame
<1>9. CASE ManifestOpen
    <2>1. backup' \in [Times -> Directories] \/ Cleaned
        BY <1>0, <1>9, ManifestOpenEffect, DirectoryUpdate
    <2> QED BY <1>0, <1>7, <1>9, <2>1, ManifestOpenEffect, SaneFrame
<1>10. CASE ManifestWrite
    <2>1. CASE Completed
        <3>1. backup' \in [Times -> Directories]
            BY <1>0, <2>1, DirectoryUpdate DEF Completed
        <3>2. JobSane' /\ refresh' \in BOOLEAN
            BY <2>1, Idle DEF Completed
        <3> QED BY <1>0, <1>10, <3>1, <3>2, ManifestWriteEffect, SaneFrame
    <2> QED BY <1>7, <1>10, <2>1, ManifestWriteEffect
<1>11. CASE BackupNothing
    BY <1>7, <1>11, BackupNothingEffect
<1>12. CASE RestoreEnd
    <2>1. refresh' \in BOOLEAN
        BY <1>0, <1>12 DEF RestoreEnd, Finish
    <2>2. job' = NoJob /\ UNCHANGED <<live, backup, clock, queue, deletion, listed, spoiled, harmed>>
        BY <1>12 DEF RestoreEnd, Finish, history
    <2> QED BY <1>0, <2>1, <2>2, Idle, SaneFrame
<1>13. CASE Begin
    <2>1. /\ UNCHANGED <<live, backup, clock, deletion, refresh, listed, harmed>>
          /\ queue' \in Seq(Requests) /\ JobSane' /\ spoiled' \subseteq Times
        BY <1>0, <1>13, BeginEffect
    <2>2. TypeOK'
        BY <1>0, <2>1 DEF Sane, TypeOK, JobSane
    <2>3. (\A i \in 1..Len(queue) : queue[i].kind = "import" => queue[i].todo = CloudProfiles)'
        BY <1>13, BeginEffect DEF Sane, CloudProfiles
    <2> QED BY <2>1, <2>2, <2>3 DEF Sane, JobSane
<1>14. CASE TapBackup \/ TapRestore \/ TapImport
    <2>1. UNCHANGED <<live, backup, clock, job, deletion, refresh, listed, spoiled, harmed>>
        BY <1>14, TapEffect
    <2>2. PICK q \in Requests : /\ queue' = Append(queue, q)
                                /\ q.kind = "import" => q.todo = CloudProfiles
        BY <1>14, TapEffect
    <2>3. TypeOK'
        BY <1>0, <2>1, <2>2, Appended DEF Sane, TypeOK
    <2>4. (\A i \in 1..Len(queue) : queue[i].kind = "import" => queue[i].todo = CloudProfiles)'
        BY <1>0, <2>2, Appended DEF Sane, CloudProfiles
    <2> QED BY <2>1, <2>3, <2>4 DEF Sane
<1>15. CASE TapDelete
    <2>1. /\ UNCHANGED <<live, backup, clock, queue, job, refresh, listed, harmed>>
          /\ \E e \in listed :
                 deletion' = [time |-> e.time, at |-> None] /\ spoiled' = spoiled \cup {e.time}
        BY <1>15 DEF TapDelete
    <2>2. deletion' \in Deletions /\ deletion'.at = None /\ spoiled' \subseteq Times
        BY <1>0, <2>1 DEF Deletions
    <2>3. TypeOK'
        BY <2>1, <2>2 DEF Sane, TypeOK
    <2> QED BY <2>1, <2>2, <2>3 DEF Sane, CloudProfiles
<1>16. CASE DeletionStep
    <2>1. TypeOK'
        BY <1>16, Removal DEF Sane, TypeOK
    <2>2. deletion'.time # None
        BY <1>16, Removal, Constants
    <2>3. UNCHANGED <<queue, job, live>>
        BY <1>16, Removal
    <2> QED BY <2>1, <2>2, <2>3 DEF Sane, CloudProfiles
<1>17. CASE DeletionDone \/ RefreshHistory \/ Tick \/ UNCHANGED vars
    <2>1. /\ UNCHANGED <<live, backup, queue, job, spoiled, harmed>>
          /\ refresh' \in BOOLEAN /\ listed' \subseteq Entries
          /\ deletion' \in {deletion, NoDeletion} /\ clock' \in Times
        <3>1. CASE DeletionDone
            BY <1>0, <3>1 DEF DeletionDone, history
        <3>2. CASE RefreshHistory
            BY <1>0, <3>2 DEF RefreshHistory, history
        <3>3. CASE Tick
            BY <1>0, <3>3, LocalBackupsAssumption DEF Tick, screen, history, Times
        <3>4. CASE UNCHANGED vars
            BY <1>0, <3>4 DEF vars
        <3> QED BY <1>17, <3>1, <3>2, <3>3, <3>4
    <2>2. TypeOK'
        BY <2>1, Constants DEF Sane, TypeOK
    <2> QED BY <2>1, <2>2, Constants DEF Sane, CloudProfiles
<1>18. CASE Restart
    <2>1. TypeOK'
        <3>1. queue' \in Seq(Requests) /\ refresh' \in BOOLEAN
            BY <1>18, RestartEffect
        <3> QED BY <1>0, <1>18, <3>1, RestartEffect, Constants DEF Sane, TypeOK
    <2>2. Len(queue') = 0
        BY <1>18, RestartEffect
    <2>3. job' = NoJob /\ deletion' = NoDeletion
        BY <1>18, RestartEffect
    <2> QED BY <2>1, <2>2, <2>3, Constants DEF Sane
<1> QED BY <1>1, <1>2, <1>3, <1>4, <1>5, <1>6, <1>8, <1>9, <1>10, <1>11, <1>12, <1>13, <1>14,
           <1>15, <1>16, <1>17, <1>18 DEF Next, Worker

LEMMA SaneInvariance == Spec => []Sane
BY SaneInit, SaneStep, PTL DEF Spec

-------------------------------------------------------------------------------
(* What is left alone *)

\* Directories are written by the job that makes them and by the deletion
\* only, a job keeps its kind and its time to the end, and what is spoiled
\* stays spoiled.
GoesOn ==
    /\ job'.kind = job.kind /\ job'.time = job.time
    /\ job'.todo \subseteq job.todo /\ job'.at \in {None, job.at} \cup job.todo
Elsewhere == \A t \in Times : ~Making(t) /\ deletion.time # t => backup'[t] = backup[t]
Told ==
    /\ \A e \in listed' : e \in listed \/ (UNCHANGED backup /\ e \in List(backup))
    /\ \A i \in 1..Len(queue') : queue'[i].kind = "restore" =>
           \/ \E j \in 1..Len(queue) : queue'[i] = queue[j]
           \/ \E e \in listed : queue'[i].time = e.time /\ queue'[i].todo = e.profiles
Ends ==
    /\ job' = NoJob
    /\ UNCHANGED backup \/ (Cleaned /\ Makes(job.kind)) \/ (ManifestWrite /\ Completed)
SpoiledOnly == spoiled \subseteq spoiled' /\ deletion'.time \in {None, deletion.time} \cup spoiled'

LEMMA StepEffects ==
    ASSUME Sane, [Next]_vars
    PROVE  /\ SpoiledOnly /\ Elsewhere /\ Told
           /\ Ends \/ GoesOn \/ Begin
<1>0. /\ job \in Jobs /\ job.time \in Times /\ backup \in [Times -> Directories]
      /\ queue \in Seq(Requests) /\ job.at # None <=> job.stage = "copy"
      /\ backup[job.time] \in Directories
    BY Shapes DEF Sane
<1>q. UNCHANGED <<queue, listed>> => Told
    BY DEF Told
<1>b. UNCHANGED backup => Elsewhere
    BY DEF Elsewhere
<1>s. UNCHANGED <<deletion, spoiled>> => SpoiledOnly
    BY DEF SpoiledOnly
<1>m. ASSUME Makes(job.kind), \A u \in Times \ {job.time} : backup'[u] = backup[u]
      PROVE  Elsewhere
    BY <1>m DEF Elsewhere, Making
<1>1. ASSUME NEW p \in Profiles, BackupMount(p)
      PROVE  /\ SpoiledOnly /\ Elsewhere /\ Told /\ GoesOn
    <2>1. Makes(job.kind) /\ \A u \in Times \ {job.time} : backup'[u] = backup[u]
        BY <1>0, <1>1, BackupMountEffect, DirectoryUpdate DEF Makes
    <2>2. UNCHANGED <<queue, listed, deletion, spoiled>> /\ GoesOn
        BY <1>1, BackupMountEffect DEF GoesOn
    <2> QED BY <1>q, <1>s, <1>m, <2>1, <2>2
<1>2. ASSUME NEW f \in Files, BackupCopy(f)
      PROVE  /\ SpoiledOnly /\ Elsewhere /\ Told /\ GoesOn
    <2>1. Makes(job.kind) /\ \A u \in Times \ {job.time} : backup'[u] = backup[u]
        BY <1>0, <1>2, BackupCopyEffect, DirectoryUpdate DEF Makes
    <2>2. UNCHANGED <<queue, listed, deletion, spoiled>> /\ GoesOn
        BY <1>2, BackupCopyEffect DEF GoesOn
    <2> QED BY <1>q, <1>s, <1>m, <2>1, <2>2
<1>3. CASE Overlook \/ BackupCopied \/ ImportLeave \/ RestoreFail
                     \/ (\E p \in Profiles : RestoreSkip(p))
                     \/ RestoreCommit
    <2>1. /\ UNCHANGED <<backup, queue, deletion, listed>> /\ spoiled \subseteq spoiled'
          /\ job'.kind = job.kind /\ job'.time = job.time /\ job'.todo \subseteq job.todo
        BY <1>3, CopyEndEffect
    <2>2. job'.at \in {None, job.at}
        BY <1>0, <1>3 DEF Overlook, BackupCopied, ImportLeave, RestoreFail, RestoreSkip, RestoreCommit,
                          Unmount, Jobs
    <2> QED BY <1>q, <1>b, <2>1, <2>2 DEF GoesOn, SpoiledOnly
<1>4. ASSUME NEW p \in Profiles, RestoreMount(p)
      PROVE  /\ SpoiledOnly /\ Elsewhere /\ Told /\ GoesOn
    BY <1>q, <1>b, <1>s, <1>4, RestoreMountEffect DEF GoesOn
<1>5. ASSUME NEW f \in Files, RestoreCopy(f)
      PROVE  /\ SpoiledOnly /\ Elsewhere /\ Told /\ GoesOn
    BY <1>q, <1>b, <1>s, <1>5, RestoreCopyEffect DEF GoesOn
<1>6. ASSUME NEW p \in Profiles, ImportEnter(p)
      PROVE  /\ SpoiledOnly /\ Elsewhere /\ Told /\ GoesOn
    BY <1>q, <1>b, <1>s, <1>6, ImportEnterEffect DEF GoesOn
<1>7. ASSUME Cleaned, Makes(job.kind), UNCHANGED <<queue, deletion, listed, spoiled>>
      PROVE  SpoiledOnly /\ Elsewhere /\ Told /\ Ends
    BY <1>q, <1>s, <1>m, <1>7 DEF Cleaned, Ends
<1>8. ASSUME NEW f \in Files, ImportFile(f)
      PROVE  /\ SpoiledOnly /\ Elsewhere /\ Told
             /\ Ends \/ GoesOn
    <2>1. Makes(job.kind) /\ UNCHANGED <<queue, listed, deletion, spoiled>>
        BY <1>8, ImportFileEffect DEF Makes
    <2>2. Cleaned \/ ((\A u \in Times \ {job.time} : backup'[u] = backup[u]) /\ GoesOn)
        BY <1>0, <1>8, ImportFileEffect, DirectoryUpdate DEF GoesOn
    <2> QED BY <1>7, <1>q, <1>s, <1>m, <2>1, <2>2
<1>9. CASE ManifestOpen
    <2>1. Makes(job.kind) /\ UNCHANGED <<queue, listed, deletion, spoiled>>
        BY <1>9, ManifestOpenEffect
    <2>2. Cleaned \/ ((\A u \in Times \ {job.time} : backup'[u] = backup[u]) /\ GoesOn)
        BY <1>0, <1>9, ManifestOpenEffect, DirectoryUpdate DEF GoesOn
    <2> QED BY <1>7, <1>q, <1>s, <1>m, <2>1, <2>2
<1>10. CASE ManifestWrite
    <2>1. Makes(job.kind) /\ UNCHANGED <<queue, listed, deletion, spoiled>>
        BY <1>10, ManifestWriteEffect
    <2>2. Cleaned \/ ((\A u \in Times \ {job.time} : backup'[u] = backup[u]) /\ Ends)
        BY <1>0, <1>10, ManifestWriteEffect, DirectoryUpdate DEF Completed, Ends
    <2> QED BY <1>7, <1>q, <1>s, <1>m, <2>1, <2>2
<1>11. CASE BackupNothing
    BY <1>7, <1>11, BackupNothingEffect DEF Makes
<1>12. CASE RestoreEnd
    BY <1>q, <1>b, <1>s, <1>12 DEF RestoreEnd, Finish, history, Ends
<1>13. CASE Begin
    <2>1. Told
        <3>1. UNCHANGED listed
            BY <1>13, BeginEffect
        <3>2. \A i \in 1..Len(queue') : \E j \in 1..Len(queue) : queue'[i] = queue[j]
            BY <1>13, BeginEffect
        <3> QED BY <3>1, <3>2 DEF Told
    <2>2. UNCHANGED <<backup, deletion>> /\ spoiled \subseteq spoiled'
        BY <1>13, BeginEffect
    <2> QED BY <1>b, <1>13, <2>1, <2>2 DEF SpoiledOnly
<1>14. CASE TapBackup \/ TapRestore \/ TapImport
    <2>1. UNCHANGED <<backup, job, deletion, listed, spoiled>>
        BY <1>14, TapEffect
    <2>2. PICK q \in Requests :
              /\ queue' = Append(queue, q)
              /\ q.kind = "restore" => \E e \in listed : q.time = e.time /\ q.todo = e.profiles
        BY <1>14, TapEffect
    <2>3. Told
        <3>1. \A i \in 1..Len(queue') : (i \in 1..Len(queue) /\ queue'[i] = queue[i]) \/ queue'[i] = q
            BY <1>0, <2>2, Appended
        <3> QED BY <2>1, <2>2, <3>1 DEF Told
    <2> QED BY <1>b, <1>s, <2>1, <2>3 DEF GoesOn
<1>15. CASE TapDelete
    <2>1. UNCHANGED <<backup, queue, job, listed>>
        BY <1>15 DEF TapDelete
    <2>2. SpoiledOnly
        BY <1>15 DEF TapDelete, SpoiledOnly
    <2> QED BY <1>b, <1>q, <2>1, <2>2 DEF GoesOn
<1>16. CASE DeletionStep
    BY <1>q, <1>16, Removal DEF SpoiledOnly, Elsewhere, GoesOn
<1>17. CASE DeletionDone \/ RefreshHistory \/ Tick \/ UNCHANGED vars
    <2>1. UNCHANGED <<backup, queue, job, spoiled>> /\ deletion' \in {deletion, NoDeletion}
          /\ listed' \in {listed, List(backup)}
        BY <1>17 DEF DeletionDone, RefreshHistory, Tick, vars, screen, history
    <2>2. Told
        BY <2>1 DEF Told
    <2> QED BY <1>b, <2>1, <2>2, Constants DEF GoesOn, SpoiledOnly
<1>18. CASE Restart
    <2>1. /\ queue' = <<>> /\ UNCHANGED <<backup, spoiled>> /\ deletion' = NoDeletion
          /\ listed' = List(backup) /\ job' = NoJob
        BY <1>18, RestartEffect
    <2>2. Len(queue') = 0
        BY <2>1
    <2> QED BY <1>b, <2>1, <2>2, Constants DEF Told, SpoiledOnly, Ends
<1> QED BY <1>1, <1>2, <1>3, <1>4, <1>5, <1>6, <1>8, <1>9, <1>10, <1>11, <1>12, <1>13, <1>14,
           <1>15, <1>16, <1>17, <1>18 DEF Next, Worker

LEMMA DeletionStays ==
    ASSUME Sane, DeletionInv, [Next]_vars
    PROVE  DeletionInv'
BY StepEffects DEF DeletionInv, SpoiledOnly

\* A directory is begun anew only when nothing is in it, or else it is spoiled.
LEMMA MadeAnew ==
    ASSUME Sane, [Next]_vars, NEW t \in Times, Making(t)', ~Making(t)
    PROVE  Begin /\ t = clock /\ job'.time = t /\ (backup[t] = NoDirectory \/ t \in spoiled')
<1>1. Begin
    <2>1. job' # NoJob
        BY Constants DEF Making, Makes
    <2>2. ~GoesOn
        BY DEF Making, GoesOn
    <2> QED BY <2>1, <2>2, StepEffects DEF Ends
<1>2. /\ job'.kind = queue[1].kind
      /\ job'.time = IF Makes(queue[1].kind) THEN clock ELSE queue[1].time
      /\ spoiled' = spoiled \cup
             (IF Makes(queue[1].kind) /\ backup[clock] # NoDirectory THEN {clock} ELSE {})
    BY <1>1, BeginEffect
<1>3. Makes(job'.kind) /\ job'.time = t
    BY DEF Making
<1> QED BY <1>1, <1>2, <1>3

\* What is offered is so until it is spoiled.
LEMMA OfferedKept ==
    ASSUME Sane, DeletionInv, [Next]_vars, NEW t \in Times, NEW s, Offered(t, s)
    PROVE  Offered(t, s)' /\ (t \notin spoiled' => backup'[t] = backup[t])
<1> SUFFICES ASSUME t \notin spoiled'
             PROVE  Offered(t, s)' /\ backup'[t] = backup[t]
    BY DEF Offered
<1>1. t \notin spoiled /\ deletion.time # t
    BY StepEffects, Constants DEF SpoiledOnly, DeletionInv
<1>2. backup[t].manifest = "valid" /\ s \subseteq backup[t].names /\ ~Making(t)
    BY <1>1 DEF Offered
<1>3. backup'[t] = backup[t]
    BY <1>1, <1>2, StepEffects DEF Elsewhere
<1>4. ~Making(t)'
    BY <1>2, MadeAnew, Constants
<1> QED BY <1>2, <1>3, <1>4 DEF Offered

LEMMA OfferStays ==
    ASSUME Sane, DeletionInv, OfferInv, MakingInv, [Next]_vars
    PROVE  OfferInv'
<1>0. /\ job \in Jobs /\ job.time \in Times /\ backup \in [Times -> Directories]
      /\ queue \in Seq(Requests) /\ \A e \in listed : e.time \in Times /\ e.profiles \subseteq Profiles
    BY Shapes DEF Sane
<1>1. \A e \in List(backup) : e.time \in Times /\ Offered(e.time, e.profiles)
    BY DEF List, Offered, MakingInv, Made, Making
<1>2. ASSUME NEW e \in listed'
      PROVE  Offered(e.time, e.profiles)'
    <2>1. e \in listed \/ e \in List(backup)
        BY StepEffects DEF Told
    <2>2. e.time \in Times /\ Offered(e.time, e.profiles)
        BY <1>0, <1>1, <2>1 DEF OfferInv
    <2> DEFINE t == e.time
               s == e.profiles
    <2> HIDE DEF t, s
    <2>3. Offered(t, s)'
        BY <2>2, OfferedKept DEF t, s
    <2>4. t' = t /\ s' = s
        BY DEF t, s
    <2> QED BY <2>3, <2>4 DEF Offered, t, s
<1>3. \A i \in 1..Len(queue) : queue[i].kind = "restore" =>
          queue[i].time \in Times /\ Offered(queue[i].time, queue[i].todo)
    BY <1>0, Elements DEF OfferInv
<1>4. ASSUME NEW i \in 1..Len(queue'), queue'[i].kind = "restore"
      PROVE  Offered(queue[i].time, queue[i].todo)'
    <2>1. \/ \E j \in 1..Len(queue) : queue'[i] = queue[j]
          \/ \E e \in listed : queue'[i].time = e.time /\ queue'[i].todo = e.profiles
        BY <1>4, StepEffects DEF Told
    <2>2. PICK t, s : t = queue'[i].time /\ s = queue'[i].todo
        OBVIOUS
    <2>3. t \in Times /\ Offered(t, s)
        BY <1>0, <1>3, <1>4, <2>1, <2>2 DEF OfferInv
    <2>4. Offered(t, s)'
        BY <2>3, OfferedKept
    <2> QED BY <2>2, <2>4 DEF Offered
<1>5. ASSUME job'.kind = "restore"
      PROVE  /\ Offered(job.time, job.todo)'
             /\ job'.at # None => Offered(job.time, {job.at})'
    <2>1. job' # NoJob
        BY <1>5, Constants
    <2>2. CASE GoesOn
        <3>1. PICK t, s : t = job.time /\ s = job.todo
            OBVIOUS
        <3>2. t \in Times /\ Offered(t, s) /\ (job.at # None => Offered(t, {job.at}))
            BY <1>0, <1>5, <2>2, <3>1 DEF OfferInv, GoesOn
        <3>3. job'.todo \subseteq s /\ job'.time = t
            BY <2>2, <3>1 DEF GoesOn
        <3>4. Offered(t, s)'
            BY <3>2, OfferedKept
        <3>5. Offered(job.time, job.todo)'
            BY <3>3, <3>4 DEF Offered
        <3>6. ASSUME job'.at # None
              PROVE  Offered(job.time, {job.at})'
            <4>1. PICK p : p = job'.at
                OBVIOUS
            <4>2. p \in s \/ p = job.at
                BY <2>2, <3>1, <3>6, <4>1 DEF GoesOn
            <4>3. Offered(t, {p})
                BY <3>2, <3>6, <4>1, <4>2 DEF Offered
            <4>4. Offered(t, {p})'
                BY <3>2, <4>3, OfferedKept
            <4> QED BY <3>3, <4>1, <4>4 DEF Offered
        <3> QED BY <3>5, <3>6
    <2>3. CASE Begin
        <3>1. PICK t, s : t = queue[1].time /\ s = queue[1].todo
            OBVIOUS
        <3>2. /\ 1 \in 1..Len(queue) /\ job'.kind = queue[1].kind /\ job'.todo = s /\ job'.at = None
              /\ job'.time = IF Makes(queue[1].kind) THEN clock ELSE t
            BY <2>3, <3>1, BeginEffect
        <3>3. job'.time = t /\ t \in Times /\ Offered(t, s)
            BY <1>3, <1>5, <3>1, <3>2 DEF Makes
        <3>4. Offered(t, s)'
            BY <3>3, OfferedKept
        <3> QED BY <3>2, <3>3, <3>4 DEF Offered
    <2> QED BY <2>1, <2>2, <2>3, StepEffects DEF Ends
<1> QED BY <1>2, <1>4, <1>5 DEF OfferInv

-------------------------------------------------------------------------------
(* The directory that is made *)

\* What an unspoiled directory is known to hold stays true while the saves
\* it is made of do.
LEMMA MadeStays ==
    ASSUME UNCHANGED <<live, harmed>>, spoiled \subseteq spoiled',
           job'.kind = job.kind, job'.time = job.time,
           Makes(job.kind) /\ job.time \notin spoiled' => Made(backup'[job.time], job')
    PROVE  MakingInv'
<1>1. \A p : Source(p)' = Source(p) /\ Given(p)' = Given(p)
    BY DEF Source, Given
<1>2. SUFFICES ASSUME Makes(job'.kind) /\ job'.time \notin spoiled'
               PROVE  Made(backup[job.time], job)'
    BY DEF MakingInv
<1>3. Made(backup'[job.time], job')
    BY <1>2
<1>4. backup'[job'.time] = backup'[job.time]
    OBVIOUS
<1> QED BY <1>1, <1>3, <1>4 DEF Made

LEMMA MakingBackupMount ==
    ASSUME Sane, MakingInv, NEW p \in Profiles, BackupMount(p)
    PROVE  MakingInv'
<1> DEFINE b == backup[job.time]
           d == [b EXCEPT !.dirs = @ \cup {p}]
<1>1. /\ UNCHANGED <<live, harmed, spoiled>> /\ job'.kind = job.kind /\ job'.time = job.time
      /\ job'.todo = job.todo \ {p} /\ job'.done = job.done
      /\ job.kind = "backup" /\ job.stage = "profiles" /\ p \in job.todo /\ job.at = None
      /\ job.copied = {} /\ ~job.slip /\ None \notin Profiles
      /\ job.done \subseteq Profiles /\ job.todo \subseteq Profiles
      /\ b \in Directories /\ job.time \in Times /\ backup \in [Times -> Directories]
    BY BackupMountEffect, Shapes, Constants DEF Sane
<1>2. ASSUME Made(b, job)
      PROVE  Made(backup'[job.time], job')
    <2>1. CASE UNCHANGED backup /\ job'.stage = "profiles" /\ job'.at = None
        BY <1>1, <1>2, <2>1 DEF Made
    <2>2. CASE /\ live[p] # NoSave
               /\ job'.stage = "copy" /\ job'.at = p /\ job'.slip = (p \in harmed)
               /\ job'.copied = job.copied
               /\ backup' = [backup EXCEPT ![job.time] = d]
        <3>1. d.manifest = b.manifest /\ d.dirs = b.dirs \cup {p} /\ d.file = b.file
            BY <1>1 DEF Directories
        <3>2. backup'[job.time] = d
            BY <1>1, <2>2
        <3>3. Some(Source(p), {}) = Empty
            BY DEF Some, Empty
        <3>4. ~job'.slip => Given(p)
            BY <1>1, <2>2 DEF Given
        <3> HIDE DEF d, b
        <3> QED BY <1>1, <1>2, <2>2, <3>1, <3>2, <3>3, <3>4 DEF Made
    <2> QED BY <2>1, <2>2, BackupMountEffect
<1> QED BY <1>1, <1>2, MadeStays DEF MakingInv

LEMMA MakingBackupCopy ==
    ASSUME Sane, MakingInv, NEW f \in Files, BackupCopy(f)
    PROVE  MakingInv'
<1> DEFINE b == backup[job.time]
           p == job.at
<1>1. /\ UNCHANGED <<live, harmed, spoiled>> /\ job'.kind = job.kind /\ job'.time = job.time
      /\ job'.todo = job.todo /\ job'.done = job.done
      /\ job.kind = "backup" /\ job.stage = "copy" /\ p \in Profiles /\ None \notin Profiles
      /\ job.done \subseteq Profiles /\ job.todo \subseteq Profiles
      /\ b \in Directories /\ job.time \in Times /\ backup \in [Times -> Directories]
      /\ live[p] \in Content /\ Source(p) = live[p] /\ b.dirs \in SUBSET Profiles
    BY BackupCopyEffect, Shapes, Constants DEF Sane, Source
<1>2. ASSUME Made(b, job)
      PROVE  Made(backup'[job.time], job')
    <2>1. PICK c \in Versions \cup {Absent, Torn} :
              /\ backup' = [backup EXCEPT ![job.time] = Replaced(b, b.dirs, p, f, c)]
              /\ \/ /\ job'.stage = "copy" /\ job'.at = p
                    /\ job'.copied = job.copied \cup {f}
                    /\ ~job'.slip => ~job.slip /\ c = live[p][f]
                 \/ job'.stage = "profiles" /\ job'.at = None
        BY BackupCopyEffect
    <2> DEFINE d == Replaced(b, b.dirs, p, f, c)
    <2>2. /\ d.manifest = b.manifest /\ d.dirs = b.dirs
          /\ d.file[p] = [b.file[p] EXCEPT ![f] = c]
          /\ \A q \in Profiles \ {p} : d.file[q] = b.file[q]
        <3> HIDE DEF b, p
        <3> QED BY <1>1, FileUpdate
    <2>3. backup'[job.time] = d
        BY <1>1, <2>1
    <2>4. ASSUME ~job'.slip, job'.stage = "copy"
          PROVE  Given(p) /\ d.file[p] = Some(Source(p), job'.copied)
        <3>1. job'.copied = job.copied \cup {f} /\ ~job.slip /\ c = live[p][f]
            BY <2>1, <2>4
        <3>2. Given(p) /\ b.file[p] = Some(live[p], job.copied)
            BY <1>1, <1>2, <3>1 DEF Made
        <3>3. [Some(live[p], job.copied) EXCEPT ![f] = live[p][f]] = Some(live[p], job.copied \cup {f})
            BY DEF Some
        <3> HIDE DEF d, b, p
        <3> QED BY <1>1, <2>2, <3>1, <3>2, <3>3
    <2>5. p \notin job.done /\ p \in b.dirs /\ p \notin job.todo
        BY <1>1, <1>2 DEF Made
    <2> HIDE DEF d, b, p
    <2> QED BY <1>1, <1>2, <2>1, <2>2, <2>3, <2>4, <2>5 DEF Made, p
<1> QED BY <1>1, <1>2, MadeStays DEF MakingInv

LEMMA MakingCopied ==
    ASSUME Sane, MakingInv, Overlook \/ BackupCopied \/ ImportLeave
    PROVE  MakingInv'
<1> DEFINE b == backup[job.time]
           p == job.at
<1>1. /\ UNCHANGED <<live, harmed, backup>> /\ job'.kind = job.kind /\ job'.time = job.time
      /\ spoiled \subseteq spoiled' /\ job.stage = "copy" /\ p \in Profiles /\ None \notin Profiles
      /\ job.done \subseteq Profiles /\ job.todo \subseteq Profiles /\ job \in Jobs
      /\ b \in Directories /\ live \in [Profiles -> {NoSave} \cup Content]
    <2>1. UNCHANGED <<live, harmed>> /\ job.stage = "copy"
        BY DEF Overlook, BackupCopied, ImportLeave, history
    <2> QED BY <2>1, CopyEndEffect, Shapes, Constants DEF Sane
<1>2. ASSUME Made(b, job), Makes(job.kind), job.time \notin spoiled'
      PROVE  Made(b, job')
    <2>1. CASE Overlook
        <3>1. /\ job'.todo = job.todo /\ job'.done = job.done /\ job'.at = job.at
              /\ job'.slip /\ job.kind = "backup"
            BY <1>1, <1>2, <2>1 DEF Overlook, Makes, Jobs
        <3> HIDE DEF b
        <3> QED BY <1>1, <1>2, <3>1 DEF Made
    <2>2. CASE BackupCopied
        <3>1. /\ job'.todo = job.todo /\ job'.done = job.done \cup {p} /\ job'.at = None
              /\ job'.stage = "profiles" /\ job.kind = "backup" /\ Present(live[p]) \subseteq job.copied
              /\ ~job.slip
            BY <1>1, <1>2, <2>2 DEF BackupCopied, Unmount, Copied, Jobs
        <3>2. live[p] \in Content /\ Source(p) = live[p]
            BY <1>1, <3>1 DEF Sane, Source
        <3>3. Given(p) /\ b.file[p] = Source(p) /\ p \in b.dirs
            BY <1>1, <1>2, <3>1, <3>2, Parts DEF Made
        <3> HIDE DEF b, p
        <3> QED BY <1>1, <1>2, <3>1, <3>3 DEF Made, p
    <2>3. CASE ImportLeave
        <3>1. /\ job'.todo = job.todo /\ job'.done = job.done /\ job'.at = None
              /\ job'.stage = "profiles" /\ job.kind = "import" /\ FilesOf[Cloud[p]] \subseteq job.copied
            BY <1>1, <2>3 DEF ImportLeave, Jobs
        <3>2. Cloud[p] \in Versions /\ Source(p) = Whole(Cloud[p])
            BY <1>1, <3>1 DEF Sane, Source
        <3>3. Whole(Cloud[p]) \in Content /\ Present(Whole(Cloud[p])) \subseteq job.copied
            BY <3>1, <3>2, Versioned DEF Present
        <3>4. Given(p) /\ b.file[p] = Source(p) /\ (p \in job.done => p \in b.dirs)
            BY <1>1, <1>2, <3>1, <3>2, <3>3, Parts DEF Made
        <3> HIDE DEF b, p
        <3> QED BY <1>1, <1>2, <3>1, <3>4 DEF Made, p
    <2> QED BY <2>1, <2>2, <2>3
<1> QED BY <1>1, <1>2, MadeStays DEF MakingInv

LEMMA MakingImportEnter ==
    ASSUME Sane, MakingInv, NEW p \in Profiles, ImportEnter(p)
    PROVE  MakingInv'
<1> DEFINE b == backup[job.time]
<1>1. /\ UNCHANGED <<live, harmed, spoiled, backup>> /\ job'.kind = job.kind /\ job'.time = job.time
      /\ job'.todo = job.todo \ {p} /\ job'.done = job.done /\ job'.copied = {} /\ ~job'.slip
      /\ job.kind = "import" /\ job.stage = "profiles" /\ p \in job.todo /\ job.at = None
      /\ job'.stage = "copy" /\ job'.at = p /\ Given(p)
      /\ None \notin Profiles /\ job.done \subseteq Profiles /\ job.todo \subseteq Profiles
    BY ImportEnterEffect, Shapes, Constants DEF Sane, Given
<1>2. Some(Source(p), {}) = Empty
    BY DEF Some, Empty
<1>3. ASSUME Made(b, job)
      PROVE  Made(b, job')
    <2> HIDE DEF b
    <2> QED BY <1>1, <1>2, <1>3 DEF Made
<1> QED BY <1>1, <1>3, MadeStays DEF MakingInv

LEMMA MakingImportFile ==
    ASSUME Sane, MakingInv, NEW f \in Files, ImportFile(f)
    PROVE  MakingInv'
<1> DEFINE b == backup[job.time]
           p == job.at
           d == Replaced(b, b.dirs \cup {p}, p, f, Cloud[p])
<1>0. CASE Cleaned
    BY <1>0, Constants DEF Cleaned, MakingInv, Makes
<1>1. CASE /\ job'.kind = job.kind /\ job'.time = job.time
           /\ job'.todo = job.todo /\ job'.at = p /\ job'.stage = "copy"
           /\ job'.copied = job.copied \cup {f} /\ job'.done = job.done \cup {p}
           /\ job'.slip = job.slip
           /\ backup' = [backup EXCEPT ![job.time] = d]
    <2>1. /\ UNCHANGED <<live, harmed, spoiled>>
          /\ job.kind = "import" /\ job.stage = "copy" /\ p \in Profiles /\ None \notin Profiles
          /\ Cloud[p] \in Versions /\ f \in FilesOf[Cloud[p]] /\ b.dirs \cup {p} \in SUBSET Profiles
          /\ job.done \subseteq Profiles /\ job.todo \subseteq Profiles
          /\ b \in Directories /\ job.time \in Times /\ backup \in [Times -> Directories]
        BY ImportFileEffect, Shapes, Constants DEF Sane
    <2>2. ASSUME Made(b, job)
          PROVE  Made(backup'[job.time], job')
        <3>1. backup'[job.time] = d
            BY <1>1, <2>1
        <3>2. /\ d.manifest = b.manifest /\ d.dirs = b.dirs \cup {p}
              /\ d.file[p] = [b.file[p] EXCEPT ![f] = Cloud[p]]
              /\ \A q \in Profiles \ {p} : d.file[q] = b.file[q]
            <4> HIDE DEF b, p
            <4> QED BY <2>1, FileUpdate
        <3>3. Source(p) = Whole(Cloud[p]) /\ Source(p) \in Content /\ Source(p)[f] = Cloud[p]
            BY <2>1, Versioned DEF Source
        <3>4. Given(p) /\ b.file[p] = Some(Source(p), job.copied) /\ ~job.slip
            BY <2>1, <2>2 DEF Made
        <3>5. d.file[p] = Some(Source(p), job.copied \cup {f})
            <4>1. [Some(Source(p), job.copied) EXCEPT ![f] = Source(p)[f]] = Some(Source(p), job.copied \cup {f})
                BY DEF Some
            <4> HIDE DEF d, b, p
            <4> QED BY <3>2, <3>3, <3>4, <4>1
        <3>6. p \notin job.todo
            BY <2>2 DEF Made
        <3> HIDE DEF d, b
        <3> QED BY <1>1, <2>1, <2>2, <3>1, <3>2, <3>4, <3>5, <3>6 DEF Made
    <2> QED BY <1>1, <2>1, <2>2, MadeStays DEF MakingInv
<1> QED BY <1>0, <1>1, ImportFileEffect

LEMMA MakingManifestOpen ==
    ASSUME Sane, MakingInv, ManifestOpen
    PROVE  MakingInv'
<1> DEFINE b == backup[job.time]
           d == [b EXCEPT !.manifest = "torn", !.names = {}]
<1>0. CASE Cleaned
    BY <1>0, Constants DEF Cleaned, MakingInv, Makes
<1>1. CASE /\ job'.kind = job.kind /\ job'.time = job.time
           /\ job'.todo = job.todo /\ job'.at = None /\ job'.stage = "manifest"
           /\ job'.done = job.done
           /\ backup' = [backup EXCEPT ![job.time] = d]
    <2>1. /\ UNCHANGED <<live, harmed, spoiled>> /\ job.at = None
          /\ b \in Directories /\ job.time \in Times /\ backup \in [Times -> Directories]
        BY ManifestOpenEffect, Shapes DEF Sane
    <2>2. ASSUME Made(b, job)
          PROVE  Made(backup'[job.time], job')
        <3>1. backup'[job.time] = d
            BY <1>1, <2>1
        <3>2. d.manifest = "torn" /\ d.dirs = b.dirs /\ d.file = b.file
            BY <2>1 DEF Directories
        <3> HIDE DEF d, b
        <3> QED BY <1>1, <2>1, <2>2, <3>1, <3>2 DEF Made
    <2> QED BY <1>1, <2>1, <2>2, MadeStays DEF MakingInv
<1> QED BY <1>0, <1>1, ManifestOpenEffect

LEMMA MakingStays ==
    ASSUME Sane, DeletionInv, MakingInv, [Next]_vars
    PROVE  MakingInv'
<1>1. CASE Begin
    <2>1. /\ job'.stage = "profiles" /\ job'.at = None /\ job'.done = {}
          /\ job'.kind = queue[1].kind /\ job'.todo = queue[1].todo /\ UNCHANGED backup
          /\ job'.time = IF Makes(queue[1].kind) THEN clock ELSE queue[1].time
          /\ spoiled' = spoiled \cup
                 (IF Makes(queue[1].kind) /\ backup[clock] # NoDirectory THEN {clock} ELSE {})
          /\ queue[1] \in Requests
        BY <1>1, BeginEffect, Elements
    <2>2. queue[1].todo \subseteq Profiles
        BY <2>1 DEF Requests
    <2>3. SUFFICES ASSUME Makes(job'.kind), job'.time \notin spoiled'
                   PROVE  Made(backup[job.time], job)'
        BY DEF MakingInv
    <2>4. backup'[job'.time] = NoDirectory /\ None \notin Profiles
        BY <2>1, <2>3, Constants
    <2> QED BY <2>1, <2>2, <2>4, Constants DEF Made
<1>2. CASE Ends
    BY <1>2, Constants DEF Ends, MakingInv, Makes
<1>3. ASSUME UNCHANGED <<job, live, harmed>>, spoiled \subseteq spoiled',
             job.time \notin spoiled => backup'[job.time] = backup[job.time]
      PROVE  MakingInv'
    BY <1>3, MadeStays DEF MakingInv
<1>4. CASE DeletionStep
    <2>1. job.time \notin spoiled => job.time \in Times \ {deletion.time}
        BY <1>4, Removal, Shapes, Constants DEF DeletionInv, Sane
    <2> QED BY <1>3, <1>4, <2>1, Removal
<1>5. CASE TapBackup \/ TapRestore \/ TapImport
    BY <1>3, <1>5, TapEffect
<1>6. CASE TapDelete \/ DeletionDone \/ RefreshHistory \/ Tick \/ UNCHANGED vars
    <2>1. UNCHANGED <<job, live, harmed, backup>> /\ spoiled \subseteq spoiled'
        BY <1>6 DEF TapDelete, DeletionDone, RefreshHistory, Tick, vars, screen, history
    <2> QED BY <1>3, <2>1
<1>7. CASE RestoreFail \/ (\E p \in Profiles : RestoreSkip(p)) \/ RestoreCommit
    <2>1. job'.kind = job.kind /\ job.kind = "restore"
        BY <1>7, CopyEndEffect DEF RestoreFail, RestoreSkip, RestoreCommit
    <2> QED BY <2>1 DEF MakingInv, Makes
<1>8. CASE (\E p \in Profiles : RestoreMount(p)) \/ (\E f \in Files : RestoreCopy(f))
    <2>1. job'.kind = job.kind /\ job.kind = "restore"
        BY <1>8, RestoreMountEffect, RestoreCopyEffect
    <2> QED BY <2>1 DEF MakingInv, Makes
<1>9. CASE ManifestWrite \/ BackupNothing \/ RestoreEnd \/ Restart
    <2>1. job' = NoJob
        BY <1>9, RestartEffect DEF ManifestWrite, BackupNothing, RestoreEnd, Finish
    <2> QED BY <2>1, Constants DEF MakingInv, Makes
<1> QED BY <1>1, <1>4, <1>5, <1>6, <1>7, <1>8, <1>9, MakingBackupMount, MakingBackupCopy,
           MakingCopied, MakingImportEnter, MakingImportFile, MakingManifestOpen DEF Next, Worker

-------------------------------------------------------------------------------
(* What a package, a mounted save and a directory come to *)

LEMMA ImportStays ==
    ASSUME Sane, ImportInv, [Next]_vars
    PROVE  ImportInv'
<1> SUFFICES ASSUME job'.kind = "import"
             PROVE  /\ \A p \in Profiles : HasFiles(p) => p \in job'.done \cup job'.todo \cup {job'.at}
                    /\ \A p \in job'.done : HasFiles(p)
                    /\ job'.copied # {} => job'.at \in job'.done
                    /\ job'.stage = "manifest" => job'.todo = {}
    BY DEF ImportInv, HasFiles
<1>0. /\ job \in Jobs /\ job.todo \subseteq Profiles /\ job.done \subseteq Profiles
      /\ job.at \in Profiles \cup {None} /\ (job.at # None <=> job.stage = "copy")
      /\ job.stage # "copy" => job.copied = {}
      /\ job.kind # "none" => job # NoJob
    BY Shapes, Constants DEF Sane
<1>i. ASSUME job.kind = "import"
      PROVE  /\ \A p \in Profiles : HasFiles(p) => p \in job.done \cup job.todo \cup {job.at}
             /\ \A p \in job.done : HasFiles(p)
             /\ job.copied # {} => job.at \in job.done
             /\ job.stage = "manifest" => job.todo = {}
    BY <1>i DEF ImportInv
<1>1. CASE Begin
    <2>1. /\ job'.kind = queue[1].kind /\ job'.todo = queue[1].todo /\ job'.copied = {}
          /\ job'.stage = "profiles" /\ job'.done = {} /\ 1 \in 1..Len(queue)
        BY <1>1, BeginEffect
    <2>2. job'.todo = CloudProfiles
        BY <2>1 DEF Sane
    <2> QED BY <2>1, <2>2 DEF CloudProfiles, HasFiles
<1>2. CASE UNCHANGED job
    BY <1>2, <1>i
<1>3. CASE job' = NoJob
    BY <1>3, Constants
<1>4. CASE \E p \in Profiles : ImportEnter(p)
    <2>1. PICK p \in Profiles : ImportEnter(p)
        BY <1>4
    <2>2. /\ job.kind = "import" /\ job.stage = "profiles" /\ p \in job.todo
          /\ job'.todo = job.todo \ {p} /\ job'.done = job.done /\ job'.copied = job.copied
          /\ job'.at = p /\ job'.stage = "copy"
        BY <2>1, ImportEnterEffect
    <2> QED BY <1>0, <1>i, <2>2, Constants
<1>5. CASE \E f \in Files : ImportFile(f)
    <2>1. PICK f \in Files : ImportFile(f)
        BY <1>5
    <2>2. /\ job.kind = "import" /\ job.stage = "copy" /\ f \in FilesOf[Cloud[job.at]]
          /\ Cloud[job.at] \in Versions
        BY <2>1, ImportFileEffect
    <2>3. HasFiles(job.at)
        BY <2>2, LocalBackupsAssumption DEF HasFiles
    <2>4. CASE Cleaned
        BY <1>3, <2>4 DEF Cleaned
    <2>5. CASE /\ job'.todo = job.todo /\ job'.at = job.at /\ job'.stage = "copy"
               /\ job'.done = job.done \cup {job.at}
        BY <1>i, <2>2, <2>3, <2>5
    <2> QED BY <2>1, <2>4, <2>5, ImportFileEffect
<1>6. CASE ImportLeave
    <2>1. /\ job.kind = "import" /\ job.stage = "copy" /\ FilesOf[Cloud[job.at]] \subseteq job.copied
          /\ job'.todo = job.todo /\ job'.done = job.done /\ job'.copied = {}
          /\ job'.stage = "profiles"
        BY <1>0, <1>6 DEF ImportLeave, Jobs
    <2>2. HasFiles(job.at) => job.at \in job.done
        BY <1>i, <2>1 DEF HasFiles
    <2> QED BY <1>0, <1>i, <2>1, <2>2
<1>7. CASE ManifestOpen
    <2>1. CASE Cleaned
        BY <1>3, <2>1 DEF Cleaned
    <2>2. CASE /\ job'.kind = job.kind /\ job'.todo = job.todo /\ job'.at = None
               /\ job'.done = job.done /\ job'.copied = job.copied
        <3>1. job.todo = {} /\ job.at = None
            BY <1>7, ManifestOpenEffect
        <3> QED BY <1>0, <1>i, <2>2, <3>1
    <2> QED BY <1>7, <2>1, <2>2, ManifestOpenEffect
<1>8. CASE ManifestWrite \/ BackupNothing \/ RestoreEnd \/ Restart
    <2>1. job' = NoJob
        BY <1>8, RestartEffect DEF ManifestWrite, BackupNothing, RestoreEnd, Finish
    <2> QED BY <1>3, <2>1
<1>9. CASE Overlook \/ BackupCopied \/ RestoreFail \/ (\E p \in Profiles : RestoreSkip(p))
                    \/ RestoreCommit
    <2>1. job'.kind = job.kind /\ job.kind # "import"
        BY <1>9, CopyEndEffect DEF Overlook, BackupCopied, RestoreFail, RestoreSkip, RestoreCommit
    <2> QED BY <2>1
<1>10. CASE \/ \E p \in Profiles : BackupMount(p) \/ RestoreMount(p)
            \/ \E f \in Files : BackupCopy(f) \/ RestoreCopy(f)
    <2>1. job'.kind = job.kind /\ job.kind # "import"
        BY <1>10, BackupMountEffect, RestoreMountEffect, BackupCopyEffect, RestoreCopyEffect
    <2> QED BY <2>1
<1>11. CASE \/ TapBackup \/ TapRestore \/ TapImport \/ TapDelete \/ DeletionStep \/ DeletionDone
            \/ RefreshHistory \/ Tick \/ UNCHANGED vars
    <2>1. UNCHANGED job
        BY <1>11, TapEffect, Removal
           DEF TapDelete, DeletionDone, RefreshHistory, Tick, vars
    <2> QED BY <1>2, <2>1
<1> QED BY <1>1, <1>4, <1>5, <1>6, <1>7, <1>8, <1>9, <1>10, <1>11 DEF Next, Worker

\* Saves change when they are restored and between two runs of the program.
LEMMA SavesKept ==
    ASSUME Sane, [Next]_vars, ~RestoreCommit, ~Restart
    PROVE  UNCHANGED <<live, harmed>>
<1>1. CASE Begin
    BY <1>1, BeginEffect
<1>2. CASE \E p \in Profiles : BackupMount(p) \/ ImportEnter(p) \/ RestoreMount(p)
    BY <1>2, BackupMountEffect, ImportEnterEffect, RestoreMountEffect
<1>3. CASE \E p \in Profiles : RestoreSkip(p)
    BY <1>3 DEF RestoreSkip, history
<1>4. CASE \E f \in Files : BackupCopy(f) \/ ImportFile(f) \/ RestoreCopy(f)
    BY <1>4, BackupCopyEffect, ImportFileEffect, RestoreCopyEffect
<1>5. CASE Overlook \/ BackupCopied \/ ImportLeave \/ RestoreFail \/ RestoreEnd
    BY <1>5 DEF Overlook, BackupCopied, ImportLeave, RestoreFail, RestoreEnd, history
<1>6. CASE ManifestOpen \/ ManifestWrite \/ BackupNothing
    BY <1>6, ManifestOpenEffect, ManifestWriteEffect, BackupNothingEffect
<1>7. CASE \/ TapBackup \/ TapRestore \/ TapImport \/ TapDelete \/ DeletionStep \/ DeletionDone
            \/ RefreshHistory \/ Tick \/ UNCHANGED vars
    BY <1>7, TapEffect, Removal DEF TapDelete, DeletionDone, RefreshHistory, Tick, vars, history
<1> QED BY <1>1, <1>2, <1>3, <1>4, <1>5, <1>6, <1>7 DEF Next, Worker

LEMMA RestoringStays ==
    ASSUME Sane, DeletionInv, RestoringInv, [Next]_vars
    PROVE  RestoringInv'
<1> SUFFICES ASSUME job'.kind = "restore", job'.stage = "copy", ~job'.slip, job'.time \notin spoiled'
             PROVE  job'.mount = Some(backup'[job'.time].file[job'.at], job'.copied)
    BY DEF RestoringInv, Some
<1>1. ASSUME NEW p \in Profiles, RestoreMount(p)
      PROVE  job'.mount = Some(backup'[job'.time].file[job'.at], job'.copied)
    <2>1. job'.mount = Empty /\ job'.copied = {}
        BY <1>1, RestoreMountEffect DEF Sane
    <2> QED BY <2>1 DEF Some, Empty
<1>2. ASSUME NEW f \in Files, RestoreCopy(f)
      PROVE  job'.mount = Some(backup'[job'.time].file[job'.at], job'.copied)
    <2> DEFINE src == backup[job.time].file[job.at]
    <2>1. /\ job.kind = "restore" /\ job.stage = "copy" /\ ~job.slip /\ job.time \notin spoiled
          /\ job'.mount = [job.mount EXCEPT ![f] = src[f]] /\ job'.copied = job.copied \cup {f}
          /\ backup'[job'.time].file[job'.at] = src
        BY <1>2, RestoreCopyEffect
    <2>2. job.mount = Some(src, job.copied)
        BY <2>1 DEF RestoringInv
    <2>3. [Some(src, job.copied) EXCEPT ![f] = src[f]] = Some(src, job.copied \cup {f})
        BY DEF Some
    <2> HIDE DEF src
    <2> QED BY <2>1, <2>2, <2>3
<1>3. ASSUME UNCHANGED job
      PROVE  job'.mount = Some(backup'[job'.time].file[job'.at], job'.copied)
    <2>1. job.time \notin spoiled /\ deletion.time # job.time /\ job.time \in Times /\ ~Making(job.time)
        BY <1>3, StepEffects, Shapes, Constants DEF SpoiledOnly, DeletionInv, Sane, Making, Makes
    <2>2. backup'[job.time] = backup[job.time]
        BY <2>1, StepEffects DEF Elsewhere
    <2> QED BY <1>3, <2>1, <2>2 DEF RestoringInv
<1>4. CASE \/ TapBackup \/ TapRestore \/ TapImport \/ TapDelete \/ DeletionStep \/ DeletionDone
            \/ RefreshHistory \/ Tick \/ UNCHANGED vars
    BY <1>3, <1>4, TapEffect, Removal DEF TapDelete, DeletionDone, RefreshHistory, Tick, vars
<1>5. CASE ManifestWrite \/ BackupNothing \/ RestoreEnd \/ Restart
    <2>1. job' = NoJob
        BY <1>5, RestartEffect DEF ManifestWrite, BackupNothing, RestoreEnd, Finish
    <2> QED BY <2>1, Constants
<1>6. CASE BackupCopied \/ ImportLeave \/ RestoreFail \/ (\E p \in Profiles : RestoreSkip(p))
                        \/ RestoreCommit
    <2>1. job \in Jobs
        BY Shapes DEF Sane
    <2>2. job'.stage = "profiles"
        BY <1>6, <2>1 DEF BackupCopied, ImportLeave, RestoreFail, RestoreSkip, RestoreCommit, Unmount, Jobs
    <2> QED BY <2>2
<1>7. CASE Overlook
    <2>1. job'.slip
        BY <1>7, Shapes DEF Overlook, Jobs, Sane
    <2> QED BY <2>1
<1>8. CASE Begin \/ ManifestOpen
    <2>1. job'.stage # "copy"
        BY <1>8, BeginEffect, ManifestOpenEffect, Constants DEF Cleaned
    <2> QED BY <2>1
<1>9. CASE (\E p \in Profiles : BackupMount(p) \/ ImportEnter(p)) \/ (\E f \in Files : BackupCopy(f) \/ ImportFile(f))
    <2>1. job'.kind # "restore"
        BY <1>9, BackupMountEffect, ImportEnterEffect, BackupCopyEffect, ImportFileEffect, Constants DEF Cleaned
    <2> QED BY <2>1
<1> QED BY <1>1, <1>2, <1>4, <1>5, <1>6, <1>7, <1>8, <1>9 DEF Next, Worker

LEMMA LiveStays ==
    ASSUME Inv, [Next]_vars
    PROVE  LiveIsWhole'
<1>0. Sane /\ LiveIsWhole /\ live \in [Profiles -> {NoSave} \cup Content]
    BY Shapes DEF Inv, Sane
<1>1. CASE RestoreCommit
    <2> DEFINE p == job.at
               src == backup[job.time].file[p]
    <2>1. /\ job.kind = "restore" /\ job.stage = "copy" /\ Present(src) \subseteq job.copied
          /\ live' = [live EXCEPT ![p] = job.mount]
          /\ harmed' = IF job.slip \/ job.time \in spoiled THEN harmed \cup {p} ELSE harmed \ {p}
        BY <1>1 DEF RestoreCommit, FullCopy
    <2>2. /\ p \in Profiles /\ p # None /\ job.time \in Times
          /\ backup[job.time].file \in [Profiles -> Content]
        BY <1>0, <2>1, Shapes, Constants DEF Sane
    <2>3. ASSUME p \notin harmed'
          PROVE  live'[p] \in WholeSaves
        <3>1. ~job.slip /\ job.time \notin spoiled
            BY <2>1, <2>3
        <3>2. backup[job.time].manifest = "valid" /\ p \in backup[job.time].names
            BY <2>1, <2>2, <3>1 DEF Inv, OfferInv, Offered
        <3>3. src \in WholeSaves
            BY <2>2, <3>1, <3>2 DEF Inv, ListedIsWhole
        <3>4. job.mount = src
            BY <2>1, <2>2, <3>1, Parts DEF Inv, RestoringInv
        <3>5. live'[p] = job.mount
            BY <1>0, <2>1, <2>2
        <3> QED BY <3>3, <3>4, <3>5
    <2>4. ASSUME NEW q \in Profiles \ harmed', q # p
          PROVE  live'[q] \in WholeSaves \cup {NoSave}
        <3>1. q \notin harmed /\ live'[q] = live[q]
            BY <1>0, <2>1, <2>4
        <3> QED BY <1>0, <3>1 DEF LiveIsWhole
    <2> QED BY <2>3, <2>4 DEF LiveIsWhole
<1>2. CASE Restart
    <2>1. CASE UNCHANGED <<live, harmed>>
        BY <1>0, <2>1 DEF LiveIsWhole
    <2>2. ASSUME NEW p \in Profiles, NEW s \in WholeSaves \cup {NoSave},
                 live' = [live EXCEPT ![p] = s], harmed' = harmed \ {p}
          PROVE  LiveIsWhole'
        BY <1>0, <2>2 DEF LiveIsWhole
    <2> QED BY <1>0, <1>2, <2>1, <2>2, RestartEffect
<1>3. CASE UNCHANGED <<live, harmed>>
    BY <1>0, <1>3 DEF LiveIsWhole
<1> QED BY <1>0, <1>1, <1>2, <1>3, SavesKept

\* An unspoiled directory that is made has no valid manifest before its job
\* writes it, over whole saves of all the profiles it names.
LEMMA MadeWhole ==
    ASSUME Inv, Makes(job.kind), job.time \notin spoiled, job.at = None
    PROVE  LET b == backup[job.time] IN
           /\ job.done \subseteq Profiles
           /\ \A p \in job.done : p \in b.dirs /\ b.file[p] = Source(p) /\ Given(p)
                                  /\ Source(p) \in WholeSaves
<1>1. job.done \subseteq Profiles /\ None \notin Profiles /\ Made(backup[job.time], job)
    BY Shapes, Constants DEF Inv, Sane, MakingInv
<1>2. \A p \in job.done : p \in backup[job.time].dirs /\ backup[job.time].file[p] = Source(p) /\ Given(p)
    BY <1>1 DEF Made
<1>3. ASSUME NEW p \in job.done
      PROVE  Source(p) \in WholeSaves
    <2>1. CASE job.kind = "backup"
        BY <1>1, <1>2, <2>1 DEF Source, Given, Inv, LiveIsWhole
    <2>2. CASE job.kind # "backup"
        BY <1>2, <2>2, Versioned DEF Source, Given
    <2> QED BY <2>1, <2>2
<1> QED BY <1>1, <1>2, <1>3

\* How a directory comes to have a valid manifest.
LEMMA Manifested ==
    ASSUME Inv, MakingInv', [Next]_vars, NEW t \in Times \ spoiled', backup'[t].manifest = "valid"
    PROVE  \/ backup'[t] = backup[t] /\ ~Making(t)
           \/ ManifestWrite /\ Completed /\ Making(t) /\ job' = NoJob
<1>0. Sane /\ DeletionInv /\ t \notin spoiled /\ deletion.time # t
    BY StepEffects, Constants DEF Inv, SpoiledOnly, DeletionInv
<1>1. CASE ~Making(t)
    BY <1>0, <1>1, StepEffects DEF Elsewhere
<1>2. CASE Making(t)
    <2>1. Makes(job.kind) /\ job.time = t /\ backup[t].manifest # "valid"
        BY <1>0, <1>2 DEF Inv, MakingInv, Made, Making
    <2>2. ~(Makes(job'.kind) /\ job'.time = t)
        BY DEF MakingInv, Made
    <2>3. ~GoesOn
        BY <2>1, <2>2 DEF GoesOn
    <2>4. ~Begin
        BY <1>0, <2>1, BeginEffect, Constants DEF Makes
    <2> QED BY <1>0, <1>2, <2>1, <2>3, <2>4, StepEffects DEF Ends, Cleaned
<1> QED BY <1>1, <1>2

LEMMA ListedStays ==
    ASSUME Inv, MakingInv', [Next]_vars
    PROVE  ListedIsWhole'
<1> SUFFICES ASSUME NEW t \in Times \ spoiled', backup'[t].manifest = "valid",
                    NEW p \in backup'[t].names
             PROVE  p \in backup'[t].dirs /\ backup'[t].file[p] \in WholeSaves
    BY DEF ListedIsWhole
<1>0. Sane /\ DeletionInv /\ ListedIsWhole /\ t \notin spoiled
    BY StepEffects DEF Inv, SpoiledOnly
<1>1. CASE backup'[t] = backup[t]
    BY <1>0, <1>1 DEF ListedIsWhole
<1>2. CASE ManifestWrite /\ Completed /\ Making(t)
    <2> DEFINE b == backup[t]
               d == [b EXCEPT !.manifest = "valid", !.names = job.done]
    <2>1. /\ Makes(job.kind) /\ job.time = t /\ job.at = None
          /\ backup \in [Times -> Directories] /\ b \in Directories
        BY <1>0, <1>2, ManifestWriteEffect, Shapes DEF Making, Sane
    <2>2. backup'[t] = d
        BY <1>2, <2>1 DEF Completed
    <2>3. d.names = job.done /\ d.dirs = b.dirs /\ d.file = b.file
        BY <2>1 DEF Directories
    <2> HIDE DEF d
    <2> QED BY <1>0, <2>1, <2>2, <2>3, MadeWhole
<1> QED BY <1>1, <1>2, Manifested

LEMMA InvInit == Init => Inv
<1> SUFFICES ASSUME Init
             PROVE  Inv
    OBVIOUS
<1> USE Constants
<1>1. /\ job = NoJob /\ deletion = NoDeletion /\ listed = {} /\ queue = <<>>
      /\ \A t \in Times : backup[t] = NoDirectory
      /\ live \in [Profiles -> WholeSaves \cup {NoSave}]
    BY DEF Init
<1>2. DeletionInv /\ OfferInv
    BY <1>1 DEF DeletionInv, OfferInv
<1>3. MakingInv /\ ImportInv /\ RestoringInv
    BY <1>1 DEF MakingInv, Makes, ImportInv, RestoringInv
<1>4. LiveIsWhole /\ ListedIsWhole
    BY <1>1 DEF LiveIsWhole, ListedIsWhole
<1> QED BY <1>2, <1>3, <1>4, SaneInit DEF Inv

LEMMA InvStep ==
    ASSUME Inv, [Next]_vars
    PROVE  Inv'
<1>1. Sane' /\ DeletionInv' /\ OfferInv' /\ MakingInv' /\ ImportInv' /\ RestoringInv'
    BY SaneStep, DeletionStays, OfferStays, MakingStays, ImportStays, RestoringStays DEF Inv
<1> QED BY <1>1, LiveStays, ListedStays DEF Inv

LEMMA Invariance == Spec => []Inv
BY InvInit, InvStep, PTL DEF Spec

-------------------------------------------------------------------------------
(* The properties *)

\* The types of the state; a save is mounted while it is copied only.
THEOREM BackupsTyped == Spec => []TypeOK
<1>1. Sane => TypeOK
    BY DEF Sane
<1> QED BY <1>1, SaneInvariance, PTL

\* Whatever fails or is cut short, a profile has a whole save, unless it was
\* restored with a failure the code does not notice or from a spoiled directory.
THEOREM RestoreIsAtomic == Spec => []LiveIsWhole
<1>1. Inv => LiveIsWhole
    BY DEF Inv
<1> QED BY <1>1, Invariance, PTL

\* A directory with a valid manifest holds whole saves of all the profiles it
\* names, unless its deletion began, it was begun again, or a copy was cut
\* short without notice.
THEOREM ManifestIsLast == Spec => []ListedIsWhole
<1>1. Inv => ListedIsWhole
    BY DEF Inv
<1> QED BY <1>1, Invariance, PTL

\* No step changes a complete backup but its own deletion and a job in its
\* own second.
THEOREM BackupsAreKept == Spec => KeptUntilDeleted
<1>1. ASSUME Sane, [Next]_vars
      PROVE  [\A t \in Times : backup[t].manifest = "valid" /\ deletion.time # t /\ ~Making(t)
                  => backup'[t] = backup[t]]_vars
    BY <1>1, StepEffects DEF Elsewhere
<1> QED BY <1>1, SaneInvariance, PTL DEF Spec, KeptUntilDeleted

\* What a restore leaves is what the backup holds, unless the profile counts
\* as harmed.
THEOREM RestoreIsExact == Spec => RestoredIsBackup
<1>1. ASSUME Inv, [Next]_vars, NEW p \in Profiles,
             live'[p] # live[p], job' # NoJob, p \notin harmed'
      PROVE  live'[p] = backup[job.time].file[p]
    <2>1. Sane
        BY <1>1 DEF Inv
    <2>2. RestoreCommit
        BY <1>1, <2>1, SavesKept, RestartEffect
    <2>3. /\ job.kind = "restore" /\ job.stage = "copy"
          /\ Present(backup[job.time].file[job.at]) \subseteq job.copied
          /\ live' = [live EXCEPT ![job.at] = job.mount]
          /\ harmed' = IF job.slip \/ job.time \in spoiled
                       THEN harmed \cup {job.at} ELSE harmed \ {job.at}
        BY <2>2 DEF RestoreCommit, FullCopy
    <2>4. /\ job.at \in Profiles /\ live \in [Profiles -> {NoSave} \cup Content]
          /\ backup[job.time].file \in [Profiles -> Content]
        BY <2>1, <2>3, Shapes, Constants DEF Sane
    <2>5. p = job.at /\ live'[p] = job.mount /\ ~job.slip /\ job.time \notin spoiled
        BY <1>1, <2>3, <2>4
    <2> QED BY <1>1, <2>3, <2>4, <2>5, Parts DEF Inv, RestoringInv
<1>2. ASSUME Inv, [Next]_vars
      PROVE  [\A p \in Profiles : live'[p] # live[p] /\ job' # NoJob /\ p \notin harmed'
                  => live'[p] = backup[job.time].file[p]]_vars
    BY <1>1, <1>2
<1> QED BY <1>2, Invariance, PTL DEF Spec, RestoredIsBackup

-------------------------------------------------------------------------------
(* The refinement *)

\* The saves, the shelf and the operation under way as the screen sees them.
LEMMA ShelfStays ==
    ASSUME \A t \in Times : \/ backup'[t] = backup[t] /\ (OnShelf(t)' <=> OnShelf(t))
                            \/ ~OnShelf(t) /\ ~OnShelf(t)'
    PROVE  shelf' = shelf
<1>1. \A t \in Times : Slot(t)' = Slot(t)
    BY DEF Slot
<1> QED BY <1>1 DEF shelf

LEMMA SameSaves == UNCHANGED <<live, harmed>> => saves' = saves
BY DEF saves

LEMMA SameView ==
    ASSUME UNCHANGED <<live, backup, spoiled, harmed>>
    PROVE  /\ saves' = saves /\ shelf' = shelf
           /\ job'.kind = job.kind /\ job'.time = job.time => UNCHANGED Shelf!vars
           /\ job' = NoJob => Shelf!Next
<1>1. shelf' = shelf
    BY ShelfStays DEF OnShelf
<1>2. saves' = saves
    BY SameSaves
<1>3. job' = NoJob => doing' = Shelf!Idle
    BY Constants DEF doing, Shelf!Idle
<1> QED BY <1>1, <1>2, <1>3 DEF Shelf!vars, doing, Shelf!End, Shelf!Next

\* The initial states.
LEMMA ShelfInit == Init => Shelf!Init
<1> SUFFICES ASSUME Init
             PROVE  Shelf!Init
    OBVIOUS
<1>1. \A t \in Times : Slot(t) = Shelf!Nothing
    BY Constants DEF Init, OnShelf, Slot, Shelf!Nothing
<1>2. shelf = [t \in Times |-> Shelf!Nothing]
    BY <1>1 DEF shelf
<1>3. saves \in [Profiles -> WholeSaves \cup {NoSave}]
    BY DEF Init, saves
<1>4. doing = Shelf!Idle
    BY Constants DEF Init, doing, Shelf!Idle
<1> QED BY <1>2, <1>3, <1>4 DEF Shelf!Init

\* A deletion takes the backup off the shelf when it begins.
LEMMA DeleteView ==
    ASSUME Sane, TapDelete
    PROVE  Shelf!Next
<1>1. PICK e \in listed : spoiled' = spoiled \cup {e.time}
    BY DEF TapDelete
<1>2. e.time \in Times /\ UNCHANGED <<live, harmed, backup, job>>
    BY Shapes DEF Sane, TapDelete
<1>3. Slot(e.time)' = Shelf!Nothing
    BY <1>1 DEF Slot, OnShelf, Shelf!Nothing
<1>4. \A t \in Times \ {e.time} : Slot(t)' = Slot(t)
    BY <1>1, <1>2 DEF Slot, OnShelf
<1>5. shelf' = [shelf EXCEPT ![e.time] = Shelf!Nothing]
    BY <1>2, <1>3, <1>4 DEF shelf
<1>6. UNCHANGED <<saves, doing>>
    BY <1>2, SameSaves DEF doing
<1>7. Shelf!Delete(e.time)
    BY <1>5, <1>6 DEF Shelf!Delete
<1> QED BY <1>2, <1>7 DEF Shelf!Next

\* What is begun a second time in a second is off the shelf; else nothing is there.
LEMMA BeginView ==
    ASSUME Sane, Begin
    PROVE  Shelf!Next
<1> DEFINE q == queue[1]
<1>0. PICK t : t = job'.time
    OBVIOUS
<1>1. /\ UNCHANGED <<live, harmed, backup>> /\ job = NoJob
      /\ job'.kind = q.kind /\ q.kind \in {"backup", "restore", "import"}
      /\ t = IF Makes(q.kind) THEN clock ELSE q.time
      /\ spoiled' = spoiled \cup
             (IF Makes(q.kind) /\ backup[clock] # NoDirectory THEN {clock} ELSE {})
    BY <1>0, BeginEffect
<1>2. q.time \in Times /\ clock \in Times /\ t \in Times
    BY <1>1, BeginEffect, Elements, Shapes DEF Sane
<1>3. doing = Shelf!Idle /\ doing' = [kind |-> q.kind, time |-> t] /\ saves' = saves
    BY <1>0, <1>1, Constants, SameSaves DEF doing, Shelf!Idle
<1> HIDE DEF q
<1>4. CASE q.kind = "restore"
    <2>1. spoiled' = spoiled
        BY <1>1, <1>4 DEF Makes
    <2>2. shelf' = shelf
        BY <1>1, <2>1, SameView
    <2>3. Shelf!Begin("restore", t)
        BY <1>3, <1>4, <2>2 DEF Shelf!Begin
    <2> QED BY <1>2, <2>3 DEF Shelf!Next
<1>5. CASE q.kind # "restore"
    <2>1. t = clock /\ (t \in spoiled' \/ backup[t] = NoDirectory)
          /\ \A u \in Times \ {t} : u \in spoiled' <=> u \in spoiled
        BY <1>1, <1>2, <1>5 DEF Makes
    <2>2. ~OnShelf(t)'
        BY <1>1, <1>2, <2>1, Constants DEF OnShelf
    <2>3. Slot(t)' = Shelf!Nothing
        BY <2>2 DEF Slot, Shelf!Nothing
    <2>4. \A u \in Times \ {t} : Slot(u)' = Slot(u)
        BY <1>1, <2>1 DEF Slot, OnShelf
    <2>5. shelf' = [shelf EXCEPT ![t] = Shelf!Nothing]
        BY <1>2, <2>3, <2>4 DEF shelf
    <2>6. Shelf!Begin(q.kind, t)
        BY <1>3, <1>5, <2>5 DEF Shelf!Begin
    <2> QED BY <1>1, <1>2, <1>5, <2>6 DEF Shelf!Next
<1> QED BY <1>4, <1>5

\* A backup or an import comes onto the shelf with its manifest.
LEMMA CompletedView ==
    ASSUME Inv, ManifestWrite, Completed, job' = NoJob, job.time \notin spoiled
    PROVE  Shelf!Next
<1>0. PICK t : t = job.time
    OBVIOUS
<1> DEFINE b == backup[t]
           d == [b EXCEPT !.manifest = "valid", !.names = job.done]
           new == [p \in Profiles |-> IF p \in job.done THEN b.file[p] ELSE NoSave]
<1>1. /\ t \in Times /\ backup \in [Times -> Directories] /\ b \in Directories
      /\ job.done \subseteq Profiles /\ job.at = None /\ Makes(job.kind) /\ t \notin spoiled
      /\ job.stage = "manifest" /\ UNCHANGED <<live, harmed, spoiled>>
    BY <1>0, Shapes, ManifestWriteEffect DEF Inv, Sane
<1>2. /\ backup'[t] = d /\ d.manifest = "valid" /\ d.names = job.done /\ d.file = b.file
      /\ \A u \in Times \ {t} : backup'[u] = backup[u]
    BY <1>0, <1>1 DEF Completed, Directories
<1>3. b.manifest # "valid"
    BY <1>0, <1>1 DEF Inv, MakingInv, Made
<1>4. shelf[t] = Shelf!Nothing
    BY <1>1, <1>3 DEF shelf, Slot, OnShelf, Shelf!Nothing
<1> HIDE DEF d, b
<1>5. shelf' = [shelf EXCEPT ![t] = new]
    <2>1. Slot(t)' = new
        BY <1>1, <1>2 DEF Slot, OnShelf
    <2>2. \A u \in Times \ {t} : Slot(u)' = Slot(u)
        BY <1>1, <1>2 DEF Slot, OnShelf
    <2> QED BY <1>1, <2>1, <2>2 DEF shelf
<1>6. doing' = Shelf!Idle /\ doing.time = t /\ doing.kind = job.kind /\ saves' = saves
    BY <1>0, <1>1, Constants, SameSaves DEF doing, Shelf!Idle
<1>7. \A p \in job.done : b.file[p] = Source(p) /\ Given(p) /\ Source(p) \in WholeSaves
    BY <1>0, <1>1, MadeWhole DEF b
<1>8. CASE job.kind = "backup"
    <2> DEFINE saved == [p \in Profiles |-> IF p \in job.done THEN saves[p] ELSE NoSave]
    <2>1. \A p \in job.done : saves[p] = b.file[p] /\ saves[p] \in WholeSaves
        BY <1>1, <1>7, <1>8 DEF saves, Source, Given
    <2>2. new = saved
        BY <2>1
    <2>3. Shelf!Put("backup", saved)
        BY <1>4, <1>5, <1>6, <1>8, <2>2 DEF Shelf!Put
    <2>4. Shelf!Backup(job.done)
        BY <2>1, <2>3 DEF Shelf!Backup
    <2> QED BY <1>1, <2>4 DEF Shelf!Next
<1>9. CASE job.kind = "import"
    <2>1. \A p \in Profiles : HasFiles(p) <=> p \in job.done
        BY <1>1, <1>9, Constants DEF Inv, ImportInv
    <2>2. new = Package
        BY <1>7, <1>9, <2>1 DEF Package, Source
    <2>3. Shelf!Put("import", Package)
        BY <1>4, <1>5, <1>6, <1>9, <2>2 DEF Shelf!Put
    <2> QED BY <2>3 DEF Shelf!Import, Shelf!Next
<1> QED BY <1>1, <1>8, <1>9 DEF Makes

\* No other step of a job, nor of a deletion, is seen.
LEMMA UnseenView ==
    ASSUME Inv, MakingInv', [Next]_vars, UNCHANGED <<live, harmed>>, GoesOn \/ Ends,
           \A t \in Times \ spoiled : t \in spoiled' => backup[t].manifest # "valid",
           ~(ManifestWrite /\ Completed /\ job.time \notin spoiled)
    PROVE  Shelf!Next \/ UNCHANGED Shelf!vars
<1>1. saves' = saves
    BY SameSaves
<1>2. shelf' = shelf
    <2>1. ASSUME NEW t \in Times
          PROVE  \/ backup'[t] = backup[t] /\ (OnShelf(t)' <=> OnShelf(t))
                 \/ ~OnShelf(t) /\ ~OnShelf(t)'
        <3>0. Sane /\ DeletionInv /\ SpoiledOnly
            BY StepEffects DEF Inv
        <3>1. CASE t \in spoiled'
            BY <3>0, <3>1 DEF OnShelf
        <3>2. CASE t \notin spoiled' /\ backup'[t].manifest = "valid"
            <4>1. t \notin spoiled
                BY <3>0, <3>2 DEF SpoiledOnly
            <4>2. backup'[t] = backup[t]
                BY <3>2, <4>1, Manifested DEF Making
            <4> QED BY <3>2, <4>1, <4>2 DEF OnShelf
        <3>3. CASE t \notin spoiled' /\ backup'[t].manifest # "valid"
            <4>1. t \notin spoiled /\ deletion.time # t
                BY <3>0, <3>3, Constants DEF SpoiledOnly, DeletionInv
            <4>2. backup[t].manifest = "valid" => ~Making(t)
                BY <4>1 DEF Inv, MakingInv, Made, Making
            <4>3. backup[t].manifest # "valid"
                BY <3>0, <3>3, <4>1, <4>2, StepEffects DEF Elsewhere
            <4> QED BY <3>3, <4>3 DEF OnShelf
        <3> QED BY <3>1, <3>2, <3>3
    <2> QED BY <2>1, ShelfStays
<1>3. CASE GoesOn
    BY <1>1, <1>2, <1>3 DEF GoesOn, Shelf!vars, doing
<1>4. CASE Ends
    BY <1>1, <1>2, <1>4, Constants DEF Ends, doing, Shelf!Idle, Shelf!End, Shelf!Next
<1> QED BY <1>3, <1>4

\* The commit is the restore: of what the shelf holds, or else of something
\* that counts as broken.
LEMMA CommitView ==
    ASSUME Inv, RestoreCommit
    PROVE  Shelf!Next
<1> DEFINE t == job.time
           p == job.at
           src == backup[t].file[p]
           lost == job.slip \/ t \in spoiled
<1>1. /\ job.kind = "restore" /\ job.stage = "copy" /\ UNCHANGED <<backup, spoiled>>
      /\ live' = [live EXCEPT ![p] = job.mount]
      /\ harmed' = IF lost THEN harmed \cup {p} ELSE harmed \ {p}
      /\ Present(src) \subseteq job.copied
    BY DEF RestoreCommit, FullCopy
<1>2. /\ p \in Profiles /\ t \in Times /\ src \in Content /\ live[p] # NoSave
      /\ live \in [Profiles -> {NoSave} \cup Content]
    BY <1>1, Shapes, Constants DEF Inv, Sane
<1>3. job'.kind = job.kind /\ job'.time = job.time
    BY CopyEndEffect DEF Inv
<1>4. shelf' = shelf /\ doing' = doing
    BY <1>1, <1>3, ShelfStays DEF OnShelf, doing
<1>5. saves[p] # NoSave
    BY <1>2, NoSaveAssumption DEF saves
<1>6. CASE lost
    <2> HIDE DEF p, lost
    <2>1. saves' = [saves EXCEPT ![p] = Broken]
        BY <1>1, <1>2, <1>6 DEF saves
    <2>2. Shelf!Restore(p)
        BY <1>1, <1>4, <1>5, <2>1, NoSaveAssumption DEF Shelf!Restore, doing
    <2> QED BY <1>2, <2>2 DEF Shelf!Next
<1>7. CASE ~lost
    <2>1. OnShelf(t) /\ p \in backup[t].names
        BY <1>1, <1>2, <1>7, Constants DEF Inv, OfferInv, Offered, OnShelf
    <2>2. shelf[t][p] = src /\ src # NoSave
        BY <1>2, <2>1, NoSaveAssumption DEF shelf, Slot
    <2>3. job.mount = src
        BY <1>1, <1>2, <1>7, Parts DEF Inv, RestoringInv
    <2> HIDE DEF p, src, lost
    <2>4. saves' = [saves EXCEPT ![p] = src]
        BY <1>1, <1>2, <1>7, <2>3 DEF saves
    <2>5. Shelf!Restore(p)
        BY <1>1, <1>4, <1>5, <2>2, <2>4 DEF Shelf!Restore, doing
    <2> QED BY <1>2, <2>5 DEF Shelf!Next
<1> QED BY <1>6, <1>7

LEMMA RestartView ==
    ASSUME Sane, Restart
    PROVE  Shelf!Next
<1>1. /\ job' = NoJob /\ UNCHANGED <<backup, spoiled>>
      /\ \/ UNCHANGED <<live, harmed>>
         \/ \E p \in Profiles, s \in WholeSaves \cup {NoSave} :
                live' = [live EXCEPT ![p] = s] /\ harmed' = harmed \ {p}
    BY RestartEffect
<1>2. shelf' = shelf /\ doing' = Shelf!Idle
    BY <1>1, Constants, ShelfStays DEF OnShelf, doing, Shelf!Idle
<1>3. CASE UNCHANGED <<live, harmed>>
    BY <1>1, <1>3, SameView
<1>4. ASSUME NEW p \in Profiles, NEW s \in WholeSaves \cup {NoSave},
             live' = [live EXCEPT ![p] = s], harmed' = harmed \ {p}
      PROVE  Shelf!Next
    <2>1. live \in [Profiles -> {NoSave} \cup Content]
        BY Shapes DEF Sane
    <2>2. saves' = [saves EXCEPT ![p] = s]
        BY <1>4, <2>1 DEF saves
    <2>3. Shelf!Play(p, s)
        BY <1>2, <2>2 DEF Shelf!Play
    <2> QED BY <2>3 DEF Shelf!Next
<1> QED BY <1>1, <1>3, <1>4

LEMMA ShelfStep ==
    ASSUME Inv, Inv', [Next]_vars
    PROVE  [Shelf!Next]_(Shelf!vars)
<1>0. Sane /\ MakingInv'
    BY DEF Inv
<1>1. CASE TapDelete
    BY <1>0, <1>1, DeleteView
<1>2. CASE Begin
    BY <1>0, <1>2, BeginView
<1>3. CASE RestoreCommit
    BY <1>3, CommitView
<1>4. CASE Restart
    BY <1>0, <1>4, RestartView
<1>5. CASE ManifestWrite /\ Completed /\ job.time \notin spoiled
    BY <1>5, CompletedView DEF ManifestWrite, Finish
<1>6. CASE ~TapDelete /\ ~Begin /\ ~RestoreCommit /\ ~Restart
           /\ ~(ManifestWrite /\ Completed /\ job.time \notin spoiled)
    <2>1. UNCHANGED <<live, harmed>> /\ (GoesOn \/ Ends)
        BY <1>0, <1>6, SavesKept, StepEffects
    <2>2. \A t \in Times \ spoiled : t \in spoiled' => t = job.time /\ job.kind = "backup"
        <3>1. CASE BackupCopied
            BY <3>1 DEF BackupCopied
        <3>2. CASE ~BackupCopied
            <4>1. UNCHANGED spoiled
                <5>1. CASE \E p \in Profiles : BackupMount(p) \/ ImportEnter(p) \/ RestoreSkip(p) \/ RestoreMount(p)
                    BY <5>1 DEF BackupMount, ImportEnter, RestoreSkip, RestoreMount, history
                <5>2. CASE \E f \in Files : BackupCopy(f) \/ ImportFile(f) \/ RestoreCopy(f)
                    BY <5>2 DEF BackupCopy, ImportFile, RestoreCopy, history
                <5>3. CASE \/ Overlook \/ BackupNothing \/ ManifestOpen \/ ManifestWrite \/ ImportLeave
                           \/ RestoreFail \/ RestoreEnd
                    BY <5>3 DEF Overlook, BackupNothing, ManifestOpen, ManifestWrite, ImportLeave,
                                RestoreFail, RestoreEnd, history
                <5>4. CASE \/ TapBackup \/ TapRestore \/ TapImport \/ DeletionStep \/ DeletionDone
                           \/ RefreshHistory \/ Tick \/ UNCHANGED vars
                    BY <5>4 DEF TapBackup, TapRestore, TapImport, Tap, DeletionStep, DeletionDone,
                                RefreshHistory, Tick, vars, history
                <5> QED BY <1>6, <3>2, <5>1, <5>2, <5>3, <5>4 DEF Next, Worker
            <4> QED BY <4>1
        <3> QED BY <3>1, <3>2
    <2>3. \A t \in Times \ spoiled : t \in spoiled' => backup[t].manifest # "valid"
        BY <2>2 DEF Inv, MakingInv, Made, Makes
    <2> QED BY <1>0, <1>6, <2>1, <2>3, UnseenView
<1> QED BY <1>1, <1>2, <1>3, <1>4, <1>5, <1>6

\* What ISaveService and delete_backup promise: as the screen sees it, a
\* backup and an import appear at once and whole, a restore gives a profile at
\* once the save of the backup that was asked for, and a failure or a restart
\* anywhere in between has no effect.  A deletion takes a backup off the shelf
\* when it begins; what a failed one leaves is never taken for a backup again.
THEOREM ShelfRefined == Spec => ImplementsShelf
<1>1. Inv /\ Inv' /\ [Next]_vars => [Shelf!Next]_(Shelf!vars)
    BY ShelfStep
<1> QED BY <1>1, Invariance, ShelfInit, PTL DEF Spec, ImplementsShelf, Shelf!Spec
===============================================================================
