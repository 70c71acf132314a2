----------------------------- MODULE ThemesProofs -----------------------------
(***************************************************************************)
(* Theorems about Themes: types, a record that names no other theme's      *)
(* outputs, installs that are done or undone, and a button that tells the  *)
(* truth.                                                                  *)
(***************************************************************************)
EXTENDS Themes, SequenceTheorems, TLAPS

-------------------------------------------------------------------------------
(* The screen *)

ScreenRecord ==
    [theme : Themes \cup {None}, resolved : BOOLEAN, busy : BOOLEAN, downloaded : BOOLEAN,
     applied : BOOLEAN, checked : BOOLEAN, risky : BOOLEAN]

\* What a job's UI half writes to its screen, and what it leaves.
SameButtons(s) == s.theme = screen.theme /\ s.resolved = screen.resolved
SameCheck(s) == s.checked = screen.checked /\ s.risky = screen.risky

LEMMA SetFacts ==
    ASSUME screen \in ScreenRecord, NEW a \in BOOLEAN, NEW d \in BOOLEAN
    PROVE  /\ LET s == Set([resolved |-> FALSE]) IN
              /\ s \in ScreenRecord /\ ~s.resolved
              /\ s.theme = screen.theme /\ s.busy = screen.busy /\ SameCheck(s)
              /\ s.downloaded = screen.downloaded /\ s.applied = screen.applied
           /\ LET s == Set([resolved |-> TRUE, downloaded |-> d, applied |-> a]) IN
              /\ s \in ScreenRecord /\ s.resolved /\ s.downloaded = d /\ s.applied = a
              /\ s.theme = screen.theme /\ s.busy = screen.busy /\ SameCheck(s)
           /\ LET s == Set(Unbusy) IN
              /\ s \in ScreenRecord /\ ~s.busy /\ SameButtons(s) /\ SameCheck(s)
              /\ s.downloaded = screen.downloaded /\ s.applied = screen.applied
           /\ LET s == Set([busy |-> FALSE, downloaded |-> TRUE]) IN
              /\ s \in ScreenRecord /\ ~s.busy /\ SameButtons(s) /\ SameCheck(s)
              /\ s.downloaded /\ s.applied = screen.applied
           /\ LET s == Set([busy |-> FALSE, applied |-> a]) IN
              /\ s \in ScreenRecord /\ ~s.busy /\ SameButtons(s) /\ SameCheck(s)
              /\ s.downloaded = screen.downloaded /\ s.applied = a
           /\ LET s == Set([checked |-> TRUE, risky |-> a]) IN
              /\ s \in ScreenRecord /\ s.busy = screen.busy /\ SameButtons(s)
              /\ s.downloaded = screen.downloaded /\ s.applied = screen.applied
              /\ s.checked /\ s.risky = a
<1> USE DEF Set, ScreenRecord, SameButtons, SameCheck
<1>1. LET s == Set([resolved |-> FALSE]) IN
      /\ s \in ScreenRecord /\ ~s.resolved
      /\ s.theme = screen.theme /\ s.busy = screen.busy /\ SameCheck(s)
      /\ s.downloaded = screen.downloaded /\ s.applied = screen.applied
    OBVIOUS
<1>2. LET s == Set([resolved |-> TRUE, downloaded |-> d, applied |-> a]) IN
      /\ s \in ScreenRecord /\ s.resolved /\ s.downloaded = d /\ s.applied = a
      /\ s.theme = screen.theme /\ s.busy = screen.busy /\ SameCheck(s)
    OBVIOUS
<1>3. LET s == Set(Unbusy) IN
      /\ s \in ScreenRecord /\ ~s.busy /\ SameButtons(s) /\ SameCheck(s)
      /\ s.downloaded = screen.downloaded /\ s.applied = screen.applied
    BY DEF Unbusy
<1>4. LET s == Set([busy |-> FALSE, downloaded |-> TRUE]) IN
      /\ s \in ScreenRecord /\ ~s.busy /\ SameButtons(s) /\ SameCheck(s)
      /\ s.downloaded /\ s.applied = screen.applied
    OBVIOUS
<1>5. LET s == Set([busy |-> FALSE, applied |-> a]) IN
      /\ s \in ScreenRecord /\ ~s.busy /\ SameButtons(s) /\ SameCheck(s)
      /\ s.downloaded = screen.downloaded /\ s.applied = a
    OBVIOUS
<1>6. LET s == Set([checked |-> TRUE, risky |-> a]) IN
      /\ s \in ScreenRecord /\ s.busy = screen.busy /\ SameButtons(s)
      /\ s.downloaded = screen.downloaded /\ s.applied = screen.applied
      /\ s.checked /\ s.risky = a
    OBVIOUS
<1> QED BY <1>1, <1>2, <1>3, <1>4, <1>5, <1>6

-------------------------------------------------------------------------------
(* Jobs and the queue *)

\* A job for the screen's button, of which it waits for one at a time.
Tapped(j) == j.kind \in {"download", "extract", "install", "remove"}

JobTyped(j) == j \in Jobs /\ (j.kind = "install" => j.mode \in {"full", "background"})
QueueType == queue \in Seq(Jobs) /\ \A n \in DOMAIN queue : JobTyped(queue[n])

LEMMA JobFacts ==
    ASSUME NEW t \in Themes, NEW kind \in {"resolve", "download", "check", "remove", "extract"}
    PROVE  LET j == Job(kind, t) IN
           /\ JobTyped(j) /\ j.kind = kind /\ j.theme = t /\ j.mine /\ ~j.dry /\ ~j.cancel
BY DEF Job, JobTyped, Jobs

LEMMA CheckFacts ==
    ASSUME NEW t \in Themes
    PROVE  LET j == Check(t) IN
           /\ JobTyped(j) /\ j.kind = "check" /\ j.theme = t /\ j.mine
           /\ j.dry = base_layouts_available(t)
<1>1. base_layouts_available(t) \in BOOLEAN
    BY DEF base_layouts_available
<1> QED BY <1>1 DEF Check, Job, JobTyped, Jobs

LEMMA InstallJobFacts ==
    ASSUME screen \in ScreenRecord, screen.theme \in Themes,
           NEW mode \in {"full", "background"}, NEW asked \in BOOLEAN
    PROVE  LET j == InstallJob(mode, asked) IN
           /\ JobTyped(j) /\ j.kind = "install" /\ j.theme = screen.theme /\ j.mine
           /\ j.asked = asked
BY DEF InstallJob, Job, JobTyped, Jobs, ScreenRecord

Disowned(j) == [j EXCEPT !.mine = FALSE]
Cancelled(j) == IF j.mine THEN [j EXCEPT !.cancel = TRUE] ELSE j

\* The same job, its flags aside.
Like(j, k) ==
    j.kind = k.kind /\ j.theme = k.theme /\ j.mode = k.mode /\ j.asked = k.asked /\ j.dry = k.dry

LEMMA FlagFacts ==
    ASSUME NEW j, JobTyped(j)
    PROVE  /\ JobTyped(Disowned(j)) /\ Like(Disowned(j), j) /\ ~Disowned(j).mine
           /\ JobTyped(Cancelled(j)) /\ Like(Cancelled(j), j) /\ Cancelled(j).mine = j.mine
BY DEF Disowned, Cancelled, JobTyped, Jobs, Like

\* The running job.
LEMMA HeadJob ==
    ASSUME QueueType, queue # <<>>
    PROVE  /\ job = queue[1] /\ 1 \in DOMAIN queue /\ JobTyped(job) /\ job \in Jobs
           /\ job.theme \in Themes /\ Len(queue) \in Nat \ {0}
<1>1. job = queue[1] /\ 1 \in DOMAIN queue /\ Len(queue) \in Nat \ {0}
    BY DEF QueueType, job
<1>2. JobTyped(job) /\ job \in Jobs
    BY <1>1 DEF QueueType, JobTyped
<1> QED BY <1>1, <1>2 DEF Jobs

LEMMA AppendJob ==
    ASSUME QueueType, NEW j, JobTyped(j), queue' = Append(queue, j)
    PROVE  /\ QueueType' /\ queue' # <<>> /\ Len(queue') = Len(queue) + 1 /\ Len(queue) \in Nat
           /\ DOMAIN queue = 1 .. Len(queue) /\ DOMAIN queue' = 1 .. Len(queue')
           /\ queue'[Len(queue')] = j
           /\ \A n \in DOMAIN queue : n \in DOMAIN queue' /\ n # Len(queue') /\ queue'[n] = queue[n]
           /\ \A n \in DOMAIN queue' : n = Len(queue') \/ n \in DOMAIN queue
           /\ queue # <<>> => job' = job
<1>1. queue \in Seq(Jobs) /\ j \in Jobs /\ Len(queue) \in Nat /\ DOMAIN queue = 1 .. Len(queue)
    BY DEF QueueType, JobTyped
<1>2. /\ Append(queue, j) \in Seq(Jobs) /\ Len(Append(queue, j)) = Len(queue) + 1
      /\ Append(queue, j)[Len(queue) + 1] = j
      /\ \A n \in 1 .. Len(queue) : Append(queue, j)[n] = queue[n]
    BY <1>1
<1>3. Append(queue, j) # <<>> /\ DOMAIN Append(queue, j) = 1 .. Len(queue) + 1
    BY <1>1, <1>2
<1>4. \A n \in DOMAIN queue' : n = Len(queue') \/ n \in DOMAIN queue
    BY <1>1, <1>2, <1>3
<1>5. \A n \in DOMAIN queue : n \in DOMAIN queue' /\ n # Len(queue') /\ queue'[n] = queue[n]
    BY <1>1, <1>2, <1>3
<1>6. queue # <<>> => Head(Append(queue, j)) = Head(queue)
    <2>1. Head(Append(queue, j)) = Append(queue, j)[1]
        BY <1>2, <1>3
    <2>2. queue # <<>> => Head(queue) = queue[1] /\ 1 \in 1 .. Len(queue)
        BY <1>1
    <2> QED BY <1>2, <2>1, <2>2
<1>7. QueueType'
    BY <1>2, <1>4, <1>5 DEF QueueType
<1> QED BY <1>1, <1>2, <1>3, <1>4, <1>5, <1>6, <1>7 DEF job

\* A job has ended: the others move up, one may be added.
LEMMA EndJob ==
    ASSUME QueueType, queue # <<>>, NEW more,
           more = <<>> \/ \E j : JobTyped(j) /\ more = <<j>>,
           queue' = Tail(queue) \o more
    PROVE  /\ QueueType' /\ Len(queue) \in Nat \ {0}
           /\ more = <<>> => Len(queue') = Len(queue) - 1
           /\ more # <<>> => Len(queue') = Len(queue)
           /\ DOMAIN queue = 1 .. Len(queue) /\ DOMAIN queue' = 1 .. Len(queue')
           /\ \A n \in DOMAIN queue' :
                  \/ n + 1 \in DOMAIN queue /\ queue'[n] = queue[n + 1]
                  \/ more # <<>> /\ n = Len(queue') /\ n + 1 \notin DOMAIN queue /\ queue'[n] = more[1]
<1>1. queue \in Seq(Jobs) /\ Len(queue) \in Nat \ {0} /\ DOMAIN queue = 1 .. Len(queue)
    BY DEF QueueType
<1>2. /\ Tail(queue) \in Seq(Jobs) /\ Len(Tail(queue)) = Len(queue) - 1
      /\ \A n \in 1 .. Len(queue) - 1 : Tail(queue)[n] = queue[n + 1]
    BY <1>1
<1>3. CASE more = <<>>
    <2>1. queue' = Tail(queue)
        <3> DEFINE s == Tail(queue)
        <3>1. s \in Seq(Jobs) /\ queue' = s \o <<>>
            BY <1>2, <1>3
        <3> HIDE DEF s
        <3>2. s \o <<>> = s
            BY <3>1, ConcatEmptySeq
        <3>3. queue' = s
            BY <3>1, <3>2, Zenon
        <3> QED BY <3>3 DEF s
    <2>2. DOMAIN queue' = 1 .. Len(queue') /\ Len(queue') = Len(queue) - 1
        <3>1. DOMAIN Tail(queue) = 1 .. Len(Tail(queue))
            BY <1>2
        <3> QED BY <1>2, <2>1, <3>1, Zenon
    <2>3. \A n \in DOMAIN queue' : n + 1 \in DOMAIN queue /\ queue'[n] = queue[n + 1]
        BY <1>1, <1>2, <2>1, <2>2
    <2>4. QueueType'
        BY <1>2, <2>1, <2>3 DEF QueueType
    <2> QED BY <1>1, <1>3, <2>2, <2>3, <2>4
<1>4. ASSUME NEW j, JobTyped(j), more = <<j>>
      PROVE  /\ QueueType' /\ Len(queue') = Len(queue) /\ more # <<>>
             /\ DOMAIN queue' = 1 .. Len(queue')
             /\ \A n \in DOMAIN queue' :
                  \/ n + 1 \in DOMAIN queue /\ queue'[n] = queue[n + 1]
                  \/ n = Len(queue') /\ n + 1 \notin DOMAIN queue /\ queue'[n] = more[1]
    <2>1. j \in Jobs /\ <<j>> \in Seq(Jobs) /\ Len(<<j>>) = 1 /\ <<j>>[1] = j /\ <<j>> # <<>>
        BY <1>4 DEF JobTyped
    <2>2. /\ queue' \in Seq(Jobs) /\ Len(queue') = Len(queue)
          /\ \A n \in 1 .. Len(queue) - 1 : queue'[n] = Tail(queue)[n]
          /\ queue'[Len(queue)] = j
        <3> DEFINE s == Tail(queue)
                   r == <<j>>
        <3>1. /\ s \in Seq(Jobs) /\ r \in Seq(Jobs) /\ Len(r) = 1 /\ r[1] = j
              /\ queue' = s \o r /\ Len(s) = Len(queue) - 1
            BY <1>2, <1>4, <2>1
        <3> HIDE DEF s, r
        <3>2. /\ s \o r \in Seq(Jobs) /\ Len(s \o r) = Len(s) + Len(r)
              /\ \A n \in 1 .. Len(s) + Len(r) :
                     (s \o r)[n] = IF n <= Len(s) THEN s[n] ELSE r[n - Len(s)]
            BY <3>1, ConcatProperties
        <3>3. \A n \in 1 .. Len(queue) - 1 : queue'[n] = s[n]
            BY <1>1, <3>1, <3>2
        <3>4. queue'[Len(queue)] = j
            BY <1>1, <3>1, <3>2
        <3> QED BY <1>1, <3>1, <3>2, <3>3, <3>4 DEF s
    <2>3. DOMAIN queue' = 1 .. Len(queue)
        BY <1>1, <2>2
    <2>4. \A n \in DOMAIN queue' :
                  \/ n + 1 \in DOMAIN queue /\ queue'[n] = queue[n + 1]
                  \/ n = Len(queue') /\ n + 1 \notin DOMAIN queue /\ queue'[n] = j
        BY <1>1, <1>2, <2>2, <2>3
    <2>5. QueueType'
        BY <1>4, <2>2, <2>4 DEF QueueType
    <2> QED BY <1>4, <2>1, <2>2, <2>3, <2>4, <2>5
<1> QED BY <1>1, <1>3, <1>4

\* Flags of the jobs are set, the jobs stay.
LEMMA FlagQueue ==
    ASSUME QueueType, queue' = [n \in DOMAIN queue |-> queue'[n]], DOMAIN queue' = DOMAIN queue,
           \A n \in DOMAIN queue : JobTyped(queue'[n])
    PROVE  QueueType' /\ Len(queue') = Len(queue) /\ (queue # <<>> <=> queue' # <<>>)
<1>1. queue \in Seq(Jobs) /\ Len(queue) \in Nat /\ DOMAIN queue = 1 .. Len(queue)
    BY DEF QueueType
<1>2. queue' \in Seq(Jobs) /\ Len(queue') = Len(queue)
    BY <1>1 DEF JobTyped
<1>3. QueueType'
    BY <1>2 DEF QueueType
<1>4. queue # <<>> <=> queue' # <<>>
    BY <1>1, <1>2
<1> QED BY <1>2, <1>3, <1>4

-------------------------------------------------------------------------------
(* The screen and its jobs *)

ScreenType == screen \in ScreenRecord /\ (screen.theme \in Themes \/ screen = NoScreen)

\* A screen's jobs are about its theme.
MineTheme == \A n \in DOMAIN queue : queue[n].mine => queue[n].theme = screen.theme

\* When the screen has got its first answer, the jobs of those before it are
\* over; until then that answer is all it waits for, at the queue's end.
ResolvedJobs ==
    screen.resolved => \A n \in DOMAIN queue : queue[n].mine /\ queue[n].kind # "resolve"
UnresolvedJobs ==
    ~screen.resolved =>
        \A n \in DOMAIN queue : queue[n].mine => queue[n].kind = "resolve" /\ n = Len(queue)

\* The button is pressed for one job at a time.
OneTapped ==
    \A m \in DOMAIN queue : \A n \in DOMAIN queue :
        Tapped(queue[m]) /\ Tapped(queue[n]) => m = n
TappedIsBusy == \A n \in DOMAIN queue : queue[n].mine /\ Tapped(queue[n]) => screen.busy

\* A theme is checked after it was downloaded.
DownloadOrCheck ==
    \A m \in DOMAIN queue : \A n \in DOMAIN queue :
        queue[m].kind = "download" => queue[n].kind # "check"
DownloadJobs ==
    \A n \in DOMAIN queue :
        queue[n].mine => /\ queue[n].kind = "check" => screen.downloaded
                         /\ queue[n].kind = "download" => ~screen.downloaded
CheckedDownload == screen.checked => screen.resolved /\ screen.downloaded

JobsInv ==
    /\ QueueType /\ ScreenType /\ MineTheme
    /\ ResolvedJobs /\ UnresolvedJobs /\ OneTapped /\ TappedIsBusy
    /\ DownloadOrCheck /\ DownloadJobs /\ CheckedDownload

LEMMA NoScreenFacts ==
    /\ NoScreen \in ScreenRecord /\ NoScreen.theme = None /\ ~NoScreen.resolved
    /\ ~NoScreen.checked /\ ~NoScreen.busy
BY DEF NoScreen, ScreenRecord

LEMMA JobsInit == Init => JobsInv
<1> SUFFICES ASSUME Init PROVE JobsInv
    OBVIOUS
<1>1. queue \in Seq(Jobs) /\ DOMAIN queue = {} /\ screen = NoScreen
    BY DEF Init
<1> QED BY <1>1, NoScreenFacts
    DEF JobsInv, QueueType, ScreenType, MineTheme, ResolvedJobs, UnresolvedJobs, OneTapped,
        TappedIsBusy, DownloadOrCheck, DownloadJobs, CheckedDownload

LEMMA JobsSame ==
    ASSUME JobsInv, UNCHANGED <<screen, queue>>
    PROVE  JobsInv'
BY DEF JobsInv, QueueType, ScreenType, MineTheme, ResolvedJobs, UnresolvedJobs, OneTapped,
       TappedIsBusy, DownloadOrCheck, DownloadJobs, CheckedDownload

LEMMA JobsGone ==
    ASSUME screen' = NoScreen, queue' = <<>>
    PROVE  JobsInv'
<1>1. queue' \in Seq(Jobs) /\ DOMAIN queue' = {}
    OBVIOUS
<1> QED BY <1>1, NoScreenFacts
    DEF JobsInv, QueueType, ScreenType, MineTheme, ResolvedJobs, UnresolvedJobs, OneTapped,
        TappedIsBusy, DownloadOrCheck, DownloadJobs, CheckedDownload

LEMMA JobsOpen ==
    ASSUME JobsInv, NEW t \in Themes, Open(t)
    PROVE  JobsInv' /\ (queue # <<>> => job' = job) /\ queue' # <<>>
<1> DEFINE s == [NoScreen EXCEPT !.theme = t]
<1>1. /\ s \in ScreenRecord /\ s.theme = t /\ ~s.resolved /\ ~s.checked /\ ~s.busy
    BY DEF NoScreen, ScreenRecord
<1>2. screen = NoScreen /\ screen' = s /\ queue' = Append(queue, Job("resolve", t))
    BY DEF Open
<1> HIDE DEF s
<1> DEFINE j == Job("resolve", t)
<1>3. JobTyped(j) /\ j.kind = "resolve" /\ j.theme = t /\ j.mine
    BY JobFacts
<1>4. QueueType /\ queue' = Append(queue, j)
    BY <1>2 DEF JobsInv
<1> HIDE DEF j
<1>5. /\ QueueType' /\ queue' # <<>> /\ queue'[Len(queue')] = j
      /\ \A n \in DOMAIN queue : n \in DOMAIN queue' /\ n # Len(queue') /\ queue'[n] = queue[n]
      /\ \A n \in DOMAIN queue' : n = Len(queue') \/ n \in DOMAIN queue
      /\ queue # <<>> => job' = job
    BY <1>3, <1>4, AppendJob
<1>6. \A n \in DOMAIN queue : ~queue[n].mine
    <2>1. \A n \in DOMAIN queue : queue[n].theme \in Themes
        BY <1>4 DEF QueueType, JobTyped, Jobs
    <2> QED BY <1>2, <2>1, NoScreenFacts, ThemesAssumption DEF JobsInv, MineTheme
<1>7. /\ ScreenType' /\ MineTheme' /\ ResolvedJobs' /\ UnresolvedJobs' /\ CheckedDownload'
    BY <1>1, <1>2, <1>3, <1>5, <1>6
    DEF ScreenType, MineTheme, ResolvedJobs, UnresolvedJobs, CheckedDownload
<1>8. OneTapped' /\ TappedIsBusy' /\ DownloadOrCheck' /\ DownloadJobs'
    BY <1>3, <1>5, <1>6
    DEF JobsInv, OneTapped, TappedIsBusy, DownloadOrCheck, DownloadJobs, Tapped
<1> QED BY <1>5, <1>7, <1>8 DEF JobsInv

\* The screen's jobs lose it.
LEMMA JobsLeave ==
    ASSUME JobsInv, Leave
    PROVE  /\ JobsInv' /\ DOMAIN queue' = DOMAIN queue
           /\ \A n \in DOMAIN queue : Like(queue'[n], queue[n])
           /\ queue # <<>> <=> queue' # <<>>
<1>1. queue' = [n \in DOMAIN queue |-> Disowned(queue[n])] /\ screen' = NoScreen
    BY DEF Leave, Disowned
<1>2. \A n \in DOMAIN queue : /\ JobTyped(queue'[n]) /\ Like(queue'[n], queue[n]) /\ ~queue'[n].mine
    BY <1>1, FlagFacts DEF JobsInv, QueueType
<1>3. DOMAIN queue' = DOMAIN queue /\ queue' = [n \in DOMAIN queue |-> queue'[n]]
    BY <1>1
<1>4. QueueType' /\ Len(queue') = Len(queue) /\ (queue # <<>> <=> queue' # <<>>)
    BY <1>2, <1>3, FlagQueue DEF JobsInv
<1>5. ScreenType' /\ MineTheme' /\ ResolvedJobs' /\ UnresolvedJobs' /\ CheckedDownload'
      /\ TappedIsBusy' /\ DownloadJobs'
    BY <1>1, <1>2, <1>3, NoScreenFacts
    DEF ScreenType, MineTheme, ResolvedJobs, UnresolvedJobs, CheckedDownload, TappedIsBusy,
        DownloadJobs
<1>6. OneTapped' /\ DownloadOrCheck'
    BY <1>2, <1>3 DEF JobsInv, OneTapped, DownloadOrCheck, Tapped, Like
<1> QED BY <1>2, <1>3, <1>4, <1>5, <1>6 DEF JobsInv

LEMMA JobsCancel ==
    ASSUME JobsInv, Cancel
    PROVE  /\ JobsInv' /\ DOMAIN queue' = DOMAIN queue
           /\ \A n \in DOMAIN queue : Like(queue'[n], queue[n])
           /\ queue # <<>> <=> queue' # <<>>
<1>1. queue' = [n \in DOMAIN queue |-> Cancelled(queue[n])] /\ screen' = screen
    BY DEF Cancel, Cancelled
<1>2. \A n \in DOMAIN queue : /\ JobTyped(queue'[n]) /\ Like(queue'[n], queue[n])
                              /\ queue'[n].mine = queue[n].mine
    BY <1>1, FlagFacts DEF JobsInv, QueueType
<1>3. DOMAIN queue' = DOMAIN queue /\ queue' = [n \in DOMAIN queue |-> queue'[n]]
    BY <1>1
<1>4. QueueType' /\ Len(queue') = Len(queue) /\ (queue # <<>> <=> queue' # <<>>)
    BY <1>2, <1>3, FlagQueue DEF JobsInv
<1>5. ScreenType' /\ MineTheme' /\ ResolvedJobs' /\ UnresolvedJobs' /\ CheckedDownload'
      /\ TappedIsBusy' /\ DownloadJobs'
    BY <1>1, <1>2, <1>3, <1>4
    DEF JobsInv, ScreenType, MineTheme, ResolvedJobs, UnresolvedJobs, CheckedDownload, TappedIsBusy,
        DownloadJobs, Tapped, Like
<1>6. OneTapped' /\ DownloadOrCheck'
    BY <1>2, <1>3 DEF JobsInv, OneTapped, DownloadOrCheck, Tapped, Like
<1> QED BY <1>2, <1>3, <1>4, <1>5, <1>6 DEF JobsInv

\* The button is pressed.
LEMMA JobsStart ==
    ASSUME JobsInv, CanTap, NEW j, Start(j), JobTyped(j), Tapped(j), j.mine,
           j.theme = screen.theme, j.kind = "download" => ~screen.downloaded
    PROVE  /\ JobsInv' /\ (queue # <<>> => job' = job) /\ queue' # <<>>
           /\ \A n \in DOMAIN queue : ~Tapped(queue[n])
           /\ j.kind = "download" => \A n \in DOMAIN queue : queue[n].kind # "check"
<1> DEFINE s == [screen EXCEPT !.busy = TRUE]
<1>1. /\ s \in ScreenRecord /\ s.busy /\ SameButtons(s) /\ SameCheck(s)
      /\ s.downloaded = screen.downloaded
    BY DEF JobsInv, ScreenType, ScreenRecord, SameButtons, SameCheck
<1>2. screen' = s /\ queue' = Append(queue, j) /\ screen.resolved /\ ~screen.busy
    BY DEF Start, CanTap
<1> HIDE DEF s
<1>3. /\ QueueType' /\ queue' # <<>> /\ queue'[Len(queue')] = j
      /\ \A n \in DOMAIN queue : n \in DOMAIN queue' /\ n # Len(queue') /\ queue'[n] = queue[n]
      /\ \A n \in DOMAIN queue' : n = Len(queue') \/ n \in DOMAIN queue
      /\ queue # <<>> => job' = job
    BY <1>2, AppendJob DEF JobsInv
<1>4. \A n \in DOMAIN queue : queue[n].mine /\ queue[n].kind # "resolve" /\ ~Tapped(queue[n])
    BY <1>2 DEF JobsInv, ResolvedJobs, TappedIsBusy
<1>5. j.kind = "download" => \A n \in DOMAIN queue : queue[n].kind # "check"
    BY <1>4 DEF JobsInv, DownloadJobs
<1>6. screen'.theme \in Themes
    BY <1>1, <1>2, NoScreenFacts DEF JobsInv, ScreenType, SameButtons
<1>7. ScreenType' /\ MineTheme' /\ ResolvedJobs' /\ UnresolvedJobs' /\ CheckedDownload'
    <2>1. /\ screen' \in ScreenRecord /\ screen'.resolved /\ screen'.theme = screen.theme
          /\ screen'.checked = screen.checked /\ screen'.downloaded = screen.downloaded
        BY <1>1, <1>2 DEF SameButtons, SameCheck
    <2>2. ScreenType' /\ UnresolvedJobs'
        BY <1>6, <2>1 DEF ScreenType, UnresolvedJobs
    <2>3. MineTheme'
        BY <1>3, <2>1 DEF JobsInv, MineTheme
    <2>4. ResolvedJobs'
        BY <1>3, <1>4 DEF ResolvedJobs, Tapped
    <2>5. CheckedDownload'
        BY <2>1 DEF JobsInv, CheckedDownload
    <2> QED BY <2>2, <2>3, <2>4, <2>5
<1>8. OneTapped' /\ TappedIsBusy'
    BY <1>1, <1>2, <1>3, <1>4 DEF OneTapped, TappedIsBusy
<1>9. DownloadOrCheck'
    BY <1>3, <1>4, <1>5 DEF DownloadOrCheck, Tapped
<1>10. DownloadJobs'
    BY <1>1, <1>2, <1>3, <1>4 DEF JobsInv, DownloadJobs, Tapped
<1> QED BY <1>3, <1>4, <1>5, <1>7, <1>8, <1>9, <1>10 DEF JobsInv

\* A job of a screen that was left ends.
LEMMA JobsOrphanEnds ==
    ASSUME JobsInv, queue # <<>>, ~job.mine, queue' = Tail(queue) \o <<>>, screen' = screen
    PROVE  /\ JobsInv' /\ Len(queue) \in Nat \ {0}
           /\ \A n \in DOMAIN queue' : n # 0 /\ n + 1 \in DOMAIN queue /\ queue'[n] = queue[n + 1]
<1>1. QueueType /\ job = queue[1] /\ 1 \in DOMAIN queue
    BY HeadJob DEF JobsInv
<1>2. /\ QueueType' /\ Len(queue) \in Nat \ {0} /\ Len(queue') = Len(queue) - 1
      /\ DOMAIN queue' = 1 .. Len(queue')
      /\ \A n \in DOMAIN queue' : n + 1 \in DOMAIN queue /\ queue'[n] = queue[n + 1]
    BY <1>1, EndJob
<1>3. ~screen.resolved
    BY <1>1 DEF JobsInv, ResolvedJobs
<1>4. ScreenType' /\ MineTheme' /\ ResolvedJobs' /\ CheckedDownload'
    BY <1>2, <1>3 DEF JobsInv, ScreenType, MineTheme, ResolvedJobs, CheckedDownload
<1>5. UnresolvedJobs'
    BY <1>2 DEF JobsInv, UnresolvedJobs
<1>6. OneTapped'
    BY <1>2 DEF JobsInv, OneTapped
<1>7. TappedIsBusy' /\ DownloadOrCheck' /\ DownloadJobs'
    BY <1>2 DEF JobsInv, TappedIsBusy, DownloadOrCheck, DownloadJobs
<1> QED BY <1>2, <1>4, <1>5, <1>6, <1>7 DEF JobsInv

\* The screen's first answer: the queue is empty but for a check of a theme
\* that is there.
LEMMA JobsResolved ==
    ASSUME JobsInv, queue # <<>>, job.mine, job.kind = "resolve",
           NEW more, queue' = Tail(queue) \o more,
           more = <<>> \/ (more = <<Check(job.theme)>> /\ screen'.downloaded),
           screen' \in ScreenRecord, screen'.theme = screen.theme, screen'.busy = screen.busy,
           SameCheck(screen'),
           more # <<>> => screen'.resolved
    PROVE  /\ JobsInv' /\ ~screen.resolved
           /\ \A n \in DOMAIN queue' : more # <<>> /\ n = 1 /\ queue'[n] = Check(job.theme)
<1>1. /\ QueueType /\ job = queue[1] /\ 1 \in DOMAIN queue /\ job.theme \in Themes
      /\ Len(queue) \in Nat \ {0}
    BY HeadJob DEF JobsInv
<1>2. ~screen.resolved /\ Len(queue) = 1 /\ screen.theme = job.theme
    BY <1>1 DEF JobsInv, ResolvedJobs, UnresolvedJobs, MineTheme
<1> DEFINE j == Check(job.theme)
<1>3. JobTyped(j) /\ j.kind = "check" /\ j.theme = job.theme /\ j.mine
    BY <1>1, CheckFacts
<1> HIDE DEF j
<1>4. more = <<>> \/ (more = <<j>> /\ screen'.downloaded)
    BY DEF j
<1>5. /\ QueueType' /\ DOMAIN queue' = 1 .. Len(queue')
      /\ more = <<>> => Len(queue') = Len(queue) - 1
      /\ more # <<>> => Len(queue') = Len(queue)
      /\ \A n \in DOMAIN queue' :
            \/ n + 1 \in DOMAIN queue
            \/ more # <<>> /\ n = Len(queue') /\ queue'[n] = more[1]
      /\ DOMAIN queue = 1 .. Len(queue)
    BY <1>1, <1>3, <1>4, EndJob
<1>6. \A n \in DOMAIN queue' : more # <<>> /\ n = 1 /\ queue'[n] = j
    <2>1. \A n \in DOMAIN queue' : n = 1 /\ n + 1 \notin DOMAIN queue
        BY <1>2, <1>5
    <2>2. more # <<>> => more[1] = j
        BY <1>4
    <2> QED BY <1>5, <2>1, <2>2
<1>7. more # <<>> => screen'.downloaded /\ Len(queue') = 1
    BY <1>2, <1>4, <1>5
<1>8. ScreenType' /\ MineTheme' /\ ResolvedJobs' /\ UnresolvedJobs' /\ DownloadJobs'
    BY <1>1, <1>2, <1>3, <1>6, <1>7
    DEF ScreenType, MineTheme, ResolvedJobs, UnresolvedJobs, DownloadJobs
<1>9. CheckedDownload'
    BY <1>2 DEF JobsInv, CheckedDownload, SameCheck
<1>10. OneTapped' /\ TappedIsBusy' /\ DownloadOrCheck'
    BY <1>3, <1>6 DEF OneTapped, TappedIsBusy, DownloadOrCheck, Tapped
<1> QED BY <1>2, <1>5, <1>6, <1>8, <1>9, <1>10 DEF JobsInv, j

\* Another job of the screen ends.
LEMMA JobsEnds ==
    ASSUME JobsInv, queue # <<>>, job.mine, job.kind # "resolve",
           NEW more, queue' = Tail(queue) \o more,
           more = <<>> \/ (more = <<Check(job.theme)>> /\ job.kind = "download"),
           screen' \in ScreenRecord, SameButtons(screen'),
           Tapped(job) \/ screen'.busy = screen.busy,
           screen'.checked => screen.checked \/ job.kind = "check",
           IF job.kind = "download" /\ more # <<>> THEN screen'.downloaded
                                    ELSE screen'.downloaded = screen.downloaded
    PROVE  /\ JobsInv' /\ screen.resolved /\ screen.theme = job.theme
           /\ \A n \in DOMAIN queue' :
                 \/ n # 0 /\ n + 1 \in DOMAIN queue /\ queue'[n] = queue[n + 1]
                 \/ more # <<>> /\ queue'[n] = Check(job.theme)
<1>1. /\ QueueType /\ job = queue[1] /\ 1 \in DOMAIN queue /\ job.theme \in Themes
      /\ Len(queue) \in Nat \ {0}
    BY HeadJob DEF JobsInv
<1>2. screen.resolved /\ screen.theme = job.theme
    BY <1>1 DEF JobsInv, UnresolvedJobs, MineTheme
<1> DEFINE j == Check(job.theme)
<1>3. JobTyped(j) /\ j.kind = "check" /\ j.theme = job.theme /\ j.mine
    BY <1>1, CheckFacts
<1> HIDE DEF j
<1>4. more = <<>> \/ (more = <<j>> /\ job.kind = "download")
    BY DEF j
<1>5. /\ QueueType' /\ DOMAIN queue' = 1 .. Len(queue')
      /\ \A n \in DOMAIN queue' :
            \/ n + 1 \in DOMAIN queue /\ queue'[n] = queue[n + 1]
            \/ more # <<>> /\ n = Len(queue') /\ queue'[n] = more[1]
    BY <1>1, <1>3, <1>4, EndJob
<1>6. \A n \in DOMAIN queue' :
            \/ n # 0 /\ n + 1 # 1 /\ n + 1 \in DOMAIN queue /\ queue'[n] = queue[n + 1]
            \/ more # <<>> /\ n = Len(queue') /\ queue'[n] = j
    BY <1>4, <1>5
<1>7. ScreenType' /\ MineTheme' /\ ResolvedJobs' /\ UnresolvedJobs'
    BY <1>1, <1>2, <1>3, <1>6
    DEF JobsInv, ScreenType, MineTheme, ResolvedJobs, UnresolvedJobs, SameButtons
<1>8. Tapped(job) => \A n \in DOMAIN queue : n # 1 => ~Tapped(queue[n])
    BY <1>1 DEF JobsInv, OneTapped
<1>9. OneTapped' /\ TappedIsBusy'
    BY <1>1, <1>3, <1>6, <1>8 DEF JobsInv, OneTapped, TappedIsBusy, Tapped
<1>10. DownloadOrCheck'
    BY <1>1, <1>3, <1>4, <1>6, <1>8 DEF JobsInv, DownloadOrCheck, Tapped
<1>11. DownloadJobs'
    BY <1>1, <1>3, <1>4, <1>6, <1>8 DEF JobsInv, DownloadJobs, Tapped
<1>12. CheckedDownload'
    BY <1>1, <1>2 DEF JobsInv, CheckedDownload, DownloadJobs, SameButtons
<1> QED BY <1>2, <1>5, <1>6, <1>7, <1>9, <1>10, <1>11, <1>12 DEF JobsInv, j

-------------------------------------------------------------------------------
(* How jobs end *)

Moved == \A n \in DOMAIN queue' : n # 0 /\ n + 1 \in DOMAIN queue /\ queue'[n] = queue[n + 1]
SameShown(s) == SameButtons(s) /\ s.applied = screen.applied
SameScreen(s) == SameShown(s) /\ SameCheck(s) /\ s.downloaded = screen.downloaded

\* Without a word to the screen but that the button is free.
LEMMA UnbusyEffect ==
    ASSUME JobsInv, queue # <<>>, Tapped(job), Finish(Unbusy, <<>>)
    PROVE  JobsInv' /\ Moved /\ SameScreen(screen') /\ task' = Idle
<1>1. screen \in ScreenRecord
    BY DEF JobsInv, ScreenType
<1>2. CASE job.mine
    <2>1. screen' = Set(Unbusy) /\ queue' = Tail(queue) \o <<>> /\ task' = Idle
        BY <1>2 DEF Finish
    <2> DEFINE s == Set(Unbusy)
    <2>2. s \in ScreenRecord /\ SameButtons(s) /\ SameCheck(s)
          /\ s.downloaded = screen.downloaded /\ s.applied = screen.applied
        BY <1>1, SetFacts
    <2> HIDE DEF s
    <2>3. screen' = s
        BY <2>1 DEF s
    <2>4. screen'.checked => screen.checked
        BY <2>2, <2>3 DEF SameCheck
    <2>5. job.kind # "resolve"
        BY DEF Tapped
    <2>6. JobsInv' /\ Moved
        BY <1>2, <2>1, <2>2, <2>3, <2>4, <2>5, JobsEnds DEF Moved
    <2> QED BY <2>1, <2>2, <2>3, <2>6 DEF SameScreen, SameShown
<1>3. CASE ~job.mine
    <2>1. screen' = screen /\ queue' = Tail(queue) \o <<>> /\ task' = Idle
        BY <1>3 DEF Finish
    <2> QED BY <1>3, <2>1, JobsOrphanEnds
            DEF Moved, SameScreen, SameShown, SameButtons, SameCheck
<1> QED BY <1>2, <1>3

\* An install or a removal tells whether the theme is applied now.
LEMMA AppliedEffect ==
    ASSUME JobsInv, queue # <<>>, job.kind \in {"install", "remove"}, NEW a \in BOOLEAN,
           Finish([busy |-> FALSE, applied |-> a], <<>>)
    PROVE  /\ JobsInv' /\ Moved /\ task' = Idle
           /\ SameButtons(screen') /\ SameCheck(screen') /\ screen'.downloaded = screen.downloaded
           /\ screen.resolved => screen'.applied = a /\ job.theme = screen.theme
<1>1. screen \in ScreenRecord
    BY DEF JobsInv, ScreenType
<1>2. CASE job.mine
    <2>1. /\ screen' = Set([busy |-> FALSE, applied |-> a]) /\ queue' = Tail(queue) \o <<>>
          /\ task' = Idle
        BY <1>2 DEF Finish
    <2> DEFINE s == Set([busy |-> FALSE, applied |-> a])
    <2>2. s \in ScreenRecord /\ SameButtons(s) /\ SameCheck(s)
          /\ s.downloaded = screen.downloaded /\ s.applied = a
        BY <1>1, SetFacts
    <2> HIDE DEF s
    <2>3. screen' = s
        BY <2>1 DEF s
    <2>4. screen'.checked => screen.checked
        BY <2>2, <2>3 DEF SameCheck
    <2>5. Tapped(job) /\ job.kind # "resolve" /\ job.kind # "download"
        BY DEF Tapped
    <2>6. JobsInv' /\ Moved /\ screen.theme = job.theme
        BY <1>2, <2>1, <2>2, <2>3, <2>4, <2>5, JobsEnds DEF Moved
    <2> QED BY <2>1, <2>2, <2>3, <2>6
<1>3. CASE ~job.mine
    <2>1. screen' = screen /\ queue' = Tail(queue) \o <<>> /\ task' = Idle
        BY <1>3 DEF Finish
    <2>2. ~screen.resolved
        BY <1>3, HeadJob DEF JobsInv, ResolvedJobs
    <2> QED BY <1>3, <2>1, <2>2, JobsOrphanEnds DEF Moved, SameButtons, SameCheck
<1> QED BY <1>2, <1>3

\* A download that went well is followed by a check.
LEMMA DownloadedEffect ==
    ASSUME JobsInv, queue # <<>>, job.kind = "download",
           Finish([busy |-> FALSE, downloaded |-> TRUE], <<Check(job.theme)>>)
    PROVE  /\ JobsInv' /\ task' = Idle
           /\ \A n \in DOMAIN queue' :
                 \/ n # 0 /\ n + 1 \in DOMAIN queue /\ queue'[n] = queue[n + 1]
                 \/ queue'[n] = Check(job.theme)
           /\ SameShown(screen') /\ SameCheck(screen')
           /\ screen.resolved => screen'.downloaded
<1>1. screen \in ScreenRecord
    BY DEF JobsInv, ScreenType
<1>2. CASE job.mine
    <2> DEFINE s == Set([busy |-> FALSE, downloaded |-> TRUE])
               more == <<Check(job.theme)>>
    <2>1. screen' = s /\ queue' = Tail(queue) \o more /\ task' = Idle
        BY <1>2 DEF Finish
    <2>2. s \in ScreenRecord /\ SameButtons(s) /\ SameCheck(s)
          /\ s.downloaded /\ s.applied = screen.applied
        BY <1>1, SetFacts
    <2>3. more # <<>>
        OBVIOUS
    <2> HIDE DEF s
    <2>4. screen'.checked => screen.checked
        BY <2>1, <2>2 DEF SameCheck
    <2>5. Tapped(job) /\ job.kind # "resolve"
        BY DEF Tapped
    <2>6. /\ JobsInv'
          /\ \A n \in DOMAIN queue' :
                 \/ n # 0 /\ n + 1 \in DOMAIN queue /\ queue'[n] = queue[n + 1]
                 \/ more # <<>> /\ queue'[n] = Check(job.theme)
        <3> HIDE DEF more
        <3>1. more = <<>> \/ (more = <<Check(job.theme)>> /\ job.kind = "download")
            BY DEF more
        <3> QED BY <1>2, <2>1, <2>2, <2>3, <2>4, <2>5, <3>1, JobsEnds
    <2> QED BY <2>1, <2>2, <2>6 DEF SameShown
<1>3. CASE ~job.mine
    <2>1. screen' = screen /\ queue' = Tail(queue) \o <<>> /\ task' = Idle
        BY <1>3 DEF Finish
    <2>2. ~screen.resolved
        BY <1>3, HeadJob DEF JobsInv, ResolvedJobs
    <2> QED BY <1>3, <2>1, <2>2, JobsOrphanEnds DEF SameShown, SameButtons, SameCheck
<1> QED BY <1>2, <1>3

\* A check tells the screen what it found.
LEMMA CheckedEffect ==
    ASSUME JobsInv, queue # <<>>, job.kind = "check", NEW risky \in BOOLEAN,
           Finish([checked |-> TRUE, risky |-> risky], <<>>)
    PROVE  /\ JobsInv' /\ Moved /\ task' = Idle
           /\ SameShown(screen') /\ screen'.downloaded = screen.downloaded
           /\ \/ SameCheck(screen')
              \/ /\ screen'.risky = risky /\ job.theme = screen.theme
                 /\ screen.resolved
<1>1. screen \in ScreenRecord
    BY DEF JobsInv, ScreenType
<1>2. CASE job.mine
    <2> DEFINE s == Set([checked |-> TRUE, risky |-> risky])
    <2>1. screen' = s /\ queue' = Tail(queue) \o <<>> /\ task' = Idle
        BY <1>2 DEF Finish
    <2>2. s \in ScreenRecord /\ SameButtons(s) /\ s.busy = screen.busy
          /\ s.downloaded = screen.downloaded /\ s.applied = screen.applied
          /\ s.risky = risky
        BY <1>1, SetFacts
    <2> HIDE DEF s
    <2>3. JobsInv' /\ Moved /\ screen.theme = job.theme /\ screen.resolved
        BY <1>2, <2>1, <2>2, JobsEnds DEF Moved
    <2> QED BY <2>1, <2>2, <2>3 DEF SameShown
<1>3. CASE ~job.mine
    <2>1. screen' = screen /\ queue' = Tail(queue) \o <<>> /\ task' = Idle
        BY <1>3 DEF Finish
    <2> QED BY <1>3, <2>1, JobsOrphanEnds DEF Moved, SameShown, SameButtons, SameCheck
<1> QED BY <1>2, <1>3

\* The first answer: what is on the card, and a check of what is there.
LEMMA ResolveEffect ==
    ASSUME JobsInv, Resolve, folder[job.theme].there \in BOOLEAN
    PROVE  /\ JobsInv' /\ task' = Idle /\ UNCHANGED disk
           /\ SameCheck(screen') /\ screen'.theme = screen.theme
           /\ ~screen.resolved
           /\ screen'.resolved => /\ screen'.applied <=> record.theme = screen.theme
                                  /\ screen'.downloaded = folder[screen.theme].there
           /\ \A n \in DOMAIN queue' :
                 \/ n # 0 /\ n + 1 \in DOMAIN queue /\ queue'[n] = queue[n + 1]
                 \/ queue'[n] = Check(job.theme) /\ folder[job.theme].there
                    /\ \A m \in DOMAIN queue' : queue'[m] = Check(job.theme)
<1> DEFINE t == job.theme
           there == folder[t].there
           applied == record.theme = t
           more == IF there THEN <<Check(t)>> ELSE <<>>
           yes == [resolved |-> TRUE, downloaded |-> there, applied |-> applied]
<1>1. /\ queue # <<>> /\ job.kind = "resolve" /\ UNCHANGED disk
      /\ Finish([resolved |-> FALSE], <<>>) \/ Finish(yes, more)
    BY DEF Resolve, Running
<1>2. /\ screen \in ScreenRecord /\ job = queue[1] /\ 1 \in DOMAIN queue /\ applied \in BOOLEAN
      /\ there \in BOOLEAN
    BY <1>1, HeadJob DEF JobsInv, ScreenType
<1>3. more = <<>> \/ (more = <<Check(job.theme)>> /\ there)
    OBVIOUS
<1> HIDE DEF more
<1>4. CASE ~job.mine
    <2>1. screen' = screen /\ queue' = Tail(queue) \o <<>> /\ task' = Idle
        BY <1>1, <1>4 DEF Finish
    <2>2. ~screen.resolved
        BY <1>2, <1>4 DEF JobsInv, ResolvedJobs
    <2> QED BY <1>1, <1>4, <2>1, <2>2, JobsOrphanEnds DEF SameCheck
<1>5. CASE job.mine /\ Finish([resolved |-> FALSE], <<>>)
    <2> DEFINE s == Set([resolved |-> FALSE])
    <2>1. screen' = s /\ queue' = Tail(queue) \o <<>> /\ task' = Idle
        BY <1>5 DEF Finish
    <2>2. s \in ScreenRecord /\ ~s.resolved /\ s.theme = screen.theme /\ s.busy = screen.busy
          /\ SameCheck(s)
        BY <1>2, SetFacts
    <2> HIDE DEF s
    <2>3. JobsInv' /\ ~screen.resolved /\ DOMAIN queue' = {}
        <3>1. /\ JobsInv' /\ ~screen.resolved
              /\ \A n \in DOMAIN queue' : <<>> # <<>> /\ n = 1 /\ queue'[n] = Check(job.theme)
            BY <1>1, <1>5, <2>1, <2>2, JobsResolved
        <3> QED BY <3>1
    <2> QED BY <1>1, <2>1, <2>2, <2>3
<1>6. CASE job.mine /\ Finish(yes, more)
    <2> DEFINE s == Set(yes)
    <2>1. screen' = s /\ queue' = Tail(queue) \o more /\ task' = Idle
        BY <1>6 DEF Finish
    <2>2. s \in ScreenRecord /\ s.resolved /\ s.theme = screen.theme /\ s.busy = screen.busy
          /\ SameCheck(s) /\ s.downloaded = there /\ s.applied = applied
        BY <1>2, SetFacts
    <2> HIDE DEF s
    <2>3. /\ JobsInv' /\ ~screen.resolved
          /\ \A n \in DOMAIN queue' : more # <<>> /\ n = 1 /\ queue'[n] = Check(job.theme)
        BY <1>1, <1>3, <1>6, <2>1, <2>2, JobsResolved
    <2>4. job.theme = screen.theme
        BY <1>2, <1>6 DEF JobsInv, MineTheme
    <2> QED BY <1>1, <1>3, <2>1, <2>2, <2>3, <2>4
<1> QED BY <1>1, <1>4, <1>5, <1>6

-------------------------------------------------------------------------------
(* Types of the card and of the running task *)

Folders == [Themes -> [there : BOOLEAN, parts : SUBSET Parts]]
TaskRecord ==
    [on : BOOLEAN, todo : SUBSET Parts, written : SUBSET Parts, before : [Parts -> Outputs]]

DiskType ==
    /\ base \in [Parts -> Layouts]
    /\ folder \in Folders
    /\ cache \in [Themes -> {"none", "safe", "risky"}]
    /\ out \in [Parts -> Outputs]
    /\ record \in [theme : Themes \cup {None}, targets : SUBSET Parts]
    /\ record.theme = None <=> record.targets = {}
TaskType ==
    /\ task \in TaskRecord
    /\ task.on => queue # <<>>
    /\ ~task.on => task.todo = {} /\ task.written = {}
TypeInv == JobsInv /\ DiskType /\ TaskType

LEMMA TypeInvTypes == TypeInv => TypeOK
BY DEF TypeInv, DiskType, TaskType, JobsInv, QueueType, ScreenType, ScreenRecord, TypeOK,
       Layouts, Folders, TaskRecord

LEMMA OutputFacts ==
    /\ NoOutput \in Outputs /\ NoOutput.theme = None /\ NoOutput.mode = "none"
    /\ TornOutput \in Outputs /\ TornOutput.theme = None /\ TornOutput.mode = "torn"
    /\ \A t \in Themes : \A mode \in {"full", "background"} :
           /\ [theme |-> t, mode |-> mode] \in Outputs
           /\ [theme |-> t, mode |-> mode].theme = t /\ [theme |-> t, mode |-> mode].mode = mode
BY DEF NoOutput, TornOutput, Outputs

LEMMA IdleFacts == Idle \in TaskRecord /\ ~Idle.on /\ Idle.todo = {} /\ Idle.written = {}
<1>1. [p \in Parts |-> NoOutput] \in [Parts -> Outputs]
    BY OutputFacts
<1> QED BY <1>1 DEF Idle, TaskRecord

\* What the steps of a download make of the folders.
Made(f, t) == [f EXCEPT ![t].there = TRUE]
Filled(f, t, p) == [f EXCEPT ![t].parts = @ \cup {p}]
Dropped(f, t) == [f EXCEPT ![t] = [there |-> FALSE, parts |-> {}]]

LEMMA FolderFacts ==
    ASSUME NEW f \in Folders, NEW t \in Themes, NEW p \in Parts
    PROVE  /\ Made(f, t) \in Folders /\ Filled(f, t, p) \in Folders /\ Dropped(f, t) \in Folders
           /\ Made(f, t)[t].there /\ ~Dropped(f, t)[t].there /\ Dropped(f, t)[t].parts = {}
           /\ Filled(f, t, p)[t].parts = f[t].parts \cup {p}
           /\ \A u \in Themes :
                 /\ Made(f, t)[u].parts = f[u].parts /\ (f[u].there => Made(f, t)[u].there)
                 /\ Filled(f, t, p)[u].there = f[u].there
                 /\ u # t => /\ Made(f, t)[u] = f[u] /\ Filled(f, t, p)[u] = f[u]
                             /\ Dropped(f, t)[u] = f[u]
<1>1. Made(f, t) \in Folders /\ Filled(f, t, p) \in Folders /\ Dropped(f, t) \in Folders
    BY DEF Folders, Made, Filled, Dropped
<1>2. Made(f, t)[t].there /\ ~Dropped(f, t)[t].there /\ Dropped(f, t)[t].parts = {}
      /\ Filled(f, t, p)[t].parts = f[t].parts \cup {p}
    BY DEF Folders, Made, Filled, Dropped
<1>3. ASSUME NEW u \in Themes
      PROVE  /\ Made(f, t)[u].parts = f[u].parts /\ (f[u].there => Made(f, t)[u].there)
             /\ Filled(f, t, p)[u].there = f[u].there
             /\ u # t => /\ Made(f, t)[u] = f[u] /\ Filled(f, t, p)[u] = f[u]
                         /\ Dropped(f, t)[u] = f[u]
    BY DEF Folders, Made, Filled, Dropped
<1> QED BY <1>1, <1>2, <1>3

\* What the steps of a task make of it and of the outputs.
TakeTodo(k, p) == [k EXCEPT !.todo = @ \ {p}]
TakeWritten(k, p) == [k EXCEPT !.todo = @ \ {p}, !.written = @ \cup {p}]
Started(todo) == [on |-> TRUE, todo |-> todo, written |-> {}, before |-> out]
Put(o, p, x) == [o EXCEPT ![p] = x]

LEMMA TaskFacts ==
    ASSUME NEW k \in TaskRecord, NEW p \in Parts
    PROVE  /\ TakeTodo(k, p) \in TaskRecord /\ TakeTodo(k, p).on = k.on
           /\ TakeTodo(k, p).todo = k.todo \ {p} /\ TakeTodo(k, p).written = k.written
           /\ TakeTodo(k, p).before = k.before
           /\ TakeWritten(k, p) \in TaskRecord /\ TakeWritten(k, p).on = k.on
           /\ TakeWritten(k, p).todo = k.todo \ {p}
           /\ TakeWritten(k, p).written = k.written \cup {p}
           /\ TakeWritten(k, p).before = k.before
BY DEF TaskRecord, TakeTodo, TakeWritten

LEMMA StartedFacts ==
    ASSUME out \in [Parts -> Outputs], NEW todo \in SUBSET Parts
    PROVE  /\ Started(todo) \in TaskRecord /\ Started(todo).on /\ Started(todo).todo = todo
           /\ Started(todo).written = {} /\ Started(todo).before = out
BY DEF TaskRecord, Started

LEMMA PutFacts ==
    ASSUME NEW o \in [Parts -> Outputs], NEW p \in Parts, NEW x \in Outputs
    PROVE  /\ Put(o, p, x) \in [Parts -> Outputs] /\ Put(o, p, x)[p] = x
           /\ \A q \in Parts : q # p => Put(o, p, x)[q] = o[q]
BY DEF Put

LEMMA RollbackFacts ==
    ASSUME NEW o \in [Parts -> Outputs]
    PROVE  /\ Rollback(o) \in [Parts -> Outputs]
           /\ \A p \in Parts : Rollback(o)[p] = IF p \in task.written THEN NoOutput ELSE o[p]
BY OutputFacts DEF Rollback

LEMMA TypeInit == Init => TypeInv
<1> SUFFICES ASSUME Init PROVE TypeInv
    OBVIOUS
<1>1. JobsInv
    BY JobsInit
<1>2. DiskType
    BY OutputFacts DEF Init, DiskType, Layouts, Folders, NoRecord
<1>3. TaskType
    BY IdleFacts DEF Init, TaskType
<1> QED BY <1>1, <1>2, <1>3 DEF TypeInv

-------------------------------------------------------------------------------
(* What a step of the user does *)

SameJob == queue # <<>> => queue' # <<>> /\ Like(job', job)

\* A job that was not there before: no check; a download when the screen
\* shows no folder; an install the user was not asked about, of a theme
\* whose check found nothing.
Asked(j) ==
    /\ j.kind # "check"
    /\ j.kind = "download" => /\ CanTap /\ ~screen.downloaded /\ j.theme = screen.theme
    /\ j.kind = "install" /\ ~j.asked => screen.checked /\ ~screen.risky /\ j.theme = screen.theme
UserQueue ==
    \A n \in DOMAIN queue' :
        \/ n \in DOMAIN queue /\ Like(queue'[n], queue[n])
        \/ Asked(queue'[n])
UserScreen == (~screen'.resolved /\ ~screen'.checked) \/ SameScreen(screen')

LEMMA LikeSelf == \A j : Like(j, j)
BY DEF Like

LEMMA StartStep ==
    ASSUME JobsInv, CanTap, NEW j, Start(j), JobTyped(j), Tapped(j), j.mine,
           j.theme = screen.theme, j.kind = "download" => ~screen.downloaded, Asked(j)
    PROVE  JobsInv' /\ SameJob /\ UserQueue /\ UserScreen
<1>1. JobsInv' /\ (queue # <<>> => job' = job) /\ queue' # <<>>
    BY JobsStart
<1>2. queue' = Append(queue, j) /\ screen' = [screen EXCEPT !.busy = TRUE]
    BY DEF Start
<1>3. /\ queue'[Len(queue')] = j
      /\ \A n \in DOMAIN queue : queue'[n] = queue[n]
      /\ \A n \in DOMAIN queue' : n = Len(queue') \/ n \in DOMAIN queue
    BY <1>2, AppendJob DEF JobsInv
<1>4. UserQueue
    BY <1>3, LikeSelf, Zenon DEF UserQueue
<1>5. UserScreen
    BY <1>2 DEF JobsInv, ScreenType, ScreenRecord, UserScreen, SameScreen, SameShown, SameButtons,
               SameCheck
<1>6. SameJob
    BY <1>1, LikeSelf, Zenon DEF SameJob
<1> QED BY <1>1, <1>4, <1>5, <1>6

LEMMA ScreenTheme == JobsInv /\ CanTap => screen.theme \in Themes /\ screen \in ScreenRecord
BY NoScreenFacts DEF JobsInv, ScreenType, CanTap

LEMMA UserStep ==
    ASSUME TypeInv, User
    PROVE  /\ JobsInv' /\ SameJob /\ UserQueue /\ UserScreen
           /\ UNCHANGED <<disk, task>>
<1> USE DEF TypeInv
<1>1. ASSUME NEW t \in Themes, Open(t)
      PROVE  JobsInv' /\ SameJob /\ UserQueue /\ UserScreen /\ UNCHANGED <<disk, task>>
    <2>1. JobsInv' /\ (queue # <<>> => job' = job) /\ queue' # <<>>
        BY <1>1, JobsOpen
    <2> DEFINE j == Job("resolve", t)
               s == [NoScreen EXCEPT !.theme = t]
    <2>2. JobTyped(j) /\ j.kind = "resolve" /\ ~s.resolved /\ ~s.checked
        BY JobFacts DEF NoScreen
    <2>3. screen' = s /\ queue' = Append(queue, j) /\ UNCHANGED <<disk, task>>
        BY <1>1 DEF Open
    <2> HIDE DEF j, s
    <2>4. /\ queue'[Len(queue')] = j
          /\ \A n \in DOMAIN queue : queue'[n] = queue[n]
          /\ \A n \in DOMAIN queue' : n = Len(queue') \/ n \in DOMAIN queue
        BY <2>2, <2>3, AppendJob DEF JobsInv
    <2>5. Asked(j)
        BY <2>2 DEF Asked
    <2>6. UserQueue
        BY <2>4, <2>5, LikeSelf, Zenon DEF UserQueue
    <2>7. SameJob
        BY <2>1, LikeSelf, Zenon DEF SameJob
    <2> QED BY <2>1, <2>2, <2>3, <2>6, <2>7 DEF UserScreen
<1>2. CASE Leave
    <2>1. /\ JobsInv' /\ DOMAIN queue' = DOMAIN queue
          /\ \A n \in DOMAIN queue : Like(queue'[n], queue[n])
          /\ queue # <<>> <=> queue' # <<>>
        BY <1>2, JobsLeave
    <2>2. SameJob
        <3> SUFFICES ASSUME queue # <<>> PROVE queue' # <<>> /\ Like(job', job)
            BY DEF SameJob
        <3>1. job = queue[1] /\ 1 \in DOMAIN queue /\ queue' # <<>>
            BY <2>1, HeadJob DEF JobsInv
        <3>2. job' = queue'[1]
            BY <2>1, <3>1 DEF JobsInv, QueueType, job
        <3> QED BY <2>1, <3>1, <3>2
    <2>3. UserQueue
        BY <2>1 DEF UserQueue
    <2>4. UserScreen
        BY <1>2, NoScreenFacts DEF Leave, UserScreen
    <2> QED BY <1>2, <2>1, <2>2, <2>3, <2>4 DEF Leave
<1>3. CASE Cancel
    <2>1. /\ JobsInv' /\ DOMAIN queue' = DOMAIN queue
          /\ \A n \in DOMAIN queue : Like(queue'[n], queue[n])
          /\ queue # <<>> <=> queue' # <<>>
        BY <1>3, JobsCancel
    <2>2. SameJob
        <3> SUFFICES ASSUME queue # <<>> PROVE queue' # <<>> /\ Like(job', job)
            BY DEF SameJob
        <3>1. job = queue[1] /\ 1 \in DOMAIN queue /\ queue' # <<>>
            BY <2>1, HeadJob DEF JobsInv
        <3>2. job' = queue'[1]
            BY <2>1, <3>1 DEF JobsInv, QueueType, job
        <3> QED BY <2>1, <3>1, <3>2
    <2>3. UserQueue
        BY <2>1 DEF UserQueue
    <2>4. UserScreen
        BY <1>3 DEF Cancel, UserScreen, SameScreen, SameShown, SameButtons, SameCheck
    <2> QED BY <1>3, <2>1, <2>2, <2>3, <2>4 DEF Cancel
<1>4. CASE TapDownload
    <2> DEFINE j == Job("download", screen.theme)
    <2>1. CanTap /\ ~screen.downloaded /\ Start(j)
        BY <1>4 DEF TapDownload
    <2>2. JobTyped(j) /\ j.kind = "download" /\ j.theme = screen.theme /\ j.mine /\ Tapped(j)
        BY <2>1, ScreenTheme, JobFacts DEF Tapped
    <2> HIDE DEF j
    <2>3. Asked(j)
        BY <2>1, <2>2 DEF Asked
    <2> QED BY <2>1, <2>2, <2>3, StartStep DEF Start
<1>5. CASE Extract
    <2> DEFINE j == Job("extract", screen.theme)
    <2>1. CanTap /\ Start(j)
        BY <1>5 DEF Extract, TapApply
    <2>2. JobTyped(j) /\ j.kind = "extract" /\ j.theme = screen.theme /\ j.mine /\ Tapped(j)
        BY <2>1, ScreenTheme, JobFacts DEF Tapped
    <2> HIDE DEF j
    <2>3. Asked(j)
        BY <2>1, <2>2 DEF Asked
    <2> QED BY <2>1, <2>2, <2>3, StartStep DEF Start
<1>6. CASE TapRemove
    <2> DEFINE j == Job("remove", screen.theme)
    <2>1. CanTap /\ Start(j)
        BY <1>6 DEF TapRemove
    <2>2. JobTyped(j) /\ j.kind = "remove" /\ j.theme = screen.theme /\ j.mine /\ Tapped(j)
        BY <2>1, ScreenTheme, JobFacts DEF Tapped
    <2> HIDE DEF j
    <2>3. Asked(j)
        BY <2>1, <2>2 DEF Asked
    <2> QED BY <2>1, <2>2, <2>3, StartStep DEF Start
<1>7. CASE Apply
    <2>1. /\ CanTap /\ screen.checked
          /\ \E mode \in {"background", "full"} : \E asked \in BOOLEAN :
                 Start(InstallJob(mode, asked)) /\ (~asked => ~screen.risky)
        BY <1>7 DEF Apply, TapApply
    <2>2. PICK mode \in {"background", "full"}, asked \in BOOLEAN :
              Start(InstallJob(mode, asked)) /\ (~asked => ~screen.risky)
        BY <2>1
    <2> DEFINE j == InstallJob(mode, asked)
    <2>3. /\ JobTyped(j) /\ j.kind = "install" /\ j.theme = screen.theme /\ j.mine
          /\ j.asked = asked
        BY <2>1, ScreenTheme, InstallJobFacts
    <2>4. Start(j)
        BY <2>2
    <2> HIDE DEF j
    <2>5. Asked(j) /\ Tapped(j) /\ j.kind # "download"
        BY <2>1, <2>2, <2>3 DEF Asked, Tapped
    <2> QED BY <2>1, <2>3, <2>4, <2>5, StartStep DEF Start
<1> QED BY <1>1, <1>2, <1>3, <1>4, <1>5, <1>6, <1>7 DEF User

-------------------------------------------------------------------------------
(* Types are kept *)

LEMMA RunningJob ==
    ASSUME TypeInv, NEW kind, Running(kind)
    PROVE  /\ queue # <<>> /\ job.kind = kind /\ job.theme \in Themes /\ job = queue[1]
           /\ 1 \in DOMAIN queue /\ JobTyped(job) /\ PartsOf[job.theme] \in SUBSET Parts
BY HeadJob, ThemesAssumption DEF TypeInv, JobsInv, Running

\* Nothing of the screen or the queue changes.
LEMMA KeepStep ==
    ASSUME JobsInv, UNCHANGED <<screen, queue>>
    PROVE  JobsInv' /\ job' = job
BY JobsSame DEF job

\* A job has ended, its last words typed.
LEMMA EndedTask == task' = Idle => TaskType'
BY IdleFacts DEF TaskType

LEMMA DiskSame == DiskType /\ UNCHANGED disk => DiskType'
BY DEF DiskType, disk

LEMMA UserTypes ==
    ASSUME TypeInv, User
    PROVE  TypeInv'
<1>1. JobsInv' /\ SameJob /\ UNCHANGED <<disk, task>>
    BY UserStep
<1>2. TaskType'
    BY <1>1 DEF TypeInv, TaskType, SameJob
<1> QED BY <1>1, <1>2, DiskSame DEF TypeInv

LEMMA DownloadTypes ==
    ASSUME TypeInv, DownloadBegin \/ DownloadFail \/ DownloadDone \/ \E p \in Parts : DownloadPart(p)
    PROVE  TypeInv'
<1> USE DEF TypeInv
<1> DEFINE t == job.theme
<1>1. /\ t \in Themes /\ queue # <<>> /\ job.kind = "download" /\ Tapped(job)
      /\ PartsOf[t] \in SUBSET Parts
    BY RunningJob DEF DownloadBegin, DownloadFail, DownloadDone, DownloadPart, Tapped
<1>2. folder \in Folders /\ task \in TaskRecord /\ out \in [Parts -> Outputs]
    BY DEF DiskType, TaskType
<1>3. CASE DownloadBegin
    <2>1. /\ folder' = Made(folder, t) /\ task' = Started(PartsOf[t])
          /\ UNCHANGED <<base, cache, out, record, screen, queue>>
        BY <1>3 DEF DownloadBegin, Begin, Made, Started
    <2>2. folder' \in Folders
        <3>1. Made(folder, t) \in Folders
            BY <1>1, <1>2 DEF Folders, Made
        <3> QED BY <2>1, <3>1
    <2>3. JobsInv' /\ DiskType'
        BY <2>1, <2>2, KeepStep DEF DiskType
    <2>4. TaskType'
        BY <1>1, <1>2, <2>1, StartedFacts DEF TaskType
    <2> QED BY <2>3, <2>4
<1>4. ASSUME NEW p \in Parts, DownloadPart(p)
      PROVE  TypeInv'
    <2>1. /\ folder' = Filled(folder, t, p) /\ task' = TakeTodo(task, p) /\ p \in task.todo
          /\ UNCHANGED <<base, cache, out, record, screen, queue>>
        BY <1>4 DEF DownloadPart, Filled, TakeTodo
    <2>2. folder' \in Folders
        BY <1>1, <1>2, <2>1, FolderFacts
    <2>3. JobsInv' /\ DiskType'
        BY <2>1, <2>2, KeepStep DEF DiskType
    <2>4. TaskType'
        BY <1>1, <1>2, <2>1, TaskFacts DEF TaskType
    <2> QED BY <2>3, <2>4
<1>5. CASE DownloadFail
    <2>1. /\ folder' = Dropped(folder, t) /\ Finish(Unbusy, <<>>)
          /\ UNCHANGED <<base, cache, out, record>>
        BY <1>5 DEF DownloadFail, Dropped
    <2>2. folder' \in Folders
        <3>1. Dropped(folder, t) \in Folders
            BY <1>1, <1>2 DEF Folders, Dropped
        <3> QED BY <2>1, <3>1
    <2>3. JobsInv' /\ task' = Idle
        BY <1>1, <2>1, UnbusyEffect
    <2> QED BY <2>1, <2>2, <2>3, EndedTask DEF DiskType
<1>6. CASE DownloadDone
    <2>1. JobsInv' /\ task' = Idle /\ UNCHANGED disk
        BY <1>1, <1>6, DownloadedEffect DEF DownloadDone
    <2> QED BY <2>1, EndedTask, DiskSame
<1> QED BY <1>3, <1>4, <1>5, <1>6

\* What a check finds.
CheckHit == cache[job.theme] # "none"
CheckRisky == IF CheckHit THEN cache[job.theme] = "risky" ELSE Analyze(job.theme, job.dry)

LEMMA CheckEffect ==
    ASSUME TypeInv, CheckTheme
    PROVE  /\ JobsInv' /\ Moved /\ task' = Idle
           /\ SameShown(screen') /\ screen'.downloaded = screen.downloaded
           /\ \/ SameCheck(screen')
              \/ /\ screen'.risky = CheckRisky
                 /\ job.theme = screen.theme /\ screen.resolved
           /\ cache' = IF CheckHit THEN cache ELSE Remember(job.theme, job.dry, CheckRisky)
           /\ UNCHANGED <<base, folder, out, record>>
<1>1. queue # <<>> /\ job.kind = "check"
    BY RunningJob DEF CheckTheme
<1>2. /\ Finish([checked |-> TRUE, risky |-> CheckRisky], <<>>)
      /\ cache' = IF CheckHit THEN cache ELSE Remember(job.theme, job.dry, CheckRisky)
      /\ UNCHANGED <<base, folder, out, record>>
    BY DEF CheckTheme, CheckRisky, CheckHit
<1>3. CheckRisky \in BOOLEAN
    BY DEF CheckRisky, CheckHit, Analyze
<1> QED BY <1>1, <1>2, <1>3, CheckedEffect DEF TypeInv

LEMMA RememberFacts ==
    ASSUME cache \in [Themes -> {"none", "safe", "risky"}], NEW t \in Themes, NEW dry, NEW risky
    PROVE  LET c == Remember(t, dry, risky) IN
           /\ c \in [Themes -> {"none", "safe", "risky"}]
           /\ \A u \in Themes : u # t => c[u] = cache[u]
           /\ \/ c[t] = cache[t]
              \/ DryRunDone(t, dry) /\ c[t] = (IF risky THEN "risky" ELSE "safe")
BY DEF Remember

LEMMA CheckTypes ==
    ASSUME TypeInv, CheckTheme \/ Resolve \/ ExtractAll
    PROVE  TypeInv'
<1> USE DEF TypeInv
<1>1. CASE CheckTheme
    <2>1. job.theme \in Themes
        BY <1>1, RunningJob DEF CheckTheme
    <2>2. cache' \in [Themes -> {"none", "safe", "risky"}]
        BY <1>1, <2>1, CheckEffect, RememberFacts DEF DiskType
    <2> QED BY <1>1, <2>2, CheckEffect, EndedTask DEF DiskType
<1>2. CASE Resolve
    <2>1. folder[job.theme].there \in BOOLEAN
        BY <1>2, RunningJob DEF Resolve, DiskType, Folders
    <2> QED BY <1>2, <2>1, ResolveEffect, EndedTask, DiskSame
<1>3. CASE ExtractAll
    <2>1. queue # <<>> /\ Tapped(job) /\ Finish(Unbusy, <<>>)
        BY <1>3, RunningJob DEF ExtractAll, Tapped
    <2>2. JobsInv' /\ task' = Idle
        BY <2>1, UnbusyEffect
    <2> QED BY <1>3, <2>2, EndedTask DEF ExtractAll, DiskType, Layouts
<1> QED BY <1>1, <1>2, <1>3

\* The outcomes of an install's steps.
InstallStep ==
    \/ InstallBegin \/ InstallFail \/ InstallDone
    \/ \E p \in Parts : InstallPart(p) \/ InstallSkip(p) \/ InstallWriteFail(p)
Theirs(o) == [theme |-> job.theme, mode |-> job.mode]

LEMMA WriteFailFacts ==
    ASSUME TypeInv, NEW p \in Parts, InstallWriteFail(p)
    PROVE  /\ out' \in [Parts -> Outputs]
           /\ \A q \in Parts : \/ q \in task.written /\ out'[q] = NoOutput
                               \/ q \notin task.written /\ out'[q] \in {out[q], TornOutput}
<1> DEFINE o == Put(out, p, TornOutput)
<1>1. out \in [Parts -> Outputs]
    BY DEF TypeInv, DiskType
<1>2. o \in [Parts -> Outputs] /\ \A q \in Parts : o[q] \in {out[q], TornOutput}
    <2>1. TornOutput \in Outputs
        BY OutputFacts
    <2>2. o \in [Parts -> Outputs] /\ o[p] = TornOutput /\ \A q \in Parts : q # p => o[q] = out[q]
        BY <1>1, <2>1, PutFacts
    <2> HIDE DEF o
    <2> QED BY <2>2
<1>3. out' = Rollback(out) \/ out' = Rollback(o)
    BY DEF InstallWriteFail, Put
<1> HIDE DEF o
<1>4. CASE out' = Rollback(out)
    BY <1>1, <1>4, RollbackFacts
<1>5. CASE out' = Rollback(o)
    BY <1>2, <1>5, RollbackFacts
<1> QED BY <1>3, <1>4, <1>5

LEMMA InstallTypes ==
    ASSUME TypeInv, InstallStep
    PROVE  TypeInv'
<1> USE DEF TypeInv
<1>1. /\ job.theme \in Themes /\ queue # <<>> /\ job.kind = "install" /\ Tapped(job)
      /\ PartsOf[job.theme] \in SUBSET Parts /\ job.mode \in {"full", "background"}
    BY RunningJob
    DEF InstallStep, InstallBegin, InstallFail, InstallDone, InstallPart, InstallSkip,
        InstallWriteFail, Reached, Tapped, JobTyped
<1>2. task \in TaskRecord /\ out \in [Parts -> Outputs]
    BY DEF DiskType, TaskType
<1>3. CASE InstallBegin
    <2>1. task' = Started(PartsOf[job.theme]) /\ UNCHANGED <<disk, screen, queue>>
        BY <1>3 DEF InstallBegin, Begin, Started
    <2>2. TaskType'
        BY <1>1, <1>2, <2>1, StartedFacts DEF TaskType
    <2> QED BY <2>1, <2>2, KeepStep, DiskSame
<1>4. ASSUME NEW p \in Parts, InstallPart(p)
      PROVE  TypeInv'
    <2> DEFINE x == [theme |-> job.theme, mode |-> job.mode]
    <2>1. /\ out' = Put(out, p, x) /\ task' = TakeWritten(task, p) /\ p \in task.todo
          /\ UNCHANGED <<base, folder, cache, record, screen, queue>>
        BY <1>4 DEF InstallPart, Reached, Put, TakeWritten
    <2>2. x \in Outputs
        BY <1>1, OutputFacts
    <2> HIDE DEF x
    <2>3. out' \in [Parts -> Outputs]
        BY <1>2, <2>1, <2>2, PutFacts
    <2>4. TaskType'
        BY <1>1, <1>2, <2>1, TaskFacts DEF TaskType
    <2> QED BY <2>1, <2>3, <2>4, KeepStep DEF DiskType
<1>5. ASSUME NEW p \in Parts, InstallSkip(p)
      PROVE  TypeInv'
    <2>1. /\ task' = TakeTodo(task, p) /\ p \in task.todo /\ UNCHANGED <<disk, screen, queue>>
        BY <1>5 DEF InstallSkip, Reached, TakeTodo
    <2>2. TaskType'
        BY <1>1, <1>2, <2>1, TaskFacts DEF TaskType
    <2> QED BY <2>1, <2>2, KeepStep, DiskSame
<1>6. ASSUME Finish(Unbusy, <<>>), out' \in [Parts -> Outputs],
             UNCHANGED <<base, folder, cache, record>>
      PROVE  TypeInv'
    <2>1. JobsInv' /\ task' = Idle
        BY <1>1, <1>6, UnbusyEffect
    <2> QED BY <1>6, <2>1, EndedTask DEF DiskType
<1>7. CASE InstallFail
    <2>1. out' \in [Parts -> Outputs]
        BY <1>2, <1>7, RollbackFacts DEF InstallFail
    <2> QED BY <1>6, <1>7, <2>1 DEF InstallFail
<1>8. ASSUME NEW p \in Parts, InstallWriteFail(p)
      PROVE  TypeInv'
    BY <1>6, <1>8, WriteFailFacts DEF InstallWriteFail
<1>9. CASE InstallDone
    <2>1. /\ record' \in {Recorded, record, NoRecord} /\ task.written # {}
          /\ Finish([busy |-> FALSE, applied |-> TRUE], <<>>)
          /\ UNCHANGED <<base, folder, cache, out>>
        BY <1>9 DEF InstallDone
    <2>2. JobsInv' /\ task' = Idle
        BY <1>1, <2>1, AppliedEffect
    <2>3. DiskType'
        BY <1>1, <1>2, <2>1, ThemesAssumption DEF DiskType, Recorded, NoRecord, TaskRecord
    <2> QED BY <2>2, <2>3, EndedTask
<1> QED BY <1>3, <1>4, <1>5, <1>7, <1>8, <1>9 DEF InstallStep

LEMMA RemoveTypes ==
    ASSUME TypeInv, RemoveOutputs \/ RemoveDone
    PROVE  TypeInv'
<1> USE DEF TypeInv
<1>1. queue # <<>> /\ job.kind = "remove"
    BY RunningJob DEF RemoveOutputs, RemoveDone
<1>2. task \in TaskRecord /\ out \in [Parts -> Outputs]
    BY DEF DiskType, TaskType
<1>3. CASE RemoveOutputs
    <2>1. /\ task' = Started({}) /\ UNCHANGED <<base, folder, cache, record, screen, queue>>
          /\ \E gone : out' = [p \in Parts |-> IF p \in gone THEN NoOutput ELSE out[p]]
        BY <1>3 DEF RemoveOutputs, Begin, Started
    <2>2. out' \in [Parts -> Outputs]
        BY <1>2, <2>1, OutputFacts
    <2>3. TaskType'
        BY <1>1, <1>2, <2>1, StartedFacts DEF TaskType
    <2> QED BY <2>1, <2>2, <2>3, KeepStep DEF DiskType
<1>4. CASE RemoveDone
    <2>1. JobsInv' /\ task' = Idle
        BY <1>1, <1>4, AppliedEffect DEF RemoveDone
    <2>2. DiskType'
        BY <1>4 DEF RemoveDone, clear_active_theme, NoRecord, DiskType
    <2> QED BY <2>1, <2>2, EndedTask
<1> QED BY <1>3, <1>4

\* What a restart leaves of the outputs.
LEMMA RestartFacts ==
    ASSUME TypeInv, Restart
    PROVE  /\ out' \in [Parts -> Outputs]
           /\ \A q \in Parts : out'[q] \in {out[q], TornOutput}
           /\ JobsInv' /\ TaskType' /\ screen' = NoScreen /\ queue' = <<>> /\ task' = Idle
           /\ UNCHANGED <<base, folder, cache, record>>
<1>1. /\ screen' = NoScreen /\ queue' = <<>> /\ task' = Idle
      /\ UNCHANGED <<base, folder, cache, record>>
      /\ out' = out \/ \E p \in task.todo : out' = Put(out, p, TornOutput)
    BY DEF Restart, Put
<1>2. out \in [Parts -> Outputs] /\ task.todo \subseteq Parts /\ TornOutput \in Outputs
    BY OutputFacts DEF TypeInv, DiskType, TaskType, TaskRecord
<1>3. ASSUME NEW p \in task.todo, out' = Put(out, p, TornOutput)
      PROVE  out' \in [Parts -> Outputs] /\ \A q \in Parts : out'[q] \in {out[q], TornOutput}
    <2> DEFINE o == Put(out, p, TornOutput)
    <2>1. p \in Parts
        BY <1>2
    <2>2. o \in [Parts -> Outputs] /\ o[p] = TornOutput /\ \A q \in Parts : q # p => o[q] = out[q]
        BY <1>2, <2>1, PutFacts
    <2>3. out' = o
        BY <1>3
    <2> HIDE DEF o
    <2> QED BY <2>2, <2>3
<1> QED BY <1>1, <1>2, <1>3, JobsGone, EndedTask

LEMMA RestartTypes == TypeInv /\ Restart => TypeInv'
BY RestartFacts DEF TypeInv, DiskType

LEMMA TypeSame == TypeInv /\ UNCHANGED vars => TypeInv'
BY JobsSame DEF TypeInv, DiskType, TaskType, vars, disk

LEMMA TypeStep == TypeInv /\ [Next]_vars => TypeInv'
BY UserTypes, DownloadTypes, CheckTypes, InstallTypes, RemoveTypes, RestartTypes, TypeSame
   DEF Next, Worker, InstallStep

\* Every variable keeps its range: there is a running job while a task is on,
\* and a record names a theme exactly when it names outputs, whatever fails.
THEOREM ThemesTyped == Spec => []TypeOK
<1>1. Spec => []TypeInv
    BY TypeInit, TypeStep, PTL DEF Spec
<1> QED BY <1>1, TypeInvTypes, PTL

-------------------------------------------------------------------------------
(* The button tells the truth *)

\* A screen that has got its first answer shows whether its theme is the
\* recorded one, busy or not.
Shown == screen.resolved => (screen.applied <=> record.theme = screen.theme)

\* Every step that leaves the record and what the screen shows of it.
LEMMA ShownKept ==
    ASSUME Shown, record' = record, SameShown(screen') \/ ~screen'.resolved
    PROVE  Shown'
BY DEF Shown, SameShown, SameButtons

\* Every ending that tells the screen no more than that it is free.
LEMMA UnbusyKeeps ==
    ASSUME TypeInv, queue # <<>>, Tapped(job), Finish(Unbusy, <<>>)
    PROVE  SameShown(screen') /\ Moved /\ SameScreen(screen') /\ task' = Idle
BY UnbusyEffect DEF TypeInv, SameScreen

LEMMA SameIsShown == screen' = screen => SameScreen(screen') /\ SameShown(screen')
BY DEF SameScreen, SameShown, SameButtons, SameCheck

LEMMA ShownDownload ==
    ASSUME TypeInv, Shown,
           DownloadBegin \/ DownloadFail \/ DownloadDone \/ \E p \in Parts : DownloadPart(p)
    PROVE  Shown'
<1>1. queue # <<>> /\ job.kind = "download" /\ Tapped(job)
    BY RunningJob DEF DownloadBegin, DownloadFail, DownloadDone, DownloadPart, Tapped
<1>2. record' = record
    BY DEF DownloadBegin, DownloadFail, DownloadDone, DownloadPart, disk
<1>3. CASE DownloadBegin \/ \E p \in Parts : DownloadPart(p)
    <2>1. screen' = screen
        BY <1>3 DEF DownloadBegin, DownloadPart
    <2> QED BY <1>2, <2>1, SameIsShown, ShownKept
<1>4. CASE DownloadFail
    BY <1>1, <1>2, <1>4, UnbusyKeeps, ShownKept DEF DownloadFail
<1>5. CASE DownloadDone
    <2>1. SameShown(screen')
        BY <1>1, <1>5, DownloadedEffect DEF DownloadDone, TypeInv
    <2> QED BY <1>2, <2>1, ShownKept
<1> QED BY <1>3, <1>4, <1>5

LEMMA ShownCheck ==
    ASSUME TypeInv, Shown, CheckTheme \/ Resolve \/ ExtractAll
    PROVE  Shown'
<1>1. CASE CheckTheme
    BY <1>1, CheckEffect, ShownKept
<1>2. CASE Resolve
    <2>1. folder[job.theme].there \in BOOLEAN
        BY <1>2, RunningJob DEF Resolve, TypeInv, DiskType, Folders
    <2>2. /\ record' = record /\ screen'.theme = screen.theme
          /\ screen'.resolved => (screen'.applied <=> record.theme = screen.theme)
        BY <1>2, <2>1, ResolveEffect DEF disk, TypeInv
    <2> QED BY <2>2 DEF Shown
<1>3. CASE ExtractAll
    <2>1. queue # <<>> /\ Tapped(job) /\ Finish(Unbusy, <<>>) /\ record' = record
        BY <1>3, RunningJob DEF ExtractAll, Tapped
    <2> QED BY <2>1, UnbusyKeeps, ShownKept
<1> QED BY <1>1, <1>2, <1>3

LEMMA ShownInstall ==
    ASSUME TypeInv, Shown, InstallStep, "record" \notin Troubles
    PROVE  Shown'
<1>1. queue # <<>> /\ job.kind = "install" /\ Tapped(job) /\ job.theme \in Themes
    BY RunningJob
    DEF InstallStep, InstallBegin, InstallFail, InstallDone, InstallPart, InstallSkip,
        InstallWriteFail, Reached, Tapped
<1>2. CASE InstallBegin \/ \E p \in Parts : InstallPart(p) \/ InstallSkip(p)
    <2>1. screen' = screen /\ record' = record
        BY <1>2 DEF InstallBegin, InstallPart, InstallSkip, disk
    <2> QED BY <2>1, SameIsShown, ShownKept
<1>3. CASE InstallFail \/ \E p \in Parts : InstallWriteFail(p)
    <2>1. Finish(Unbusy, <<>>) /\ record' = record
        BY <1>3 DEF InstallFail, InstallWriteFail
    <2> QED BY <1>1, <2>1, UnbusyKeeps, ShownKept
<1>4. CASE InstallDone
    <2>1. record' = Recorded /\ Finish([busy |-> FALSE, applied |-> TRUE], <<>>)
        BY <1>4 DEF InstallDone
    <2>2. /\ SameButtons(screen')
          /\ screen.resolved => screen'.applied = TRUE /\ job.theme = screen.theme
        BY <1>1, <2>1, AppliedEffect DEF TypeInv
    <2> QED BY <2>1, <2>2 DEF Shown, Recorded, SameButtons
<1> QED BY <1>2, <1>3, <1>4 DEF InstallStep

LEMMA ShownRemove ==
    ASSUME TypeInv, Shown, RemoveOutputs \/ RemoveDone
    PROVE  Shown'
<1>1. queue # <<>> /\ job.kind = "remove" /\ job.theme \in Themes
    BY RunningJob DEF RemoveOutputs, RemoveDone
<1>2. CASE RemoveOutputs
    <2>1. screen' = screen /\ record' = record
        BY <1>2 DEF RemoveOutputs
    <2> QED BY <2>1, SameIsShown, ShownKept
<1>3. CASE RemoveDone
    <2>1. record'.theme = None /\ Finish([busy |-> FALSE, applied |-> FALSE], <<>>)
        BY <1>3 DEF RemoveDone, clear_active_theme, NoRecord
    <2>2. /\ SameButtons(screen')
          /\ screen.resolved => screen'.applied = FALSE /\ job.theme = screen.theme
        BY <1>1, <2>1, AppliedEffect DEF TypeInv
    <2> QED BY <1>1, <2>1, <2>2, ThemesAssumption DEF Shown, SameButtons
<1> QED BY <1>2, <1>3

LEMMA ShownStep ==
    ASSUME TypeInv, Shown, [Next]_vars, "record" \notin Troubles
    PROVE  Shown'
<1>1. CASE User
    <2>1. UserScreen /\ record' = record
        BY <1>1, UserStep DEF disk
    <2> QED BY <2>1, ShownKept DEF UserScreen, SameScreen
<1>2. CASE Restart
    BY <1>2, RestartFacts, NoScreenFacts DEF Shown
<1>3. CASE UNCHANGED vars
    BY <1>3, SameIsShown, ShownKept DEF vars, disk
<1> QED BY <1>1, <1>2, <1>3, ShownDownload, ShownCheck, ShownInstall, ShownRemove
        DEF Next, Worker, InstallStep

\* While the record can be written, a screen that is not busy says Remove
\* exactly when its theme is the recorded one, whatever screens were left
\* while their jobs ran.
THEOREM ButtonIsTrue ==
    ASSUME "record" \notin Troubles
    PROVE  Spec => []AppliedShown
<1>1. Init => Shown
    BY NoScreenFacts DEF Init, Shown
<1>2. TypeInv /\ Shown /\ [Next]_vars => Shown'
    BY ShownStep
<1>3. Shown => AppliedShown
    BY DEF Shown, AppliedShown
<1> QED BY TypeInit, TypeStep, <1>1, <1>2, <1>3, PTL DEF Spec

-------------------------------------------------------------------------------
(* Installs are done or undone, and the record is of what they wrote *)

Installs == Running("install") /\ task.on

\* A running install has written its theme's outputs and touched no other.
Written ==
    Installs => \A p \in Parts :
        IF p \in task.written THEN out[p].theme = job.theme ELSE out[p] = task.before[p]

\* A recorded target holds the recorded theme's output or nothing, or what
\* a running install has put there.
Named ==
    \A p \in record.targets :
        \/ out[p].theme \in {record.theme, None}
        \/ Installs /\ p \in task.written

Whole == Written /\ Named

\* A step that leaves outputs, record and the running task as they are.
LEMMA WholeKept ==
    ASSUME Whole, UNCHANGED <<out, record, task>>, SameJob, task.on => queue # <<>>
    PROVE  Whole'
<1>1. Installs' <=> Installs
    BY DEF Installs, Running, SameJob, Like
<1>2. Installs => job'.theme = job.theme
    BY DEF Installs, Running, SameJob, Like
<1>3. Written'
    BY <1>1, <1>2 DEF Whole, Written
<1>4. Named'
    BY <1>1 DEF Whole, Named
<1> QED BY <1>3, <1>4 DEF Whole

\* No install runs before or after a step that puts nothing but holes into
\* the outputs.
LEMMA WholeIdle ==
    ASSUME Named, ~Installs, ~Installs', record' = record, record.targets \subseteq Parts,
           \A p \in Parts : out'[p] = out[p] \/ out'[p].theme = None
    PROVE  Whole'
BY DEF Whole, Written, Named

LEMMA OffIsIdle == task' = Idle => ~Installs'
BY IdleFacts DEF Installs

LEMMA WholeInstall ==
    ASSUME TypeInv, Whole, InstallStep, "record" \notin Troubles
    PROVE  Whole'
<1>1. /\ job.theme \in Themes /\ queue # <<>> /\ job.kind = "install" /\ Tapped(job)
      /\ PartsOf[job.theme] \in SUBSET Parts /\ job.mode \in {"full", "background"}
    BY RunningJob
    DEF InstallStep, InstallBegin, InstallFail, InstallDone, InstallPart, InstallSkip,
        InstallWriteFail, Reached, Tapped, JobTyped
<1>2. /\ task \in TaskRecord /\ out \in [Parts -> Outputs] /\ record.targets \subseteq Parts
      /\ task.written \subseteq Parts /\ task.before \in [Parts -> Outputs]
      /\ ~task.on => task.todo = {} /\ task.written = {}
    BY DEF TypeInv, DiskType, TaskType, TaskRecord
<1>3. CASE InstallBegin
    <2>1. task' = Started(PartsOf[job.theme]) /\ UNCHANGED <<out, record, queue>> /\ ~task.on
        BY <1>3 DEF InstallBegin, Begin, Started, disk
    <2>2. task'.before = out /\ task'.written = {}
        BY <1>1, <1>2, <2>1, StartedFacts
    <2> QED BY <2>1, <2>2 DEF Whole, Written, Named, Installs
<1>4. ASSUME NEW p \in Parts, InstallPart(p)
      PROVE  Whole'
    <2> DEFINE x == [theme |-> job.theme, mode |-> job.mode]
    <2>1. /\ out' = Put(out, p, x) /\ task' = TakeWritten(task, p) /\ p \in task.todo
          /\ UNCHANGED <<record, queue>>
        BY <1>4 DEF InstallPart, Reached, Put, TakeWritten
    <2>2. x \in Outputs /\ x.theme = job.theme
        BY <1>1, OutputFacts
    <2> HIDE DEF x
    <2>3. out'[p] = x /\ \A q \in Parts : q # p => out'[q] = out[q]
        BY <1>2, <2>1, <2>2, PutFacts
    <2>4. /\ task'.on = task.on /\ task'.before = task.before
          /\ task'.written = task.written \cup {p}
        BY <1>2, <2>1, TaskFacts
    <2>5. Installs /\ Installs' /\ job' = job
        BY <1>1, <1>2, <2>1, <2>4 DEF Installs, Running, job
    <2>6. Written'
        BY <2>2, <2>3, <2>4, <2>5 DEF Whole, Written
    <2>7. Named'
        BY <1>2, <2>1, <2>3, <2>4, <2>5 DEF Whole, Named
    <2> QED BY <2>6, <2>7 DEF Whole
<1>5. ASSUME NEW p \in Parts, InstallSkip(p)
      PROVE  Whole'
    <2>1. task' = TakeTodo(task, p) /\ UNCHANGED <<out, record, queue>>
        BY <1>5 DEF InstallSkip, TakeTodo, disk
    <2>2. task'.on = task.on /\ task'.before = task.before /\ task'.written = task.written
        BY <1>2, <2>1, TaskFacts
    <2>3. (Installs' <=> Installs) /\ job' = job
        BY <2>1, <2>2 DEF Installs, Running, job
    <2> QED BY <2>1, <2>2, <2>3 DEF Whole, Written, Named
<1>6. ASSUME Finish(Unbusy, <<>>), record' = record,
             \A q \in Parts : \/ q \in task.written /\ out'[q] = NoOutput
                              \/ q \notin task.written /\ out'[q] \in {out[q], TornOutput}
      PROVE  Whole'
    <2>1. ~Installs'
        BY <1>1, <1>6, UnbusyKeeps, OffIsIdle
    <2>2. \A q \in record.targets : out'[q].theme \in {record.theme, None}
        BY <1>2, <1>6, OutputFacts DEF Whole, Named
    <2> QED BY <1>6, <2>1, <2>2 DEF Whole, Written, Named
<1>7. CASE InstallFail
    <2>1. \A q \in Parts : \/ q \in task.written /\ out'[q] = NoOutput
                           \/ q \notin task.written /\ out'[q] \in {out[q], TornOutput}
        BY <1>2, <1>7, RollbackFacts DEF InstallFail
    <2> QED BY <1>6, <1>7, <2>1 DEF InstallFail
<1>8. ASSUME NEW p \in Parts, InstallWriteFail(p)
      PROVE  Whole'
    BY <1>6, <1>8, WriteFailFacts DEF InstallWriteFail
<1>9. CASE InstallDone
    <2>1. /\ record' = Recorded /\ Finish([busy |-> FALSE, applied |-> TRUE], <<>>)
          /\ out' = out /\ task.on
        BY <1>9 DEF InstallDone
    <2>2. ~Installs'
        BY <1>1, <2>1, AppliedEffect, OffIsIdle DEF TypeInv
    <2>3. \A p \in task.written : out[p].theme = job.theme
        BY <1>1, <1>2, <2>1 DEF Whole, Written, Installs, Running
    <2> QED BY <2>1, <2>2, <2>3 DEF Whole, Written, Named, Recorded
<1> QED BY <1>3, <1>4, <1>5, <1>7, <1>8, <1>9 DEF InstallStep

\* A job of another kind runs.
LEMMA WholeOther ==
    ASSUME TypeInv, Whole,
           \/ DownloadBegin \/ DownloadFail \/ DownloadDone \/ \E p \in Parts : DownloadPart(p)
           \/ CheckTheme \/ Resolve \/ ExtractAll \/ RemoveOutputs \/ RemoveDone
    PROVE  Whole'
<1>1. queue # <<>> /\ job.kind \in {"download", "check", "resolve", "extract", "remove"}
    BY RunningJob
    DEF DownloadBegin, DownloadFail, DownloadDone, DownloadPart, CheckTheme, Resolve, ExtractAll,
        RemoveOutputs, RemoveDone
<1>2. ~Installs /\ record.targets \subseteq Parts /\ out \in [Parts -> Outputs]
    BY <1>1 DEF Installs, Running, TypeInv, DiskType
<1>3. CASE DownloadBegin \/ \E p \in Parts : DownloadPart(p)
    <2>1. UNCHANGED <<out, record, queue>>
        BY <1>3 DEF DownloadBegin, DownloadPart
    <2>2. ~Installs'
        BY <1>1, <2>1 DEF Installs, Running, job
    <2> QED BY <1>2, <2>1, <2>2, WholeIdle DEF Whole
<1>4. CASE DownloadFail \/ ExtractAll
    <2>1. UNCHANGED <<out, record>> /\ Finish(Unbusy, <<>>) /\ Tapped(job)
        BY <1>4 DEF DownloadFail, ExtractAll, Running, Tapped
    <2>2. ~Installs'
        BY <1>1, <2>1, UnbusyKeeps, OffIsIdle
    <2> QED BY <1>2, <2>1, <2>2, WholeIdle DEF Whole
<1>5. CASE DownloadDone
    <2>1. UNCHANGED <<out, record>> /\ task' = Idle
        BY <1>1, <1>5, DownloadedEffect DEF DownloadDone, TypeInv, disk, Running
    <2> QED BY <1>2, <2>1, OffIsIdle, WholeIdle DEF Whole
<1>6. CASE CheckTheme
    BY <1>2, <1>6, CheckEffect, OffIsIdle, WholeIdle DEF Whole
<1>7. CASE Resolve
    <2>1. folder[job.theme].there \in BOOLEAN
        BY <1>7, RunningJob DEF Resolve, TypeInv, DiskType, Folders
    <2>2. UNCHANGED <<out, record>> /\ task' = Idle
        BY <1>7, <2>1, ResolveEffect DEF TypeInv, disk
    <2> QED BY <1>2, <2>2, OffIsIdle, WholeIdle DEF Whole
<1>8. CASE RemoveOutputs
    <2>1. /\ UNCHANGED <<record, queue>>
          /\ \E gone : out' = [p \in Parts |-> IF p \in gone THEN NoOutput ELSE out[p]]
        BY <1>8 DEF RemoveOutputs
    <2>2. ~Installs'
        BY <1>1, <2>1 DEF Installs, Running, job
    <2>3. \A p \in Parts : out'[p] = out[p] \/ out'[p].theme = None
        BY <2>1, OutputFacts
    <2> QED BY <1>2, <2>1, <2>2, <2>3, WholeIdle DEF Whole
<1>9. CASE RemoveDone
    <2>1. record' = NoRecord /\ Finish([busy |-> FALSE, applied |-> FALSE], <<>>)
          /\ job.kind = "remove"
        BY <1>9 DEF RemoveDone, clear_active_theme, Running
    <2>2. ~Installs'
        BY <1>1, <2>1, AppliedEffect, OffIsIdle DEF TypeInv
    <2> QED BY <2>1, <2>2 DEF Whole, Written, Named, NoRecord
<1> QED BY <1>3, <1>4, <1>5, <1>6, <1>7, <1>8, <1>9

Careful == {"record", "kill"} \cap Troubles = {}

LEMMA WholeStep ==
    ASSUME TypeInv, Whole, [Next]_vars, Careful
    PROVE  Whole'
<1>1. task.on => queue # <<>>
    BY DEF TypeInv, TaskType
<1>2. CASE User
    <2>1. SameJob /\ UNCHANGED <<out, record, task>>
        BY <1>2, UserStep DEF disk
    <2> QED BY <1>1, <2>1, WholeKept
<1>3. CASE Restart
    <2>1. ~Installs
        BY <1>3 DEF Restart, Installs, Running, Careful
    <2>2. /\ ~Installs' /\ record' = record /\ record.targets \subseteq Parts
          /\ \A p \in Parts : out'[p] = out[p] \/ out'[p].theme = None
        BY <1>3, RestartFacts, OffIsIdle, OutputFacts DEF TypeInv, DiskType
    <2> QED BY <2>1, <2>2, WholeIdle DEF Whole
<1>4. CASE UNCHANGED vars
    <2>1. SameJob /\ UNCHANGED <<out, record, task>>
        BY <1>4, LikeSelf DEF vars, disk, SameJob, job
    <2> QED BY <1>1, <2>1, WholeKept
<1>5. CASE InstallStep
    BY <1>5, WholeInstall DEF Careful
<1> QED BY <1>2, <1>3, <1>4, <1>5, WholeOther DEF Next, Worker, InstallStep

LEMMA WholeInit == Init => Whole
BY IdleFacts, OutputFacts DEF Init, Whole, Written, Named, Installs, NoRecord

LEMMA AlwaysWhole ==
    ASSUME Careful
    PROVE  Spec => [](TypeInv /\ Whole)
<1>1. TypeInv /\ Whole /\ [Next]_vars => Whole'
    BY WholeStep
<1> QED BY TypeInit, TypeStep, WholeInit, <1>1, PTL DEF Spec

\* While the record can be written and the program is not ended in the
\* middle of an install or removal, no sequence of installs, failures,
\* cancellations and removals makes the record name another theme's output.
THEOREM RecordIsOwn ==
    ASSUME Careful
    PROVE  Spec => []RecordNotForeign
<1>1. TypeInv /\ Whole => RecordNotForeign
    BY DEF Whole, Named, Installs, RecordNotForeign
<1> QED BY AlwaysWhole, <1>1, PTL

\* Under the same assumptions an install that ends has recorded what it
\* wrote or has left none of it, save the file whose write failed.
THEOREM InstallOrNothing ==
    ASSUME Careful
    PROVE  Spec => AllOrNothing
<1>1. TypeInv /\ Whole /\ [Next]_vars =>
          (Running("install") /\ task.on /\ ~task'.on =>
              \/ record' = Recorded
              \/ \A p \in Parts : out'[p] \in {task.before[p], NoOutput, TornOutput})
    <2> SUFFICES ASSUME TypeInv, Whole, [Next]_vars, Installs, ~task'.on
                 PROVE  \/ record' = Recorded
                        \/ \A p \in Parts : out'[p] \in {task.before[p], NoOutput, TornOutput}
        BY DEF Installs
    <2>1. /\ queue # <<>> /\ job.kind = "install" /\ task \in TaskRecord
          /\ out \in [Parts -> Outputs]
        BY DEF Installs, Running, TypeInv, TaskType, DiskType
    <2>2. InstallStep
        <3>1. ~User /\ ~UNCHANGED vars
            BY UserStep DEF Installs, vars
        <3>2. ~Restart
            BY <2>1 DEF Restart, Careful, Installs
        <3>3. Worker
            BY <3>1, <3>2 DEF Next
        <3> QED BY <2>1, <3>3
                DEF Worker, InstallStep, Resolve, DownloadBegin, DownloadFail, DownloadDone,
                    CheckTheme, DownloadPart, RemoveOutputs, RemoveDone, ExtractAll, Running
    <2>3. ASSUME \A q \in Parts : \/ q \in task.written /\ out'[q] = NoOutput
                                  \/ q \notin task.written /\ out'[q] \in {out[q], TornOutput}
          PROVE  \A p \in Parts : out'[p] \in {task.before[p], NoOutput, TornOutput}
        BY <2>3 DEF Whole, Written
    <2>4. CASE InstallFail
        BY <2>1, <2>3, <2>4, RollbackFacts DEF InstallFail
    <2>5. ASSUME NEW p \in Parts, InstallWriteFail(p)
          PROVE  \A q \in Parts : out'[q] \in {task.before[q], NoOutput, TornOutput}
        BY <2>3, <2>5, WriteFailFacts
    <2>6. CASE InstallDone
        BY <2>6 DEF InstallDone, Careful
    <2>7. ~InstallBegin
        BY DEF InstallBegin, Installs
    <2>8. ASSUME NEW p \in Parts, InstallPart(p) \/ InstallSkip(p)
          PROVE  FALSE
        <3>1. task' = TakeWritten(task, p) \/ task' = TakeTodo(task, p)
            BY <2>8 DEF InstallPart, InstallSkip, TakeWritten, TakeTodo
        <3> QED BY <2>1, <3>1, TaskFacts DEF Installs
    <2> QED BY <2>2, <2>4, <2>5, <2>6, <2>7, <2>8 DEF InstallStep
<1> QED BY AlwaysWhole, <1>1, PTL DEF Spec, AllOrNothing

===============================================================================
