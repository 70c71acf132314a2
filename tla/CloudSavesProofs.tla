--------------------------- MODULE CloudSavesProofs ---------------------------
(***************************************************************************)
(* Theorems about CloudSaves: its types, that a screen never starts a      *)
(* cloud operation over another, that the server keeps its promises under  *)
(* all the devices do, and that no save is lost without a question while   *)
(* devices keep their accounts, or there is one account only, and the      *)
(* server's puts of an account do not overlap.                             *)
(***************************************************************************)
EXTENDS CloudSaves, SavesApiProofs

-------------------------------------------------------------------------------
(* The job of a screen *)

\* Only the job of device d may differ.
JobsStay(d) == \A e \in Devices \ {d} : job'[e] = job[e]

JobTyped == job \in [Devices -> JobType]

LEMMA NoJobType == NoJob \in JobType /\ NoJob.h = Absent /\ NoJob.stage = "none"
BY SavesApiAssumption DEF NoJob, JobType

LEMMA JobSet ==
    ASSUME JobTyped, NEW d \in Devices, NEW j \in JobType, job' = [job EXCEPT ![d] = j]
    PROVE  JobTyped' /\ JobsStay(d) /\ job'[d] = j
BY DEF JobTyped, JobsStay

LEMMA DispatchEffect ==
    ASSUME JobTyped, NEW d \in Devices, session[d] \in Users \cup {Absent},
           NEW kind \in {"status", "push", "pull"}, NEW rev \in 0 .. MaxRev,
           NEW agreed \in BOOLEAN, Dispatch(d, kind, rev, agreed)
    PROVE  /\ JobTyped' /\ JobsStay(d)
           /\ job'[d].kind = kind /\ job'[d].stage = "queued" /\ job'[d].token = session[d]
           /\ job'[d].rev = rev /\ job'[d].agreed = agreed /\ job'[d].h = Absent
<1> DEFINE j == [NoJob EXCEPT !.kind = kind, !.stage = "queued", !.token = session[d],
                              !.rev = rev, !.agreed = agreed]
<1>1. job' = [job EXCEPT ![d] = j]
    BY DEF Dispatch
<1>2. /\ j \in JobType
      /\ j.kind = kind /\ j.stage = "queued" /\ j.token = session[d]
      /\ j.rev = rev /\ j.agreed = agreed /\ j.h = Absent
    BY NoJobType DEF JobType
<1> HIDE DEF j
<1> QED BY <1>1, <1>2, JobSet

LEMMA ReleaseEffect ==
    ASSUME JobTyped, NEW d \in Devices, Release(d)
    PROVE  JobTyped' /\ JobsStay(d) /\ job'[d].stage = "none" /\ job'[d].h = Absent
BY NoJobType, JobSet DEF Release

LEMMA FinishEffect ==
    ASSUME JobTyped, NEW d \in Devices, NEW status \in {"ok", "missing", "conflict", "error", "none"},
           NEW got \in 0 .. MaxRev, Finish(d, status, got)
    PROVE  /\ JobTyped' /\ JobsStay(d)
           /\ job'[d].kind = job[d].kind /\ job'[d].stage = "done" /\ job'[d].h = Absent
           /\ job'[d].status = status /\ job'[d].got = got
<1> DEFINE j == [NoJob EXCEPT !.kind = job[d].kind, !.stage = "done",
                              !.status = status, !.got = got]
<1>1. job' = [job EXCEPT ![d] = j]
    BY DEF Finish
<1>2. /\ j \in JobType
      /\ j.kind = job[d].kind /\ j.stage = "done" /\ j.h = Absent
      /\ j.status = status /\ j.got = got
    BY NoJobType DEF JobType, JobTyped
<1> HIDE DEF j
<1> QED BY <1>1, <1>2, JobSet

\* The job of a request that is at handler h.
LEMMA SentEffect ==
    ASSUME JobTyped, NEW d \in Devices, NEW h \in Handlers,
           job' = [job EXCEPT ![d] = [NoJob EXCEPT !.kind = job[d].kind,
                                                   !.stage = "sent", !.h = h]]
    PROVE  /\ JobTyped' /\ JobsStay(d)
           /\ job'[d].kind = job[d].kind /\ job'[d].stage = "sent" /\ job'[d].h = h
<1> DEFINE j == [NoJob EXCEPT !.kind = job[d].kind, !.stage = "sent", !.h = h]
<1>1. job' = [job EXCEPT ![d] = j]
    OBVIOUS
<1>2. /\ j \in JobType
      /\ j.kind = job[d].kind /\ j.stage = "sent" /\ j.h = h
    BY NoJobType DEF JobType, JobTyped
<1> HIDE DEF j
<1> QED BY <1>1, <1>2, JobSet

-------------------------------------------------------------------------------
(* Types *)

\* What the types alone do not say of the job of device d: what is on its
\* way has a kind, a request that was sent has a handler that serves it, and
\* the screen waits, without a dialog, for as long as there is a job.
JobOK(d) ==
    /\ job[d].stage \in {"queued", "sent"} => job[d].kind \in {"status", "push", "pull"}
    /\ job[d].stage = "sent" =>
           /\ job[d].h \in Handlers
           /\ handler[job[d].h].pc # "idle"
           /\ handler[job[d].h].op = (IF job[d].kind = "push" THEN "put" ELSE job[d].kind)
           /\ origin[job[d].h].dev = d
    /\ job[d].stage # "sent" => job[d].h = Absent
    /\ job[d].stage = "none" \/ (busy[d] = TRUE /\ dialog[d] = NoDialog)

\* A handler past the start does what it was asked for, and a download that
\* is answered has something to send.
ServerOK(h) ==
    /\ Putting(h) => handler[h].op = "put"
    /\ handler[h].pc = "found" => handler[h].op = "pull"
    /\ handler[h].pc \notin {"removing", "unlinked"}
    /\ handler[h].pc = "replied" /\ handler[h].op = "pull" /\ handler[h].status = "ok"
           => handler[h].data # Absent

ScreenTypes ==
    /\ synced \in [Devices -> 0 .. MaxRev]
    /\ busy \in [Devices -> BOOLEAN]
    /\ retries \in [Devices -> 0 .. kMaxConflictRetries]
    /\ dialog \in [Devices -> NoDialog .. MaxRev]

AccountTypes ==
    /\ session \in [Devices -> Users \cup {Absent}]
    /\ logouts \in 0 .. MaxLogouts

HistoryTypes ==
    /\ pulled \in [Devices -> SUBSET Contents]
    /\ packer \in [Contents -> Devices \cup {Absent}]
    /\ origin \in [Handlers -> [dev : Devices \cup {Absent}, agreed : BOOLEAN]]

CloudInv ==
    /\ TypeInv /\ JobTyped /\ ScreenTypes /\ AccountTypes /\ HistoryTypes
    /\ \A d \in Devices : JobOK(d)
    /\ \A h \in Handlers : ServerOK(h)

LEMMA CloudTyped == CloudInv => TypeOK
BY DEF CloudInv, TypeInv, JobTyped, ScreenTypes, AccountTypes, HistoryTypes, TypeOK

\* The step dispatches nothing over a job that is under way.
Dispatches(d) ==
    job'[d].stage = "queued" /\ job[d] # job'[d] => job[d].stage \in {"none", "done"}

\* Only the screen of device d may differ.
ScreensStay(d) ==
    \A e \in Devices \ {d} : job'[e] = job[e] /\ busy'[e] = busy[e] /\ dialog'[e] = dialog[e]

LEMMA ScreensKept ==
    ASSUME CloudInv, NEW d \in Devices, UNCHANGED <<handler, origin>>, ScreensStay(d), JobOK(d)',
           Dispatches(d)
    PROVE  (\A e \in Devices : JobOK(e)') /\ \A e \in Devices : Dispatches(e)
BY DEF CloudInv, JobOK, ScreensStay, Dispatches

\* A step of the screen that touches no request.
LEMMA ScreenStep ==
    ASSUME CloudInv, NEW d \in Devices, UNCHANGED <<apiVars, Account, pulled, packer, origin>>,
           JobTyped', ScreenTypes', ScreensStay(d), JobOK(d)', Dispatches(d)
    PROVE  CloudInv' /\ \A e \in Devices : Dispatches(e)
<1>1. (\A e \in Devices : JobOK(e)') /\ \A e \in Devices : Dispatches(e)
    BY ScreensKept DEF apiVars
<1>2. TypeInv' /\ \A h \in Handlers : ServerOK(h)'
    BY DEF CloudInv, TypeInv, ApiTypeOK, HandlerInv, ServerOK, Putting, apiVars
<1>3. AccountTypes' /\ HistoryTypes'
    BY DEF CloudInv, AccountTypes, HistoryTypes, Account
<1> QED BY <1>1, <1>2, <1>3 DEF CloudInv

\* What the other screens show stays.
OthersWait(d) == \A e \in Devices \ {d} : busy'[e] = busy[e] /\ dialog'[e] = dialog[e]

LEMMA Dispatched ==
    ASSUME CloudInv, NEW d \in Devices, NEW kind \in {"status", "push", "pull"},
           NEW rev \in 0 .. MaxRev, NEW agreed \in BOOLEAN, Dispatch(d, kind, rev, agreed),
           OthersWait(d), busy'[d] = TRUE, dialog'[d] = NoDialog,
           job[d].stage \in {"none", "done"}
    PROVE  /\ JobTyped' /\ ScreensStay(d) /\ JobOK(d)' /\ Dispatches(d)
           /\ job'[d].kind = kind /\ job'[d].stage = "queued" /\ job'[d].token = session[d]
           /\ job'[d].rev = rev /\ job'[d].agreed = agreed
<1>1. JobTyped /\ session[d] \in Users \cup {Absent}
    BY DEF CloudInv, AccountTypes
<1>2. /\ JobTyped' /\ JobsStay(d)
      /\ job'[d].kind = kind /\ job'[d].stage = "queued" /\ job'[d].token = session[d]
      /\ job'[d].rev = rev /\ job'[d].agreed = agreed /\ job'[d].h = Absent
    BY <1>1, DispatchEffect
<1>3. ScreensStay(d) /\ JobOK(d)' /\ Dispatches(d)
    BY <1>2 DEF ScreensStay, JobsStay, OthersWait, JobOK, Dispatches
<1> QED BY <1>2, <1>3

LEMMA Released ==
    ASSUME CloudInv, NEW d \in Devices, Release(d), OthersWait(d)
    PROVE  /\ JobTyped' /\ ScreensStay(d) /\ JobOK(d)' /\ Dispatches(d)
           /\ job'[d].stage = "none"
<1>1. JobTyped
    BY DEF CloudInv
<1>2. JobTyped' /\ JobsStay(d) /\ job'[d].stage = "none" /\ job'[d].h = Absent
    BY <1>1, ReleaseEffect
<1>3. ScreensStay(d) /\ JobOK(d)' /\ Dispatches(d)
    BY <1>2 DEF ScreensStay, JobsStay, OthersWait, JobOK, Dispatches
<1> QED BY <1>2, <1>3

\* The taps and the buttons of the dialog.
LEMMA TapTypes ==
    ASSUME CloudInv, NEW d \in Devices, TapUpload(d) \/ TapDownload(d)
    PROVE  CloudInv' /\ \A e \in Devices : Dispatches(e)
<1>1. dialog[d] = NoDialog /\ ~busy[d] /\ job[d].stage = "none"
    BY DEF CloudInv, TapUpload, TapDownload, CanStart, NoModal, JobOK
<1>2. 0 \in 0 .. MaxRev /\ FALSE \in BOOLEAN
    BY SavesApiAssumption
<1>3. PICK kind \in {"status", "pull"} : Dispatch(d, kind, 0, FALSE)
    BY DEF TapUpload, TapDownload, StartDownload
<1>4. /\ busy' = [busy EXCEPT ![d] = TRUE] /\ dialog' = dialog
      /\ UNCHANGED OffScreen
      /\ retries' = [retries EXCEPT ![d] = 0] \/ retries' = retries
    BY DEF TapUpload, TapDownload, StartDownload, OffScreen
<1>5. ScreenTypes' /\ busy'[d] = TRUE /\ OthersWait(d)
    BY <1>4, CloudSavesAssumption DEF CloudInv, ScreenTypes, OffScreen, OthersWait
<1>6. JobTyped' /\ ScreensStay(d) /\ JobOK(d)' /\ Dispatches(d)
    BY <1>1, <1>2, <1>3, <1>4, <1>5, Dispatched
<1> QED BY <1>4, <1>5, <1>6, ScreenStep DEF OffScreen

LEMMA DialogTypes ==
    ASSUME CloudInv, NEW d \in Devices, SendMine(d) \/ KeepCloud(d) \/ DismissDialog(d)
    PROVE  CloudInv' /\ \A e \in Devices : Dispatches(e)
<1>1. dialog[d] # NoDialog /\ job[d].stage = "none" /\ job[d].h = Absent
    BY DEF CloudInv, SendMine, KeepCloud, DismissDialog, JobOK
<1>2. 0 \in 0 .. MaxRev /\ FALSE \in BOOLEAN /\ TRUE \in BOOLEAN /\ dialog[d] \in 0 .. MaxRev
    BY <1>1, SavesApiAssumption DEF CloudInv, ScreenTypes, NoDialog, NoRev
<1>3. /\ busy' = [busy EXCEPT ![d] = TRUE] \/ busy' = busy
      /\ dialog' = [dialog EXCEPT ![d] = NoDialog]
      /\ UNCHANGED OffScreen /\ retries' = retries
    BY DEF SendMine, KeepCloud, DismissDialog, StartDownload, OffScreen
<1>4. ScreenTypes' /\ dialog'[d] = NoDialog /\ OthersWait(d)
    <2>1. NoDialog \in NoDialog .. MaxRev
        BY SavesApiAssumption DEF NoDialog, NoRev
    <2>2. ScreenTypes /\ synced' = synced
        BY <1>3 DEF CloudInv, OffScreen
    <2>3. dialog' \in [Devices -> NoDialog .. MaxRev] /\ dialog'[d] = NoDialog
        BY <1>3, <2>1, <2>2 DEF ScreenTypes
    <2>4. busy' \in [Devices -> BOOLEAN] /\ retries' \in [Devices -> 0 .. kMaxConflictRetries]
        BY <1>3, <2>2 DEF ScreenTypes
    <2> QED BY <1>3, <2>2, <2>3, <2>4 DEF ScreenTypes, OthersWait
<1>5. JobTyped' /\ ScreensStay(d) /\ JobOK(d)' /\ Dispatches(d)
    <2>1. CASE job' = job
        BY <1>1, <1>4, <2>1 DEF CloudInv, JobTyped, ScreensStay, OthersWait, JobOK, Dispatches
    <2>2. CASE SendMine(d)
        <3>1. Dispatch(d, "push", dialog[d], TRUE) /\ busy'[d] = TRUE
            BY <2>2 DEF SendMine, CloudInv, ScreenTypes
        <3> QED BY <1>1, <1>2, <1>4, <3>1, Dispatched
    <2>3. CASE StartDownload(d)
        <3>1. Dispatch(d, "pull", 0, FALSE) /\ busy'[d] = TRUE
            BY <2>3 DEF StartDownload, CloudInv, ScreenTypes
        <3> QED BY <1>1, <1>2, <1>4, <3>1, Dispatched
    <2> QED BY <2>1, <2>2, <2>3 DEF KeepCloud, DismissDialog
<1> QED BY <1>3, <1>4, <1>5, ScreenStep DEF OffScreen

\* What is pushed is what was found, unless nothing was.
LEMMA PlanPush ==
    ASSUME NEW situation, NEW rev \in Nat
    PROVE  /\ plan_push(situation, rev).revision = (IF situation = "NoCloud" THEN 0 ELSE rev)
           /\ plan_push(situation, rev).isConflict = (situation = "CloudAhead")
BY DEF plan_push

\* The UI halves.
LEMMA StatusTypes ==
    ASSUME CloudInv, NEW d \in Devices, StatusDone(d)
    PROVE  CloudInv' /\ \A e \in Devices : Dispatches(e)
<1> DEFINE plan == plan_push(classify(job[d].got, synced[d]), job[d].got)
<1>1. /\ job[d].stage = "done" /\ busy[d] = TRUE /\ dialog[d] = NoDialog
      /\ job[d].got \in 0 .. MaxRev
    BY DEF CloudInv, StatusDone, Finished, JobOK, JobTyped, JobType
<1>2. 0 \in 0 .. MaxRev /\ FALSE \in BOOLEAN
    BY SavesApiAssumption
<1>3. plan.revision \in 0 .. MaxRev
    BY <1>1, <1>2, PlanPush
<1> HIDE DEF plan
<1>4. /\ UNCHANGED OffScreen /\ retries' = retries
      /\ \/ Release(d) /\ dialog' = dialog
         \/ Release(d) /\ dialog' = [dialog EXCEPT ![d] = plan.revision]
         \/ /\ busy' = [busy EXCEPT ![d] = TRUE] /\ Dispatch(d, "push", plan.revision, FALSE)
            /\ dialog' = dialog
    BY DEF StatusDone, plan
<1>5. ScreenTypes /\ synced' = synced
    BY <1>4 DEF CloudInv, OffScreen
<1>6. CASE Release(d)
    <2>1. \E b \in BOOLEAN : busy' = [busy EXCEPT ![d] = b]
        BY <1>6 DEF Release
    <2>2. dialog' \in [Devices -> NoDialog .. MaxRev] /\ busy' \in [Devices -> BOOLEAN]
        <3>1. plan.revision \in NoDialog .. MaxRev
            BY <1>3, SavesApiAssumption DEF NoDialog, NoRev
        <3> QED BY <1>4, <1>5, <2>1, <3>1 DEF ScreenTypes
    <2>3. OthersWait(d)
        BY <1>4, <1>5, <2>1 DEF OthersWait, ScreenTypes
    <2>4. JobTyped' /\ ScreensStay(d) /\ JobOK(d)' /\ Dispatches(d)
        BY <1>6, <2>3, Released
    <2>5. ScreenTypes'
        BY <1>4, <1>5, <2>2 DEF ScreenTypes
    <2> QED BY <1>4, <2>4, <2>5, ScreenStep DEF OffScreen
<1>7. CASE ~Release(d)
    <2>1. /\ busy' = [busy EXCEPT ![d] = TRUE] /\ Dispatch(d, "push", plan.revision, FALSE)
          /\ dialog' = dialog
        BY <1>4, <1>7
    <2>2. ScreenTypes' /\ busy'[d] = TRUE /\ OthersWait(d)
        BY <1>4, <1>5, <2>1 DEF ScreenTypes, OthersWait
    <2>3. JobTyped' /\ ScreensStay(d) /\ JobOK(d)' /\ Dispatches(d)
        BY <1>1, <1>2, <1>3, <2>1, <2>2, Dispatched
    <2> QED BY <1>4, <2>2, <2>3, ScreenStep DEF OffScreen
<1> QED BY <1>6, <1>7

LEMMA SyncedTypes ==
    ASSUME CloudInv, NEW d \in Devices, SaveSynced(d) \/ synced' = synced
    PROVE  synced' \in [Devices -> 0 .. MaxRev]
BY DEF CloudInv, ScreenTypes, SaveSynced, JobTyped, JobType

LEMMA PushTypes ==
    ASSUME CloudInv, NEW d \in Devices, PushDone(d)
    PROVE  CloudInv' /\ \A e \in Devices : Dispatches(e)
<1>1. /\ job[d].stage = "done" /\ busy[d] = TRUE /\ dialog[d] = NoDialog
    BY DEF CloudInv, PushDone, Finished, JobOK
<1>2. 0 \in 0 .. MaxRev /\ FALSE \in BOOLEAN
    BY SavesApiAssumption
<1>3. /\ UNCHANGED <<apiVars, Account, pulled, packer, origin>> /\ dialog' = dialog
      /\ SaveSynced(d) \/ synced' = synced
      /\ \/ Release(d)
         \/ Dispatch(d, "status", 0, FALSE) /\ busy' = busy
    BY DEF PushDone
<1>4. retries' \in [Devices -> 0 .. kMaxConflictRetries]
    <2> DEFINE n == IF job[d].status = "conflict" /\ retries[d] < kMaxConflictRetries
                    THEN retries[d] + 1
                    ELSE IF job[d].status = "conflict" \/ job[d].status = "ok" THEN 0
                    ELSE retries[d]
    <2>1. retries \in [Devices -> 0 .. kMaxConflictRetries]
        BY DEF CloudInv, ScreenTypes
    <2>2. n \in 0 .. kMaxConflictRetries
        BY <2>1, CloudSavesAssumption
    <2>3. retries' = [retries EXCEPT ![d] = n]
        BY DEF PushDone
    <2> HIDE DEF n
    <2> QED BY <2>1, <2>2, <2>3
<1>5. synced' \in [Devices -> 0 .. MaxRev] /\ ScreenTypes
    BY <1>3, SyncedTypes DEF CloudInv
<1>6. CASE Release(d)
    <2>1. busy' = [busy EXCEPT ![d] = FALSE]
        BY <1>6 DEF Release
    <2>2. ScreenTypes' /\ OthersWait(d)
        BY <1>3, <1>4, <1>5, <2>1 DEF ScreenTypes, OthersWait
    <2>3. JobTyped' /\ ScreensStay(d) /\ JobOK(d)' /\ Dispatches(d)
        BY <1>6, <2>2, Released
    <2> QED BY <1>3, <2>2, <2>3, ScreenStep
<1>7. CASE Dispatch(d, "status", 0, FALSE) /\ busy' = busy
    <2>1. ScreenTypes' /\ OthersWait(d) /\ busy'[d] = TRUE
        BY <1>1, <1>3, <1>4, <1>5, <1>7 DEF ScreenTypes, OthersWait
    <2>2. JobTyped' /\ ScreensStay(d) /\ JobOK(d)' /\ Dispatches(d)
        BY <1>1, <1>2, <1>3, <1>7, <2>1, Dispatched
    <2> QED BY <1>3, <2>1, <2>2, ScreenStep
<1> QED BY <1>3, <1>6, <1>7

LEMMA DownloadTypes ==
    ASSUME CloudInv, NEW d \in Devices, DownloadDone(d)
    PROVE  CloudInv' /\ \A e \in Devices : Dispatches(e)
<1>1. /\ UNCHANGED <<apiVars, Account, pulled, packer, origin>> /\ dialog' = dialog
      /\ retries' = retries /\ Release(d)
      /\ SaveSynced(d) \/ synced' = synced
    BY DEF DownloadDone
<1>2. busy' = [busy EXCEPT ![d] = FALSE]
    BY <1>1 DEF Release
<1>3. synced' \in [Devices -> 0 .. MaxRev] /\ ScreenTypes
    BY <1>1, SyncedTypes DEF CloudInv
<1>4. ScreenTypes' /\ OthersWait(d)
    BY <1>1, <1>2, <1>3 DEF ScreenTypes, OthersWait
<1>5. JobTyped' /\ ScreensStay(d) /\ JobOK(d)' /\ Dispatches(d)
    BY <1>1, <1>4, Released
<1> QED BY <1>1, <1>4, <1>5, ScreenStep

\* A fresh screen waits for nothing.
LEMMA FreshTypes ==
    ASSUME CloudInv, NEW d \in Devices, FreshScreen(d), synced' \in [Devices -> 0 .. MaxRev]
    PROVE  ScreenTypes' /\ JobTyped' /\ ScreensStay(d) /\ Dispatches(d) /\ JobOK(d)'
<1>1. /\ Release(d) /\ busy' = [busy EXCEPT ![d] = FALSE]
      /\ retries' = [retries EXCEPT ![d] = 0]
      /\ dialog' = [dialog EXCEPT ![d] = NoDialog]
    BY DEF FreshScreen, Release
<1>2. NoDialog \in NoDialog .. MaxRev /\ 0 \in 0 .. kMaxConflictRetries
    BY SavesApiAssumption, CloudSavesAssumption DEF NoDialog, NoRev
<1>3. ScreenTypes' /\ OthersWait(d)
    BY <1>1, <1>2 DEF CloudInv, ScreenTypes, OthersWait
<1> QED BY <1>1, <1>3, Released

LEMMA CrashTypes ==
    ASSUME CloudInv, NEW d \in Devices, CrashInSave(d)
    PROVE  CloudInv' /\ \A e \in Devices : Dispatches(e)
<1>1. PICK r \in 0 .. job[d].got : synced' = [synced EXCEPT ![d] = r]
    BY DEF CrashInSave
<1>2. job[d].got \in 0 .. MaxRev /\ ScreenTypes
    BY DEF CloudInv, JobTyped, JobType
<1>3. r \in 0 .. MaxRev
    BY <1>2, SavesApiAssumption
<1>4. synced' \in [Devices -> 0 .. MaxRev]
    BY <1>1, <1>2, <1>3 DEF ScreenTypes
<1> QED BY <1>4, FreshTypes, ScreenStep DEF CrashInSave

LEMMA AccountStep ==
    ASSUME CloudInv, NEW d \in Devices, Logout(d) \/ \E u \in Users : Login(d, u)
    PROVE  CloudInv' /\ \A e \in Devices : Dispatches(e)
<1>1. UNCHANGED <<apiVars, synced, Screen, pulled, packer, origin>>
    BY DEF Logout, Login
<1>2. AccountTypes'
    <2>1. CASE Logout(d)
        BY <2>1, CloudSavesAssumption DEF Logout, CloudInv, AccountTypes
    <2>2. ASSUME NEW u \in Users, Login(d, u) PROVE AccountTypes'
        BY <2>2 DEF Login, CloudInv, AccountTypes
    <2> QED BY <2>1, <2>2
<1>3. TypeInv' /\ \A h \in Handlers : ServerOK(h)'
    BY <1>1 DEF CloudInv, TypeInv, ApiTypeOK, HandlerInv, ServerOK, Putting, apiVars
<1>4. /\ JobTyped' /\ ScreenTypes' /\ HistoryTypes'
      /\ \A e \in Devices : JobOK(e)' /\ Dispatches(e)
    BY <1>1 DEF CloudInv, JobTyped, ScreenTypes, HistoryTypes, JobOK, Dispatches, Screen, apiVars
<1> QED BY <1>2, <1>3, <1>4 DEF CloudInv

\* Handler h is done with its request, answered or abandoned.
EmptyHandler(h) ==
    /\ handler' = [handler EXCEPT ![h] = IdleHandler]
    /\ origin' = [origin EXCEPT ![h] = Nobody]
    /\ UNCHANGED <<slot, blob, row, accepted, admitted>>

\* Only the origin of handler h may differ.
OriginsStay(h) == \A g \in Handlers \ {h} : origin'[g] = origin[g]

OriginTyped == origin \in [Handlers -> [dev : Devices \cup {Absent}, agreed : BOOLEAN]]

LEMMA Emptied ==
    ASSUME CloudInv, NEW h \in Handlers, EmptyHandler(h)
    PROVE  /\ TypeInv' /\ OriginTyped' /\ OthersStay(h) /\ OriginsStay(h)
           /\ handler'[h].pc = "idle"
           /\ \A g \in Handlers : ServerOK(g)'
<1>1. handler \in [Handlers -> HandlerRecord] /\ OriginTyped
    BY DEF CloudInv, HistoryTypes, OriginTyped, TypeInv, ApiTypeOK, HandlerRecord
<1>2. handler' \in [Handlers -> HandlerRecord] /\ OthersStay(h) /\ handler'[h] = IdleHandler
    BY <1>1, IdleHandlerType DEF EmptyHandler, OthersStay
<1>3. handler'[h].pc = "idle"
    BY <1>2 DEF IdleHandler
<1>4. OriginTyped' /\ OriginsStay(h)
    BY <1>1 DEF EmptyHandler, OriginTyped, OriginsStay, Nobody
<1>5. ApiTypeOK'
    BY <1>2 DEF CloudInv, TypeInv, ApiTypeOK, EmptyHandler, HandlerRecord
<1>6. HandlerInv'
    BY <1>2, <1>3 DEF CloudInv, TypeInv, HandlerInv, OthersStay, Putting
<1>7. \A g \in Handlers : ServerOK(g)'
    BY <1>2, <1>3 DEF CloudInv, ServerOK, OthersStay, Putting
<1> QED BY <1>2, <1>3, <1>4, <1>5, <1>6, <1>7 DEF TypeInv

\* Nobody else waits for the handler a device waits for.
LEMMA OthersElsewhere ==
    ASSUME CloudInv, NEW d \in Devices, job[d].stage = "sent"
    PROVE  /\ job[d].h \in Handlers
           /\ \A e \in Devices \ {d} : job[e].h # job[d].h
BY CloudSavesAssumption DEF CloudInv, JobOK

\* A step of one device and one handler leaves the others' jobs.
LEMMA JobsMoved ==
    ASSUME CloudInv, NEW d \in Devices, NEW h \in Handlers, OthersStay(h), OriginsStay(h),
           \A e \in Devices \ {d} : job[e].h # h,
           ScreensStay(d), JobOK(d)', Dispatches(d)
    PROVE  (\A e \in Devices : JobOK(e)') /\ \A e \in Devices : Dispatches(e)
<1> SUFFICES ASSUME NEW e \in Devices, e # d
             PROVE  JobOK(e)' /\ Dispatches(e)
    OBVIOUS
<1>1. job'[e] = job[e] /\ busy'[e] = busy[e] /\ dialog'[e] = dialog[e] /\ job[e].h # h /\ JobOK(e)
    BY DEF ScreensStay, CloudInv
<1>2. job[e].h \in Handlers =>
          handler'[job[e].h] = handler[job[e].h] /\ origin'[job[e].h] = origin[job[e].h]
    BY <1>1 DEF OthersStay, OriginsStay
<1> QED BY <1>1, <1>2 DEF JobOK, Dispatches

LEMMA AbandonEffect ==
    ASSUME CloudInv, NEW d \in Devices, Abandon(d)
    PROVE  \/ UNCHANGED <<apiVars, origin>>
           \/ job[d].stage = "sent" /\ job[d].h \in Handlers /\ EmptyHandler(job[d].h)
BY DEF CloudInv, JobOK, Abandon, EmptyHandler

LEMMA AbandonStep ==
    ASSUME CloudInv, NEW d \in Devices, Abandon(d), UNCHANGED <<Account, pulled, packer>>,
           JobTyped', ScreenTypes', ScreensStay(d), JobOK(d)', Dispatches(d)
    PROVE  CloudInv' /\ \A e \in Devices : Dispatches(e)
<1>1. CASE UNCHANGED <<apiVars, origin>>
    BY <1>1, ScreenStep
<1>2. CASE job[d].stage = "sent" /\ job[d].h \in Handlers /\ EmptyHandler(job[d].h)
    <2>1. /\ TypeInv' /\ OriginTyped' /\ OthersStay(job[d].h) /\ OriginsStay(job[d].h)
          /\ \A g \in Handlers : ServerOK(g)'
        BY <1>2, Emptied
    <2>2. (\A e \in Devices : JobOK(e)') /\ \A e \in Devices : Dispatches(e)
        BY <1>2, <2>1, OthersElsewhere, JobsMoved
    <2>3. AccountTypes' /\ HistoryTypes'
        BY <2>1 DEF CloudInv, AccountTypes, HistoryTypes, Account, OriginTyped
    <2> QED BY <2>1, <2>2, <2>3 DEF CloudInv
<1> QED BY <1>1, <1>2, AbandonEffect

LEMMA LeaveTypes ==
    ASSUME CloudInv, NEW d \in Devices, LeaveActivity(d)
    PROVE  CloudInv' /\ \A e \in Devices : Dispatches(e)
<1>1. FreshScreen(d) /\ Abandon(d) /\ synced' = synced /\ UNCHANGED <<Account, pulled, packer>>
    BY DEF LeaveActivity
<1>2. synced' \in [Devices -> 0 .. MaxRev]
    BY <1>1 DEF CloudInv, ScreenTypes
<1>3. ScreenTypes' /\ JobTyped' /\ ScreensStay(d) /\ Dispatches(d) /\ JobOK(d)'
    BY <1>1, <1>2, FreshTypes
<1> QED BY <1>1, <1>3, AbandonStep

\* The worker's half ends with a result.
LEMMA WorkDone ==
    ASSUME CloudInv, NEW d \in Devices, job[d].stage \in {"queued", "sent"},
           NEW status \in {"ok", "missing", "conflict", "error", "none"}, NEW got \in 0 .. MaxRev,
           Finish(d, status, got), UNCHANGED <<busy, dialog>>
    PROVE  /\ JobTyped' /\ ScreensStay(d) /\ JobOK(d)' /\ Dispatches(d)
           /\ job'[d].kind = job[d].kind /\ job'[d].stage = "done"
           /\ job'[d].status = status /\ job'[d].got = got
<1>1. JobTyped
    BY DEF CloudInv
<1>2. /\ JobTyped' /\ JobsStay(d)
      /\ job'[d].kind = job[d].kind /\ job'[d].stage = "done" /\ job'[d].h = Absent
      /\ job'[d].status = status /\ job'[d].got = got
    BY <1>1, FinishEffect
<1>3. ScreensStay(d) /\ JobOK(d)' /\ Dispatches(d)
    BY <1>2 DEF CloudInv, ScreensStay, JobsStay, JobOK, Dispatches
<1> QED BY <1>2, <1>3

LEMMA LostTypes ==
    ASSUME CloudInv, NEW d \in Devices, Lost(d)
    PROVE  CloudInv' /\ \A e \in Devices : Dispatches(e)
<1>1. 0 \in 0 .. MaxRev
    BY SavesApiAssumption
<1>2. JobTyped' /\ ScreensStay(d) /\ JobOK(d)' /\ Dispatches(d)
    BY <1>1, WorkDone DEF Lost
<1>3. ScreenTypes'
    BY DEF Lost, CloudInv, ScreenTypes
<1> QED BY <1>2, <1>3, AbandonStep DEF Lost

\* An answer empties its handler; a download that arrives whole is imported
\* or not, and counts as done when it was.
LEMMA DeliverEffect ==
    ASSUME CloudInv, NEW d \in Devices, Deliver(d)
    PROVE  /\ job[d].stage = "sent" /\ job[d].h \in Handlers /\ EmptyHandler(job[d].h)
           /\ handler[job[d].h].pc = "replied"
           /\ UNCHANGED <<Account, synced, busy, retries, dialog, packer>>
           /\ \E imported \in BOOLEAN, status \in {"ok", "missing", "conflict", "error", "none"} :
                 /\ Finish(d, status, handler[job[d].h].rev)
                 /\ status = "ok" =>
                       handler[job[d].h].status = "ok" /\ (job[d].kind = "pull" => imported)
                 /\ imported => /\ handler[job[d].h].data \in Contents
                                /\ pulled' = [pulled EXCEPT ![d] = @ \cup {handler[job[d].h].data}]
                 /\ ~imported => pulled' = pulled
<1> DEFINE h == job[d].h
           r == handler[h]
<1>1. /\ job[d].stage = "sent" /\ h \in Handlers /\ r.pc = "replied"
      /\ r.op = (IF job[d].kind = "push" THEN "put" ELSE job[d].kind)
    BY DEF Deliver, CloudInv, JobOK
<1>2. EmptyHandler(h) /\ UNCHANGED <<Account, synced, busy, retries, dialog, packer>>
    BY DEF Deliver, EmptyHandler, Answer
<1>3. /\ r.status \in {"ok", "missing", "conflict", "error", "none"}
      /\ r.data \in Contents \cup {Absent, Torn}
    BY <1>1 DEF CloudInv, TypeInv, ApiTypeOK
<1>4. r.op = "pull" /\ r.status = "ok" => r.data # Absent
    BY <1>1 DEF CloudInv, ServerOK
<1>5. PICK imported \in IF job[d].kind = "pull" /\ r.status = "ok"
                        THEN {FALSE} \cup (IF r.data = Torn THEN {} ELSE {TRUE})
                        ELSE {FALSE} :
           /\ pulled' = IF imported THEN [pulled EXCEPT ![d] = @ \cup {r.data}] ELSE pulled
           /\ Finish(d, IF job[d].kind = "pull" THEN PullOutcome(r.status, imported)
                        ELSE r.status, r.rev)
    BY DEF Deliver
<1>6. imported \in BOOLEAN
    BY <1>5
<1>7. imported => job[d].kind = "pull" /\ r.status = "ok" /\ r.data # Torn
    BY <1>5
<1>8. imported => r.data \in Contents
    BY <1>1, <1>3, <1>4, <1>7
<1> DEFINE status == IF job[d].kind = "pull" THEN PullOutcome(r.status, imported) ELSE r.status
<1>9. /\ status \in {"ok", "missing", "conflict", "error", "none"}
      /\ status = "ok" => r.status = "ok" /\ (job[d].kind = "pull" => imported)
    BY <1>3 DEF PullOutcome
<1>10. Finish(d, status, r.rev)
    BY <1>5
<1> HIDE DEF status, r, h
<1>11. \E i \in BOOLEAN, s \in {"ok", "missing", "conflict", "error", "none"} :
           /\ Finish(d, s, r.rev)
           /\ s = "ok" => r.status = "ok" /\ (job[d].kind = "pull" => i)
           /\ i => r.data \in Contents /\ pulled' = [pulled EXCEPT ![d] = @ \cup {r.data}]
           /\ ~i => pulled' = pulled
    BY <1>5, <1>6, <1>8, <1>9, <1>10
<1> QED BY <1>1, <1>2, <1>11 DEF r, h

LEMMA DeliverTypes ==
    ASSUME CloudInv, NEW d \in Devices, Deliver(d)
    PROVE  CloudInv' /\ \A e \in Devices : Dispatches(e)
<1> DEFINE h == job[d].h
<1>1. /\ job[d].stage = "sent" /\ h \in Handlers /\ EmptyHandler(h)
      /\ UNCHANGED <<Account, synced, busy, retries, dialog, packer>>
    BY DeliverEffect
<1>2. PICK status \in {"ok", "missing", "conflict", "error", "none"} :
           Finish(d, status, handler[h].rev)
    BY DeliverEffect
<1>3. handler[h].rev \in 0 .. MaxRev
    BY <1>1 DEF CloudInv, TypeInv, ApiTypeOK
<1>4. JobTyped' /\ ScreensStay(d) /\ JobOK(d)' /\ Dispatches(d)
    BY <1>1, <1>2, <1>3, WorkDone
<1>5. pulled' \in [Devices -> SUBSET Contents]
    <2>1. pulled \in [Devices -> SUBSET Contents]
        BY DEF CloudInv, HistoryTypes
    <2>2. \/ pulled' = pulled
          \/ handler[h].data \in Contents
             /\ pulled' = [pulled EXCEPT ![d] = @ \cup {handler[h].data}]
        BY DeliverEffect
    <2> QED BY <2>1, <2>2
<1>6. /\ TypeInv' /\ OriginTyped' /\ OthersStay(h) /\ OriginsStay(h)
      /\ \A g \in Handlers : ServerOK(g)'
    BY <1>1, Emptied
<1>7. (\A e \in Devices : JobOK(e)') /\ \A e \in Devices : Dispatches(e)
    BY <1>1, <1>4, <1>6, OthersElsewhere, JobsMoved
<1>8. ScreenTypes' /\ AccountTypes' /\ HistoryTypes'
    BY <1>1, <1>5, <1>6 DEF CloudInv, ScreenTypes, AccountTypes, HistoryTypes, Account, OriginTyped
<1> QED BY <1>4, <1>6, <1>7, <1>8 DEF CloudInv

LEMMA DiscardTypes ==
    ASSUME CloudInv, NEW h \in Handlers, Discard(h)
    PROVE  CloudInv' /\ \A e \in Devices : Dispatches(e)
<1>1. /\ EmptyHandler(h) /\ \A d \in Devices : job[d].h # h
      /\ UNCHANGED <<Account, synced, busy, retries, dialog, job, pulled, packer>>
    BY DEF Discard, Answer, EmptyHandler
<1>2. /\ TypeInv' /\ OriginTyped' /\ OthersStay(h) /\ OriginsStay(h)
      /\ \A g \in Handlers : ServerOK(g)'
    BY <1>1, Emptied
<1>3. ASSUME NEW e \in Devices
      PROVE  JobOK(e)' /\ Dispatches(e)
    BY <1>1, <1>2 DEF CloudInv, JobOK, Dispatches, OthersStay, OriginsStay
<1>4. JobTyped' /\ ScreenTypes' /\ AccountTypes' /\ HistoryTypes'
    BY <1>1, <1>2 DEF CloudInv, JobTyped, ScreenTypes, AccountTypes, HistoryTypes, Account, OriginTyped
<1> QED BY <1>2, <1>3, <1>4 DEF CloudInv

\* A request that arrives is the handler's.
LEMMA ReceiveEffect ==
    ASSUME TypeInv, NEW h \in Handlers, NEW q, Receive(h, q)
    PROVE  /\ OthersStay(h) /\ handler[h].pc = "idle"
           /\ handler'[h].pc = "start" /\ handler'[h].op = q.op /\ handler'[h].user = q.user
           /\ handler'[h].expected = q.expected /\ handler'[h].content = q.content
           /\ UNCHANGED <<slot, blob, row, accepted, admitted>>
<1> DEFINE r == [IdleHandler EXCEPT !.pc = "start", !.op = q.op, !.user = q.user,
                                    !.expected = q.expected, !.content = q.content]
<1>1. /\ handler' = [handler EXCEPT ![h] = r] /\ handler[h].pc = "idle"
      /\ UNCHANGED <<slot, blob, row, accepted, admitted>>
    BY DEF Receive
<1>2. /\ r.pc = "start" /\ r.op = q.op /\ r.user = q.user
      /\ r.expected = q.expected /\ r.content = q.content
    BY DEF IdleHandler
<1> HIDE DEF r
<1> QED BY <1>1, <1>2 DEF TypeInv, ApiTypeOK, OthersStay

\* What device d asks for.
Request(d, c) ==
    [op |-> IF job[d].kind = "push" THEN "put" ELSE job[d].kind, user |-> job[d].token,
     content |-> c, expected |-> IF job[d].kind = "push" THEN job[d].rev ELSE NoRev]

LEMMA RequestType ==
    ASSUME CloudInv, NEW d \in Devices, job[d].stage = "queued", job[d].token # Absent,
           NEW c, IF job[d].kind = "push" THEN c \in Contents ELSE c = Absent
    PROVE  Request(d, c) \in Requests
<1>1. /\ job[d].kind \in {"status", "push", "pull"}
      /\ job[d].token \in Users /\ job[d].rev \in 0 .. MaxRev
    BY DEF CloudInv, JobOK, JobTyped, JobType
<1>2. job[d].rev \in NoRev .. MaxRev
    BY <1>1, SavesApiAssumption DEF NoRev
<1>3. CASE job[d].kind = "push"
    <2>1. Request(d, c) = [op |-> "put", user |-> job[d].token, content |-> c, expected |-> job[d].rev]
        BY <1>3 DEF Request
    <2> QED BY <1>1, <1>2, <1>3, <2>1, CloudSavesAssumption DEF Requests
<1>4. CASE job[d].kind # "push"
    <2>1. Request(d, c) = [op |-> job[d].kind, user |-> job[d].token, content |-> Absent, expected |-> NoRev]
        BY <1>4 DEF Request
    <2> QED BY <1>1, <1>4, <2>1, CloudSavesAssumption DEF Requests
<1> QED BY <1>3, <1>4

LEMMA SendEffect ==
    ASSUME CloudInv, NEW d \in Devices, Send(d)
    PROVE  \E h \in Handlers, c \in Contents \cup {Absent} :
              /\ job[d].stage = "queued" /\ job[d].token \in Users
              /\ handler[h].pc = "idle" /\ OthersStay(h) /\ OriginsStay(h)
              /\ handler'[h].pc = "start" /\ handler'[h].user = job[d].token
              /\ handler'[h].op = (IF job[d].kind = "push" THEN "put" ELSE job[d].kind)
              /\ handler'[h].expected = (IF job[d].kind = "push" THEN job[d].rev ELSE NoRev)
              /\ handler'[h].content = c
              /\ Receive(h, Request(d, c)) /\ Request(d, c) \in Requests
              /\ JobTyped' /\ JobsStay(d)
              /\ job'[d].kind = job[d].kind /\ job'[d].stage = "sent" /\ job'[d].h = h
              /\ OriginTyped' /\ origin'[h] = [dev |-> d, agreed |-> job[d].agreed]
              /\ IF job[d].kind = "push"
                 THEN c \in Contents /\ packer[c] = Absent /\ packer' = [packer EXCEPT ![c] = d]
                 ELSE c = Absent /\ packer' = packer
              /\ UNCHANGED <<Account, synced, busy, retries, dialog, pulled, slot, blob, row,
                             accepted, admitted>>
<1>1. PICK h \in Handlers, c \in Contents \cup {Absent} :
        /\ IF job[d].kind = "push"
           THEN c \in Contents /\ packer[c] = Absent /\ packer' = [packer EXCEPT ![c] = d]
           ELSE c = Absent /\ packer' = packer
        /\ Receive(h, Request(d, c))
        /\ job' = [job EXCEPT ![d] = [NoJob EXCEPT !.kind = job[d].kind, !.stage = "sent", !.h = h]]
        /\ origin' = [origin EXCEPT ![h] = [dev |-> d, agreed |-> job[d].agreed]]
    BY DEF Send, Request
<1>2. job[d].stage = "queued" /\ job[d].token \in Users /\ job[d].token # Absent
    BY SavesApiAssumption DEF Send, CloudInv, JobTyped, JobType
<1>3. Request(d, c) \in Requests
    BY <1>1, <1>2, RequestType
<1>4. TypeInv /\ JobTyped /\ OriginTyped /\ job[d].agreed \in BOOLEAN
    BY DEF CloudInv, HistoryTypes, OriginTyped, JobTyped, JobType
<1>5. /\ OthersStay(h) /\ handler[h].pc = "idle" /\ handler'[h].pc = "start"
      /\ handler'[h].op = Request(d, c).op /\ handler'[h].user = Request(d, c).user
      /\ handler'[h].expected = Request(d, c).expected
      /\ handler'[h].content = Request(d, c).content
      /\ UNCHANGED <<slot, blob, row, accepted, admitted>>
    BY <1>1, <1>4, ReceiveEffect
<1>6. /\ Request(d, c).op = (IF job[d].kind = "push" THEN "put" ELSE job[d].kind)
      /\ Request(d, c).user = job[d].token /\ Request(d, c).content = c
      /\ Request(d, c).expected = (IF job[d].kind = "push" THEN job[d].rev ELSE NoRev)
    BY DEF Request
<1>7. /\ JobTyped' /\ JobsStay(d)
      /\ job'[d].kind = job[d].kind /\ job'[d].stage = "sent" /\ job'[d].h = h
    BY <1>1, <1>4, SentEffect
<1>8. OriginTyped' /\ OriginsStay(h) /\ origin'[h] = [dev |-> d, agreed |-> job[d].agreed]
    BY <1>1, <1>4 DEF OriginTyped, OriginsStay
<1>9. UNCHANGED <<Account, synced, busy, retries, dialog, pulled>>
    BY DEF Send
<1> HIDE DEF Request
<1> QED BY <1>1, <1>2, <1>3, <1>5, <1>6, <1>7, <1>8, <1>9

LEMMA SendTypes ==
    ASSUME CloudInv, NEW d \in Devices, Send(d)
    PROVE  CloudInv' /\ \A e \in Devices : Dispatches(e)
<1>1. PICK h \in Handlers, c \in Contents \cup {Absent} :
              /\ job[d].stage = "queued" /\ handler[h].pc = "idle"
              /\ OthersStay(h) /\ OriginsStay(h)
              /\ handler'[h].pc = "start"
              /\ handler'[h].op = (IF job[d].kind = "push" THEN "put" ELSE job[d].kind)
              /\ Receive(h, Request(d, c)) /\ Request(d, c) \in Requests
              /\ JobTyped' /\ JobsStay(d)
              /\ job'[d].kind = job[d].kind /\ job'[d].stage = "sent" /\ job'[d].h = h
              /\ OriginTyped' /\ origin'[h] = [dev |-> d, agreed |-> job[d].agreed]
              /\ IF job[d].kind = "push"
                 THEN c \in Contents /\ packer' = [packer EXCEPT ![c] = d]
                 ELSE packer' = packer
              /\ UNCHANGED <<Account, synced, busy, retries, dialog, pulled>>
    BY SendEffect
<1>2. TypeInv'
    <2>1. ApiNext
        BY <1>1 DEF ApiNext
    <2> QED BY <2>1, TypeStep DEF CloudInv
<1>3. \A g \in Handlers : ServerOK(g)'
    BY <1>1 DEF CloudInv, ServerOK, OthersStay, Putting
<1>4. job[d].kind \in {"status", "push", "pull"} /\ busy[d] = TRUE /\ dialog[d] = NoDialog
    BY <1>1 DEF CloudInv, JobOK
<1>5. ScreensStay(d) /\ Dispatches(d) /\ JobOK(d)'
    BY <1>1, <1>4 DEF ScreensStay, JobsStay, Dispatches, JobOK
<1>6. \A e \in Devices \ {d} : job[e].h # h
    BY <1>1, CloudSavesAssumption DEF CloudInv, JobOK
<1>7. (\A e \in Devices : JobOK(e)') /\ \A e \in Devices : Dispatches(e)
    BY <1>1, <1>5, <1>6, JobsMoved
<1>8. packer' \in [Contents -> Devices \cup {Absent}]
    BY <1>1 DEF CloudInv, HistoryTypes
<1>9. ScreenTypes' /\ AccountTypes' /\ HistoryTypes'
    BY <1>1, <1>8 DEF CloudInv, ScreenTypes, AccountTypes, HistoryTypes, Account, OriginTyped
<1> QED BY <1>1, <1>2, <1>3, <1>7, <1>9 DEF CloudInv

\* What a step of the server is to the others: it reads and goes on or
\* answers, it writes the file, or it commits.
Reads(h) ==
    /\ UNCHANGED <<slot, blob, row>>
    /\ \/ /\ handler'[h].pc = "checked" /\ handler[h].pc = "start" /\ handler[h].op = "put"
          /\ handler'[h].content = handler[h].content
          /\ handler'[h].expected = handler[h].expected
       \/ handler'[h].pc = "found"
       \/ handler'[h].pc = "replied" /\ (handler'[h].status = "ok" => handler[h].op = "status")
       \/ /\ handler'[h].pc = "replied" /\ handler[h].pc = "found" /\ handler[h].op = "pull"
          /\ handler'[h].rev = handler[h].existing
          /\ handler'[h].data = blob[handler[h].user] /\ handler'[h].data # Absent

Writes(h) ==
    /\ Putting(h) /\ Putting(h)'
    /\ handler'[h].content = handler[h].content /\ handler'[h].expected = handler[h].expected
    /\ UNCHANGED <<slot, row>>
    /\ \E data : blob' = [blob EXCEPT ![handler[h].user] = data]
    /\ blob'[handler[h].user] \in {handler[h].content, Torn}

Commits(h) ==
    /\ Putting(h) /\ handler[h].pc = "written"
    /\ handler'[h].pc = "replied" /\ handler'[h].status = "ok"
    /\ handler'[h].rev = NextRevision(h)
    /\ slot' = [slot EXCEPT ![handler[h].user] = NextRevision(h)]
    /\ row' = [row EXCEPT ![handler[h].user] = handler[h].content]
    /\ blob' = blob

\* What every step of the server leaves of its handler and the others.
Served1(h) ==
    /\ OthersStay(h) /\ handler[h].pc # "idle" /\ handler'[h].pc # "idle"
    /\ handler'[h].op = handler[h].op /\ handler'[h].user = handler[h].user
    /\ ServerOK(h)'

LEMMA ServeEffect ==
    ASSUME CloudInv, NEW h \in Handlers, HandlerStep(h)
    PROVE  Served1(h) /\ (Reads(h) \/ Writes(h) \/ Commits(h))
<1>a. TypeInv /\ ServerOK(h)
    BY DEF CloudInv
<1>b. ASSUME NEW status, NEW rev, NEW data, Reply(h, status, rev, data), handler[h].pc # "idle",
             handler[h].op = "pull" /\ status = "ok" => data # Absent
      PROVE  /\ Served1(h)
             /\ handler'[h].pc = "replied" /\ handler'[h].status = status
             /\ handler'[h].rev = rev /\ handler'[h].data = data
    <2>1. /\ OthersStay(h)
          /\ handler'[h].pc = "replied" /\ handler'[h].op = handler[h].op
          /\ handler'[h].user = handler[h].user
          /\ handler'[h].status = status /\ handler'[h].rev = rev /\ handler'[h].data = data
        BY <1>a, <1>b, AnswerEffect
    <2>2. ServerOK(h)'
        BY <1>b, <2>1 DEF ServerOK, Putting
    <2> QED BY <1>b, <2>1, <2>2 DEF Served1
<1>1. CASE GetStatus(h)
    <2>1. PICK status, rev : Reply(h, status, rev, Absent) /\ handler[h].op = "status"
                             /\ handler[h].pc = "start" /\ UNCHANGED <<slot, blob, row>>
        BY <1>1 DEF GetStatus
    <2>2. Served1(h) /\ handler'[h].pc = "replied"
        BY <1>b, <2>1
    <2> QED BY <2>1, <2>2 DEF Reads
<1>2. CASE GetFind(h)
    <2>1. CASE slot[handler[h].user] = 0
        <3>1. /\ Reply(h, "missing", 0, Absent) /\ handler[h].pc = "start"
              /\ UNCHANGED <<slot, blob, row>>
            BY <1>2, <2>1 DEF GetFind
        <3>2. Served1(h) /\ handler'[h].pc = "replied" /\ handler'[h].status = "missing"
            BY <1>b, <3>1
        <3> QED BY <3>1, <3>2 DEF Reads
    <2>2. CASE slot[handler[h].user] # 0
        <3>1. /\ OthersStay(h) /\ handler'[h].pc = "found" /\ handler'[h].user = handler[h].user
              /\ handler[h].pc = "start" /\ handler[h].op = "pull"
              /\ UNCHANGED <<slot, blob, row>>
            BY <1>a, <1>2, <2>2, FoundEffect DEF GetFind
        <3>2. handler'[h].op = handler[h].op
            BY <1>a, <1>2, <2>2 DEF GetFind, TypeInv, ApiTypeOK
        <3> QED BY <3>1, <3>2 DEF Served1, Reads, ServerOK, Putting
    <2> QED BY <2>1, <2>2
<1>3. CASE GetData(h)
    <2>1. handler[h].pc = "found" /\ handler[h].op = "pull" /\ UNCHANGED <<slot, blob, row>>
        BY <1>a, <1>3 DEF GetData, ServerOK
    <2>2. CASE blob[handler[h].user] = Absent
        <3>1. Reply(h, "missing", 0, Absent)
            BY <1>3, <2>2 DEF GetData
        <3>2. Served1(h) /\ handler'[h].pc = "replied" /\ handler'[h].status = "missing"
            BY <1>b, <2>1, <3>1
        <3> QED BY <2>1, <3>2 DEF Reads
    <2>3. CASE blob[handler[h].user] # Absent
        <3>1. Reply(h, "ok", handler[h].existing, blob[handler[h].user])
            BY <1>3, <2>3 DEF GetData
        <3>2. /\ Served1(h) /\ handler'[h].pc = "replied"
              /\ handler'[h].rev = handler[h].existing /\ handler'[h].data = blob[handler[h].user]
            BY <1>b, <2>1, <2>3, <3>1
        <3> QED BY <2>1, <2>3, <3>2 DEF Reads
    <2> QED BY <2>2, <2>3
<1>4. CASE PutCheck(h)
    <2>1. CASE RevisionMatches(handler[h].expected, slot[handler[h].user])
        <3>1. /\ OthersStay(h)
              /\ handler'[h].pc = "checked" /\ handler'[h].op = "put"
              /\ handler'[h].user = handler[h].user /\ handler'[h].content = handler[h].content
              /\ handler'[h].expected = handler[h].expected
            BY <1>a, <1>4, <2>1, CheckedEffect
        <3>2. handler[h].pc = "start" /\ handler[h].op = "put" /\ UNCHANGED <<slot, blob, row>>
            BY <1>4 DEF PutCheck
        <3> QED BY <3>1, <3>2 DEF Served1, Reads, ServerOK
    <2>2. CASE ~RevisionMatches(handler[h].expected, slot[handler[h].user])
        <3>1. PICK status \in {"error", "conflict"} :
                 /\ Reply(h, status, 0, Absent) /\ handler[h].pc = "start"
                 /\ UNCHANGED <<slot, blob, row>>
            BY <1>4, <2>2 DEF PutCheck
        <3>2. Served1(h) /\ handler'[h].pc = "replied" /\ handler'[h].status # "ok"
            BY <1>b, <3>1
        <3> QED BY <3>1, <3>2 DEF Reads
    <2> QED BY <2>1, <2>2
<1>5. CASE PutOpen(h) \/ PutWrite(h)
    <2>1. /\ \E pc \in {"writing", "written"} : Goto(h, pc)
          /\ Putting(h) /\ UNCHANGED slot
          /\ \E data : blob' = [blob EXCEPT ![handler[h].user] = data]
          /\ blob'[handler[h].user] \in {handler[h].content, Torn}
        BY <1>a, <1>5, BlobStep
    <2>2. /\ OthersStay(h) /\ handler'[h].user = handler[h].user
          /\ handler'[h].content = handler[h].content
          /\ handler'[h].pc \in {"writing", "written"}
          /\ handler'[h].expected = handler[h].expected
        BY <1>a, <2>1, GotoEffect DEF OthersStay
    <2>3. handler'[h].op = handler[h].op
        BY <1>a, <2>1 DEF Goto, TypeInv, ApiTypeOK
    <2>4. row' = row
        BY <1>5 DEF PutOpen, PutWrite
    <2>5. Putting(h)' /\ ServerOK(h)' /\ handler[h].pc # "idle"
        BY <1>a, <2>1, <2>2, <2>3 DEF ServerOK, Putting
    <2> QED BY <2>1, <2>2, <2>3, <2>4, <2>5 DEF Served1, Writes
<1>6. CASE PutCommit(h)
    <2>1. /\ handler[h].pc = "written" /\ Reply(h, "ok", NextRevision(h), Absent)
          /\ slot' = [slot EXCEPT ![handler[h].user] = NextRevision(h)]
          /\ row' = [row EXCEPT ![handler[h].user] = handler[h].content]
          /\ blob' = blob
        BY <1>6 DEF PutCommit
    <2>2. Putting(h) /\ handler[h].op = "put"
        BY <1>a, <2>1 DEF Putting, ServerOK
    <2>3. /\ Served1(h) /\ handler'[h].pc = "replied" /\ handler'[h].status = "ok"
          /\ handler'[h].rev = NextRevision(h)
        BY <1>b, <2>1, <2>2
    <2> QED BY <2>1, <2>2, <2>3 DEF Commits
<1>7. ~DeleteFind(h) /\ ~DeleteBlob(h) /\ ~DeleteRow(h)
    <2>1. ~DeleteFind(h)
        BY <1>a, CloudSavesAssumption DEF DeleteFind, TypeInv, HandlerInv
    <2> QED BY <1>a, <2>1 DEF DeleteBlob, DeleteRow, ServerOK
<1>8. CASE Fail(h)
    <2>1. Reply(h, "error", 0, Absent) /\ handler[h].pc # "idle" /\ UNCHANGED <<slot, blob, row>>
        BY <1>8 DEF Fail
    <2>2. Served1(h) /\ handler'[h].pc = "replied" /\ handler'[h].status = "error"
        BY <1>b, <2>1
    <2> QED BY <2>1, <2>2 DEF Reads
<1> QED BY <1>1, <1>2, <1>3, <1>4, <1>5, <1>6, <1>7, <1>8 DEF HandlerStep

LEMMA ServeTypes ==
    ASSUME CloudInv, NEW h \in Handlers, Serve(h)
    PROVE  CloudInv' /\ \A e \in Devices : Dispatches(e)
<1>1. HandlerStep(h) /\ UNCHANGED deviceVars
    BY DEF Serve
<1>2. TypeInv'
    <2>1. ApiNext
        BY <1>1 DEF ApiNext
    <2> QED BY <2>1, TypeStep DEF CloudInv
<1>3. Served1(h)
    BY <1>1, ServeEffect
<1>4. \A g \in Handlers : ServerOK(g)'
    BY <1>3 DEF CloudInv, Served1, ServerOK, OthersStay, Putting
<1>5. ASSUME NEW e \in Devices
      PROVE  JobOK(e)' /\ Dispatches(e)
    <2>1. JobOK(e) /\ UNCHANGED <<job, busy, dialog, origin>>
        BY <1>1 DEF CloudInv, deviceVars
    <2>2. job[e].stage = "sent" =>
              /\ handler'[job[e].h].pc # "idle"
              /\ handler'[job[e].h].op = handler[job[e].h].op
        BY <1>3, <2>1 DEF Served1, OthersStay, JobOK
    <2> QED BY <2>1, <2>2 DEF JobOK, Dispatches
<1>6. JobTyped' /\ ScreenTypes' /\ AccountTypes' /\ HistoryTypes'
    BY <1>1 DEF CloudInv, JobTyped, ScreenTypes, AccountTypes, HistoryTypes, deviceVars
<1> QED BY <1>2, <1>4, <1>5, <1>6 DEF CloudInv

\* Every step keeps the types, and dispatches over nothing.
LEMMA CloudStep ==
    CloudInv /\ [Next]_vars => CloudInv' /\ \A d \in Devices : Dispatches(d)
<1> SUFFICES ASSUME CloudInv, [Next]_vars
             PROVE  CloudInv' /\ \A d \in Devices : Dispatches(d)
    OBVIOUS
<1>1. ASSUME NEW d \in Devices, UserStep(d)
      PROVE  CloudInv' /\ \A e \in Devices : Dispatches(e)
    BY <1>1, TapTypes, DialogTypes, LeaveTypes, CrashTypes, AccountStep DEF UserStep
<1>2. ASSUME NEW d \in Devices, Callback(d)
      PROVE  CloudInv' /\ \A e \in Devices : Dispatches(e)
    BY <1>2, StatusTypes, PushTypes, DownloadTypes DEF Callback
<1>3. ASSUME NEW d \in Devices, Worker(d)
      PROVE  CloudInv' /\ \A e \in Devices : Dispatches(e)
    BY <1>3, SendTypes, LostTypes, DeliverTypes DEF Worker
<1>4. ASSUME NEW h \in Handlers, Serve(h) \/ Discard(h)
      PROVE  CloudInv' /\ \A e \in Devices : Dispatches(e)
    BY <1>4, ServeTypes, DiscardTypes
<1>5. CASE UNCHANGED vars
    <2>1. UNCHANGED <<apiVars, deviceVars>>
        BY <1>5 DEF vars
    <2>2. TypeInv' /\ \A h \in Handlers : ServerOK(h)'
        BY <2>1 DEF CloudInv, TypeInv, ApiTypeOK, HandlerInv, ServerOK, Putting, apiVars
    <2>3. JobTyped' /\ ScreenTypes' /\ AccountTypes' /\ HistoryTypes'
        BY <2>1 DEF CloudInv, JobTyped, ScreenTypes, AccountTypes, HistoryTypes, deviceVars
    <2>4. \A e \in Devices : JobOK(e)' /\ Dispatches(e)
        BY <2>1 DEF CloudInv, JobOK, Dispatches, deviceVars, apiVars
    <2> QED BY <2>2, <2>3, <2>4 DEF CloudInv
<1> QED BY <1>1, <1>2, <1>3, <1>4, <1>5 DEF Next

LEMMA CloudInit == Init => CloudInv
<1> SUFFICES ASSUME Init PROVE CloudInv
    OBVIOUS
<1>1. TypeInv
    BY TypeInit DEF Init
<1>2. JobTyped /\ \A d \in Devices : JobOK(d)
    BY NoJobType DEF Init, JobTyped, JobOK
<1>3. ScreenTypes /\ AccountTypes
    BY SavesApiAssumption, CloudSavesAssumption
       DEF Init, ScreenTypes, AccountTypes, NoDialog, NoRev
<1>4. HistoryTypes
    BY DEF Init, HistoryTypes, Nobody
<1>5. \A h \in Handlers : ServerOK(h)
    BY DEF Init, ApiInit, IdleHandler, ServerOK, Putting
<1> QED BY <1>1, <1>2, <1>3, <1>4, <1>5 DEF CloudInv

\* Every variable of the client and the server keeps its range, whatever
\* the network, the server's overlaps, crashes and changes of account do.
THEOREM CloudTypesCorrect == Spec => []TypeOK
<1> QED BY CloudTyped, CloudInit, CloudStep, PTL DEF Spec

\* A screen never starts a cloud operation over one whose result is still
\* to come: the second half of an upload, an automatic retry and the
\* dialog's buttons do not test cloudBusy, and need not.
THEOREM OneOperationAtATime == Spec => OneOperation
<1>1. CloudInv /\ [Next]_vars =>
          [\A d \in Devices :
              job'[d].stage = "queued" /\ job[d] # job'[d] => job[d].stage \in {"none", "done"}]_vars
    BY CloudStep DEF Dispatches
<1> QED BY <1>1, CloudInit, CloudStep, PTL DEF Spec, OneOperation

-------------------------------------------------------------------------------
(* The server under its clients *)

\* The invariants of the server alone.
ServerInv == LockInv /\ FileInv /\ FreshInv

LEMMA ApiMoves ==
    ASSUME CloudInv, Next
    PROVE  [ApiNext]_apiVars \/ \E h \in Handlers : EmptyHandler(h)
<1>1. ASSUME NEW d \in Devices, UserStep(d) \/ Callback(d)
      PROVE  UNCHANGED apiVars \/ \E h \in Handlers : EmptyHandler(h)
    <2>1. CASE LeaveActivity(d)
        BY <2>1, AbandonEffect DEF LeaveActivity
    <2>2. CASE ~LeaveActivity(d)
        BY <1>1, <2>2
           DEF UserStep, Callback, TapUpload, TapDownload, SendMine, KeepCloud, DismissDialog,
               CrashInSave, Logout, Login, StatusDone, PushDone, DownloadDone, OffScreen
    <2> QED BY <2>1, <2>2
<1>2. ASSUME NEW d \in Devices, Worker(d)
      PROVE  [ApiNext]_apiVars \/ \E h \in Handlers : EmptyHandler(h)
    <2>1. CASE Send(d)
        BY <2>1, SendEffect DEF ApiNext
    <2>2. CASE Lost(d)
        BY <2>2, AbandonEffect DEF Lost
    <2>3. CASE Deliver(d)
        BY <2>3, DeliverEffect
    <2> QED BY <1>2, <2>1, <2>2, <2>3 DEF Worker
<1>3. ASSUME NEW h \in Handlers, Serve(h) \/ Discard(h)
      PROVE  ApiNext
    BY <1>3 DEF Serve, Discard, ApiNext
<1> QED BY <1>1, <1>2, <1>3 DEF Next

\* A handler that is emptied writes nothing any more.
LEMMA EmptyKeepsLock ==
    ASSUME CloudInv, LockInv, NEW h \in Handlers, EmptyHandler(h)
    PROVE  LockInv'
<1>1. OthersStay(h) /\ handler'[h].pc = "idle" /\ UNCHANGED <<slot, accepted>>
    BY Emptied DEF EmptyHandler
<1>2. ~Writing(h)' /\ ~Putting(h)'
    BY <1>1 DEF Writing, Putting
<1> QED BY <1>1, <1>2, LockKept DEF OthersStay, CloudInv

LEMMA ServerStep ==
    ASSUME MaxWriters = 1
    PROVE  CloudInv /\ ServerInv /\ [Next]_vars => ServerInv'
<1> SUFFICES ASSUME CloudInv, ServerInv, [Next]_vars
             PROVE  ServerInv'
    OBVIOUS
<1>1. NoDeletes /\ MaxWriters = 1 /\ TypeInv /\ LockInv /\ FileInv /\ FreshInv
    BY CloudSavesAssumption DEF NoDeletes, CloudInv, ServerInv
<1>2. CASE [ApiNext]_apiVars
    BY <1>1, <1>2, LockStep, FileStep, FreshStep DEF ServerInv
<1>3. ASSUME NEW h \in Handlers, EmptyHandler(h)
      PROVE  ServerInv'
    <2>1. OthersStay(h) /\ handler'[h].pc = "idle" /\ UNCHANGED <<slot, blob, accepted, admitted>>
        BY <1>3, Emptied DEF EmptyHandler
    <2>2. ~Writing(h)' /\ ~Putting(h)' /\ Served(h)'
        BY <2>1 DEF Writing, Putting, Served
    <2>3. LockInv'
        BY <1>1, <1>3, EmptyKeepsLock
    <2>4. FileInv'
        BY <1>1, <2>1, FileKept
    <2>5. FreshInv'
        BY <1>1, <2>1, <2>2, FreshKept
    <2> QED BY <2>3, <2>4, <2>5 DEF ServerInv
<1>4. CASE UNCHANGED vars
    BY <1>2, <1>4 DEF vars
<1> QED BY <1>2, <1>3, <1>4, ApiMoves

\* Whatever the devices do (retry, abandon, overwrite on the user's word, switch
\* accounts, crash) and whatever answers are lost: the server they share is
\* the compare-and-set register they rely on, one push at a time.
THEOREM ClientsImplementRegister ==
    ASSUME MaxWriters = 1
    PROVE  Spec => ImplementsRegister
<1>1. Init => CloudInv /\ LockInv /\ Register!Init
    BY CloudInit, LockInit, RegisterInit DEF Init
<1>2. CloudInv /\ LockInv /\ [Next]_vars => LockInv' /\ [Register!Next]_(Register!vars)
    <2> SUFFICES ASSUME CloudInv, LockInv, [Next]_vars
                 PROVE  LockInv' /\ [Register!Next]_(Register!vars)
        OBVIOUS
    <2>1. CASE [ApiNext]_apiVars
        BY <2>1, LockStep, RegisterStep DEF CloudInv
    <2>2. ASSUME NEW h \in Handlers, EmptyHandler(h)
          PROVE  LockInv' /\ [Register!Next]_(Register!vars)
        BY <2>2, EmptyKeepsLock, RegisterStutter DEF EmptyHandler
    <2>3. CASE UNCHANGED vars
        BY <2>1, <2>3 DEF vars
    <2> QED BY <2>1, <2>2, <2>3, ApiMoves
<1> QED BY <1>1, <1>2, CloudStep, PTL DEF Spec, ImplementsRegister, Register!Spec

\* The service's own promises, under all that its clients do.
THEOREM ServerKeepsItsWord ==
    ASSUME MaxWriters = 1
    PROVE  Spec => [](NoLostUpdate /\ RowHasFile /\ PullNotOlder)
<1>1. Init => ServerInv
    BY LockInit, FileInit, FreshInit DEF Init, ServerInv
<1>2. CloudInv /\ ServerInv /\ [Next]_vars => ServerInv'
    BY ServerStep
<1>3. CloudInv /\ ServerInv => NoLostUpdate /\ RowHasFile /\ PullNotOlder
    BY DEF ServerInv, LockInv, FileInv, FreshInv
<1> QED BY <1>1, <1>2, <1>3, CloudInit, CloudStep, PTL DEF Spec

-------------------------------------------------------------------------------
(* No silent loss *)

\* What is proved from here on: the puts of an account do not overlap, and a
\* device stays with one account, be it that nobody logs out or that there is
\* no other account to log in to.
OneAccountEach == MaxLogouts = 0 \/ \A u, v \in Users : u = v
Calm == MaxWriters = 1 /\ OneAccountEach

\* Device d knows revision r of account u: the row is no older, and if it is
\* that revision, and the file is its package, d has a copy of it.
Known(d, u, r) ==
    /\ r <= slot[u]
    /\ r = slot[u] /\ r # 0 /\ blob[u] = row[u] => row[u] \in Held(d)

\* What is known stays known in a step where every account's row goes on,
\* or its file stays or becomes another than the row's.
Advances(u) ==
    \/ slot'[u] > slot[u]
    \/ /\ slot'[u] = slot[u] /\ row'[u] = row[u]
       /\ blob'[u] = blob[u] \/ blob'[u] # row'[u]

HeldGrows == \A d \in Devices : Held(d) \subseteq Held(d)'

LEMMA KnownKept ==
    ASSUME TypeInv, TypeInv', \A u \in Users : Advances(u), HeldGrows
    PROVE  \A d \in Devices, u \in Users, r \in 0 .. MaxRev : Known(d, u, r) => Known(d, u, r)'
<1> SUFFICES ASSUME NEW d \in Devices, NEW u \in Users, NEW r \in 0 .. MaxRev, Known(d, u, r)
             PROVE  Known(d, u, r)'
    OBVIOUS
<1>1. slot[u] \in Nat /\ slot'[u] \in Nat /\ r \in Nat
    BY SavesApiAssumption DEF TypeInv, ApiTypeOK
<1>2. Advances(u) /\ Held(d) \subseteq Held(d)'
    BY DEF HeldGrows
<1> QED BY <1>1, <1>2 DEF Known, Advances

\* The account of device d: the one it is logged in to, or, logged out, the
\* one there is.
Anyone == CHOOSE u \in Users : TRUE
Home(d) == IF session[d] \in Users THEN session[d] ELSE Anyone

LEMMA HomeKept ==
    ASSUME session' = session
    PROVE  \A d \in Devices : Home(d)' = Home(d)
BY DEF Home

\* A device that is in sync, or about to be, knows the revision it names, and
\* so does one that replaces a revision without asking.
DeviceOK(d) ==
    /\ Home(d) \in Users
    /\ MaxLogouts = 0 => session[d] \in Users
    /\ Known(d, Home(d), synced[d])
    /\ job[d].stage = "queued" => job[d].token \in {Home(d), Absent}
    /\ job[d].stage = "queued" /\ job[d].kind = "push" /\ job[d].agreed = FALSE
           => Known(d, Home(d), job[d].rev)
    /\ job[d].stage = "done" /\ job[d].status = "ok" /\ job[d].kind \in {"push", "pull"}
           => Known(d, Home(d), job[d].got)

\* A put that has not committed yet.
Active(h) == Putting(h) \/ (handler[h].pc = "start" /\ handler[h].op = "put")

\* Its package is new, and its device knows what it replaces.
PutOK(h) ==
    /\ handler[h].content \in Contents
    /\ packer[handler[h].content] = origin[h].dev
    /\ \A u \in Users : row[u] # handler[h].content
    /\ origin[h].agreed = FALSE => Known(origin[h].dev, handler[h].user, Base(h))

\* An answered download is what the row says, as long as the row says it.
Shown(h) ==
    /\ handler[h].rev <= slot[handler[h].user]
    /\ handler[h].rev = slot[handler[h].user] /\ blob[handler[h].user] = row[handler[h].user]
           => handler[h].data = row[handler[h].user]

\* A request is one of its device's account.
RequestOK(h) ==
    /\ handler[h].pc # "idle" =>
           origin[h].dev \in Devices /\ handler[h].user = Home(origin[h].dev)
    /\ Active(h) => PutOK(h)
    /\ handler[h].pc = "replied" /\ handler[h].status = "ok" =>
           /\ handler[h].op = "put" => Known(origin[h].dev, handler[h].user, handler[h].rev)
           /\ handler[h].op = "pull" => Shown(h)

\* No two puts bring the same package.
OwnPackages ==
    \A g, h \in Handlers : Active(g) /\ Active(h) /\ handler[g].content = handler[h].content => g = h

RowOK(u) ==
    /\ slot[u] = 0 => row[u] = Absent
    /\ row[u] \in Contents => packer[row[u]] # Absent

SavedInv ==
    /\ \A d \in Devices : DeviceOK(d)
    /\ \A h \in Handlers : RequestOK(h)
    /\ OwnPackages
    /\ \A u \in Users : RowOK(u)

\* The packages that are made keep their maker.
PackersStay == \A c \in Contents : packer[c] # Absent => packer'[c] = packer[c]

LEMMA DeviceKept ==
    ASSUME CloudInv, CloudInv', \A u \in Users : Advances(u), HeldGrows, session' = session,
           NEW e \in Devices, DeviceOK(e), job'[e] = job[e], synced'[e] = synced[e]
    PROVE  DeviceOK(e)'
<1>1. \A d \in Devices, u \in Users, r \in 0 .. MaxRev : Known(d, u, r) => Known(d, u, r)'
    BY KnownKept DEF CloudInv
<1>2. /\ Home(e) \in Users /\ synced[e] \in 0 .. MaxRev
      /\ job[e].rev \in 0 .. MaxRev /\ job[e].got \in 0 .. MaxRev
    BY DEF DeviceOK, CloudInv, ScreenTypes, JobTyped, JobType
<1> QED BY <1>1, <1>2, HomeKept DEF DeviceOK, Known

LEMMA RequestKept ==
    ASSUME CloudInv, CloudInv', \A u \in Users : Advances(u), HeldGrows, PackersStay,
           session' = session,
           NEW g \in Handlers, RequestOK(g), handler'[g] = handler[g], origin'[g] = origin[g],
           Active(g) => \A u \in Users : row'[u] # handler[g].content
    PROVE  RequestOK(g)'
<1>1. \A d \in Devices, u \in Users, r \in 0 .. MaxRev : Known(d, u, r) => Known(d, u, r)'
    BY KnownKept DEF CloudInv
<1>2. CASE handler[g].pc = "idle"
    BY <1>2 DEF RequestOK, Active, Putting
<1>3. CASE handler[g].pc # "idle"
    <2>1. /\ origin[g].dev \in Devices /\ handler[g].user = Home(origin[g].dev)
          /\ handler[g].user \in Users /\ handler[g].rev \in 0 .. MaxRev
          /\ Base(g) \in 0 .. MaxRev /\ Base(g)' = Base(g) /\ (Active(g)' => Active(g))
        BY <1>3, SavesApiAssumption
           DEF RequestOK, CloudInv, TypeInv, HandlerInv, ApiTypeOK, Base, Active, Putting, NoRev
    <2>2. Active(g) => PutOK(g)'
        <3>1. SUFFICES ASSUME Active(g) PROVE PutOK(g)'
            OBVIOUS
        <3>2. PutOK(g)
            BY <3>1 DEF RequestOK
        <3>3. packer[handler[g].content] # Absent
            BY <2>1, <3>2, CloudSavesAssumption DEF PutOK
        <3>4. packer'[handler[g].content] = origin[g].dev
            BY <3>2, <3>3 DEF PutOK, PackersStay
        <3> QED BY <1>1, <2>1, <3>1, <3>2, <3>4 DEF PutOK, Known, Base
    <2>3. Shown(g) => Shown(g)'
        <3>1. /\ slot[handler[g].user] \in Nat /\ slot'[handler[g].user] \in Nat
              /\ handler[g].rev \in Nat
            BY <2>1, SavesApiAssumption DEF CloudInv, TypeInv, ApiTypeOK
        <3>2. Advances(handler[g].user)
            BY <2>1
        <3> QED BY <3>1, <3>2 DEF Shown, Advances
    <2>4. Known(origin[g].dev, handler[g].user, handler[g].rev)
              => Known(origin[g].dev, handler[g].user, handler[g].rev)'
        BY <1>1, <2>1 DEF Known
    <2>5. handler'[g].pc = "replied" /\ handler'[g].status = "ok" =>
              /\ handler'[g].op = "put" => Known(origin[g].dev, handler[g].user, handler[g].rev)'
              /\ handler'[g].op = "pull" => Shown(g)'
        BY <2>3, <2>4 DEF RequestOK
    <2>6. origin'[g].dev \in Devices /\ handler'[g].user = Home(origin[g].dev)'
        BY <2>1, HomeKept DEF Home
    <2>7. Active(g)' => PutOK(g)'
        BY <2>1, <2>2
    <2> QED BY <2>5, <2>6, <2>7 DEF RequestOK
<1> QED BY <1>2, <1>3

\* A step that changes no row and no file, and takes no copy away.
LEMMA NothingMoves ==
    ASSUME UNCHANGED <<slot, blob, row, packer>>,
           \A d \in Devices : pulled[d] \subseteq pulled'[d]
    PROVE  (\A u \in Users : Advances(u)) /\ HeldGrows /\ PackersStay
BY DEF Advances, HeldGrows, PackersStay, Held

LEMMA ScreenSaved ==
    ASSUME CloudInv, CloudInv', SavedInv, NEW d \in Devices,
           UNCHANGED <<apiVars, Account, pulled, packer, origin>>,
           JobsStay(d), \A e \in Devices \ {d} : synced'[e] = synced[e], DeviceOK(d)'
    PROVE  SavedInv'
<1>1. /\ UNCHANGED <<slot, blob, row, packer, handler, session, origin, pulled>>
    BY DEF apiVars, Account
<1>2. (\A u \in Users : Advances(u)) /\ HeldGrows /\ PackersStay
    BY <1>1, NothingMoves
<1>3. ASSUME NEW e \in Devices PROVE DeviceOK(e)'
    BY <1>1, <1>2, DeviceKept DEF SavedInv, JobsStay
<1>4. ASSUME NEW g \in Handlers PROVE RequestOK(g)'
    <2>1. Active(g) => \A u \in Users : row'[u] # handler[g].content
        BY <1>1 DEF SavedInv, RequestOK, PutOK
    <2> QED BY <1>1, <1>2, <2>1, RequestKept DEF SavedInv
<1>5. OwnPackages' /\ \A u \in Users : RowOK(u)'
    BY <1>1 DEF SavedInv, OwnPackages, Active, Putting, RowOK
<1> QED BY <1>3, <1>4, <1>5 DEF SavedInv

LEMMA EmptySaved ==
    ASSUME CloudInv, CloudInv', SavedInv, NEW h \in Handlers, EmptyHandler(h),
           UNCHANGED <<session, packer>>, \A e \in Devices : pulled[e] \subseteq pulled'[e],
           \A e \in Devices : DeviceOK(e)'
    PROVE  SavedInv'
<1>1. UNCHANGED <<slot, blob, row>> /\ OthersStay(h) /\ OriginsStay(h) /\ handler'[h].pc = "idle"
    BY Emptied DEF EmptyHandler
<1>2. (\A u \in Users : Advances(u)) /\ HeldGrows /\ PackersStay
    BY <1>1, NothingMoves
<1>3. ASSUME NEW g \in Handlers PROVE RequestOK(g)'
    <2>1. CASE g = h
        BY <1>1, <2>1 DEF RequestOK, Active, Putting
    <2>2. CASE g # h
        <3>1. handler'[g] = handler[g] /\ origin'[g] = origin[g]
            BY <1>1, <2>2 DEF OthersStay, OriginsStay
        <3>2. Active(g) => \A u \in Users : row'[u] # handler[g].content
            BY <1>1 DEF SavedInv, RequestOK, PutOK
        <3> QED BY <1>2, <3>1, <3>2, RequestKept DEF SavedInv
    <2> QED BY <2>1, <2>2
<1>4. OwnPackages'
    <2>1. \A g \in Handlers : Active(g)' => g # h /\ Active(g) /\ handler'[g] = handler[g]
        BY <1>1 DEF Active, Putting, OthersStay
    <2> QED BY <2>1 DEF SavedInv, OwnPackages
<1>5. \A u \in Users : RowOK(u)'
    BY <1>1 DEF SavedInv, RowOK
<1> QED BY <1>3, <1>4, <1>5 DEF SavedInv

\* What a device knows of a revision it knows of the ones before.
LEMMA KnownLess ==
    ASSUME TypeInv
    PROVE  \A d \in Devices, u \in Users, r, s \in 0 .. MaxRev :
               s <= r /\ Known(d, u, r) => Known(d, u, s)
<1> SUFFICES ASSUME NEW d \in Devices, NEW u \in Users, NEW r \in 0 .. MaxRev, NEW s \in 0 .. MaxRev,
                    s <= r, Known(d, u, r)
             PROVE  Known(d, u, s)
    OBVIOUS
<1>1. slot[u] \in Nat /\ r \in Nat /\ s \in Nat
    BY SavesApiAssumption DEF TypeInv, ApiTypeOK
<1>2. CASE s = r
    BY <1>2
<1>3. CASE s # r
    BY <1>1, <1>3 DEF Known
<1> QED BY <1>2, <1>3

\* The screen's steps: what a dispatch, a release or the end of an operation
\* must know.
LEMMA DispatchSaved ==
    ASSUME CloudInv, SavedInv, NEW d \in Devices, NEW kind \in {"status", "push", "pull"},
           NEW rev \in 0 .. MaxRev, NEW agreed \in BOOLEAN, Dispatch(d, kind, rev, agreed),
           UNCHANGED <<apiVars, Account, pulled, packer>>,
           Known(d, Home(d), synced'[d]),
           kind = "push" /\ agreed = FALSE => Known(d, Home(d), rev)
    PROVE  JobsStay(d) /\ DeviceOK(d)'
<1>1. JobTyped /\ Home(d) \in Users /\ (MaxLogouts = 0 => session[d] \in Users)
      /\ session[d] \in Users \cup {Absent}
    BY DEF CloudInv, SavedInv, DeviceOK, AccountTypes
<1>2. /\ JobsStay(d)
      /\ job'[d].kind = kind /\ job'[d].stage = "queued" /\ job'[d].token = session[d]
      /\ job'[d].rev = rev /\ job'[d].agreed = agreed
    BY <1>1, DispatchEffect
<1>3. UNCHANGED <<slot, blob, row, session, pulled, packer>>
    BY DEF apiVars, Account
<1>4. Home(d)' = Home(d) /\ session[d] \in {Home(d), Absent}
    BY <1>1, <1>3 DEF Home
<1> QED BY <1>1, <1>2, <1>3, <1>4 DEF DeviceOK, Known, Held

LEMMA ReleaseSaved ==
    ASSUME CloudInv, SavedInv, NEW d \in Devices, Release(d),
           UNCHANGED <<slot, blob, row, session, pulled, packer>>,
           Known(d, Home(d), synced'[d])
    PROVE  JobsStay(d) /\ DeviceOK(d)'
<1>1. JobTyped /\ Home(d) \in Users /\ (MaxLogouts = 0 => session[d] \in Users)
    BY DEF CloudInv, SavedInv, DeviceOK
<1>2. JobsStay(d) /\ job'[d].stage = "none"
    BY <1>1, ReleaseEffect
<1> QED BY <1>1, <1>2, HomeKept DEF DeviceOK, Known, Held

LEMMA FinishSaved ==
    ASSUME CloudInv, SavedInv, NEW d \in Devices,
           NEW status \in {"ok", "missing", "conflict", "error", "none"}, NEW got \in 0 .. MaxRev,
           Finish(d, status, got), UNCHANGED <<slot, blob, row, session, packer, synced>>,
           \A e \in Devices : pulled[e] \subseteq pulled'[e],
           status = "ok" /\ job[d].kind \in {"push", "pull"} => Known(d, Home(d), got)'
    PROVE  JobsStay(d) /\ DeviceOK(d)'
<1>1. JobTyped /\ Home(d) \in Users /\ Known(d, Home(d), synced[d])
      /\ (MaxLogouts = 0 => session[d] \in Users)
    BY DEF CloudInv, SavedInv, DeviceOK
<1>2. /\ JobsStay(d)
      /\ job'[d].kind = job[d].kind /\ job'[d].stage = "done"
      /\ job'[d].status = status /\ job'[d].got = got
    BY <1>1, FinishEffect
<1>4. session' = session /\ Home(d)' = Home(d)
    BY HomeKept
<1>3. Known(d, Home(d), synced[d])'
    BY <1>1, <1>4 DEF Known, Held
<1>5. status = "ok" /\ job[d].kind \in {"push", "pull"} => Known(d, Home(d), job[d].got)'
    BY <1>2
<1> QED BY <1>1, <1>2, <1>3, <1>4, <1>5 DEF DeviceOK

LEMMA TapSaved ==
    ASSUME CloudInv, CloudInv', SavedInv, NEW d \in Devices, TapUpload(d) \/ TapDownload(d)
    PROVE  SavedInv'
<1>1. PICK kind \in {"status", "pull"} : Dispatch(d, kind, 0, FALSE)
    BY DEF TapUpload, TapDownload, StartDownload
<1>2. UNCHANGED <<apiVars, Account, pulled, packer, origin>> /\ synced' = synced
    BY DEF TapUpload, TapDownload, OffScreen
<1>3. 0 \in 0 .. MaxRev /\ FALSE \in BOOLEAN /\ Known(d, Home(d), synced'[d])
    BY <1>2, SavesApiAssumption DEF SavedInv, DeviceOK
<1>4. JobsStay(d) /\ DeviceOK(d)'
    BY <1>1, <1>2, <1>3, DispatchSaved
<1> QED BY <1>2, <1>4, ScreenSaved

LEMMA DialogSaved ==
    ASSUME CloudInv, CloudInv', SavedInv, NEW d \in Devices,
           SendMine(d) \/ KeepCloud(d) \/ DismissDialog(d)
    PROVE  SavedInv'
<1>1. UNCHANGED <<apiVars, Account, pulled, packer, origin>> /\ synced' = synced
    BY DEF SendMine, KeepCloud, DismissDialog, OffScreen
<1>2. DeviceOK(d) /\ Known(d, Home(d), synced'[d])
    BY <1>1 DEF SavedInv, DeviceOK
<1>3. 0 \in 0 .. MaxRev /\ FALSE \in BOOLEAN /\ TRUE \in BOOLEAN
    BY SavesApiAssumption
<1>4. JobsStay(d) /\ DeviceOK(d)'
    <2>1. CASE job' = job
        <3>1. UNCHANGED <<slot, blob, row, session, pulled, packer, synced>>
            BY <1>1 DEF apiVars, Account
        <3> QED BY <1>2, <2>1, <3>1, HomeKept DEF DeviceOK, Known, Held, JobsStay
    <2>2. CASE SendMine(d)
        <3>1. dialog[d] \in 0 .. MaxRev
            BY <2>2, SavesApiAssumption DEF SendMine, CloudInv, ScreenTypes, NoDialog, NoRev
        <3>2. Dispatch(d, "push", dialog[d], TRUE)
            BY <2>2 DEF SendMine
        <3>3. ~("push" = "push" /\ TRUE = FALSE)
            OBVIOUS
        <3> QED BY <1>1, <1>2, <1>3, <3>1, <3>2, <3>3, DispatchSaved
    <2>3. CASE StartDownload(d)
        <3>1. Dispatch(d, "pull", 0, FALSE)
            BY <2>3 DEF StartDownload
        <3> QED BY <1>1, <1>2, <1>3, <3>1, DispatchSaved
    <2> QED BY <2>1, <2>2, <2>3 DEF KeepCloud, DismissDialog
<1> QED BY <1>1, <1>4, ScreenSaved

\* An upload that goes on unasked replaces a revision that is not above the
\* synced one, so one the device knows.
LEMMA StatusSaved ==
    ASSUME CloudInv, CloudInv', SavedInv, NEW d \in Devices, StatusDone(d)
    PROVE  SavedInv'
<1> DEFINE situation == classify(job[d].got, synced[d])
           plan == plan_push(situation, job[d].got)
<1>1. UNCHANGED <<apiVars, Account, pulled, packer, origin>> /\ synced' = synced
    BY DEF StatusDone, OffScreen
<1>2. DeviceOK(d) /\ Known(d, Home(d), synced'[d]) /\ Home(d) \in Users
    BY <1>1 DEF SavedInv, DeviceOK
<1>3. 0 \in 0 .. MaxRev /\ FALSE \in BOOLEAN /\ job[d].got \in 0 .. MaxRev /\ synced[d] \in 0 .. MaxRev
    BY SavesApiAssumption DEF CloudInv, JobTyped, JobType, ScreenTypes
<1>4. /\ plan.revision = (IF situation = "NoCloud" THEN 0 ELSE job[d].got)
      /\ plan.isConflict = (situation = "CloudAhead")
    BY <1>3, SavesApiAssumption, PlanPush
<1>5. situation # "CloudAhead" => plan.revision \in 0 .. MaxRev /\ plan.revision <= synced[d]
    BY <1>3, <1>4, SavesApiAssumption DEF classify
<1> HIDE DEF plan, situation
<1>6. /\ Release(d) \/ Dispatch(d, "push", plan.revision, FALSE)
      /\ ~Release(d) => ~plan.isConflict
    BY DEF StatusDone, plan, situation
<1>7. JobsStay(d) /\ DeviceOK(d)'
    <2>1. CASE Release(d)
        BY <1>1, <1>2, <2>1, ReleaseSaved DEF apiVars, Account
    <2>2. CASE ~Release(d)
        <3>1. plan.revision \in 0 .. MaxRev /\ plan.revision <= synced[d]
            BY <1>4, <1>5, <1>6, <2>2
        <3>2. Known(d, Home(d), plan.revision)
            BY <1>1, <1>2, <1>3, <3>1, KnownLess DEF CloudInv
        <3> QED BY <1>1, <1>2, <1>3, <1>6, <2>2, <3>1, <3>2, DispatchSaved
    <2> QED BY <2>1, <2>2
<1> QED BY <1>1, <1>7, ScreenSaved

\* The revision an operation reports is one the device knows.
LEMMA EndSaved ==
    ASSUME CloudInv, CloudInv', SavedInv, NEW d \in Devices, PushDone(d) \/ DownloadDone(d)
    PROVE  SavedInv'
<1>1. /\ UNCHANGED <<apiVars, Account, pulled, packer, origin>>
      /\ IF job[d].status = "ok" THEN SaveSynced(d) ELSE synced' = synced
      /\ job[d].stage = "done" /\ job[d].kind \in {"push", "pull"}
      /\ Release(d) \/ Dispatch(d, "status", 0, FALSE)
    BY DEF PushDone, DownloadDone, Finished
<1>2. DeviceOK(d)
    BY DEF SavedInv
<1>3. 0 \in 0 .. MaxRev /\ FALSE \in BOOLEAN /\ synced \in [Devices -> 0 .. MaxRev]
    BY SavesApiAssumption DEF CloudInv, ScreenTypes
<1>4. /\ \A e \in Devices \ {d} : synced'[e] = synced[e]
      /\ synced'[d] = (IF job[d].status = "ok" THEN job[d].got ELSE synced[d])
    BY <1>1, <1>3 DEF SaveSynced
<1>5. Known(d, Home(d), synced'[d])
    BY <1>1, <1>2, <1>4 DEF DeviceOK
<1>6. JobsStay(d) /\ DeviceOK(d)'
    <2>1. CASE Release(d)
        BY <1>1, <1>5, <2>1, ReleaseSaved DEF apiVars, Account
    <2>2. CASE Dispatch(d, "status", 0, FALSE)
        BY <1>1, <1>3, <1>5, <2>2, DispatchSaved
    <2> QED BY <1>1, <2>1, <2>2
<1> QED BY <1>1, <1>4, <1>6, ScreenSaved

\* A torn file of synced revisions reads as a lower one.
LEMMA CrashSaved ==
    ASSUME CloudInv, CloudInv', SavedInv, NEW d \in Devices, CrashInSave(d)
    PROVE  SavedInv'
<1>1. PICK r \in 0 .. job[d].got : synced' = [synced EXCEPT ![d] = r]
    BY DEF CrashInSave
<1>2. /\ UNCHANGED <<apiVars, Account, pulled, packer, origin>> /\ Release(d)
      /\ job[d].stage = "done" /\ job[d].status = "ok" /\ job[d].kind \in {"push", "pull"}
    BY DEF CrashInSave, FreshScreen
<1>3. Known(d, Home(d), job[d].got) /\ Home(d) \in Users
    BY <1>2 DEF SavedInv, DeviceOK
<1>4. synced \in [Devices -> 0 .. MaxRev] /\ job[d].got \in 0 .. MaxRev
    BY DEF CloudInv, ScreenTypes, JobTyped, JobType
<1>5. r \in 0 .. MaxRev /\ r <= job[d].got
    BY <1>4, SavesApiAssumption
<1>6. synced'[d] = r /\ \A e \in Devices \ {d} : synced'[e] = synced[e]
    BY <1>1, <1>4
<1>7. Known(d, Home(d), synced'[d])
    BY <1>3, <1>4, <1>5, <1>6, KnownLess DEF CloudInv
<1>8. JobsStay(d) /\ DeviceOK(d)'
    BY <1>2, <1>7, ReleaseSaved DEF apiVars, Account
<1> QED BY <1>2, <1>6, <1>8, ScreenSaved

\* What is abandoned leaves the handlers of the others.
LEMMA AbandonSaved ==
    ASSUME CloudInv, CloudInv', SavedInv, NEW d \in Devices, Abandon(d),
           UNCHANGED <<Account, synced, pulled, packer>>, JobsStay(d), DeviceOK(d)'
    PROVE  SavedInv'
<1>1. CASE UNCHANGED <<apiVars, origin>>
    BY <1>1, ScreenSaved
<1>2. CASE job[d].h \in Handlers /\ EmptyHandler(job[d].h)
    <2>1. UNCHANGED <<slot, blob, row, packer, session, pulled>>
        BY <1>2 DEF EmptyHandler, Account
    <2>2. (\A u \in Users : Advances(u)) /\ HeldGrows
        BY <2>1, NothingMoves
    <2>3. ASSUME NEW e \in Devices PROVE DeviceOK(e)'
        BY <2>1, <2>2, DeviceKept DEF SavedInv, JobsStay
    <2> QED BY <1>2, <2>1, <2>3, EmptySaved
<1> QED BY <1>1, <1>2, AbandonEffect

LEMMA LeaveSaved ==
    ASSUME CloudInv, CloudInv', SavedInv, NEW d \in Devices, LeaveActivity(d)
    PROVE  SavedInv'
<1>1. Release(d) /\ Abandon(d) /\ UNCHANGED <<Account, synced, pulled, packer>>
    BY DEF LeaveActivity, FreshScreen
<1>2. UNCHANGED <<slot, blob, row, session, pulled, packer>>
    BY <1>1, AbandonEffect DEF EmptyHandler, apiVars, Account
<1>3. Known(d, Home(d), synced'[d])
    BY <1>1 DEF SavedInv, DeviceOK
<1>4. JobsStay(d) /\ DeviceOK(d)'
    BY <1>1, <1>2, <1>3, ReleaseSaved
<1> QED BY <1>1, <1>4, AbandonSaved

LEMMA LostSaved ==
    ASSUME CloudInv, CloudInv', SavedInv, NEW d \in Devices, Lost(d)
    PROVE  SavedInv'
<1>1. Finish(d, "error", 0) /\ Abandon(d) /\ UNCHANGED <<Account, synced, pulled, packer>>
    BY DEF Lost
<1>2. UNCHANGED <<slot, blob, row, session, packer, synced, pulled>>
    BY <1>1, AbandonEffect DEF EmptyHandler, apiVars, Account
<1>3. 0 \in 0 .. MaxRev
    BY SavesApiAssumption
<1>4. JobsStay(d) /\ DeviceOK(d)'
    BY <1>1, <1>2, <1>3, FinishSaved
<1> QED BY <1>1, <1>4, AbandonSaved

\* An upload that is answered ok is the device's own package, a download
\* that was imported is a copy.
LEMMA DeliverSaved ==
    ASSUME CloudInv, CloudInv', SavedInv, NEW d \in Devices, Deliver(d)
    PROVE  SavedInv'
<1> DEFINE h == job[d].h
<1>1. /\ job[d].stage = "sent" /\ h \in Handlers /\ EmptyHandler(h) /\ handler[h].pc = "replied"
      /\ UNCHANGED <<slot, blob, row, session, synced, packer>>
    BY DeliverEffect DEF EmptyHandler, Account
<1>2. PICK imported \in BOOLEAN, status \in {"ok", "missing", "conflict", "error", "none"} :
          /\ Finish(d, status, handler[h].rev)
          /\ status = "ok" => handler[h].status = "ok" /\ (job[d].kind = "pull" => imported)
          /\ imported => /\ handler[h].data \in Contents
                         /\ pulled' = [pulled EXCEPT ![d] = @ \cup {handler[h].data}]
          /\ ~imported => pulled' = pulled
    BY DeliverEffect
<1>3. /\ pulled \in [Devices -> SUBSET Contents]
      /\ handler[h].rev \in 0 .. MaxRev
      /\ handler[h].op = (IF job[d].kind = "push" THEN "put" ELSE job[d].kind)
      /\ origin[h].dev = d
    BY <1>1 DEF CloudInv, HistoryTypes, TypeInv, ApiTypeOK, JobOK
<1>4. \A e \in Devices : pulled[e] \subseteq pulled'[e]
    BY <1>2, <1>3
<1>5. RequestOK(h) /\ handler[h].user = Home(d)
    BY <1>1, <1>3 DEF SavedInv, RequestOK
<1>r. PICK rev \in 0 .. MaxRev : rev = handler[h].rev
    BY <1>3
<1>6. status = "ok" /\ job[d].kind \in {"push", "pull"} => Known(d, Home(d), rev)'
    <2> SUFFICES ASSUME status = "ok", job[d].kind \in {"push", "pull"}
                 PROVE  /\ rev <= slot[Home(d)]
                        /\ rev = slot[Home(d)] /\ rev # 0 /\ blob[Home(d)] = row[Home(d)]
                           => row[Home(d)] \in Held(d)'
        BY <1>1, HomeKept DEF Known
    <2>1. handler[h].status = "ok"
        BY <1>2
    <2>2. CASE job[d].kind = "push"
        <3>1. Known(d, Home(d), rev)
            BY <1>1, <1>3, <1>5, <1>r, <2>1, <2>2 DEF RequestOK
        <3>2. Held(d) \subseteq Held(d)'
            BY <1>1, <1>4 DEF Held
        <3> QED BY <3>1, <3>2 DEF Known
    <2>3. CASE job[d].kind = "pull"
        <3>1. Shown(h)
            BY <1>1, <1>3, <1>5, <2>1, <2>3 DEF RequestOK
        <3>2. handler[h].data \in Held(d)'
            BY <1>2, <1>3, <2>3 DEF Held
        <3> QED BY <1>5, <1>r, <3>1, <3>2 DEF Shown
    <2> QED BY <2>2, <2>3
<1>7. JobsStay(d) /\ DeviceOK(d)'
    <2>1. Finish(d, status, rev)
        BY <1>2, <1>r
    <2> QED BY <1>1, <1>4, <1>6, <2>1, FinishSaved
<1>8. (\A u \in Users : Advances(u)) /\ HeldGrows
    BY <1>1, <1>4, NothingMoves
<1>9. ASSUME NEW e \in Devices PROVE DeviceOK(e)'
    BY <1>1, <1>7, <1>8, DeviceKept DEF SavedInv, JobsStay
<1> QED BY <1>1, <1>4, <1>9, EmptySaved

LEMMA DiscardSaved ==
    ASSUME CloudInv, CloudInv', SavedInv, NEW h \in Handlers, Discard(h)
    PROVE  SavedInv'
<1>1. EmptyHandler(h) /\ UNCHANGED <<slot, blob, row, session, synced, job, pulled, packer>>
    BY DEF Discard, Answer, EmptyHandler, Account
<1>2. (\A u \in Users : Advances(u)) /\ HeldGrows
    BY <1>1, NothingMoves
<1>3. ASSUME NEW e \in Devices PROVE DeviceOK(e)'
    BY <1>1, <1>2, DeviceKept DEF SavedInv
<1> QED BY <1>1, <1>3, EmptySaved

\* A push packages a save nobody else has.
LEMMA SendSaved ==
    ASSUME CloudInv, CloudInv', SavedInv, NEW d \in Devices, Send(d)
    PROVE  SavedInv'
<1>1. PICK h \in Handlers, c \in Contents \cup {Absent} :
              /\ job[d].stage = "queued" /\ job[d].token \in Users
              /\ handler[h].pc = "idle" /\ OthersStay(h) /\ OriginsStay(h)
              /\ handler'[h].pc = "start" /\ handler'[h].user = job[d].token
              /\ handler'[h].op = (IF job[d].kind = "push" THEN "put" ELSE job[d].kind)
              /\ handler'[h].expected = (IF job[d].kind = "push" THEN job[d].rev ELSE NoRev)
              /\ handler'[h].content = c
              /\ JobsStay(d) /\ job'[d].stage = "sent"
              /\ origin'[h] = [dev |-> d, agreed |-> job[d].agreed]
              /\ IF job[d].kind = "push"
                 THEN c \in Contents /\ packer[c] = Absent /\ packer' = [packer EXCEPT ![c] = d]
                 ELSE c = Absent /\ packer' = packer
              /\ UNCHANGED <<Account, synced, pulled, slot, blob, row>>
    BY SendEffect
<1>2. session' = session /\ packer \in [Contents -> Devices \cup {Absent}] /\ Home(d)' = Home(d)
    BY <1>1, HomeKept DEF Account, CloudInv, HistoryTypes
<1>3. DeviceOK(d) /\ job[d].token = Home(d) /\ job[d].rev \in 0 .. MaxRev
    BY <1>1, SavesApiAssumption DEF SavedInv, DeviceOK, CloudInv, JobTyped, JobType
<1>4. PackersStay
    BY <1>1, <1>2 DEF PackersStay
<1>5. HeldGrows
    BY <1>1, <1>2, <1>4, CloudSavesAssumption DEF HeldGrows, Held, PackersStay
<1>6. \A u \in Users : Advances(u)
    BY <1>1 DEF Advances
<1>7. ASSUME NEW e \in Devices PROVE DeviceOK(e)'
    <2>1. CASE e = d
        <3>1. Known(d, Home(d), synced[d])'
            <4>1. Held(d) \subseteq Held(d)'
                BY <1>5 DEF HeldGrows
            <4> QED BY <1>1, <1>2, <1>3, <4>1 DEF DeviceOK, Known
        <3> QED BY <1>1, <1>2, <1>3, <2>1, <3>1 DEF DeviceOK
    <2>2. CASE e # d
        BY <1>1, <1>2, <1>5, <1>6, <2>2, DeviceKept DEF SavedInv, JobsStay
    <2> QED BY <2>1, <2>2
<1>8. RequestOK(h)'
    <2>1. /\ origin'[h].dev = d /\ origin'[h].agreed = job[d].agreed
          /\ handler'[h].user = Home(d)' /\ d \in Devices
        BY <1>1, <1>2, <1>3
    <2>2. ASSUME Active(h)'
          PROVE  PutOK(h)'
        <3>1. job[d].kind = "push"
            BY <1>1, <2>2, CloudSavesAssumption DEF Active, Putting, CloudInv, JobOK
        <3>2. c \in Contents /\ packer[c] = Absent /\ packer'[c] = d
            BY <1>1, <1>2, <3>1
        <3>3. \A u \in Users : row'[u] # c
            BY <1>1, <3>2 DEF SavedInv, RowOK
        <3>4. Base(h)' = job[d].rev
            BY <1>1, <1>3, <3>1, SavesApiAssumption DEF Base, NoRev
        <3>5. job[d].agreed = FALSE => Known(d, Home(d), job[d].rev)
            BY <1>1, <1>3, <3>1 DEF DeviceOK
        <3>6. job[d].agreed = FALSE => Known(origin[h].dev, handler[h].user, Base(h))'
            <4>1. Held(d) \subseteq Held(d)'
                BY <1>5 DEF HeldGrows
            <4>2. UNCHANGED <<slot, blob, row>> /\ handler'[h].user = Home(d)
                BY <1>1, <1>3
            <4>3. job[d].agreed = FALSE =>
                    /\ Base(h)' <= slot'[handler'[h].user]
                    /\ Base(h)' = slot'[handler'[h].user] /\ Base(h)' # 0
                          /\ blob'[handler'[h].user] = row'[handler'[h].user]
                       => row'[handler'[h].user] \in Held(d)'
                BY <3>4, <3>5, <4>1, <4>2 DEF Known
            <4> QED BY <2>1, <4>3 DEF Known, Held
        <3> QED BY <1>1, <2>1, <3>2, <3>3, <3>6 DEF PutOK
    <2>3. handler'[h].pc # "replied"
        BY <1>1
    <2> QED BY <2>1, <2>2, <2>3 DEF RequestOK
<1>9. ASSUME NEW g \in Handlers PROVE RequestOK(g)'
    <2>1. CASE g = h
        BY <1>8, <2>1
    <2>2. CASE g # h
        <3>1. handler'[g] = handler[g] /\ origin'[g] = origin[g]
            BY <1>1, <2>2 DEF OthersStay, OriginsStay
        <3>2. Active(g) => \A u \in Users : row'[u] # handler[g].content
            BY <1>1 DEF SavedInv, RequestOK, PutOK
        <3> QED BY <1>2, <1>4, <1>5, <1>6, <3>1, <3>2, RequestKept DEF SavedInv
    <2> QED BY <2>1, <2>2
<1>10. OwnPackages'
    <2>1. ASSUME NEW g \in Handlers, g # h, Active(g)'
          PROVE  Active(g) /\ handler'[g] = handler[g] /\ packer[handler[g].content] # Absent
        <3>1. Active(g) /\ handler'[g] = handler[g]
            BY <1>1, <2>1 DEF Active, Putting, OthersStay
        <3>2. RequestOK(g) /\ handler[g].pc # "idle"
            BY <3>1 DEF SavedInv, Active, Putting
        <3> QED BY <3>1, <3>2, CloudSavesAssumption DEF RequestOK, PutOK
    <2>2. Active(h)' => packer[handler'[h].content] = Absent
        <3>1. Active(h)' => job[d].kind = "push"
            BY <1>1, CloudSavesAssumption DEF Active, Putting, CloudInv, JobOK
        <3> QED BY <1>1, <3>1
    <2> SUFFICES ASSUME NEW f \in Handlers, NEW g \in Handlers, Active(f)', Active(g)',
                        handler'[f].content = handler'[g].content, f # g
                 PROVE  FALSE
        BY DEF OwnPackages
    <2>3. CASE f = h
        BY <2>1, <2>2, <2>3
    <2>4. CASE g = h
        BY <2>1, <2>2, <2>4
    <2>5. CASE f # h /\ g # h
        BY <2>1, <2>5 DEF SavedInv, OwnPackages
    <2> QED BY <2>3, <2>4, <2>5
<1>11. ASSUME NEW u \in Users PROVE RowOK(u)'
    BY <1>1, <1>4 DEF SavedInv, RowOK, PackersStay
<1> QED BY <1>7, <1>9, <1>10, <1>11 DEF SavedInv

\* A commit is the next revision of the row.
LEMMA CommitIsNext ==
    ASSUME CloudInv, LockInv, NEW h \in Handlers, Commits(h)
    PROVE  NextRevision(h) = slot[handler[h].user] + 1
BY DEF LockInv, ReadIsCurrent, Commits, NextRevision

\* A put in progress writes another package than the row's, and a commit
\* makes the next revision of it: what is known stays known.
LEMMA ServeAdvances ==
    ASSUME CloudInv, SavedInv, LockInv, NEW h \in Handlers, HandlerStep(h)
    PROVE  \A u \in Users : Advances(u)
<1>1. Served1(h) /\ (Reads(h) \/ Writes(h) \/ Commits(h))
    BY ServeEffect
<1>2. CASE Reads(h)
    BY <1>2 DEF Reads, Advances
<1>3. CASE Writes(h)
    <2>1. PutOK(h) /\ handler[h].user \in Users
        BY <1>3 DEF Writes, SavedInv, RequestOK, Active, CloudInv, TypeInv, HandlerInv, Putting
    <2>2. /\ blob \in [Users -> Contents \cup {Absent, Torn}]
          /\ row[handler[h].user] \in Contents \cup {Absent}
        BY <2>1 DEF CloudInv, TypeInv, ApiTypeOK
    <2>3. row[handler[h].user] # handler[h].content /\ row[handler[h].user] # Torn
        BY <2>1, <2>2, SavesApiAssumption DEF PutOK
    <2>4. PICK data : blob' = [blob EXCEPT ![handler[h].user] = data]
        BY <1>3 DEF Writes
    <2>5. \A u \in Users : u # handler[h].user => blob'[u] = blob[u]
        BY <2>2, <2>4
    <2>6. UNCHANGED <<slot, row>> /\ blob'[handler[h].user] \in {handler[h].content, Torn}
        BY <1>3 DEF Writes
    <2> QED BY <2>3, <2>5, <2>6 DEF Advances
<1>4. CASE Commits(h)
    <2>1. handler[h].user \in Users /\ slot \in [Users -> 0 .. MaxRev] /\ row \in [Users -> Contents \cup {Absent}]
        BY <1>4 DEF Commits, CloudInv, TypeInv, HandlerInv, ApiTypeOK, Putting
    <2>2. /\ slot' = [slot EXCEPT ![handler[h].user] = slot[handler[h].user] + 1]
          /\ row' = [row EXCEPT ![handler[h].user] = handler[h].content]
          /\ blob' = blob
        BY <1>4, CommitIsNext DEF Commits
    <2>3. \A u \in Users : IF u = handler[h].user THEN slot'[u] = slot[u] + 1
                           ELSE slot'[u] = slot[u] /\ row'[u] = row[u]
        BY <2>1, <2>2
    <2>4. \A u \in Users : slot[u] \in Nat
        BY <2>1, SavesApiAssumption
    <2> QED BY <2>2, <2>3, <2>4 DEF Advances
<1> QED BY <1>1, <1>2, <1>3, <1>4

\* The handler that takes the step keeps its word.
LEMMA ServeRequest ==
    ASSUME CloudInv, CloudInv', SavedInv, LockInv, FreshInv, NEW h \in Handlers, HandlerStep(h),
           UNCHANGED <<session, packer, pulled, origin>>
    PROVE  RequestOK(h)'
<1>1. Served1(h) /\ (Reads(h) \/ Writes(h) \/ Commits(h))
    BY ServeEffect
<1>2. /\ RequestOK(h) /\ handler[h].pc # "idle" /\ handler'[h].user = handler[h].user
      /\ handler[h].user \in Users /\ origin[h].dev \in Devices
      /\ handler'[h].op = handler[h].op
    BY <1>1 DEF SavedInv, RequestOK, Served1, CloudInv, TypeInv, HandlerInv
<1>3. origin'[h].dev \in Devices /\ handler'[h].user = Home(origin[h].dev)'
    BY <1>2, HomeKept DEF RequestOK, Home
<1>4. CASE Reads(h)
    <2>1. UNCHANGED <<slot, blob, row>>
        BY <1>4 DEF Reads
    <2>2. CASE /\ handler'[h].pc = "checked" /\ handler[h].pc = "start" /\ handler[h].op = "put"
               /\ handler'[h].content = handler[h].content
               /\ handler'[h].expected = handler[h].expected
        <3>1. PutOK(h)
            BY <1>2, <2>2 DEF RequestOK, Active
        <3>2. PutOK(h)'
            BY <1>2, <2>1, <2>2, <3>1 DEF PutOK, Base, Known, Held
        <3> QED BY <1>3, <2>2, <3>2 DEF RequestOK
    <2>3. CASE handler'[h].pc = "found"
        BY <1>3, <2>3 DEF RequestOK, Active, Putting
    <2>4. CASE handler'[h].pc = "replied" /\ (handler'[h].status = "ok" => handler[h].op = "status")
        BY <1>2, <1>3, <2>4 DEF RequestOK, Active, Putting
    <2>5. CASE /\ handler'[h].pc = "replied" /\ handler[h].pc = "found" /\ handler[h].op = "pull"
               /\ handler'[h].rev = handler[h].existing
               /\ handler'[h].data = blob[handler[h].user]
        <3>1. handler[h].existing <= slot[handler[h].user]
            BY <2>5 DEF FreshInv, FoundIsPast
        <3>2. Shown(h)'
            BY <1>2, <2>1, <2>5, <3>1 DEF Shown
        <3> QED BY <1>2, <1>3, <2>5, <3>2 DEF RequestOK, Active, Putting
    <2> QED BY <1>4, <2>2, <2>3, <2>4, <2>5 DEF Reads
<1>5. CASE Writes(h)
    <2>1. /\ PutOK(h) /\ UNCHANGED <<slot, row>> /\ handler'[h].content = handler[h].content
          /\ Base(h)' = Base(h) /\ handler'[h].pc # "replied"
        BY <1>2, <1>5 DEF RequestOK, Active, Writes, Base, Putting
    <2>2. /\ origin[h].agreed = FALSE => Known(origin[h].dev, handler[h].user, Base(h))
          /\ Base(h) \in 0 .. MaxRev
        BY <1>2, <2>1, SavesApiAssumption DEF PutOK, Base, CloudInv, TypeInv, ApiTypeOK, NoRev
    <2>3. \A u \in Users : Advances(u)
        BY ServeAdvances
    <2>4. HeldGrows
        BY DEF HeldGrows, Held
    <2>5. \A d \in Devices, u \in Users, r \in 0 .. MaxRev : Known(d, u, r) => Known(d, u, r)'
        BY <2>3, <2>4, KnownKept DEF CloudInv
    <2>6. origin[h].agreed = FALSE => Known(origin[h].dev, handler[h].user, Base(h))'
        BY <1>2, <2>1, <2>2, <2>5 DEF Known
    <2>7. PutOK(h)'
        BY <2>1, <2>6 DEF PutOK
    <2> QED BY <1>3, <2>1, <2>7 DEF RequestOK
<1>6. CASE Commits(h)
    <2> DEFINE u == handler[h].user
    <2>1. PutOK(h) /\ handler[h].op = "put" /\ Putting(h)
        BY <1>2, <1>6 DEF RequestOK, Active, Commits, CloudInv, ServerOK
    <2>2. /\ slot \in [Users -> 0 .. MaxRev] /\ row \in [Users -> Contents \cup {Absent}]
          /\ slot[u] \in Nat
        BY <1>2, SavesApiAssumption DEF CloudInv, TypeInv, ApiTypeOK
    <2>3. /\ handler'[h].pc = "replied" /\ handler'[h].rev = slot'[u]
          /\ row'[u] = handler[h].content /\ slot'[u] \in Nat
        <3>1. NextRevision(h) = slot[u] + 1
            BY <1>6, CommitIsNext
        <3>2. /\ handler'[h].pc = "replied" /\ handler'[h].rev = slot[u] + 1
              /\ slot' = [slot EXCEPT ![u] = slot[u] + 1]
              /\ row' = [row EXCEPT ![u] = handler[h].content]
            BY <1>6, <3>1 DEF Commits
        <3> QED BY <1>2, <2>2, <3>2
    <2>4. handler[h].content \in Held(origin[h].dev)'
        BY <2>1 DEF PutOK, Held
    <2>5. Known(origin[h].dev, handler[h].user, handler[h].rev)'
        BY <1>2, <2>3, <2>4 DEF Known, Held
    <2> QED BY <1>2, <1>3, <2>1, <2>3, <2>5 DEF RequestOK, Active, Putting
<1> QED BY <1>1, <1>4, <1>5, <1>6

LEMMA ServeSaved ==
    ASSUME CloudInv, CloudInv', SavedInv, LockInv, FreshInv, NEW h \in Handlers, Serve(h)
    PROVE  SavedInv'
<1>1. HandlerStep(h) /\ UNCHANGED <<session, packer, pulled, origin, job, synced>>
    BY DEF Serve, deviceVars
<1>2. Served1(h) /\ (Reads(h) \/ Writes(h) \/ Commits(h))
    BY <1>1, ServeEffect
<1>3. (\A u \in Users : Advances(u)) /\ HeldGrows /\ PackersStay
    BY <1>1, ServeAdvances DEF HeldGrows, Held, PackersStay
<1>4. ASSUME NEW e \in Devices PROVE DeviceOK(e)'
    BY <1>1, <1>3, DeviceKept DEF SavedInv
<1>5. Active(h)' => Active(h) /\ handler'[h].content = handler[h].content
    BY <1>2 DEF Served1, Reads, Writes, Commits, Active, Putting
<1>6. \A u \in Users :
          \/ row'[u] = row[u]
          \/ row'[u] = handler[h].content /\ slot'[u] # 0 /\ Active(h)
    <2>1. CASE row' = row
        BY <2>1
    <2>2. CASE Commits(h)
        <3>1. /\ slot \in [Users -> 0 .. MaxRev] /\ row \in [Users -> Contents \cup {Absent}]
              /\ handler[h].user \in Users /\ slot[handler[h].user] \in Nat
            BY <2>2, SavesApiAssumption
               DEF Commits, CloudInv, TypeInv, HandlerInv, ApiTypeOK, Putting
        <3>2. /\ slot' = [slot EXCEPT ![handler[h].user] = slot[handler[h].user] + 1]
              /\ row' = [row EXCEPT ![handler[h].user] = handler[h].content]
              /\ Active(h)
            BY <2>2, CommitIsNext DEF Commits, Active
        <3> QED BY <3>1, <3>2
    <2> QED BY <1>2, <2>1, <2>2 DEF Reads, Writes
<1>7. ASSUME NEW g \in Handlers PROVE RequestOK(g)'
    <2>1. CASE g = h
        BY <1>1, <2>1, ServeRequest
    <2>2. CASE g # h
        <3>1. handler'[g] = handler[g]
            BY <1>2, <2>2 DEF Served1, OthersStay
        <3>2. Active(g) => \A u \in Users : row'[u] # handler[g].content
            BY <1>6, <2>2 DEF SavedInv, RequestOK, PutOK, OwnPackages
        <3> QED BY <1>1, <1>3, <3>1, <3>2, RequestKept DEF SavedInv
    <2> QED BY <2>1, <2>2
<1>8. OwnPackages'
    <2>1. \A g \in Handlers : Active(g)' => Active(g) /\ handler'[g].content = handler[g].content
        BY <1>2, <1>5 DEF Served1, OthersStay, Active, Putting
    <2> QED BY <2>1 DEF SavedInv, OwnPackages
<1>9. ASSUME NEW u \in Users PROVE RowOK(u)'
    <2>1. slot'[u] = 0 => slot[u] = 0
        <3>1. Advances(u) /\ slot[u] \in Nat /\ slot'[u] \in Nat
            BY <1>3, SavesApiAssumption DEF CloudInv, TypeInv, ApiTypeOK
        <3> QED BY <3>1 DEF Advances
    <2>2. CASE row'[u] = row[u]
        BY <1>1, <2>1, <2>2 DEF SavedInv, RowOK
    <2>3. CASE row'[u] = handler[h].content /\ slot'[u] # 0 /\ Active(h)
        <3>1. PutOK(h) /\ origin[h].dev \in Devices
            BY <2>3 DEF SavedInv, RequestOK, Active, Putting
        <3> QED BY <1>1, <2>3, <3>1, CloudSavesAssumption DEF PutOK, RowOK
    <2> QED BY <1>6, <2>2, <2>3
<1> QED BY <1>4, <1>7, <1>8, <1>9 DEF SavedInv

\* A logout or a login changes nothing of what the device knows.
LEMMA AccountSaved ==
    ASSUME OneAccountEach, CloudInv, SavedInv, NEW d \in Devices,
           Logout(d) \/ \E u \in Users : Login(d, u)
    PROVE  SavedInv'
<1>1. /\ UNCHANGED <<slot, blob, row, handler, synced, job, pulled, packer, origin>>
      /\ session \in [Devices -> Users \cup {Absent}]
      /\ \E s \in Users \cup {Absent} : session' = [session EXCEPT ![d] = s]
    BY DEF Logout, Login, apiVars, Screen, CloudInv, AccountTypes
<1>2. MaxLogouts # 0
    <2>1. \A u \in Users : MaxLogouts = 0 => ~Login(d, u)
        BY SavesApiAssumption DEF SavedInv, DeviceOK, Login
    <2>2. MaxLogouts = 0 => ~Logout(d)
        BY DEF CloudInv, AccountTypes, Logout
    <2> QED BY <2>1, <2>2
<1>3. \A u, v \in Users : u = v
    BY <1>2 DEF OneAccountEach
<1>4. \A e \in Devices : Home(e)' = Home(e) /\ Home(e) \in Users
    <2>1. \A u \in Users : Anyone = u
        BY <1>3 DEF Anyone
    <2>2. \A e \in Devices : Home(e) \in Users
        BY DEF SavedInv, DeviceOK
    <2>3. \A e \in Devices : Home(e) = Anyone /\ Home(e)' = Anyone
        BY <2>1 DEF Home
    <2> QED BY <2>2, <2>3
<1>5. \A e \in Devices : DeviceOK(e)'
    BY <1>1, <1>2, <1>4 DEF SavedInv, DeviceOK, Known, Held
<1>6. \A h \in Handlers : RequestOK(h)'
    BY <1>1, <1>4 DEF SavedInv, RequestOK, PutOK, Shown, Active, Putting, Base, Known, Held
<1>7. OwnPackages' /\ \A u \in Users : RowOK(u)'
    BY <1>1 DEF SavedInv, OwnPackages, Active, Putting, RowOK
<1> QED BY <1>5, <1>6, <1>7 DEF SavedInv

\* While devices keep their accounts and the server's puts do not overlap,
\* every step keeps what the devices know.
LEMMA SavedStep ==
    ASSUME Calm
    PROVE  CloudInv /\ ServerInv /\ SavedInv /\ [Next]_vars => SavedInv'
<1> SUFFICES ASSUME CloudInv, ServerInv, SavedInv, [Next]_vars
             PROVE  SavedInv'
    OBVIOUS
<1>1. CloudInv' /\ LockInv /\ FreshInv
    BY CloudStep DEF ServerInv
<1>2. ASSUME NEW d \in Devices, Logout(d) \/ \E u \in Users : Login(d, u)
      PROVE  SavedInv'
    BY <1>1, <1>2, AccountSaved DEF Calm
<1>3. ASSUME NEW d \in Devices, UserStep(d)
      PROVE  SavedInv'
    BY <1>1, <1>2, <1>3, TapSaved, DialogSaved, LeaveSaved, CrashSaved DEF UserStep
<1>4. ASSUME NEW d \in Devices, Callback(d)
      PROVE  SavedInv'
    BY <1>1, <1>4, StatusSaved, EndSaved DEF Callback
<1>5. ASSUME NEW d \in Devices, Worker(d)
      PROVE  SavedInv'
    BY <1>1, <1>5, SendSaved, LostSaved, DeliverSaved DEF Worker
<1>6. ASSUME NEW h \in Handlers, Serve(h) \/ Discard(h)
      PROVE  SavedInv'
    BY <1>1, <1>6, ServeSaved, DiscardSaved
<1>7. CASE UNCHANGED vars
    <2>1. UNCHANGED <<slot, blob, row, handler, session, synced, job, pulled, packer, origin>>
        BY <1>7 DEF vars, apiVars, deviceVars
    <2>2. \A d \in Devices : DeviceOK(d)'
        BY <2>1, HomeKept DEF SavedInv, DeviceOK, Known, Held
    <2>3. \A h \in Handlers : RequestOK(h)'
        BY <2>1, HomeKept DEF SavedInv, RequestOK, Home, PutOK, Shown, Active, Putting, Base, Known, Held
    <2>4. OwnPackages' /\ \A u \in Users : RowOK(u)'
        BY <2>1 DEF SavedInv, OwnPackages, Active, Putting, RowOK
    <2> QED BY <2>2, <2>3, <2>4 DEF SavedInv
<1> QED BY <1>3, <1>4, <1>5, <1>6, <1>7 DEF Next

LEMMA SavedInit == Init => ServerInv /\ SavedInv
<1> SUFFICES ASSUME Init PROVE ServerInv /\ SavedInv
    OBVIOUS
<1>1. ServerInv
    BY LockInit, FileInit, FreshInit DEF Init, ServerInv
<1>2. /\ slot = [u \in Users |-> 0] /\ row = [u \in Users |-> Absent]
      /\ session \in [Devices -> Users] /\ synced = [d \in Devices |-> 0]
      /\ job = [d \in Devices |-> NoJob]
      /\ \A h \in Handlers : handler[h].pc = "idle"
    BY DEF Init, ApiInit, IdleHandler
<1>3. \A d \in Devices : DeviceOK(d)
    BY <1>2, NoJobType DEF DeviceOK, Known, Home
<1>4. \A h \in Handlers : RequestOK(h) /\ ~Active(h)
    BY <1>2 DEF RequestOK, Active, Putting
<1>5. OwnPackages /\ \A u \in Users : RowOK(u)
    BY <1>2, <1>4, SavesApiAssumption DEF OwnPackages, RowOK
<1> QED BY <1>1, <1>3, <1>4, <1>5 DEF SavedInv

\* What the invariant is for.
LEMMA SavedMeans ==
    ASSUME CloudInv, LockInv, SavedInv
    PROVE  NoSilentLoss /\ SyncedNotAhead /\ InSyncIsHeld
<1>1. NoSilentLoss
    <2> SUFFICES ASSUME NEW h \in Handlers, handler[h].pc = "checked", ~origin[h].agreed,
                        blob[handler[h].user] # Absent,
                        blob[handler[h].user] = row[handler[h].user]
                 PROVE  blob[handler[h].user] \in Held(origin[h].dev)
        BY DEF NoSilentLoss
    <2>1. PutOK(h) /\ handler[h].user \in Users
        BY DEF SavedInv, RequestOK, Active, Putting, CloudInv, TypeInv, HandlerInv
    <2>2. origin[h].agreed = FALSE
        BY DEF CloudInv, HistoryTypes
    <2>3. Base(h) = slot[handler[h].user]
        BY DEF LockInv, ReadIsCurrent, Putting
    <2>4. slot[handler[h].user] # 0
        BY <2>1 DEF SavedInv, RowOK
    <2> QED BY <2>1, <2>2, <2>3, <2>4 DEF PutOK, Known
<1>4. \A d \in Devices : session[d] # Absent => session[d] = Home(d)
    BY DEF CloudInv, AccountTypes, Home
<1>2. SyncedNotAhead
    BY <1>4 DEF SavedInv, DeviceOK, Known, SyncedNotAhead
<1>3. InSyncIsHeld
    BY <1>4 DEF SavedInv, DeviceOK, Known, InSyncIsHeld
<1> QED BY <1>1, <1>2, <1>3

LEMMA SavedInvariance ==
    ASSUME Calm
    PROVE  Spec => [](NoSilentLoss /\ SyncedNotAhead /\ InSyncIsHeld)
<1>1. CloudInv /\ ServerInv /\ [Next]_vars => ServerInv'
    BY ServerStep DEF Calm
<1>2. CloudInv /\ ServerInv /\ SavedInv => NoSilentLoss /\ SyncedNotAhead /\ InSyncIsHeld
    BY SavedMeans DEF ServerInv
<1> QED BY <1>1, <1>2, CloudInit, CloudStep, SavedInit, SavedStep, PTL DEF Spec

\* A put that goes on without a question replaces a version its device has
\* a copy of: for any number of devices, accounts, requests in flight and
\* lost or late answers.
THEOREM NothingIsLostSilently ==
    ASSUME Calm
    PROVE  Spec => []NoSilentLoss
BY SavedInvariance, PTL

\* The synced revision is never above the cloud's.
THEOREM SyncedIsPast ==
    ASSUME Calm
    PROVE  Spec => []SyncedNotAhead
BY SavedInvariance, PTL

\* A device that believes it is in sync holds the package of the revision.
THEOREM InSyncMeansHeld ==
    ASSUME Calm
    PROVE  Spec => []InSyncIsHeld
BY SavedInvariance, PTL
===============================================================================
