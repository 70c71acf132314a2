------------------------------ MODULE CloudSaves ------------------------------
(***************************************************************************)
(* The program's own client of the save routes: on every device one save   *)
(* detail screen (app/save_detail_activity.cpp) that uploads the active    *)
(* save of a title or downloads the cloud's, the HTTP client behind it     *)
(* (platform/saves/http_cloud_save_client.cpp), the decision what to push  *)
(* (core/saves/save_sync.cpp) and the file of synced revisions             *)
(* (platform/saves/sync_store.cpp).                                        *)
(*                                                                         *)
(* Each device has a UI thread, on which taps, dialog buttons and the      *)
(* second half of a runAsync run, and one worker thread, on which requests *)
(* run.  A request that times out or is cancelled leaves its handler       *)
(* running in the server.                                                  *)
(***************************************************************************)
EXTENDS SavesApi

CONSTANTS
    Devices,
    kMaxConflictRetries,  \* automatic re-uploads after a lost race
    MaxLogouts            \* bound on changes of session

ASSUME CloudSavesAssumption ==
    /\ Absent \notin Devices /\ Absent \notin Handlers
    /\ Ops = {"put", "status", "pull"}     \* the program deletes no save
    /\ kMaxConflictRetries \in Nat
    /\ MaxLogouts \in Nat

VARIABLES
    session,    \* session[d]: account whose token the device holds, or Absent
    synced,     \* synced[d]: last synced revision, stored by title alone
    busy,       \* busy[d]: cloudBusy of the screen
    retries,    \* retries[d]: cloudConflictRetries of the screen
    dialog,     \* dialog[d]: revision the open conflict dialog offers to replace
    job,        \* job[d]: the cloud operation in flight for the screen
    pulled,     \* pulled[d]: packages imported as local backups
    logouts,    \* logouts so far, bounded by MaxLogouts
    packer,     \* packer[c]: device that packaged c (history)
    origin      \* origin[h]: whose request h serves (history)

deviceVars == <<session, logouts, synced, busy, retries, dialog, job, pulled, packer, origin>>
vars == <<apiVars, deviceVars>>

NoJob == [kind |-> "none", stage |-> "none", token |-> Absent, rev |-> 0,
          agreed |-> FALSE, h |-> Absent, status |-> "none", got |-> 0]
NoDialog == NoRev
Nobody == [dev |-> Absent, agreed |-> FALSE]

\* The packages device d has a copy of: its own and those it downloaded.
Held(d) == pulled[d] \cup {c \in Contents : packer[c] = d}

Init ==
    /\ ApiInit
    /\ session \in [Devices -> Users]
    /\ logouts = 0
    /\ synced = [d \in Devices |-> 0]
    /\ busy = [d \in Devices |-> FALSE]
    /\ retries = [d \in Devices |-> 0]
    /\ dialog = [d \in Devices |-> NoDialog]
    /\ job = [d \in Devices |-> NoJob]
    /\ pulled = [d \in Devices |-> {}]
    /\ packer = [c \in Contents |-> Absent]
    /\ origin = [h \in Handlers |-> Nobody]

-------------------------------------------------------------------------------
(* core/saves/save_sync.cpp *)

classify(cloudRev, syncedRev) ==
    IF cloudRev = 0 THEN "NoCloud"
    ELSE IF cloudRev > syncedRev THEN "CloudAhead" ELSE "InSync"

plan_push_blind(situation, cloudRev) ==               \* mutant: never asks
    [revision |-> IF situation = "NoCloud" THEN 0 ELSE cloudRev, isConflict |-> FALSE]
plan_push(situation, cloudRev) ==
    [revision   |-> IF situation = "NoCloud" THEN 0 ELSE cloudRev,
     isConflict |-> situation = "CloudAhead"]

\* Nobody waits any longer for the request d may have sent.  The handler of
\* a put runs on all the same; that of a read has nothing left to do that
\* anyone could see, and is taken to be over.
Abandon(d) ==
    LET h == job[d].h IN
    IF h = Absent \/ handler[h].op = "put"
    THEN UNCHANGED <<apiVars, origin>>
    ELSE /\ handler' = [handler EXCEPT ![h] = IdleHandler]
         /\ origin' = [origin EXCEPT ![h] = Nobody]
         /\ UNCHANGED <<slot, blob, row, accepted, admitted>>

-------------------------------------------------------------------------------
(* The UI thread *)

\* runAsync: queue an operation for the worker with the session's token.
Dispatch(d, kind, rev, agreed) ==
    job' = [job EXCEPT ![d] = [NoJob EXCEPT !.kind = kind, !.stage = "queued",
                                            !.token = session[d], !.rev = rev,
                                            !.agreed = agreed]]

\* The worker is done with operation kind; its UI half may run.
Finished(d, kind) == job[d].kind = kind /\ job[d].stage = "done"
Screen == <<busy, retries, dialog, job>>
Account == <<session, logouts>>
OffScreen == <<apiVars, Account, synced, pulled, packer, origin>>

\* The screen takes back its buttons.
ReleaseForgotten(d) ==                                \* mutant
    job' = [job EXCEPT ![d] = NoJob] /\ UNCHANGED busy
Release(d) ==
    job' = [job EXCEPT ![d] = NoJob] /\ busy' = [busy EXCEPT ![d] = FALSE]

\* save_synced_revision with the revision the answer named.
SyncedCounted(d) == synced' = [synced EXCEPT ![d] = @ + 1]   \* mutant
SaveSynced(d) == synced' = [synced EXCEPT ![d] = job[d].got]

\* The user can press the buttons: no dialog covers them.
NoModal(d) == dialog[d] = NoDialog

\* The guards of doUpload and doDownload.
CanStartAnyTime(d) == NoModal(d) /\ session[d] # Absent      \* mutant
CanStart(d) == NoModal(d) /\ session[d] # Absent /\ ~busy[d]

\* doUpload(false): the guard, requireSession, a fresh retry budget.
TapUpload(d) ==
    /\ CanStart(d)
    /\ retries' = [retries EXCEPT ![d] = 0]
    /\ busy' = [busy EXCEPT ![d] = TRUE]
    /\ Dispatch(d, "status", 0, FALSE)
    /\ UNCHANGED <<OffScreen, dialog>>

\* The status for an upload is back: push, ask the user, or give up.
StatusDone(d) ==
    LET plan == plan_push(classify(job[d].got, synced[d]), job[d].got) IN
    /\ Finished(d, "status")
    /\ IF job[d].status = "error"
       THEN /\ Release(d)
            /\ UNCHANGED dialog
       ELSE IF plan.isConflict
       THEN /\ Release(d)
            /\ dialog' = [dialog EXCEPT ![d] = plan.revision]
       ELSE /\ busy' = [busy EXCEPT ![d] = TRUE]           \* pushAtRevision
            /\ Dispatch(d, "push", plan.revision, FALSE)
            /\ UNCHANGED dialog
    /\ UNCHANGED <<OffScreen, retries>>

\* "Send mine": pushAtRevision with the revision the dialog was about.
SendMine(d) ==
    /\ dialog[d] # NoDialog
    /\ dialog' = [dialog EXCEPT ![d] = NoDialog]
    /\ busy' = [busy EXCEPT ![d] = TRUE]
    /\ Dispatch(d, "push", dialog[d], TRUE)
    /\ UNCHANGED <<OffScreen, retries>>

\* doDownload past its guard and requireSession.
StartDownload(d) ==
    /\ busy' = [busy EXCEPT ![d] = TRUE]
    /\ Dispatch(d, "pull", 0, FALSE)

TapDownload(d) ==
    /\ CanStart(d)
    /\ StartDownload(d)
    /\ UNCHANGED <<OffScreen, retries, dialog>>

\* "Keep the cloud's".
KeepCloud(d) ==
    /\ dialog[d] # NoDialog
    /\ dialog' = [dialog EXCEPT ![d] = NoDialog]
    /\ IF busy[d] \/ session[d] = Absent THEN UNCHANGED <<busy, job>> ELSE StartDownload(d)
    /\ UNCHANGED <<OffScreen, retries>>

\* The dialog is closed without an answer.
DismissDialog(d) ==
    /\ dialog[d] # NoDialog
    /\ dialog' = [dialog EXCEPT ![d] = NoDialog]
    /\ UNCHANGED <<OffScreen, busy, retries, job>>

\* The push is over.  A lost race starts the upload again with a fresh
\* status (doUpload(true)) unless the retry budget is spent.
PushDone(d) ==
    LET lost == job[d].status = "conflict"
        again == lost /\ retries[d] < kMaxConflictRetries
    IN
    /\ Finished(d, "push")
    /\ retries' = [retries EXCEPT ![d] = IF again THEN @ + 1
                                         ELSE IF lost \/ job[d].status = "ok" THEN 0
                                         ELSE @]
    /\ IF job[d].status = "ok" THEN SaveSynced(d) ELSE UNCHANGED synced
    /\ IF again /\ session[d] # Absent
       THEN /\ Dispatch(d, "status", 0, FALSE)
            /\ UNCHANGED busy
       ELSE Release(d)
    /\ UNCHANGED <<apiVars, Account, dialog, pulled, packer, origin>>

\* The download is over; "ok" means it was imported as a local backup.
DownloadDone(d) ==
    /\ Finished(d, "pull")
    /\ IF job[d].status = "ok" THEN SaveSynced(d) ELSE UNCHANGED synced
    /\ Release(d)
    /\ UNCHANGED <<apiVars, Account, retries, dialog, pulled, packer, origin>>

\* A fresh screen: the activity was destroyed, with the UI halves of what
\* it had in flight, and opened again.
FreshScreen(d) ==
    /\ Release(d)
    /\ retries' = [retries EXCEPT ![d] = 0]
    /\ dialog' = [dialog EXCEPT ![d] = NoDialog]

LeaveActivity(d) ==
    /\ job[d] # NoJob \/ dialog[d] # NoDialog
    /\ FreshScreen(d)
    /\ Abandon(d)
    /\ UNCHANGED <<Account, synced, pulled, packer>>

\* The console loses power while the synced revision is being written: the
\* file was truncated first and holds a prefix of what was meant, so the
\* revision read back is a prefix of the new one, or 0.
CrashInSave(d) ==
    /\ job[d].stage = "done" /\ job[d].status = "ok" /\ job[d].kind \in {"push", "pull"}
    /\ \E r \in 0 .. job[d].got : synced' = [synced EXCEPT ![d] = r]
    /\ FreshScreen(d)
    /\ UNCHANGED <<apiVars, Account, pulled, packer, origin>>

\* The header's button: clear_session, or a login that stores a session.
Logout(d) ==
    /\ NoModal(d) /\ session[d] # Absent /\ logouts < MaxLogouts
    /\ session' = [session EXCEPT ![d] = Absent]
    /\ logouts' = logouts + 1
    /\ UNCHANGED <<apiVars, synced, Screen, pulled, packer, origin>>

Login(d, u) ==
    /\ NoModal(d) /\ session[d] = Absent
    /\ session' = [session EXCEPT ![d] = u]
    /\ UNCHANGED logouts
    /\ UNCHANGED <<apiVars, synced, Screen, pulled, packer, origin>>

-------------------------------------------------------------------------------
(* The worker thread *)

\* A request leaves the device and reaches handler h.  A push packages the
\* active save first.
Send(d) ==
    /\ job[d].stage = "queued" /\ job[d].token # Absent
    /\ \E h \in Handlers, c \in Contents \cup {Absent} :
           /\ IF job[d].kind = "push"
              THEN /\ c \in Contents /\ packer[c] = Absent
                   /\ packer' = [packer EXCEPT ![c] = d]
              ELSE c = Absent /\ UNCHANGED packer
           /\ Receive(h, [op |-> IF job[d].kind = "push" THEN "put" ELSE job[d].kind,
                          user |-> job[d].token, content |-> c,
                          expected |-> IF job[d].kind = "push" THEN job[d].rev ELSE NoRev])
           /\ job' = [job EXCEPT ![d] = [NoJob EXCEPT !.kind = job[d].kind,
                                                      !.stage = "sent", !.h = h]]
           /\ origin' = [origin EXCEPT ![h] = [dev |-> d, agreed |-> job[d].agreed]]
    /\ UNCHANGED <<Account, synced, busy, retries, dialog, pulled>>

\* The worker's half of an operation is over; its UI half is posted.
Finish(d, status, got) ==
    job' = [job EXCEPT ![d] = [NoJob EXCEPT !.kind = job[d].kind, !.stage = "done",
                                            !.status = status, !.got = got]]

\* Nothing comes back: no network, no active save to package, a 401 or
\* other refusal before the route, or the request's timeout.
Lost(d) ==
    /\ job[d].stage \in {"queued", "sent"}
    /\ Finish(d, "error", 0)
    /\ Abandon(d)
    /\ UNCHANGED <<Account, synced, busy, retries, dialog, pulled, packer>>

\* What the UI half of a download finds: an import that failed is an error.
PullOutcomeAsSent(status, imported) == status                \* mutant
PullOutcome(status, imported) ==
    IF status = "ok" /\ ~imported THEN "error" ELSE status

\* The answer of the handler d waits for arrives.  A pull with data is
\* imported as a backup at once: half a package does not unpack, and the
\* import may fail.
Deliver(d) ==
    LET h == job[d].h
        r == handler[h]
    IN
    /\ job[d].stage = "sent" /\ r.pc = "replied"
    /\ Answer(h)
    /\ \E imported \in IF job[d].kind = "pull" /\ r.status = "ok"
                       THEN {FALSE} \cup (IF r.data = Torn THEN {} ELSE {TRUE})
                       ELSE {FALSE} :
           /\ pulled' = IF imported THEN [pulled EXCEPT ![d] = @ \cup {r.data}] ELSE pulled
           /\ Finish(d, IF job[d].kind = "pull" THEN PullOutcome(r.status, imported)
                        ELSE r.status, r.rev)
    /\ origin' = [origin EXCEPT ![h] = Nobody]
    /\ UNCHANGED <<Account, synced, busy, retries, dialog, packer>>

\* An answer nobody waits for.
Discard(h) ==
    /\ \A d \in Devices : job[d].h # h
    /\ Answer(h)
    /\ origin' = [origin EXCEPT ![h] = Nobody]
    /\ UNCHANGED <<Account, synced, busy, retries, dialog, job, pulled, packer>>

Serve(h) == HandlerStep(h) /\ UNCHANGED deviceVars

-------------------------------------------------------------------------------

UserStep(d) ==
    \/ TapUpload(d) \/ TapDownload(d) \/ SendMine(d) \/ KeepCloud(d) \/ DismissDialog(d)
    \/ LeaveActivity(d) \/ CrashInSave(d)
    \/ Logout(d) \/ \E u \in Users : Login(d, u)

Callback(d) == StatusDone(d) \/ PushDone(d) \/ DownloadDone(d)
Worker(d) == Send(d) \/ Lost(d) \/ Deliver(d)

Next ==
    \/ \E d \in Devices : UserStep(d) \/ Callback(d) \/ Worker(d)
    \/ \E h \in Handlers : Serve(h) \/ Discard(h)

Spec == Init /\ [][Next]_vars

\* The worker takes every request to an end (each has a 30 s timeout) and
\* the main loop runs every posted callback; users owe nothing.
Fairness ==
    /\ \A d \in Devices : WF_vars(Callback(d)) /\ WF_vars(Worker(d))
    /\ \A h \in Handlers : WF_vars(Serve(h) \/ Discard(h))

FairSpec == Spec /\ Fairness

-------------------------------------------------------------------------------
(* Properties *)

JobType == [kind : {"none", "status", "push", "pull"},
            stage : {"none", "queued", "sent", "done"},
            token : Users \cup {Absent}, rev : 0 .. MaxRev, agreed : BOOLEAN,
            h : Handlers \cup {Absent},
            status : {"none", "ok", "missing", "conflict", "error"}, got : 0 .. MaxRev]

\* The range of every variable.
TypeOK ==
    /\ ApiTypeOK
    /\ session \in [Devices -> Users \cup {Absent}]
    /\ logouts \in 0 .. MaxLogouts
    /\ synced \in [Devices -> 0 .. MaxRev]
    /\ busy \in [Devices -> BOOLEAN]
    /\ retries \in [Devices -> 0 .. kMaxConflictRetries]
    /\ dialog \in [Devices -> NoDialog .. MaxRev]
    /\ job \in [Devices -> JobType]
    /\ pulled \in [Devices -> SUBSET Contents]
    /\ packer \in [Contents -> Devices \cup {Absent}]
    /\ origin \in [Handlers -> [dev : Devices \cup {Absent}, agreed : BOOLEAN]]

\* "Nothing is lost" (the cloud-save design): a put that has passed the
\* revision check and is about to overwrite the blob replaces a version
\* its device has a copy of, unless the user chose to drop it.
NoSilentLoss ==
    \A h \in Handlers :
        LET u == handler[h].user IN
        /\ handler[h].pc = "checked"
        /\ ~origin[h].agreed
        /\ blob[u] # Absent
        /\ blob[u] = row[u]
        => blob[u] \in Held(origin[h].dev)

\* test_save_sync.cpp: a cloud revision lower than the synced one
\* "shouldn't happen".  (The token decides which account that cloud is.)
SyncedNotAhead ==
    \A d \in Devices : session[d] # Absent => synced[d] <= slot[session[d]]

\* cloudBusy "guards against concurrent upload/download": no cloud operation
\* is started over one whose result is still to come, although the second
\* half of an upload and an automatic retry do not test the flag.
OneOperation ==
    [][\A d \in Devices :
           job'[d].stage = "queued" /\ job[d] # job'[d] => job[d].stage \in {"none", "done"}]_vars

\* A revision the device believes it is in sync with stands for a package
\* it holds, as long as the blob is the one the row was written for.
InSyncIsHeld ==
    \A d \in Devices :
        LET u == session[d] IN
        u # Absent /\ synced[d] = slot[u] /\ slot[u] # 0 /\ blob[u] = row[u]
            => row[u] \in Held(d)

\* Every cloud operation comes to an end and gives the screen back to the
\* user, whatever the network and the server do.
OperationEnds == \A d \in Devices : busy[d] ~> ~busy[d]
===============================================================================
