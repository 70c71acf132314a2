----------------------------- MODULE SourceLinks ------------------------------
(***************************************************************************)
(* Content sources: the list a device keeps (source_list_activity.cpp over *)
(* source_store.cpp), its upload to the account (http_source_sync_client), *)
(* and the routes that take it (api/src/routes/sources.ts), whose handlers *)
(* end an action at each await.  Other clients send requests too.          *)
(*                                                                         *)
(* The id of a link is the hash of its url (stable_remote_id), so two      *)
(* accounts with the same source use the same id.  A url stands for its    *)
(* hash here.  The worker runs a device's jobs in the order they were      *)
(* queued.  Labels, secrets and their encryption are left out, except      *)
(* whether a request brings the secret its kind of source asks for.        *)
(***************************************************************************)
EXTENDS Naturals, Sequences, FiniteSets

CONSTANTS
    Users,         \* accounts
    Me,            \* the account the device is logged in to
    Others,        \* accounts other clients send requests for
    Urls,          \* urls of sources, and with them ids of links
    Secretless,    \* urls with a login in them: a secret is due, none is sent
    Handlers,      \* request handlers: bounds how many requests overlap
    MaxPerUser,    \* bound on the requests of one account that overlap
    MaxSources,    \* bound on the device's list
    MaxQueue,      \* bound on the worker's queue
    EditWhileSync, \* whether rows are removed while a sync is under way
    None

ASSUME SourceLinksAssumption ==
    /\ Me \in Users /\ Others \subseteq Users /\ Secretless \subseteq Urls
    /\ None \notin Users /\ None \notin Urls /\ None \notin Handlers
    /\ IsFiniteSet(Handlers)
    /\ MaxPerUser \in Nat /\ MaxSources \in Nat /\ MaxQueue \in Nat
    /\ EditWhileSync \in BOOLEAN

VARIABLES
    rows,      \* rows[i]: the SourceLink with id i
    handler,   \* handler[h]: state of a request handler
    list,      \* the screen's list
    file,      \* sources.json
    here,      \* is the screen open
    syncBusy, syncOk,
    queue,     \* jobs of the worker, the first one running
    call       \* the handler the worker waits for

device == <<list, file, here, syncBusy, syncOk, queue, call>>
vars == <<rows, handler, list, file, here, syncBusy, syncOk, queue, call>>

NoRow == [owner |-> None, url |-> None]
IdleHandler == [pc |-> "idle", op |-> "none", user |-> None, id |-> None, url |-> None,
                existing |-> FALSE, status |-> "none"]

Init ==
    /\ rows = [i \in Urls |-> NoRow]
    /\ handler = [h \in Handlers |-> IdleHandler]
    /\ list = <<>> /\ file = <<>>
    /\ here = TRUE /\ syncBusy = FALSE /\ syncOk = FALSE
    /\ queue = <<>> /\ call = None

-------------------------------------------------------------------------------
(* Routes *)

Goto(h, pc) == handler' = [handler EXCEPT ![h].pc = pc]

\* The handler answers; nobody but the waiting worker looks at it.
Reply(h, status) ==
    handler' = [handler EXCEPT ![h] =
        IF call = h THEN [IdleHandler EXCEPT !.pc = "replied", !.status = status, !.id = handler[h].id]
                    ELSE IdleHandler]

\* Requests of account u that are being handled.
Overlapping(u) == {h \in Handlers : handler[h].user = u}

Request(op, u, i, url) ==
    [IdleHandler EXCEPT !.pc = "start", !.op = op, !.user = u, !.id = i, !.url = url]
Receive(h, request) ==
    /\ handler[h].pc = "idle"
    /\ Cardinality(Overlapping(request.user)) < MaxPerUser
    /\ handler' = [handler EXCEPT ![h] = request]

OtherClient(h) ==
    /\ \E u \in Others, i \in Urls, op \in {"put", "delete"} : Receive(h, Request(op, u, i, i))
    /\ UNCHANGED <<rows, device>>

FoundAny(h) == rows[handler[h].id] # NoRow            \* mutant: findUnique by id alone
FindOwn(h) == rows[handler[h].id].owner = handler[h].user

\* PUT: the account's row; without one a secret is due unless the source
\* needs none.
PutFind(h) ==
    /\ handler[h].pc = "start" /\ handler[h].op = "put"
    /\ IF ~FindOwn(h) /\ handler[h].url \in Secretless
       THEN Reply(h, "secret_required")
       ELSE handler' = [handler EXCEPT ![h].pc = IF FindOwn(h) THEN "write" ELSE "collide",
                                       ![h].existing = FindOwn(h)]
    /\ UNCHANGED <<rows, device>>

PutCollide(h) ==
    /\ handler[h].pc = "collide"
    /\ IF rows[handler[h].id] # NoRow THEN Reply(h, "not_found") ELSE Goto(h, "write")
    /\ UNCHANGED <<rows, device>>

\* update by id throws without a row, create with one; an update keeps the
\* owner the row has.
PutWrite(h) ==
    /\ handler[h].pc = "write"
    /\ LET r == handler[h]
           row == rows[r.id]
       IN  IF (row # NoRow) = r.existing
           THEN /\ rows' = [rows EXCEPT ![r.id] =
                       [owner |-> IF r.existing THEN row.owner ELSE r.user, url |-> r.url]]
                /\ Reply(h, "ok")
           ELSE Reply(h, "error") /\ UNCHANGED rows
    /\ UNCHANGED device

DeleteFind(h) ==
    /\ handler[h].pc = "start" /\ handler[h].op = "delete"
    /\ IF FindOwn(h) THEN Goto(h, "remove") ELSE Reply(h, "not_found")
    /\ UNCHANGED <<rows, device>>

DeleteRow(h) ==
    /\ handler[h].pc = "remove"
    /\ rows' = [rows EXCEPT ![handler[h].id] = NoRow]
    /\ Reply(h, IF rows[handler[h].id] # NoRow THEN "ok" ELSE "error")
    /\ UNCHANGED device

\* A query fails.
Fail(h) ==
    /\ handler[h].pc \in {"start", "collide", "write", "remove"}
    /\ Reply(h, "error")
    /\ UNCHANGED <<rows, device>>

-------------------------------------------------------------------------------
(* The list on the device *)

Unsynced(url) == [url |-> url, rid |-> None]

\* What save_sources leaves in the file: the list; what was there, when it
\* cannot be opened; or, cut short, what load_sources reads as no list at all.
NotSaved == {file, <<>>}
Saved(new) == {new} \cup NotSaved

\* finishAddSource: a source that cannot be written is taken off the list.
Add(url) ==
    /\ here /\ Len(list) < MaxSources
    /\ \/ /\ list' = Append(list, Unsynced(url)) /\ file' = list'
          /\ syncOk' = FALSE
       \/ file' \in NotSaved /\ UNCHANGED <<list, syncOk>>
    /\ UNCHANGED <<rows, handler, here, syncBusy, queue, call>>

Without(s, i) == [j \in 1 .. Len(s) - 1 |-> IF j < i THEN s[j] ELSE s[j + 1]]
Job(kind, snap, rid) ==
    [kind |-> kind, snap |-> snap, results |-> <<>>, rid |-> rid, mine |-> TRUE]

\* confirmRemove: the row that has the index now; its link is deleted by a job
\* of its own, whose result nobody looks at.
Remove(i) ==
    /\ here /\ (syncBusy => EditWhileSync)
    /\ Len(queue) < MaxQueue
    /\ list' = Without(list, i)
    /\ file' \in Saved(list')
    /\ syncOk' = FALSE
    /\ queue' = IF list[i].rid = None THEN queue
                ELSE Append(queue, Job("delete", <<>>, list[i].rid))
    /\ UNCHANGED <<rows, handler, here, syncBusy, call>>

TapSync ==
    /\ here /\ ~syncBusy /\ Len(queue) < MaxQueue
    /\ syncBusy' = TRUE /\ syncOk' = FALSE
    /\ queue' = Append(queue, Job("sync", list, None))
    /\ UNCHANGED <<rows, handler, list, file, here, call>>

Leave ==
    /\ here /\ here' = FALSE
    /\ syncBusy' = FALSE /\ syncOk' = FALSE
    /\ queue' = [n \in DOMAIN queue |-> [queue[n] EXCEPT !.mine = FALSE]]
    /\ UNCHANGED <<rows, handler, list, file, call>>

Open ==
    /\ ~here /\ here' = TRUE
    /\ list' = file
    /\ UNCHANGED <<rows, handler, file, syncBusy, syncOk, queue, call>>

-------------------------------------------------------------------------------
(* The worker *)

job == Head(queue)
Syncing == queue # <<>> /\ job.kind = "sync"
Deleting == queue # <<>> /\ job.kind = "delete"

stable_remote_id(url) == url
LinkIdStored(source) == source.rid                    \* mutant: no first id
LinkId(source) == IF source.rid = None THEN stable_remote_id(source.url) ELSE source.rid

Turn == job.snap[Len(job.results) + 1]

Push(h) ==
    /\ Syncing /\ call = None /\ Len(job.results) < Len(job.snap)
    /\ Receive(h, Request("put", Me, LinkId(Turn), Turn.url))
    /\ call' = h
    /\ UNCHANGED <<rows, list, file, here, syncBusy, syncOk, queue>>

SendDelete(h) ==
    /\ Deleting /\ call = None
    /\ Receive(h, Request("delete", Me, job.rid, None))
    /\ call' = h
    /\ UNCHANGED <<rows, list, file, here, syncBusy, syncOk, queue>>

\* The worker learns how its request ended; a delete ends its job with it.
Learn(result) ==
    /\ queue' = IF Deleting THEN Tail(queue)
                ELSE [queue EXCEPT ![1].results = Append(@, result)]
    /\ call' = None
    /\ UNCHANGED <<rows, list, file, here, syncBusy, syncOk>>

Answer(h) ==
    /\ call = h /\ handler[h].pc = "replied"
    /\ Learn([status |-> handler[h].status, id |-> handler[h].id])
    /\ handler' = [handler EXCEPT ![h] = IdleHandler]

\* No answer comes (no network, a time-out, the screen was left): the
\* handler, if there is one, goes on by itself.
Lost ==
    /\ Deleting \/ (Syncing /\ Len(job.results) < Len(job.snap))
    /\ Learn([status |-> "error", id |-> None])
    /\ handler' = [h \in Handlers |->
           IF h = call /\ handler[h].pc = "replied" THEN IdleHandler ELSE handler[h]]

\* The access token has run out.
Expired ==
    /\ call = None
    /\ Deleting \/ (Syncing /\ Len(job.results) < Len(job.snap))
    /\ Learn([status |-> "expired", id |-> None])
    /\ UNCHANGED handler

AllOkExpired(results) == \A n \in DOMAIN results : results[n].status # "expired"  \* mutant
AllOk(results) == \A n \in DOMAIN results : results[n].status = "ok"

\* doSync, UI half: the ids go to the rows of the list that have the
\* snapshot's indices now.  (Past its end is undefined: nothing is written.)
AssignShifted(results) ==                             \* mutant: a row counted too many
    [n \in DOMAIN list |->
        IF n - 1 \in DOMAIN results /\ results[n - 1].status = "ok"
        THEN [list[n] EXCEPT !.rid = results[n - 1].id] ELSE list[n]]
Assign(results) ==
    [n \in DOMAIN list |->
        IF n \in DOMAIN results /\ results[n].status = "ok"
        THEN [list[n] EXCEPT !.rid = results[n].id] ELSE list[n]]

SyncDone ==
    /\ Syncing /\ Len(job.results) = Len(job.snap)
    /\ queue' = Tail(queue)
    /\ IF job.mine
       THEN LET expired == \E n \in DOMAIN job.results : job.results[n].status = "expired" IN
            /\ syncBusy' = FALSE
            /\ list' = IF expired THEN list ELSE Assign(job.results)
            /\ IF ~expired /\ AllOk(job.results)
               THEN syncOk' = TRUE /\ file' \in Saved(list')
               ELSE UNCHANGED <<syncOk, file>>
       ELSE UNCHANGED <<list, file, syncBusy, syncOk>>
    /\ UNCHANGED <<rows, handler, here, call>>

-------------------------------------------------------------------------------

Route(h) ==
    PutFind(h) \/ PutCollide(h) \/ PutWrite(h) \/ DeleteFind(h) \/ DeleteRow(h) \/ Fail(h)

User ==
    \/ \E url \in Urls : Add(url)
    \/ \E i \in DOMAIN list : Remove(i)
    \/ TapSync \/ Leave \/ Open

Worker ==
    \/ \E h \in Handlers : Push(h) \/ SendDelete(h) \/ Answer(h)
    \/ Lost \/ Expired \/ SyncDone

Next ==
    \/ \E h \in Handlers : OtherClient(h) \/ Route(h)
    \/ User \/ Worker

Spec == Init /\ [][Next]_vars

-------------------------------------------------------------------------------
(* Properties *)

Source == [url : Urls, rid : Urls \cup {None}]
Statuses == {"none", "ok", "error", "not_found", "secret_required", "expired"}
Result == [status : Statuses, id : Urls \cup {None}]

\* The range of every variable; a busy handler has an account and an id.
TypeOK ==
    /\ rows \in [Urls -> [owner : Users \cup {None}, url : Urls \cup {None}]]
    /\ \A i \in Urls : rows[i].owner = None <=> rows[i].url = None
    /\ handler \in [Handlers ->
           [pc : {"idle", "start", "collide", "write", "remove", "replied"},
            op : {"none", "put", "delete"}, user : Users \cup {None}, id : Urls \cup {None},
            url : Urls \cup {None}, existing : BOOLEAN, status : Statuses]]
    /\ \A h \in Handlers :
           handler[h].pc \notin {"idle", "replied"} =>
               handler[h].id \in Urls /\ handler[h].user \in Users
    /\ list \in Seq(Source) /\ file \in Seq(Source)
    /\ here \in BOOLEAN /\ syncBusy \in BOOLEAN /\ syncOk \in BOOLEAN
    /\ queue \in Seq([kind : {"sync", "delete"}, snap : Seq(Source), results : Seq(Result),
                      rid : Urls \cup {None}, mine : BOOLEAN])
    /\ call \in Handlers \cup {None}

\* sources.ts 61-148: although ids are shared by accounts and rows are
\* written by id alone, a row is changed or removed only by a handler of its
\* owner's, as long as the requests of an account do not overlap.
OwnRows ==
    [][\A i \in Urls :
           rows'[i] # rows[i] /\ rows[i] # NoRow =>
               \E h \in Handlers :
                   /\ handler[h].pc \in {"write", "remove"} /\ handler'[h] # handler[h]
                   /\ handler[h].user = rows[i].owner]_vars

\* The green button (updateSyncAppearance(true)) means that what was sent is
\* there: while it is green the account has every link the list has an id
\* for, with the list's url, whatever other accounts do in the meantime.
SyncedIsStored ==
    syncOk => \A n \in DOMAIN list :
                  list[n].rid # None => rows[list[n].rid] = [owner |-> Me, url |-> list[n].url]

\* A row never gets another row's id, with which its removal would delete,
\* and its next upload overwrite, the other one's link: ids are assigned by
\* index, after the list may have grown, and read back from the file.
RemoteIdOwn ==
    \A s \in {list, file} : \A n \in DOMAIN s : s[n].rid \in {None, stable_remote_id(s[n].url)}
===============================================================================
