------------------------------- MODULE SavesApi -------------------------------
(***************************************************************************)
(* The save routes of the HTTP API (api/src/routes/saves.ts over           *)
(* api/src/lib/save-storage.ts): one row and one blob file per account for *)
(* a title.  Handlers share one thread but give way at every await, so an  *)
(* action here ends at each await; nothing in the code makes the revision  *)
(* check and the writes that follow it one step.                           *)
(*                                                                         *)
(* Requests come from an arbitrary client (Receive); CloudSaves puts the   *)
(* program's own client in its place.                                      *)
(***************************************************************************)
EXTENDS Integers, FiniteSets

CONSTANTS
    Users,        \* accounts (the subject of the bearer token)
    Contents,     \* save packages
    Handlers,     \* request handlers: bounds how many requests overlap
    Ops,          \* what clients ask for, of put, status, pull and delete
    MaxRev,       \* bound on the revision counter
    MaxWriters,   \* puts and deletes of one account in progress at a time
    Absent, Torn  \* a blob that is missing; one that is half written

ASSUME SavesApiAssumption ==
    /\ Absent \notin Contents /\ Torn \notin Contents /\ Absent # Torn
    /\ Absent \notin Users
    /\ IsFiniteSet(Handlers)
    /\ Ops \subseteq {"put", "status", "pull", "delete"}
    /\ MaxRev \in Nat
    /\ MaxWriters \in Nat

VARIABLES
    slot,         \* slot[u]: revision of the row, 0 when there is none
    blob,         \* blob[u]: the file saves/<user>/<title>.bin
    row,          \* row[u]: the package the row was written for (history)
    handler,      \* handler[h]: state of a request handler
    accepted,     \* puts committed since the row was created (history)
    admitted      \* puts that passed the revision check (history)

apiVars == <<slot, blob, row, handler, accepted, admitted>>

NoRev == -1       \* the body has no revision field

Requests ==
    [op : Ops \cap {"put"}, user : Users, expected : NoRev .. MaxRev, content : Contents]
        \cup
    [op : Ops \ {"put"}, user : Users, expected : {NoRev}, content : {Absent}]

IdleHandler ==
    [pc |-> "idle", op |-> "none", user |-> Absent, expected |-> NoRev, content |-> Absent,
     existing |-> 0, status |-> "none", rev |-> 0, data |-> Absent]

ApiInit ==
    /\ slot = [u \in Users |-> 0]
    /\ blob = [u \in Users |-> Absent]
    /\ row = [u \in Users |-> Absent]
    /\ handler = [h \in Handlers |-> IdleHandler]
    /\ accepted = {}
    /\ admitted = {}

\* A put or a delete that has read the row and not finished with it.
Writing(h) == handler[h].pc \in {"checked", "writing", "written", "removing", "unlinked"}
Writers(u) == {h \in Handlers : Writing(h) /\ handler[h].user = u}

\* Handler h goes on to stage pc.
Goto(h, pc) == handler' = [handler EXCEPT ![h].pc = pc]

\* Handler h answers: an HTTP status class, and the slot and data it sends.
\* Of the request only what the answer is about is kept.
Reply(h, status, rev, data) ==
    handler' = [handler EXCEPT ![h] =
        [IdleHandler EXCEPT !.pc = "replied", !.op = handler[h].op, !.user = handler[h].user,
                            !.status = status, !.rev = rev, !.data = data]]

-------------------------------------------------------------------------------
(* The client's end *)

\* A request with a valid token, title id and body reaches the route.
Receive(h, q) ==
    /\ handler[h].pc = "idle"
    /\ handler' = [handler EXCEPT ![h] =
           [IdleHandler EXCEPT !.pc = "start", !.op = q.op, !.user = q.user,
                               !.expected = q.expected, !.content = q.content]]
    /\ UNCHANGED <<slot, blob, row, accepted, admitted>>

\* The answer leaves the server (or finds nobody waiting for it).
Answer(h) ==
    /\ handler[h].pc = "replied"
    /\ handler' = [handler EXCEPT ![h] = IdleHandler]
    /\ UNCHANGED <<slot, blob, row, accepted, admitted>>

-------------------------------------------------------------------------------
(* GET /saves/:titleId, without and with includeData=1 *)

\* One read of the row answers a request for the metadata.
GetStatus(h) ==
    LET rev == slot[handler[h].user] IN
    /\ handler[h].pc = "start" /\ handler[h].op = "status"
    /\ Reply(h, IF rev = 0 THEN "missing" ELSE "ok", rev, Absent)
    /\ UNCHANGED <<slot, blob, row, accepted, admitted>>

\* The row is read first ...
GetFind(h) ==
    LET rev == slot[handler[h].user] IN
    /\ handler[h].pc = "start" /\ handler[h].op = "pull"
    /\ IF rev = 0
       THEN Reply(h, "missing", 0, Absent)
       ELSE handler' = [handler EXCEPT ![h].pc = "found", ![h].existing = rev]
    /\ UNCHANGED <<slot, blob, row, accepted, admitted>>

\* ... and the file after another await, as it is by then.
GetData(h) ==
    LET data == blob[handler[h].user] IN
    /\ handler[h].pc = "found"
    /\ IF data = Absent
       THEN Reply(h, "missing", 0, Absent)        \* save_data_missing
       ELSE Reply(h, "ok", handler[h].existing, data)
    /\ UNCHANGED <<slot, blob, row, accepted, admitted>>

-------------------------------------------------------------------------------
(* PUT /saves/:titleId *)

\* The rule of the revision check: what the request must name.
RevisionUnchecked(expected, existing) == TRUE        \* mutant
RevisionMatches(expected, existing) ==
    IF existing = 0 THEN expected \in {NoRev, 0} ELSE expected = existing

\* The revision a put replaces, as its client named it.
Base(h) == IF handler[h].expected = NoRev THEN 0 ELSE handler[h].expected

\* saveSlot.findUnique and the checks against the row it returned.
PutCheck(h) ==
    LET u == handler[h].user
        existing == slot[u]
        expected == handler[h].expected
    IN
    /\ handler[h].pc = "start" /\ handler[h].op = "put"
    /\ Cardinality(Writers(u)) < MaxWriters
    /\ existing < MaxRev
    /\ IF RevisionMatches(expected, existing)
       THEN /\ handler' = [handler EXCEPT ![h].pc = "checked", ![h].existing = existing]
            /\ admitted' = admitted \cup
                   {[user |-> u, content |-> handler[h].content, base |-> Base(h)]}
       ELSE /\ Reply(h, IF expected = NoRev THEN "error" ELSE "conflict", 0, Absent)
            /\ UNCHANGED admitted
    /\ UNCHANGED <<slot, blob, row, accepted>>

\* writeSaveBlob truncates the file it overwrites ...
PutOpenNothing(h) ==                                  \* mutant: row first
    /\ handler[h].pc = "checked"
    /\ Goto(h, "written")
    /\ UNCHANGED <<slot, blob, row, accepted, admitted>>
PutOpen(h) ==
    /\ handler[h].pc = "checked"
    /\ blob' = [blob EXCEPT ![handler[h].user] = Torn]
    /\ Goto(h, "writing")
    /\ UNCHANGED <<slot, row, accepted, admitted>>

\* ... and fills it.  Two writers that interleave may leave a mixture.
PutWrite(h) ==
    LET u == handler[h].user
        shared == \E g \in Writers(u) \ {h} : handler[g].pc = "writing"
    IN
    /\ handler[h].pc = "writing"
    /\ \E data \in {handler[h].content} \cup (IF shared THEN {Torn} ELSE {}) :
           blob' = [blob EXCEPT ![u] = data]
    /\ Goto(h, "written")
    /\ UNCHANGED <<slot, row, accepted, admitted>>

\* saveSlot.upsert: create starts at 1, update counts from the row that
\* was read before the file was written.
NextRevisionSkips(h) == handler[h].existing + 2       \* mutant
NextRevision(h) ==
    IF slot[handler[h].user] = 0 THEN 1 ELSE handler[h].existing + 1

PutCommit(h) ==
    LET u == handler[h].user
        new == NextRevision(h)
    IN
    /\ handler[h].pc = "written"
    /\ slot' = [slot EXCEPT ![u] = new]
    /\ row' = [row EXCEPT ![u] = handler[h].content]
    /\ accepted' = accepted \cup {[user |-> u, content |-> handler[h].content,
                                   base |-> Base(h), new |-> new]}
    /\ Reply(h, "ok", new, Absent)
    /\ UNCHANGED <<blob, admitted>>

-------------------------------------------------------------------------------
(* DELETE /saves/:titleId *)

DeleteFind(h) ==
    LET u == handler[h].user IN
    /\ handler[h].pc = "start" /\ handler[h].op = "delete"
    /\ Cardinality(Writers(u)) < MaxWriters
    /\ IF slot[u] = 0 THEN Reply(h, "missing", 0, Absent) ELSE Goto(h, "removing")
    /\ UNCHANGED <<slot, blob, row, accepted, admitted>>

\* The file goes first; a missing file is no error.
DeleteBlob(h) ==
    /\ handler[h].pc = "removing"
    /\ blob' = [blob EXCEPT ![handler[h].user] = Absent]
    /\ Goto(h, "unlinked")
    /\ UNCHANGED <<slot, row, accepted, admitted>>

\* saveSlot.delete throws when the row is gone already.
DeleteRow(h) ==
    LET u == handler[h].user IN
    /\ handler[h].pc = "unlinked"
    /\ IF slot[u] = 0
       THEN /\ Reply(h, "error", 0, Absent)
            /\ UNCHANGED <<slot, row, accepted>>
       ELSE /\ Reply(h, "ok", 0, Absent)
            /\ slot' = [slot EXCEPT ![u] = 0]
            /\ row' = [row EXCEPT ![u] = Absent]
            /\ accepted' = {a \in accepted : a.user # u}
    /\ UNCHANGED <<blob, admitted>>

-------------------------------------------------------------------------------

\* Any await can throw (database, disk; an empty or oversized package is
\* refused inside writeSaveBlob), and the process can die: what was done
\* before stays done and the client sees an error.
Fail(h) ==
    /\ handler[h].pc \notin {"idle", "replied"}
    /\ Reply(h, "error", 0, Absent)
    /\ UNCHANGED <<slot, blob, row, accepted, admitted>>

HandlerStep(h) ==
    \/ GetStatus(h) \/ GetFind(h) \/ GetData(h)
    \/ PutCheck(h) \/ PutOpen(h) \/ PutWrite(h) \/ PutCommit(h)
    \/ DeleteFind(h) \/ DeleteBlob(h) \/ DeleteRow(h)
    \/ Fail(h)

ApiNext ==
    \E h \in Handlers :
        \/ \E q \in Requests : Receive(h, q)
        \/ HandlerStep(h)
        \/ Answer(h)

ApiSpec == ApiInit /\ [][ApiNext]_apiVars

-------------------------------------------------------------------------------
(* Properties *)

Stages == {"idle", "start", "checked", "writing", "written", "found",
           "removing", "unlinked", "replied"}

\* The range of every variable; a busy handler has a request.
ApiTypeOK ==
    /\ slot \in [Users -> 0 .. MaxRev]
    /\ blob \in [Users -> Contents \cup {Absent, Torn}]
    /\ row \in [Users -> Contents \cup {Absent}]
    /\ handler \in [Handlers ->
           [pc : Stages, op : Ops \cup {"none"}, user : Users \cup {Absent},
            expected : NoRev .. MaxRev, content : Contents \cup {Absent},
            existing : 0 .. MaxRev,
            status : {"none", "ok", "missing", "conflict", "error"},
            rev : 0 .. MaxRev, data : Contents \cup {Absent, Torn}]]
    /\ accepted \subseteq [user : Users, content : Contents, base : 0 .. MaxRev, new : 0 .. MaxRev]
    /\ admitted \subseteq [user : Users, content : Contents, base : 0 .. MaxRev]

\* Optimistic locking (saves.ts 147-155): of two puts that name the same
\* revision of a slot at most one is accepted.
NoLostUpdate ==
    \A a, b \in accepted : a.user = b.user /\ a.base = b.base => a = b

\* While nobody deletes, a row never names a file that is not there: a
\* client told that a save exists is not answered save_data_missing,
\* however many puts overlap and wherever they break off.
RowHasFile ==
    \A u \in Users : slot[u] # 0 => blob[u] # Absent

\* A revision is never handed out with a package older than that revision:
\* a download shows the put that made the revision or a later one, though
\* the row and the file are read in two steps and puts run in between.
PullNotOlder ==
    \A h \in Handlers :
        handler[h].pc = "replied" /\ handler[h].op = "pull" /\ handler[h].status = "ok"
            /\ handler[h].data # Torn
        => \E p \in admitted :
               /\ p.user = handler[h].user
               /\ p.content = handler[h].data
               /\ p.base + 1 >= handler[h].rev

\* The routes, as long as the puts and deletes of an account do not
\* overlap, are the register the clients are promised.
Register == INSTANCE SaveRegister
    WITH reg <- [u \in Users |-> [rev |-> slot[u], content |-> row[u]]]

ImplementsRegister == Register!Spec
===============================================================================
