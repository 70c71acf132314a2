------------------------------ MODULE AuthTokens ------------------------------
(***************************************************************************)
(* The auth routes of the HTTP API: api/src/routes/auth.ts over            *)
(* lib/refresh-tokens.ts and lib/auth-tokens.ts, and the authenticate      *)
(* hook of plugins/auth.ts.  As in SavesApi an action ends at each await   *)
(* and the database makes a single query atomic.                           *)
(*                                                                         *)
(* A token here is a pair as the routes hand it out: a refresh token (a    *)
(* row) and the access token (a JWT with its jti) signed beside it.  The   *)
(* tokens that descend from one login or registration by refreshes form a  *)
(* session, named by its first token.                                      *)
(***************************************************************************)
EXTENDS Naturals, FiniteSets

CONSTANTS
    Names,      \* user names
    Tokens,     \* pairs the server may mint: bounds logins and refreshes
    Handlers,   \* request handlers: bounds how many requests overlap
    Faults,     \* whether a query may fail
    Bearers,    \* pairs whose access token the clients send: bounds the run
    Lapsing,    \* pairs that may run out: bounds the run
    None        \* no token, no name

ASSUME AuthTokensAssumption ==
    /\ None \notin Tokens
    /\ None \notin Names
    /\ Faults \in BOOLEAN
    /\ Bearers \subseteq Tokens
    /\ Lapsing \subseteq Tokens

VARIABLES
    accounts,   \* rows of User, by name
    refresh,    \* refresh[t]: is there a row for the refresh token
    root,       \* root[t]: the first token of t's session (history)
    stale,      \* refresh tokens past their expiresAt
    expired,    \* access tokens past their exp
    revoked,    \* rows of RevokedToken: access tokens by jti
    given,      \* pairs some client has received
    handler     \* handler[h]: state of a request handler

vars == <<accounts, refresh, root, stale, expired, revoked, given, handler>>
rows == <<accounts, refresh, root, revoked>>
clock == <<stale, expired>>

IdleHandler == [pc |-> "idle", op |-> "none", name |-> None, token |-> None, bearer |-> None,
                blocked |-> FALSE, new |-> None, status |-> "none", faulty |-> FALSE]

Init ==
    /\ accounts = {}
    /\ refresh = [t \in Tokens |-> "unused"]
    /\ root = [t \in Tokens |-> None]
    /\ stale = {} /\ expired = {} /\ revoked = {} /\ given = {}
    /\ handler = [h \in Handlers |-> IdleHandler]

Requests ==
    LET sent == given \cap Bearers IN
    [op : {"register", "login"}, name : Names, token : {None}, bearer : {None}]
        \cup [op : {"refresh"}, name : {None}, token : given, bearer : {None}]
        \cup [op : {"logout"}, name : {None}, token : given, bearer : sent \cup {None}]
        \cup [op : {"request"}, name : {None}, token : {None}, bearer : sent]

Goto(h, pc) == handler' = [handler EXCEPT ![h].pc = pc]

\* Handler h answers; what its request was about is forgotten, except the
\* bearer of an authenticated request.
Reply(h, status) ==
    LET r == handler[h] IN
    handler' = [handler EXCEPT ![h] =
        [IdleHandler EXCEPT !.pc = "replied", !.op = r.op, !.status = status,
                            !.bearer = IF r.op = "request" THEN r.bearer ELSE None,
                            !.blocked = r.blocked,
                            !.new = IF status = "ok" THEN r.new ELSE None]]

\* A request with a well-formed body arrives; tokens come from clients, so
\* only such as were handed out.  Whether the bearer was revoked by then is
\* remembered for RevokedStaysOut.
Receive(h, q) ==
    /\ handler[h].pc = "idle"
    /\ handler' = [handler EXCEPT ![h] =
           [IdleHandler EXCEPT !.pc = q.op, !.op = q.op, !.name = q.name, !.token = q.token,
                               !.bearer = q.bearer, !.blocked = q.op = "request" /\ q.bearer \in revoked]]
    /\ UNCHANGED <<rows, clock, given>>

\* The answer reaches the client, or is lost on the way.
Answer(h) ==
    /\ handler[h].pc = "replied"
    /\ handler' = [handler EXCEPT ![h] = IdleHandler]
    /\ given' \in {given, given \cup ({handler[h].new} \ {None})}
    /\ UNCHANGED <<rows, clock>>

\* Time passes: a refresh token, or an access token that is of use, runs out.
Tick(t) ==
    /\ t \in Lapsing /\ refresh[t] # "unused"
    /\ \/ t \notin stale /\ stale' = stale \cup {t} /\ UNCHANGED expired
       \/ t \in Bearers \ expired /\ expired' = expired \cup {t} /\ UNCHANGED stale
    /\ UNCHANGED <<rows, given, handler>>

-------------------------------------------------------------------------------
(* Refresh tokens *)

\* refreshToken.delete throws when the row is gone.
DeleteAnyway(h, t, onSuccess) ==                      \* mutant: deleteMany
    /\ refresh' = [refresh EXCEPT ![t] = "gone"]
    /\ onSuccess
DeleteRefresh(h, t, onSuccess) ==
    IF refresh[t] = "live"
    THEN /\ refresh' = [refresh EXCEPT ![t] = "gone"]
         /\ onSuccess
    ELSE /\ Reply(h, "error")
         /\ UNCHANGED refresh

\* issueRefreshToken: a row for a fresh token of session s (its own, None).
IssueRefresh(h, s, pc, status) ==
    \E t \in Tokens :
        /\ refresh[t] = "unused"
        /\ refresh' = [refresh EXCEPT ![t] = "live"]
        /\ root' = [root EXCEPT ![t] = IF s = None THEN t ELSE s]
        /\ handler' = [handler EXCEPT ![h] =
               [IdleHandler EXCEPT !.pc = pc, !.op = handler[h].op, !.status = status, !.new = t]]

-------------------------------------------------------------------------------
(* POST /auth/register and /auth/login *)

RegisterFind(h) ==
    /\ handler[h].pc = "register"
    /\ IF handler[h].name \in accounts THEN Reply(h, "conflict") ELSE Goto(h, "create")
    /\ UNCHANGED <<rows, clock, given>>

\* user.create: the column is unique (schema.prisma), the second of two
\* that race gets an exception.
NameTaken(n) == n \in accounts
RegisterCreate(h) ==
    LET n == handler[h].name IN
    /\ handler[h].pc = "create"
    /\ IF NameTaken(n)
       THEN Reply(h, "error") /\ UNCHANGED accounts
       ELSE accounts' = accounts \cup {n} /\ Goto(h, "issue")
    /\ UNCHANGED <<refresh, root, revoked, clock, given>>

\* findUnique and verifyPassword, for a right or a wrong password.
LoginVerify(h) ==
    /\ handler[h].pc = "login"
    /\ \/ Reply(h, "denied")
       \/ handler[h].name \in accounts /\ Goto(h, "issue")
    /\ UNCHANGED <<rows, clock, given>>

\* signAuthResponse: a new session.
Issue(h) ==
    /\ handler[h].pc = "issue"
    /\ IssueRefresh(h, None, "replied", "ok")
    /\ UNCHANGED <<accounts, revoked, clock, given>>

-------------------------------------------------------------------------------
(* POST /auth/refresh *)

RefreshFind(h) ==
    LET t == handler[h].token IN
    /\ handler[h].pc = "refresh"
    /\ IF refresh[t] # "live" THEN Reply(h, "denied")
       ELSE Goto(h, IF t \in stale THEN "purge" ELSE "rotate")
    /\ UNCHANGED <<rows, clock, given>>

\* An expired row is removed before the request is turned down.
RefreshPurge(h) ==
    /\ handler[h].pc = "purge"
    /\ DeleteRefresh(h, handler[h].token, Reply(h, "denied"))
    /\ UNCHANGED <<accounts, root, revoked, clock, given>>

\* rotateRefreshToken: the old row goes ...
RefreshDeleteForgotten(h) ==                          \* mutant: no delete
    /\ handler[h].pc = "rotate"
    /\ Goto(h, "reissue")
    /\ UNCHANGED <<rows, clock, given>>
RefreshDelete(h) ==
    /\ handler[h].pc = "rotate"
    /\ DeleteRefresh(h, handler[h].token, Goto(h, "reissue"))
    /\ UNCHANGED <<accounts, root, revoked, clock, given>>

\* ... before the new one is there.
RefreshIssue(h) ==
    /\ handler[h].pc = "reissue"
    /\ IssueRefresh(h, root[handler[h].token], "sign", "none")
    /\ UNCHANGED <<accounts, revoked, clock, given>>

\* The user is looked up and the access token signed.
RefreshSign(h) ==
    /\ handler[h].pc = "sign"
    /\ Reply(h, "ok")
    /\ UNCHANGED <<rows, clock, given>>

-------------------------------------------------------------------------------
(* POST /auth/logout *)

\* A missing or expired bearer is no error.
LogoutVerifyUnchecked(h) ==                           \* mutant: decode without verifying
    /\ handler[h].pc = "logout"
    /\ Goto(h, "sweep")
    /\ UNCHANGED <<rows, clock, given>>
LogoutVerify(h) ==
    LET a == handler[h].bearer IN
    /\ handler[h].pc = "logout"
    /\ Goto(h, IF a = None \/ a \in expired THEN "find" ELSE "sweep")
    /\ UNCHANGED <<rows, clock, given>>

\* revokedToken.deleteMany: the row of an access token expires with it.
SweepAll == revoked                                   \* mutant: no time limit
SweepExpired == revoked \cap expired
LogoutSweep(h) ==
    /\ handler[h].pc = "sweep"
    /\ revoked' = revoked \ SweepExpired
    /\ Goto(h, "block")
    /\ UNCHANGED <<accounts, refresh, root, clock, given>>

\* revokedToken.upsert
LogoutBlock(h) ==
    /\ handler[h].pc = "block"
    /\ revoked' = revoked \cup {handler[h].bearer}
    /\ Goto(h, "find")
    /\ UNCHANGED <<accounts, refresh, root, clock, given>>

\* revokeRefreshToken; a token without a row is no error either.
LogoutFind(h) ==
    /\ handler[h].pc = "find"
    /\ IF refresh[handler[h].token] = "live" THEN Goto(h, "drop") ELSE Reply(h, "ok")
    /\ UNCHANGED <<rows, clock, given>>

LogoutDrop(h) ==
    /\ handler[h].pc = "drop"
    /\ DeleteRefresh(h, handler[h].token, Reply(h, "ok"))
    /\ UNCHANGED <<accounts, root, revoked, clock, given>>

-------------------------------------------------------------------------------
(* Any route behind app.authenticate *)

AuthVerify(h) ==
    /\ handler[h].pc = "request"
    /\ IF handler[h].bearer \in expired THEN Reply(h, "denied") ELSE Goto(h, "lookup")
    /\ UNCHANGED <<rows, clock, given>>

AuthLookup(h) ==
    /\ handler[h].pc = "lookup"
    /\ Reply(h, IF handler[h].bearer \in revoked THEN "denied" ELSE "ok")
    /\ UNCHANGED <<rows, clock, given>>

-------------------------------------------------------------------------------

\* A request that is let through because the look-up failed.
FailOpen(h) ==
    handler' = [handler EXCEPT ![h] =
        [handler[h] EXCEPT !.pc = "replied", !.status = "ok", !.faulty = TRUE]]

\* A query fails.  A logout goes on to the refresh token when the bearer
\* could not be revoked, a revocation that cannot be looked up counts as
\* absent, and everything else answers 500.
Fault(h) ==
    LET pc == handler[h].pc IN
    /\ Faults
    /\ pc \notin {"idle", "replied", "logout", "request"}
    /\ \/ pc \in {"sweep", "block"} /\ Goto(h, "find")
       \/ pc = "lookup" /\ FailOpen(h)
       \/ pc \notin {"sweep", "block", "lookup"} /\ Reply(h, "error")
    /\ UNCHANGED <<rows, clock, given>>

HandlerStep(h) ==
    \/ RegisterFind(h) \/ RegisterCreate(h) \/ LoginVerify(h) \/ Issue(h)
    \/ RefreshFind(h) \/ RefreshPurge(h) \/ RefreshDelete(h) \/ RefreshIssue(h) \/ RefreshSign(h)
    \/ LogoutVerify(h) \/ LogoutSweep(h) \/ LogoutBlock(h) \/ LogoutFind(h) \/ LogoutDrop(h)
    \/ AuthVerify(h) \/ AuthLookup(h)
    \/ Fault(h)

Next ==
    \/ \E h \in Handlers : (\E q \in Requests : Receive(h, q)) \/ HandlerStep(h) \/ Answer(h)
    \/ \E t \in Tokens : Tick(t)

Spec == Init /\ [][Next]_vars

-------------------------------------------------------------------------------
(* Properties *)

Stages == {"idle", "replied", "register", "create", "login", "issue",
           "refresh", "purge", "rotate", "reissue", "sign",
           "logout", "sweep", "block", "find", "drop", "request", "lookup"}

\* The range of every variable; a token is in a session from its minting on.
TypeOK ==
    /\ accounts \subseteq Names
    /\ refresh \in [Tokens -> {"unused", "live", "gone"}]
    /\ root \in [Tokens -> Tokens \cup {None}]
    /\ stale \subseteq Tokens /\ expired \subseteq Tokens
    /\ revoked \subseteq Tokens /\ given \subseteq Tokens
    /\ handler \in [Handlers ->
           [pc : Stages, op : {"none", "register", "login", "refresh", "logout", "request"},
            name : Names \cup {None}, token : Tokens \cup {None}, bearer : Tokens \cup {None},
            blocked : BOOLEAN, new : Tokens \cup {None},
            status : {"none", "ok", "denied", "conflict", "error"}, faulty : BOOLEAN]]
    /\ \A t \in Tokens : refresh[t] # "unused" => root[t] \in Tokens

\* The rotation of the API document ("the old refresh token stops being
\* valid"): however refreshes and logouts of a session race, and wherever
\* they break off, at most one of its refresh tokens can be exchanged.
OneLive ==
    \A t, u \in Tokens :
        refresh[t] = "live" /\ refresh[u] = "live" /\ root[t] = root[u] => t = u

\* An access token that was revoked when a request with it arrived does not
\* get through, however many logouts sweep the list meanwhile, unless the
\* look-up fails (decision D-06) or the token has expired by then.
RevokedStaysOut ==
    \A h \in Handlers :
        /\ handler[h].op = "request" /\ handler[h].status = "ok"
        /\ handler[h].blocked /\ ~handler[h].faulty
        => handler[h].bearer \in expired

-------------------------------------------------------------------------------
(* The promise to a client *)

\* The key of a session is its live refresh token; a handler of a refresh
\* turns it from the deletion of the old one to the making of the new one.
key == [s \in Tokens |-> {t \in Tokens : refresh[t] = "live" /\ root[t] = s}]
turning == {root[handler[h].token] : h \in {g \in Handlers : handler[g].pc = "reissue"}}
used == {t \in Tokens : refresh[t] # "unused"}

Session == INSTANCE Sessions

\* However refreshes and logouts of a session race, lose their answers and
\* break off between two queries: its keys follow one another, each is
\* exchanged once, and a session without a key is over unless a refresh is
\* between taking the old one and giving a new one.  (A logout whose look-up
\* falls there finds no token, answers 200, and the session goes on.)
ImplementsSessions == Session!Spec
===============================================================================
