--------------------------- MODULE AuthTokensProofs ---------------------------
(***************************************************************************)
(* Theorems about AuthTokens: types, one live refresh token per session,   *)
(* the refinement of Sessions, and revoked access tokens staying out.      *)
(***************************************************************************)
EXTENDS AuthTokens, TLAPS

-------------------------------------------------------------------------------
(* Types *)

Statuses == {"none", "ok", "denied", "conflict", "error"}
HandlerRecord ==
    [pc : Stages, op : {"none", "register", "login", "refresh", "logout", "request"},
     name : Names \cup {None}, token : Tokens \cup {None}, bearer : Tokens \cup {None},
     blocked : BOOLEAN, new : Tokens \cup {None}, status : Statuses, faulty : BOOLEAN]

Minted(t) == t \in Tokens /\ refresh[t] # "unused"

\* What is passed around has been minted, a handler between two queries
\* knows what it works on, and sessions are named by minted tokens.
HandlerInv ==
    \A h \in Handlers :
        /\ handler[h].pc = "create" => handler[h].name \in Names
        /\ handler[h].pc = "register" => handler[h].name \in Names
        /\ handler[h].pc \in {"refresh", "purge", "rotate", "reissue", "logout", "sweep",
                              "block", "find", "drop"} => Minted(handler[h].token)
        /\ handler[h].pc \in {"sweep", "block", "request", "lookup"}
               => handler[h].bearer \in Tokens
        /\ handler[h].new # None => Minted(handler[h].new)

MintedInv ==
    /\ \A t \in Tokens : Minted(t) => Minted(root[t])
    /\ \A t \in given : Minted(t)

TypeInv == TypeOK /\ HandlerInv /\ MintedInv

\* The initial states satisfy the type invariant.
LEMMA TypeInit == Init => TypeInv
BY AuthTokensAssumption
   DEF Init, TypeInv, TypeOK, HandlerInv, MintedInv, Minted, IdleHandler, Stages

\* What the answer of a handler leaves.
LEMMA ReplyEffect ==
    ASSUME handler \in [Handlers -> HandlerRecord], NEW h \in Handlers,
           NEW status \in Statuses, Reply(h, status)
    PROVE  /\ handler' \in [Handlers -> HandlerRecord]
           /\ \A g \in Handlers \ {h} : handler'[g] = handler[g]
           /\ handler'[h].pc = "replied"
           /\ handler'[h].status = status
           /\ handler'[h].op = handler[h].op
           /\ handler'[h].blocked = handler[h].blocked
           /\ handler'[h].op = "request" => handler'[h].bearer = handler[h].bearer
           /\ handler'[h].new \in {handler[h].new, None}
<1> DEFINE r == handler[h]
           bearer == IF r.op = "request" THEN r.bearer ELSE None
           new == IF status = "ok" THEN r.new ELSE None
           answer == [IdleHandler EXCEPT !.pc = "replied", !.op = r.op, !.status = status,
                          !.bearer = bearer, !.blocked = r.blocked, !.new = new]
<1>1. handler' = [handler EXCEPT ![h] = answer]
    BY DEF Reply
<1>2. /\ bearer \in Tokens \cup {None} /\ new \in Tokens \cup {None}
      /\ new \in {r.new, None}
      /\ r.op = "request" => bearer = r.bearer
      /\ r.op \in {"none", "register", "login", "refresh", "logout", "request"}
      /\ r.blocked \in BOOLEAN
    BY DEF HandlerRecord
<1> HIDE DEF bearer, new
<1>3. /\ answer \in HandlerRecord
      /\ answer.pc = "replied" /\ answer.status = status /\ answer.op = r.op
      /\ answer.blocked = r.blocked
      /\ answer.bearer = bearer /\ answer.new = new
    BY <1>2 DEF HandlerRecord, IdleHandler, Stages
<1> HIDE DEF answer
<1>4. handler' \in [Handlers -> HandlerRecord] /\ handler'[h] = answer
    BY <1>1, <1>3
<1>5. \A g \in Handlers \ {h} : handler'[g] = handler[g]
    BY <1>1
<1> QED BY <1>2, <1>3, <1>4, <1>5

\* What going on to another stage leaves.
LEMMA GotoEffect ==
    ASSUME handler \in [Handlers -> HandlerRecord], NEW h \in Handlers,
           NEW pc \in Stages, Goto(h, pc)
    PROVE  /\ handler' \in [Handlers -> HandlerRecord]
           /\ \A g \in Handlers \ {h} : handler'[g] = handler[g]
           /\ handler'[h] = [handler[h] EXCEPT !.pc = pc]
           /\ handler'[h].pc = pc
           /\ handler'[h].token = handler[h].token
           /\ handler'[h].name = handler[h].name
           /\ handler'[h].bearer = handler[h].bearer
           /\ handler'[h].new = handler[h].new
           /\ handler'[h].op = handler[h].op
           /\ handler'[h].status = handler[h].status
           /\ handler'[h].blocked = handler[h].blocked
BY DEF Goto, HandlerRecord

\* Tokens are never unminted.
Lasting == \A t \in Tokens : Minted(t) => Minted(t)'

\* An answer keeps what is known of the handlers.
LEMMA ReplyType ==
    ASSUME TypeInv, NEW h \in Handlers, NEW status \in Statuses, Reply(h, status), Lasting
    PROVE  handler' \in [Handlers -> HandlerRecord] /\ HandlerInv'
<1>1. handler \in [Handlers -> HandlerRecord]
    BY DEF TypeInv, TypeOK, HandlerRecord, Statuses
<1>2. \A g \in Handlers : handler[g].new # None => Minted(handler[g].new)
    BY DEF TypeInv, HandlerInv
<1>3. (handler[h].new # None => Minted(handler[h].new))'
    <2>1. handler'[h].new \in {handler[h].new, None}
        BY <1>1, ReplyEffect
    <2> QED BY <1>2, <2>1 DEF Lasting, Minted
<1>4. \A g \in Handlers \ {h} : handler'[g] = handler[g]
    BY <1>1, ReplyEffect
<1>5. handler'[h].pc = "replied" /\ handler' \in [Handlers -> HandlerRecord]
    <2>1. handler' \in [Handlers -> HandlerRecord]
        BY <1>1, ReplyEffect
    <2>2. handler'[h].pc = "replied"
        BY <1>1, ReplyEffect
    <2> QED BY <2>1, <2>2
<1>6. HandlerInv'
    BY <1>3, <1>4, <1>5 DEF TypeInv, HandlerInv, Lasting, Minted
<1> QED BY <1>5, <1>6

\* So does going on to a stage whose needs are met.
LEMMA GotoType ==
    ASSUME TypeInv, NEW h \in Handlers, NEW pc \in Stages, Goto(h, pc), Lasting,
           pc \in {"create", "register"} => handler[h].name \in Names,
           pc \in {"refresh", "purge", "rotate", "reissue", "logout", "sweep", "block",
                   "find", "drop"} => Minted(handler[h].token),
           pc \in {"sweep", "block", "request", "lookup"} => handler[h].bearer \in Tokens
    PROVE  handler' \in [Handlers -> HandlerRecord] /\ HandlerInv'
<1>1. handler \in [Handlers -> HandlerRecord]
    BY DEF TypeInv, TypeOK, HandlerRecord, Statuses
<1>2. /\ \A g \in Handlers \ {h} : handler'[g] = handler[g]
      /\ handler'[h].pc = pc
      /\ handler'[h].token = handler[h].token
      /\ handler'[h].name = handler[h].name
      /\ handler'[h].bearer = handler[h].bearer
      /\ handler'[h].new = handler[h].new
    BY <1>1, GotoEffect
<1>3. HandlerInv'
    BY <1>2 DEF TypeInv, HandlerInv, Lasting, Minted
<1> QED BY <1>1, <1>3, GotoEffect

\* Minting a token: a fresh one, live, in session s or one of its own.
LEMMA IssueType ==
    ASSUME TypeInv, NEW h \in Handlers, NEW s,
           s = None \/ Minted(s),
           NEW pc \in {"replied", "sign"}, NEW status \in Statuses,
           IssueRefresh(h, s, pc, status), UNCHANGED given
    PROVE  /\ handler' \in [Handlers -> HandlerRecord]
           /\ refresh' \in [Tokens -> {"unused", "live", "gone"}]
           /\ root' \in [Tokens -> Tokens \cup {None}]
           /\ HandlerInv' /\ MintedInv'
<1> USE AuthTokensAssumption
<1>1. PICK t \in Tokens :
          /\ refresh[t] = "unused"
          /\ refresh' = [refresh EXCEPT ![t] = "live"]
          /\ root' = [root EXCEPT ![t] = IF s = None THEN t ELSE s]
          /\ handler' = [handler EXCEPT ![h] =
                 [IdleHandler EXCEPT !.pc = pc, !.op = handler[h].op,
                                     !.status = status, !.new = t]]
    BY DEF IssueRefresh
<1>2. /\ handler \in [Handlers -> HandlerRecord]
      /\ refresh \in [Tokens -> {"unused", "live", "gone"}]
      /\ root \in [Tokens -> Tokens \cup {None}]
    BY DEF TypeInv, TypeOK, HandlerRecord, Statuses
<1>3. Lasting /\ Minted(t)'
    BY <1>1, <1>2 DEF Lasting, Minted
<1>4. refresh' \in [Tokens -> {"unused", "live", "gone"}]
    BY <1>1, <1>2
<1>5. root' \in [Tokens -> Tokens \cup {None}]
    BY <1>1, <1>2 DEF Minted
<1>6. handler' \in [Handlers -> HandlerRecord]
    <2> DEFINE op == handler[h].op
    <2>1. op \in {"none", "register", "login", "refresh", "logout", "request"}
        BY <1>2 DEF HandlerRecord
    <2> HIDE DEF op
    <2>2. [IdleHandler EXCEPT !.pc = pc, !.op = op, !.status = status, !.new = t] \in HandlerRecord
        BY <2>1 DEF IdleHandler, HandlerRecord, Stages, Statuses
    <2> QED BY <1>1, <1>2, <2>2 DEF op
<1>7. HandlerInv'
    <2>1. /\ \A g \in Handlers \ {h} : handler'[g] = handler[g]
          /\ handler'[h].pc = pc /\ handler'[h].new = t
        BY <1>1, <1>2 DEF IdleHandler
    <2> QED BY <1>3, <2>1 DEF TypeInv, HandlerInv, Lasting, Minted
<1>8. MintedInv'
    BY <1>1, <1>2, <1>3 DEF TypeInv, MintedInv, Minted, Lasting
<1> QED BY <1>4, <1>5, <1>6, <1>7, <1>8

\* A deletion that succeeds unmints nothing.
LEMMA DeleteType ==
    ASSUME TypeInv, NEW t \in Tokens, refresh[t] = "live",
           refresh' = [refresh EXCEPT ![t] = "gone"], UNCHANGED <<root, given>>
    PROVE  /\ refresh' \in [Tokens -> {"unused", "live", "gone"}]
           /\ Lasting /\ MintedInv'
BY DEF TypeInv, TypeOK, MintedInv, Lasting, Minted

\* Every step keeps the type invariant.
LEMMA TypeStep == TypeInv /\ [Next]_vars => TypeInv'
<1> SUFFICES ASSUME TypeInv, [Next]_vars
             PROVE  TypeInv'
    OBVIOUS
<1> USE AuthTokensAssumption
<1>a. handler \in [Handlers -> HandlerRecord]
    BY DEF TypeInv, TypeOK, HandlerRecord, Statuses
<1>b. ASSUME handler' \in [Handlers -> HandlerRecord], HandlerInv',
             UNCHANGED <<rows, clock, given>>
      PROVE  TypeInv'
    BY <1>b DEF TypeInv, TypeOK, MintedInv, Minted, rows, clock, HandlerRecord, Statuses
<1>c. ASSUME UNCHANGED refresh
      PROVE  Lasting
    BY <1>c DEF Lasting, Minted
<1>d. ASSUME NEW h \in Handlers, NEW status \in Statuses,
             Reply(h, status), UNCHANGED <<rows, clock, given>>
      PROVE  TypeInv'
    BY <1>b, <1>c, <1>d, ReplyType DEF rows
<1>1. ASSUME NEW h \in Handlers, NEW q \in Requests, Receive(h, q)
      PROVE  TypeInv'
    <2> DEFINE blocked == q.op = "request" /\ q.bearer \in revoked
    <2>1. /\ q.op \in {"register", "login", "refresh", "logout", "request"}
          /\ q.name \in Names \cup {None} /\ q.token \in Tokens \cup {None}
          /\ q.bearer \in Tokens \cup {None}
          /\ q.op \in {"register"} => q.name \in Names
          /\ q.op \in {"refresh", "logout"} => Minted(q.token)
          /\ q.op = "request" => q.bearer \in Tokens
        BY DEF Requests, TypeInv, TypeOK, MintedInv, Minted
    <2>2. blocked \in BOOLEAN
        OBVIOUS
    <2> HIDE DEF blocked
    <2> DEFINE r == [IdleHandler EXCEPT !.pc = q.op, !.op = q.op, !.name = q.name,
                         !.token = q.token, !.bearer = q.bearer, !.blocked = blocked]
    <2>3. /\ r \in HandlerRecord /\ r.pc = q.op /\ r.name = q.name /\ r.token = q.token
          /\ r.bearer = q.bearer /\ r.new = None
        BY <2>1, <2>2 DEF IdleHandler, HandlerRecord, Stages, Statuses
    <2>4. handler' = [handler EXCEPT ![h] = r]
        BY <1>1 DEF Receive, blocked
    <2> HIDE DEF r
    <2>5. handler' \in [Handlers -> HandlerRecord]
        BY <1>a, <2>3, <2>4
    <2>6. UNCHANGED <<rows, clock, given>>
        BY <1>1 DEF Receive
    <2>7. HandlerInv'
        BY <1>a, <2>1, <2>3, <2>4, <2>6 DEF TypeInv, HandlerInv, Minted, rows
    <2> QED BY <1>b, <2>5, <2>6, <2>7
<1>2. ASSUME NEW h \in Handlers, Answer(h)
      PROVE  TypeInv'
    <2>1. IdleHandler \in HandlerRecord
        BY DEF IdleHandler, HandlerRecord, Stages, Statuses
    <2>2. handler' \in [Handlers -> HandlerRecord]
        BY <1>a, <1>2, <2>1 DEF Answer
    <2>3. HandlerInv'
        BY <1>a, <1>2 DEF Answer, TypeInv, HandlerInv, Minted, IdleHandler, rows
    <2>4. given' \subseteq Tokens /\ \A t \in given' : Minted(t)
        BY <1>2 DEF Answer, TypeInv, TypeOK, HandlerInv, MintedInv, Minted
    <2> QED
        BY <1>2, <2>2, <2>3, <2>4
           DEF Answer, TypeInv, TypeOK, MintedInv, Minted, rows, clock, HandlerRecord, Statuses
<1>3. ASSUME NEW t \in Tokens, Tick(t)
      PROVE  TypeInv'
    BY <1>3 DEF Tick, TypeInv, TypeOK, HandlerInv, MintedInv, Minted, rows
<1>4. ASSUME NEW h \in Handlers, RegisterFind(h)
      PROVE  TypeInv'
    <2>1. CASE handler[h].name \in accounts
        BY <1>4, <1>d, <2>1 DEF RegisterFind, Statuses
    <2>2. CASE handler[h].name \notin accounts
        <3>1. Goto(h, "create") /\ UNCHANGED <<rows, clock, given>> /\ handler[h].name \in Names
            BY <1>4, <2>2 DEF RegisterFind, TypeInv, HandlerInv
        <3>2. handler' \in [Handlers -> HandlerRecord] /\ HandlerInv'
            BY <1>c, <3>1, GotoType DEF rows, Stages
        <3> QED BY <1>b, <3>1, <3>2
    <2> QED BY <2>1, <2>2
<1>5. ASSUME NEW h \in Handlers, RegisterCreate(h)
      PROVE  TypeInv'
    <2>1. CASE NameTaken(handler[h].name)
        BY <1>5, <1>d, <2>1 DEF RegisterCreate, rows, Statuses
    <2>2. CASE ~NameTaken(handler[h].name)
        <3>1. /\ handler[h].name \in Names /\ Goto(h, "issue")
              /\ UNCHANGED <<refresh, root, revoked, clock, given>>
              /\ accounts' = accounts \cup {handler[h].name}
            BY <1>5, <2>2 DEF RegisterCreate, TypeInv, HandlerInv
        <3>2. handler' \in [Handlers -> HandlerRecord] /\ HandlerInv'
            BY <1>c, <3>1, GotoType DEF Stages
        <3> QED
            BY <3>1, <3>2 DEF TypeInv, TypeOK, MintedInv, Minted, clock, HandlerRecord, Statuses
    <2> QED BY <2>1, <2>2
<1>6. ASSUME NEW h \in Handlers, LoginVerify(h)
      PROVE  TypeInv'
    <2>1. CASE Reply(h, "denied")
        BY <1>6, <1>d, <2>1 DEF LoginVerify, Statuses
    <2>2. CASE Goto(h, "issue")
        <3>1. UNCHANGED <<rows, clock, given>>
            BY <1>6 DEF LoginVerify
        <3>2. handler' \in [Handlers -> HandlerRecord] /\ HandlerInv'
            BY <1>c, <2>2, <3>1, GotoType DEF rows, Stages
        <3> QED BY <1>b, <3>1, <3>2
    <2> QED BY <1>6, <2>1, <2>2 DEF LoginVerify
<1>7. ASSUME NEW h \in Handlers, Issue(h)
      PROVE  TypeInv'
    <2>1. /\ handler' \in [Handlers -> HandlerRecord]
          /\ refresh' \in [Tokens -> {"unused", "live", "gone"}]
          /\ root' \in [Tokens -> Tokens \cup {None}]
          /\ HandlerInv' /\ MintedInv'
        BY <1>7, IssueType DEF Issue, Statuses
    <2> QED BY <1>7, <2>1 DEF Issue, TypeInv, TypeOK, MintedInv, Minted, clock, HandlerRecord, Statuses
<1>8. ASSUME NEW h \in Handlers, RefreshFind(h)
      PROVE  TypeInv'
    <2>1. CASE refresh[handler[h].token] # "live"
        BY <1>8, <1>d, <2>1 DEF RefreshFind, Statuses
    <2>2. CASE refresh[handler[h].token] = "live"
        <3>1. PICK pc \in {"purge", "rotate"} : Goto(h, pc)
            BY <1>8, <2>2 DEF RefreshFind
        <3>2. UNCHANGED <<rows, clock, given>> /\ Minted(handler[h].token)
            BY <1>8 DEF RefreshFind, TypeInv, HandlerInv
        <3>3. handler' \in [Handlers -> HandlerRecord] /\ HandlerInv'
            BY <1>c, <3>1, <3>2, GotoType DEF rows, Stages
        <3> QED BY <1>b, <3>2, <3>3
    <2> QED BY <2>1, <2>2
<1>9. ASSUME NEW h \in Handlers, RefreshPurge(h) \/ RefreshDelete(h) \/ LogoutDrop(h)
      PROVE  TypeInv'
    <2> DEFINE t == handler[h].token
    <2>1. Minted(t) /\ UNCHANGED <<accounts, root, revoked, clock, given>>
        BY <1>9 DEF RefreshPurge, RefreshDelete, LogoutDrop, TypeInv, HandlerInv
    <2>2. CASE refresh[t] # "live"
        BY <1>9, <1>d, <2>1, <2>2
           DEF RefreshPurge, RefreshDelete, LogoutDrop, DeleteRefresh, rows, Statuses
    <2>3. CASE refresh[t] = "live"
        <3>1. /\ refresh' = [refresh EXCEPT ![t] = "gone"]
              /\ Reply(h, "denied") \/ Reply(h, "ok") \/ Goto(h, "reissue")
            BY <1>9, <2>3 DEF RefreshPurge, RefreshDelete, LogoutDrop, DeleteRefresh
        <3>3. /\ refresh' \in [Tokens -> {"unused", "live", "gone"}]
              /\ Lasting /\ MintedInv'
            BY <2>1, <2>3, <3>1, DeleteType DEF Minted
        <3>4. handler' \in [Handlers -> HandlerRecord] /\ HandlerInv'
            <4>1. CASE \E status \in Statuses : Reply(h, status)
                BY <3>3, <4>1, ReplyType
            <4>2. CASE Goto(h, "reissue")
                BY <2>1, <3>3, <4>2, GotoType DEF Stages
            <4> QED BY <3>1, <4>1, <4>2 DEF Statuses
        <3> QED
            BY <2>1, <3>3, <3>4
               DEF TypeInv, TypeOK, MintedInv, Minted, clock, HandlerRecord, Statuses
    <2> QED BY <2>2, <2>3
<1>10. ASSUME NEW h \in Handlers, RefreshIssue(h)
       PROVE  TypeInv'
    <2>1. Minted(root[handler[h].token])
        BY <1>10 DEF RefreshIssue, TypeInv, HandlerInv, MintedInv, Minted
    <2>2. /\ handler' \in [Handlers -> HandlerRecord]
          /\ refresh' \in [Tokens -> {"unused", "live", "gone"}]
          /\ root' \in [Tokens -> Tokens \cup {None}]
          /\ HandlerInv' /\ MintedInv'
        BY <1>10, <2>1, IssueType DEF RefreshIssue, Statuses
    <2> QED BY <1>10, <2>2 DEF RefreshIssue, TypeInv, TypeOK, MintedInv, Minted, clock, HandlerRecord, Statuses
<1>11. ASSUME NEW h \in Handlers, RefreshSign(h)
       PROVE  TypeInv'
    BY <1>11, <1>d DEF RefreshSign, Statuses
<1>12. ASSUME NEW h \in Handlers, LogoutVerify(h)
       PROVE  TypeInv'
    <2>1. PICK pc \in {"find", "sweep"} :
              Goto(h, pc) /\ (pc = "sweep" => handler[h].bearer # None)
        BY <1>12 DEF LogoutVerify
    <2>2. /\ UNCHANGED <<rows, clock, given>> /\ Minted(handler[h].token)
          /\ handler[h].bearer \in Tokens \cup {None}
        BY <1>12, <1>a DEF LogoutVerify, TypeInv, HandlerInv, HandlerRecord
    <2>3. handler' \in [Handlers -> HandlerRecord] /\ HandlerInv'
        BY <1>c, <2>1, <2>2, GotoType DEF rows, Stages
    <2> QED BY <1>b, <2>2, <2>3
<1>13. ASSUME NEW h \in Handlers, LogoutSweep(h) \/ LogoutBlock(h)
       PROVE  TypeInv'
    <2>1. /\ Goto(h, "block") \/ Goto(h, "find")
          /\ UNCHANGED <<accounts, refresh, root, clock, given>>
          /\ Minted(handler[h].token) /\ handler[h].bearer \in Tokens
          /\ revoked' \subseteq Tokens
        BY <1>13 DEF LogoutSweep, LogoutBlock, SweepExpired, TypeInv, HandlerInv, TypeOK
    <2>2. handler' \in [Handlers -> HandlerRecord] /\ HandlerInv'
        BY <1>c, <2>1, GotoType DEF Stages
    <2> QED
        BY <2>1, <2>2 DEF TypeInv, TypeOK, MintedInv, Minted, clock, HandlerRecord, Statuses
<1>14. ASSUME NEW h \in Handlers, LogoutFind(h)
       PROVE  TypeInv'
    <2>1. CASE refresh[handler[h].token] # "live"
        BY <1>14, <1>d, <2>1 DEF LogoutFind, Statuses
    <2>2. CASE refresh[handler[h].token] = "live"
        <3>1. Goto(h, "drop") /\ UNCHANGED <<rows, clock, given>> /\ Minted(handler[h].token)
            BY <1>14, <2>2 DEF LogoutFind, TypeInv, HandlerInv
        <3>2. handler' \in [Handlers -> HandlerRecord] /\ HandlerInv'
            BY <1>c, <3>1, GotoType DEF rows, Stages
        <3> QED BY <1>b, <3>1, <3>2
    <2> QED BY <2>1, <2>2
<1>15. ASSUME NEW h \in Handlers, AuthVerify(h)
       PROVE  TypeInv'
    <2>1. CASE handler[h].bearer \in expired
        BY <1>15, <1>d, <2>1 DEF AuthVerify, Statuses
    <2>2. CASE handler[h].bearer \notin expired
        <3>1. Goto(h, "lookup") /\ UNCHANGED <<rows, clock, given>> /\ handler[h].bearer \in Tokens
            BY <1>15, <2>2 DEF AuthVerify, TypeInv, HandlerInv
        <3>2. handler' \in [Handlers -> HandlerRecord] /\ HandlerInv'
            BY <1>c, <3>1, GotoType DEF rows, Stages
        <3> QED BY <1>b, <3>1, <3>2
    <2> QED BY <2>1, <2>2
<1>16. ASSUME NEW h \in Handlers, AuthLookup(h)
       PROVE  TypeInv'
    BY <1>16, <1>d DEF AuthLookup, Statuses
<1>17. ASSUME NEW h \in Handlers, Fault(h)
       PROVE  TypeInv'
    <2>1. UNCHANGED <<rows, clock, given>>
        BY <1>17 DEF Fault
    <2>2. CASE handler[h].pc \in {"sweep", "block"}
        <3>1. Goto(h, "find") /\ Minted(handler[h].token)
            BY <1>17, <2>2 DEF Fault, TypeInv, HandlerInv
        <3>2. handler' \in [Handlers -> HandlerRecord] /\ HandlerInv'
            BY <1>c, <2>1, <3>1, GotoType DEF rows, Stages
        <3> QED BY <1>b, <2>1, <3>2
    <2>3. CASE handler[h].pc = "lookup"
        <3>1. FailOpen(h)
            BY <1>17, <2>3 DEF Fault
        <3> DEFINE r == [handler[h] EXCEPT !.pc = "replied", !.status = "ok", !.faulty = TRUE]
        <3>a. /\ r \in HandlerRecord /\ r.pc = "replied" /\ r.new = handler[h].new
            <4>1. handler[h] \in HandlerRecord
                BY <1>a
            <4> DEFINE s == [handler[h] EXCEPT !.pc = "replied"]
                       u == [s EXCEPT !.status = "ok"]
            <4>2. s \in HandlerRecord /\ s.pc = "replied" /\ s.new = handler[h].new
                BY <4>1 DEF HandlerRecord, Stages
            <4>3. u \in HandlerRecord /\ u.pc = s.pc /\ u.new = s.new
                <5> HIDE DEF s
                <5> QED BY <4>2 DEF HandlerRecord, Statuses
            <4>4. r = [u EXCEPT !.faulty = TRUE]
                BY <4>1 DEF HandlerRecord
            <4> HIDE DEF r, s, u
            <4> QED BY <4>2, <4>3, <4>4 DEF HandlerRecord
        <3>b. handler' = [handler EXCEPT ![h] = r]
            BY <3>1 DEF FailOpen
        <3> HIDE DEF r
        <3>2. handler' \in [Handlers -> HandlerRecord]
            BY <1>a, <3>a, <3>b
        <3>3. HandlerInv'
            BY <1>a, <2>1, <3>a, <3>b DEF TypeInv, HandlerInv, Minted, rows
        <3> QED BY <1>b, <2>1, <3>2, <3>3
    <2>4. CASE handler[h].pc \notin {"sweep", "block", "lookup"}
        BY <1>17, <1>d, <2>1, <2>4 DEF Fault, Statuses
    <2> QED BY <2>2, <2>3, <2>4
<1>18. CASE UNCHANGED vars
    BY <1>18 DEF vars, TypeInv, TypeOK, HandlerInv, MintedInv, Minted
<1> QED
    BY <1>1, <1>2, <1>3, <1>4, <1>5, <1>6, <1>7, <1>8, <1>9, <1>10, <1>11, <1>12,
       <1>13, <1>14, <1>15, <1>16, <1>17, <1>18 DEF Next, HandlerStep

\* Every variable keeps its range, for any tokens, names and handlers.
THEOREM TypeCorrect == Spec => []TypeOK
<1>1. TypeInv => TypeOK
    BY DEF TypeInv
<1> QED BY <1>1, TypeInit, TypeStep, PTL DEF Spec

-------------------------------------------------------------------------------
(* Sessions *)

\* A session whose old token is gone while its new one is yet to come has no
\* live token and is in the hands of one handler.
Rotating ==
    \A h \in Handlers : handler[h].pc = "reissue" =>
        LET s == root[handler[h].token] IN
        /\ \A t \in Tokens : refresh[t] = "live" => root[t] # s
        /\ \A g \in Handlers :
               handler[g].pc = "reissue" /\ root[handler[g].token] = s => g = h

SessionInv == OneLive /\ Rotating

\* No handler starts to reissue.
NoReissue ==
    \A h \in Handlers : handler'[h].pc = "reissue"
        => handler[h].pc = "reissue" /\ handler'[h].token = handler[h].token

\* A step that brings no token to life and starts no reissue is harmless.
LEMMA SessionKept ==
    ASSUME SessionInv, NoReissue, UNCHANGED root,
           \A t \in Tokens : refresh'[t] = "live" => refresh[t] = "live"
    PROVE  SessionInv'
BY DEF SessionInv, OneLive, Rotating, NoReissue

\* Every step of Next but the deletions and the mintings is such a step.
LEMMA ReplyNoReissue ==
    ASSUME TypeInv, NEW h \in Handlers, NEW status \in Statuses, Reply(h, status)
    PROVE  NoReissue
<1>1. handler \in [Handlers -> HandlerRecord]
    BY DEF TypeInv, TypeOK, HandlerRecord, Statuses
<1>2. handler'[h].pc = "replied" /\ \A g \in Handlers \ {h} : handler'[g] = handler[g]
    BY <1>1, ReplyEffect
<1> QED BY <1>2 DEF NoReissue

LEMMA GotoNoReissue ==
    ASSUME TypeInv, NEW h \in Handlers, NEW pc \in Stages \ {"reissue"}, Goto(h, pc)
    PROVE  NoReissue
<1>1. handler \in [Handlers -> HandlerRecord]
    BY DEF TypeInv, TypeOK, HandlerRecord, Statuses
<1>2. handler'[h].pc = pc /\ \A g \in Handlers \ {h} : handler'[g] = handler[g]
    BY <1>1, GotoEffect
<1> QED BY <1>2 DEF NoReissue

\* A token of a session that has no live one and is rotated by no handler but
\* h, who is done with it.
LEMMA SessionIssue ==
    ASSUME SessionInv, TypeInv, NEW h \in Handlers, NEW s,
           NEW pc \in {"replied", "sign"}, NEW status \in Statuses,
           IssueRefresh(h, s, pc, status),
           s = None \/
               /\ s \in Tokens
               /\ \A t \in Tokens : refresh[t] = "live" => root[t] # s
               /\ \A g \in Handlers \ {h} :
                      handler[g].pc = "reissue" => root[handler[g].token] # s
    PROVE  SessionInv'
<1> USE AuthTokensAssumption
<1>1. PICK t \in Tokens :
          /\ refresh[t] = "unused"
          /\ refresh' = [refresh EXCEPT ![t] = "live"]
          /\ root' = [root EXCEPT ![t] = IF s = None THEN t ELSE s]
          /\ handler' = [handler EXCEPT ![h] =
                 [IdleHandler EXCEPT !.pc = pc, !.op = handler[h].op,
                                     !.status = status, !.new = t]]
    BY DEF IssueRefresh
<1> DEFINE new == IF s = None THEN t ELSE s
<1>2. /\ handler \in [Handlers -> HandlerRecord]
      /\ refresh \in [Tokens -> {"unused", "live", "gone"}]
      /\ root \in [Tokens -> Tokens \cup {None}]
    BY DEF TypeInv, TypeOK, HandlerRecord, Statuses
<1>3. /\ \A g \in Handlers \ {h} : handler'[g] = handler[g]
      /\ handler'[h].pc # "reissue"
    BY <1>1, <1>2 DEF IdleHandler
<1>4. /\ \A u \in Tokens \ {t} : refresh'[u] = refresh[u] /\ root'[u] = root[u]
      /\ root'[t] = new
    BY <1>1, <1>2
<1>5. /\ \A u \in Tokens : refresh[u] = "live" => root[u] # new
      /\ \A g \in Handlers \ {h} :
             handler[g].pc = "reissue" => root[handler[g].token] # new
    <2>1. CASE s # None
        BY <2>1
    <2>2. CASE s = None
        BY <1>1, <2>2 DEF TypeInv, HandlerInv, MintedInv, Minted
    <2> QED BY <2>1, <2>2
<1>6. \A g \in Handlers : handler[g].pc = "reissue" => handler[g].token \in Tokens \ {t}
    BY <1>1 DEF TypeInv, HandlerInv, Minted
<1> HIDE DEF new
<1>7. OneLive'
    BY <1>4, <1>5 DEF SessionInv, OneLive
<1>8. Rotating'
    BY <1>3, <1>4, <1>5, <1>6 DEF SessionInv, Rotating
<1> QED BY <1>7, <1>8 DEF SessionInv

\* Every step keeps the sessions in order.
LEMMA SessionStep == SessionInv /\ TypeInv /\ [Next]_vars => SessionInv'
<1> SUFFICES ASSUME SessionInv, TypeInv, [Next]_vars
             PROVE  SessionInv'
    OBVIOUS
<1> USE AuthTokensAssumption
<1>a. /\ handler \in [Handlers -> HandlerRecord]
      /\ refresh \in [Tokens -> {"unused", "live", "gone"}]
    BY DEF TypeInv, TypeOK, HandlerRecord, Statuses
<1>b. ASSUME NoReissue, UNCHANGED <<refresh, root>>
      PROVE  SessionInv'
    BY <1>b, SessionKept
<1>1. ASSUME NEW h \in Handlers, NEW q \in Requests, Receive(h, q)
      PROVE  SessionInv'
    <2>1. q.op \in Stages \ {"reissue"}
        BY DEF Requests, Stages
    <2>2. handler'[h].pc = q.op /\ \A g \in Handlers \ {h} : handler'[g] = handler[g]
        BY <1>1, <1>a DEF Receive, IdleHandler
    <2> QED BY <1>1, <1>b, <2>1, <2>2 DEF Receive, NoReissue, rows
<1>2. ASSUME NEW h \in Handlers, Answer(h)
      PROVE  SessionInv'
    BY <1>2, <1>a, <1>b DEF Answer, NoReissue, IdleHandler, rows
<1>3. ASSUME NEW t \in Tokens, Tick(t)
      PROVE  SessionInv'
    BY <1>3, <1>b DEF Tick, NoReissue, rows
<1>4. ASSUME NEW h \in Handlers,
             \/ RegisterFind(h) \/ RegisterCreate(h) \/ LoginVerify(h) \/ RefreshFind(h)
             \/ RefreshSign(h) \/ LogoutVerify(h) \/ LogoutSweep(h) \/ LogoutBlock(h)
             \/ LogoutFind(h) \/ AuthVerify(h) \/ AuthLookup(h)
      PROVE  SessionInv'
    <2>1. UNCHANGED <<refresh, root>>
        BY <1>4 DEF RegisterFind, RegisterCreate, LoginVerify, RefreshFind, RefreshSign,
                    LogoutVerify, LogoutSweep, LogoutBlock, LogoutFind, AuthVerify,
                    AuthLookup, rows
    <2>2. \/ \E status \in Statuses : Reply(h, status)
          \/ \E pc \in Stages \ {"reissue"} : Goto(h, pc)
        BY <1>4 DEF RegisterFind, RegisterCreate, LoginVerify, RefreshFind, RefreshSign,
                    LogoutVerify, LogoutSweep, LogoutBlock, LogoutFind, AuthVerify,
                    AuthLookup, Statuses, Stages
    <2> QED BY <1>b, <2>1, <2>2, ReplyNoReissue, GotoNoReissue
<1>5. ASSUME NEW h \in Handlers, Issue(h)
      PROVE  SessionInv'
    BY <1>5, SessionIssue DEF Issue, Statuses
<1>6. ASSUME NEW h \in Handlers, RefreshIssue(h)
      PROVE  SessionInv'
    <2> DEFINE s == root[handler[h].token]
    <2>1. s \in Tokens
        BY <1>6 DEF RefreshIssue, TypeInv, HandlerInv, MintedInv, Minted
    <2>2. /\ \A t \in Tokens : refresh[t] = "live" => root[t] # s
          /\ \A g \in Handlers \ {h} : handler[g].pc = "reissue" => root[handler[g].token] # s
        BY <1>6 DEF RefreshIssue, SessionInv, Rotating
    <2> HIDE DEF s
    <2>3. IssueRefresh(h, s, "sign", "none")
        BY <1>6 DEF RefreshIssue, s
    <2> QED BY <2>1, <2>2, <2>3, SessionIssue DEF Statuses
<1>7. ASSUME NEW h \in Handlers, RefreshPurge(h) \/ RefreshDelete(h) \/ LogoutDrop(h)
      PROVE  SessionInv'
    <2> DEFINE t == handler[h].token
    <2>1. t \in Tokens /\ UNCHANGED root
        BY <1>7 DEF RefreshPurge, RefreshDelete, LogoutDrop, TypeInv, HandlerInv, Minted
    <2>2. CASE refresh[t] # "live"
        <3>1. Reply(h, "error") /\ UNCHANGED refresh
            BY <1>7, <2>2 DEF RefreshPurge, RefreshDelete, LogoutDrop, DeleteRefresh
        <3> QED BY <1>b, <2>1, <3>1, ReplyNoReissue DEF Statuses
    <2>3. CASE refresh[t] = "live" /\ (RefreshPurge(h) \/ LogoutDrop(h))
        <3>1. /\ \E status \in Statuses : Reply(h, status)
              /\ refresh' = [refresh EXCEPT ![t] = "gone"]
            BY <2>3 DEF RefreshPurge, LogoutDrop, DeleteRefresh, Statuses
        <3> QED BY <1>a, <2>1, <3>1, ReplyNoReissue, SessionKept
    <2>4. CASE refresh[t] = "live" /\ RefreshDelete(h)
        <3>1. Goto(h, "reissue")
              /\ refresh' = [refresh EXCEPT ![t] = "gone"]
            BY <2>4 DEF RefreshDelete, DeleteRefresh
        <3>2. /\ handler'[h].token = t
              /\ \A g \in Handlers \ {h} : handler'[g] = handler[g]
            BY <1>a, <3>1, GotoEffect DEF Stages
        <3>3. \A u \in Tokens : refresh'[u] = "live" => refresh[u] = "live" /\ u # t
            BY <1>a, <2>1, <3>1
        <3>4. /\ \A g \in Handlers : handler[g].pc = "reissue" => root[handler[g].token] # root[t]
              /\ \A u \in Tokens : refresh[u] = "live" /\ u # t => root[u] # root[t]
            BY <2>1, <2>4 DEF SessionInv, OneLive, Rotating
        <3>5. OneLive'
            BY <2>1, <3>1, <3>3 DEF SessionInv, OneLive
        <3>6. Rotating'
            BY <2>1, <3>1, <3>2, <3>3, <3>4 DEF SessionInv, Rotating
        <3> QED BY <3>5, <3>6 DEF SessionInv
    <2> QED BY <1>7, <2>2, <2>3, <2>4
<1>8. ASSUME NEW h \in Handlers, Fault(h)
      PROVE  SessionInv'
    <2>1. UNCHANGED <<refresh, root>>
        BY <1>8 DEF Fault, rows
    <2>2. CASE Goto(h, "find")
        BY <1>b, <2>1, <2>2, GotoNoReissue DEF Stages
    <2>3. CASE FailOpen(h)
        <3>1. handler'[h].pc = "replied" /\ \A g \in Handlers \ {h} : handler'[g] = handler[g]
            BY <1>a, <2>3 DEF FailOpen, HandlerRecord
        <3> QED BY <1>b, <2>1, <3>1 DEF NoReissue
    <2>4. CASE Reply(h, "error")
        BY <1>b, <2>1, <2>4, ReplyNoReissue DEF Statuses
    <2> QED BY <1>8, <2>2, <2>3, <2>4 DEF Fault
<1>9. CASE UNCHANGED vars
    BY <1>9, <1>b DEF vars, NoReissue
<1> QED
    BY <1>1, <1>2, <1>3, <1>4, <1>5, <1>6, <1>7, <1>8, <1>9 DEF Next, HandlerStep

\* Whatever the number of tokens and handlers, at most one refresh token of
\* a session can be exchanged.
THEOREM RotationIsSafe == Spec => []OneLive
<1>1. Init => SessionInv
    BY DEF Init, SessionInv, OneLive, Rotating, IdleHandler
<1>2. SessionInv => OneLive
    BY DEF SessionInv
<1> QED BY <1>1, <1>2, TypeInit, TypeStep, SessionStep, PTL DEF Spec

-------------------------------------------------------------------------------
(* The promise to a client *)

\* A session is being turned when a handler is between the two halves.
LEMMA TurningBy ==
    /\ \A s : s \in turning <=>
           \E g \in Handlers : handler[g].pc = "reissue" /\ root[handler[g].token] = s
    /\ \A s : s \in turning' <=>
           \E g \in Handlers : handler'[g].pc = "reissue" /\ root'[handler'[g].token] = s
BY DEF turning

\* What the move of one handler does to the sessions being turned.
Alone(h) == \A g \in Handlers \ {h} : handler'[g] = handler[g]
RootsStay == \A g \in Handlers : handler[g].pc = "reissue"
                 => root'[handler[g].token] = root[handler[g].token]

LEMMA TurningStays ==
    ASSUME NEW h \in Handlers, Alone(h), RootsStay,
           handler[h].pc # "reissue", handler'[h].pc # "reissue"
    PROVE  turning' = turning
<1>1. \A s : s \in turning' <=> s \in turning
    BY TurningBy DEF Alone, RootsStay
<1> QED BY <1>1

LEMMA TurningStarts ==
    ASSUME NEW h \in Handlers, Alone(h), UNCHANGED root,
           handler[h].pc # "reissue", handler'[h].pc = "reissue"
    PROVE  turning' = turning \cup {root[handler'[h].token]}
<1>1. \A s : s \in turning' <=> s \in turning \/ s = root[handler'[h].token]
    BY TurningBy DEF Alone
<1> QED BY <1>1

\* No other handler turns the session of h.
LEMMA TurningEnds ==
    ASSUME NEW h \in Handlers, Alone(h), RootsStay, Rotating,
           handler[h].pc = "reissue", handler'[h].pc # "reissue"
    PROVE  turning' = turning \ {root[handler[h].token]}
<1> DEFINE s == root[handler[h].token]
<1>1. \A g \in Handlers \ {h} : handler[g].pc = "reissue" => root[handler[g].token] # s
    BY DEF Rotating
<1>2. \A u : u \in turning' <=> u \in turning /\ u # s
    BY <1>1, TurningBy DEF Alone, RootsStay
<1> QED BY <1>2

\* A step that touches no refresh token and turns no session is not seen.
LEMMA Unseen ==
    ASSUME UNCHANGED <<refresh, root>>, turning' = turning
    PROVE  UNCHANGED Session!vars
BY DEF Session!vars, key, used

\* The deletion of a live token takes the only key of its session.
LEMMA KeyTaken ==
    ASSUME TypeInv, OneLive, NEW t \in Tokens, refresh[t] = "live",
           refresh' = [refresh EXCEPT ![t] = "gone"], UNCHANGED root
    PROVE  root[t] \in Tokens /\ Session!Take(root[t])
<1>1. refresh \in [Tokens -> {"unused", "live", "gone"}] /\ root[t] \in Tokens
    BY DEF TypeInv, TypeOK
<1>2. /\ refresh'[t] = "gone"
      /\ \A u \in Tokens \ {t} : refresh'[u] = refresh[u]
    BY <1>1
<1>3. used' = used
    BY <1>2 DEF used
<1>4. t \in key[root[t]]
    BY <1>1 DEF key
<1>5. \A s \in Tokens : {u \in Tokens : refresh'[u] = "live" /\ root[u] = s}
                            = IF s = root[t] THEN {} ELSE key[s]
    <2>1. \A u \in Tokens : refresh'[u] = "live" /\ root[u] = root[t] => FALSE
        BY <1>2 DEF OneLive
    <2>2. ASSUME NEW s \in Tokens, s # root[t]
          PROVE  {u \in Tokens : refresh'[u] = "live" /\ root[u] = s} = key[s]
        BY <1>2, <2>2 DEF key
    <2> QED BY <2>1, <2>2
<1>6. key' = [s \in Tokens |-> {u \in Tokens : refresh'[u] = "live" /\ root[u] = s}]
    BY DEF key
<1>7. DOMAIN key = Tokens
    BY DEF key
<1>8. key' = [key EXCEPT ![root[t]] = {}]
    BY <1>5, <1>6, <1>7
<1> QED BY <1>1, <1>3, <1>4, <1>8 DEF Session!Take

\* A fresh token in a session without a live one becomes its key.
LEMMA KeyGranted ==
    ASSUME TypeInv, NEW t \in Tokens, NEW s \in Tokens, refresh[t] = "unused",
           refresh' = [refresh EXCEPT ![t] = "live"], root' = [root EXCEPT ![t] = s],
           \A u \in Tokens : refresh[u] = "live" => root[u] # s
    PROVE  Session!Grant(s, t)
<1>1. /\ refresh \in [Tokens -> {"unused", "live", "gone"}]
      /\ root \in [Tokens -> Tokens \cup {None}]
    BY DEF TypeInv, TypeOK
<1>2. /\ refresh'[t] = "live" /\ root'[t] = s
      /\ \A u \in Tokens \ {t} : refresh'[u] = refresh[u] /\ root'[u] = root[u]
    BY <1>1
<1>3. t \in Tokens \ used /\ used' = used \cup {t}
    BY <1>2 DEF used
<1>4. \A r \in Tokens : {u \in Tokens : refresh'[u] = "live" /\ root'[u] = r}
                            = IF r = s THEN {t} ELSE key[r]
    <2>1. \A u \in Tokens : refresh'[u] = "live" /\ root'[u] = s <=> u = t
        BY <1>2
    <2>2. ASSUME NEW r \in Tokens, r # s
          PROVE  {u \in Tokens : refresh'[u] = "live" /\ root'[u] = r} = key[r]
        BY <1>2, <2>2 DEF key
    <2> QED BY <2>1, <2>2
<1>5. key' = [key EXCEPT ![s] = {t}]
    BY <1>4 DEF key
<1> QED BY <1>3, <1>5 DEF Session!Grant

\* Every step of the routes is one of Sessions or is not seen.
LEMMA SessionsStep ==
    ASSUME TypeInv, SessionInv, [Next]_vars
    PROVE  [Session!Next]_(Session!vars)
<1> USE AuthTokensAssumption
<1>a. handler \in [Handlers -> HandlerRecord]
    BY DEF TypeInv, TypeOK, HandlerRecord, Statuses
<1>b. OneLive /\ Rotating
    BY DEF SessionInv
<1>c. ASSUME NEW h \in Handlers, handler[h].pc # "reissue", UNCHANGED <<refresh, root>>,
             \/ \E status \in Statuses : Reply(h, status)
             \/ \E pc \in Stages \ {"reissue"} : Goto(h, pc)
      PROVE  UNCHANGED Session!vars
    <2>1. Alone(h) /\ handler'[h].pc # "reissue"
        <3>1. CASE \E status \in Statuses : Reply(h, status)
            BY <1>a, <3>1, ReplyEffect DEF Alone
        <3>2. CASE \E pc \in Stages \ {"reissue"} : Goto(h, pc)
            BY <1>a, <3>2, GotoEffect DEF Alone
        <3> QED BY <1>c, <3>1, <3>2
    <2>2. RootsStay
        BY <1>c DEF RootsStay
    <2> QED BY <1>c, <2>1, <2>2, TurningStays, Unseen
<1>1. ASSUME NEW h \in Handlers, NEW q \in Requests, Receive(h, q)
      PROVE  UNCHANGED Session!vars
    <2>1. q.op # "reissue"
        BY DEF Requests
    <2>2. handler'[h].pc = q.op /\ Alone(h) /\ handler[h].pc # "reissue"
        BY <1>1, <1>a DEF Receive, IdleHandler, Alone
    <2>3. UNCHANGED <<refresh, root>> /\ RootsStay
        BY <1>1 DEF Receive, rows, RootsStay
    <2> QED BY <2>1, <2>2, <2>3, TurningStays, Unseen
<1>2. ASSUME NEW h \in Handlers, Answer(h)
      PROVE  UNCHANGED Session!vars
    <2>1. Alone(h) /\ handler[h].pc # "reissue" /\ handler'[h].pc # "reissue"
        BY <1>2, <1>a DEF Answer, IdleHandler, Alone
    <2>2. UNCHANGED <<refresh, root>> /\ RootsStay
        BY <1>2 DEF Answer, rows, RootsStay
    <2> QED BY <2>1, <2>2, TurningStays, Unseen
<1>3. ASSUME NEW t \in Tokens, Tick(t)
      PROVE  UNCHANGED Session!vars
    <2>1. UNCHANGED <<refresh, root, handler>>
        BY <1>3 DEF Tick, rows
    <2> QED BY <2>1, Unseen DEF turning
<1>4. ASSUME NEW h \in Handlers,
             \/ RegisterFind(h) \/ RegisterCreate(h) \/ LoginVerify(h) \/ RefreshFind(h)
             \/ RefreshSign(h) \/ LogoutVerify(h) \/ LogoutSweep(h) \/ LogoutBlock(h)
             \/ LogoutFind(h) \/ AuthVerify(h) \/ AuthLookup(h)
      PROVE  UNCHANGED Session!vars
    <2>1. UNCHANGED <<refresh, root>> /\ handler[h].pc # "reissue"
        BY <1>4 DEF RegisterFind, RegisterCreate, LoginVerify, RefreshFind, RefreshSign,
                    LogoutVerify, LogoutSweep, LogoutBlock, LogoutFind, AuthVerify,
                    AuthLookup, rows
    <2>2. \/ \E status \in Statuses : Reply(h, status)
          \/ \E pc \in Stages \ {"reissue"} : Goto(h, pc)
        BY <1>4 DEF RegisterFind, RegisterCreate, LoginVerify, RefreshFind, RefreshSign,
                    LogoutVerify, LogoutSweep, LogoutBlock, LogoutFind, AuthVerify,
                    AuthLookup, Statuses, Stages
    <2> QED BY <1>c, <2>1, <2>2
\* What issueRefreshToken does, for a login and for a refresh.
<1>d. ASSUME NEW h \in Handlers, NEW s, NEW pc \in {"replied", "sign"}, NEW status \in Statuses,
             IssueRefresh(h, s, pc, status)
      PROVE  \E t \in Tokens :
                 /\ refresh[t] = "unused" /\ refresh' = [refresh EXCEPT ![t] = "live"]
                 /\ root' = [root EXCEPT ![t] = IF s = None THEN t ELSE s]
                 /\ Alone(h) /\ RootsStay /\ handler'[h].pc # "reissue"
    <2>1. PICK t \in Tokens :
              /\ refresh[t] = "unused" /\ refresh' = [refresh EXCEPT ![t] = "live"]
              /\ root' = [root EXCEPT ![t] = IF s = None THEN t ELSE s]
              /\ handler' = [handler EXCEPT ![h] =
                     [IdleHandler EXCEPT !.pc = pc, !.op = handler[h].op,
                                         !.status = status, !.new = t]]
        BY <1>d DEF IssueRefresh
    <2>2. Alone(h) /\ handler'[h].pc # "reissue"
        BY <1>a, <2>1 DEF IdleHandler, Alone
    <2>3. \A g \in Handlers : handler[g].pc = "reissue" => handler[g].token \in Tokens \ {t}
        BY <2>1 DEF TypeInv, HandlerInv, Minted
    <2>4. RootsStay
        BY <2>1, <2>3 DEF RootsStay, TypeInv, TypeOK
    <2> QED BY <2>1, <2>2, <2>4
<1>5. ASSUME NEW h \in Handlers, Issue(h)
      PROVE  Session!Next
    <2>1. PICK t \in Tokens :
              /\ refresh[t] = "unused" /\ refresh' = [refresh EXCEPT ![t] = "live"]
              /\ root' = [root EXCEPT ![t] = t]
              /\ Alone(h) /\ RootsStay /\ handler'[h].pc # "reissue"
        BY <1>5, <1>d DEF Issue, Statuses
    <2>2. \A u \in Tokens : refresh[u] = "live" => root[u] # t
        BY <2>1 DEF TypeInv, MintedInv, Minted
    <2>3. Session!Grant(t, t)
        BY <2>1, <2>2, KeyGranted
    <2>4. turning' = turning
        BY <1>5, <2>1, TurningStays DEF Issue
    <2> QED BY <2>3, <2>4 DEF Session!Next, Session!Login
<1>6. ASSUME NEW h \in Handlers, RefreshIssue(h)
      PROVE  Session!Next
    <2> DEFINE s == root[handler[h].token]
    <2>1. s \in Tokens /\ handler[h].pc = "reissue" /\ IssueRefresh(h, s, "sign", "none")
        BY <1>6 DEF RefreshIssue, TypeInv, HandlerInv, MintedInv, Minted
    <2>2. PICK t \in Tokens :
              /\ refresh[t] = "unused" /\ refresh' = [refresh EXCEPT ![t] = "live"]
              /\ root' = [root EXCEPT ![t] = s]
              /\ Alone(h) /\ RootsStay /\ handler'[h].pc # "reissue"
        <3> HIDE DEF s
        <3> QED BY <2>1, <1>d DEF Statuses
    <2>3. \A u \in Tokens : refresh[u] = "live" => root[u] # s
        BY <1>b, <2>1 DEF Rotating
    <2>4. turning' = turning \ {s} /\ s \in turning
        BY <1>b, <2>1, <2>2, TurningEnds, TurningBy
    <2> HIDE DEF s
    <2>5. Session!Grant(s, t)
        BY <2>1, <2>2, <2>3, KeyGranted
    <2> QED BY <2>1, <2>4, <2>5 DEF Session!Next, Session!Renew
<1>7. ASSUME NEW h \in Handlers, RefreshPurge(h) \/ RefreshDelete(h) \/ LogoutDrop(h)
      PROVE  [Session!Next]_(Session!vars)
    <2> DEFINE t == handler[h].token
    <2>1. t \in Tokens /\ UNCHANGED root /\ handler[h].pc # "reissue"
        BY <1>7 DEF RefreshPurge, RefreshDelete, LogoutDrop, TypeInv, HandlerInv, Minted
    <2>2. CASE refresh[t] # "live"
        <3>1. Reply(h, "error") /\ UNCHANGED refresh
            BY <1>7, <2>2 DEF RefreshPurge, RefreshDelete, LogoutDrop, DeleteRefresh
        <3> QED BY <1>c, <2>1, <3>1 DEF Statuses
    <2>3. CASE refresh[t] = "live" /\ (RefreshPurge(h) \/ LogoutDrop(h))
        <3>1. /\ \E status \in Statuses : Reply(h, status)
              /\ refresh' = [refresh EXCEPT ![t] = "gone"]
            BY <2>3 DEF RefreshPurge, LogoutDrop, DeleteRefresh, Statuses
        <3>2. Alone(h) /\ handler'[h].pc # "reissue"
            BY <1>a, <3>1, ReplyEffect DEF Alone
        <3>3. turning' = turning
            BY <2>1, <3>2, TurningStays DEF RootsStay
        <3>4. root[t] \in Tokens /\ Session!Take(root[t])
            BY <1>b, <2>1, <2>3, <3>1, KeyTaken
        <3> QED BY <3>3, <3>4 DEF Session!Next, Session!Close
    <2>4. CASE refresh[t] = "live" /\ RefreshDelete(h)
        <3>1. Goto(h, "reissue") /\ refresh' = [refresh EXCEPT ![t] = "gone"]
            BY <2>4 DEF RefreshDelete, DeleteRefresh
        <3>2. Alone(h) /\ handler'[h].pc = "reissue" /\ handler'[h].token = t
            BY <1>a, <3>1, GotoEffect DEF Stages, Alone
        <3>3. turning' = turning \cup {root[t]}
            BY <2>1, <3>2, TurningStarts
        <3>4. root[t] \in Tokens /\ Session!Take(root[t])
            BY <1>b, <2>1, <2>4, <3>1, KeyTaken
        <3> QED BY <3>3, <3>4 DEF Session!Next, Session!Turn
    <2> QED BY <1>7, <2>2, <2>3, <2>4
<1>8. ASSUME NEW h \in Handlers, Fault(h)
      PROVE  [Session!Next]_(Session!vars)
    <2>1. UNCHANGED <<refresh, root>> /\ RootsStay
        BY <1>8 DEF Fault, rows, RootsStay
    <2>2. CASE handler[h].pc = "reissue"
        <3> DEFINE s == root[handler[h].token]
        <3>1. s \in Tokens
            BY <2>2 DEF TypeInv, HandlerInv, MintedInv, Minted
        <3>2. Reply(h, "error")
            BY <1>8, <2>2 DEF Fault
        <3>3. Alone(h) /\ handler'[h].pc # "reissue"
            BY <1>a, <3>2, ReplyEffect DEF Alone, Statuses
        <3>4. turning' = turning \ {s}
            BY <1>b, <2>1, <2>2, <3>3, TurningEnds
        <3>5. UNCHANGED <<key, used>>
            BY <2>1 DEF key, used
        <3> HIDE DEF s
        <3> QED BY <3>1, <3>4, <3>5 DEF Session!Next, Session!GiveUp
    <2>3. CASE handler[h].pc # "reissue" /\ FailOpen(h)
        <3>1. Alone(h) /\ handler'[h].pc # "reissue"
            BY <1>a, <2>3 DEF FailOpen, HandlerRecord, Alone
        <3> QED BY <2>1, <2>3, <3>1, TurningStays, Unseen
    <2>4. CASE handler[h].pc # "reissue" /\ (Goto(h, "find") \/ Reply(h, "error"))
        BY <1>c, <2>1, <2>4 DEF Stages, Statuses
    <2> QED BY <1>8, <2>2, <2>3, <2>4 DEF Fault
<1>9. CASE UNCHANGED vars
    BY <1>9, Unseen DEF vars, turning
<1> QED
    BY <1>1, <1>2, <1>3, <1>4, <1>5, <1>6, <1>7, <1>8, <1>9 DEF Next, HandlerStep

\* For any names, tokens and handlers: the routes of auth.ts keep the promise
\* of Sessions, however their requests race and break off.
THEOREM SessionsRefined == Spec => ImplementsSessions
<1>1. Init => SessionInv
    BY DEF Init, SessionInv, OneLive, Rotating, IdleHandler
<1>2. Init => Session!Init
    BY DEF Init, Session!Init, key, turning, used, IdleHandler
<1>3. TypeInv /\ SessionInv /\ [Next]_vars => [Session!Next]_(Session!vars)
    BY SessionsStep
<1> QED
    BY <1>1, <1>2, <1>3, TypeInit, TypeStep, SessionStep, PTL
       DEF Spec, ImplementsSessions, Session!Spec

-------------------------------------------------------------------------------
(* Revoked access tokens *)

\* A request that came with a revoked bearer: until it is answered the bearer
\* is on the list or has expired, and the sweep removes expired ones only.
Barred(h) ==
    LET r == handler[h] IN
    /\ r.op = "request"
    /\ r.pc \in {"request", "lookup", "replied"}
    /\ r.pc \in {"request", "lookup"} => r.status = "none" /\ r.bearer \in revoked \cup expired
    /\ r.status = "ok" /\ ~r.faulty => r.bearer \in expired

BlockInv == \A h \in Handlers : handler[h].blocked => Barred(h)

\* Steps of handlers that did not come with a revoked bearer.
LEMMA BlockKept ==
    ASSUME BlockInv, revoked \cup expired \subseteq revoked' \cup expired',
           expired \subseteq expired',
           \A g \in Handlers : \/ handler'[g] = handler[g]
                               \/ handler'[g].blocked => Barred(g)'
    PROVE  BlockInv'
BY DEF BlockInv, Barred

\* Every step keeps the revoked out.
LEMMA BlockStep == BlockInv /\ TypeInv /\ [Next]_vars => BlockInv'
<1> SUFFICES ASSUME BlockInv, TypeInv, [Next]_vars
             PROVE  BlockInv'
    OBVIOUS
<1>a. handler \in [Handlers -> HandlerRecord]
    BY DEF TypeInv, TypeOK, HandlerRecord, Statuses
<1>b. ASSUME NEW h \in Handlers, NEW status \in Statuses, Reply(h, status),
             handler[h].blocked /\ status = "ok" => handler[h].bearer \in expired,
             revoked \cup expired \subseteq revoked' \cup expired', expired' = expired
      PROVE  BlockInv'
    <2>1. /\ \A g \in Handlers \ {h} : handler'[g] = handler[g]
          /\ handler'[h].pc = "replied" /\ handler'[h].status = status
          /\ handler'[h].op = handler[h].op /\ handler'[h].blocked = handler[h].blocked
          /\ handler'[h].op = "request" => handler'[h].bearer = handler[h].bearer
        BY <1>a, <1>b, ReplyEffect
    <2>2. handler'[h].blocked => Barred(h)'
        BY <1>b, <2>1 DEF BlockInv, Barred
    <2> QED BY <1>b, <2>1, <2>2, BlockKept
<1>c. ASSUME NEW h \in Handlers, NEW pc \in Stages, Goto(h, pc),
             handler[h].blocked => pc = "lookup" /\ handler[h].pc = "request",
             revoked \cup expired \subseteq revoked' \cup expired', expired' = expired
      PROVE  BlockInv'
    <2>1. /\ \A g \in Handlers \ {h} : handler'[g] = handler[g]
          /\ handler'[h].pc = pc /\ handler'[h].status = handler[h].status
          /\ handler'[h].op = handler[h].op /\ handler'[h].blocked = handler[h].blocked
          /\ handler'[h].bearer = handler[h].bearer
        BY <1>a, <1>c, GotoEffect
    <2>2. handler'[h].blocked => Barred(h)'
        BY <1>c, <2>1 DEF BlockInv, Barred
    <2> QED BY <1>c, <2>1, <2>2, BlockKept
<1>1. ASSUME NEW h \in Handlers, NEW q \in Requests, Receive(h, q)
      PROVE  BlockInv'
    <2> DEFINE blocked == q.op = "request" /\ q.bearer \in revoked
               r == [IdleHandler EXCEPT !.pc = q.op, !.op = q.op, !.name = q.name,
                         !.token = q.token, !.bearer = q.bearer, !.blocked = blocked]
    <2>a. handler' = [handler EXCEPT ![h] = r]
        BY <1>1 DEF Receive
    <2> HIDE DEF blocked
    <2>b. /\ r.pc = q.op /\ r.op = q.op /\ r.bearer = q.bearer /\ r.status = "none"
          /\ r.blocked = blocked
        BY DEF IdleHandler
    <2> HIDE DEF r
    <2>c. handler'[h] = r /\ \A g \in Handlers \ {h} : handler'[g] = handler[g]
        BY <1>a, <2>a
    <2>1. /\ handler'[h].pc = q.op /\ handler'[h].op = q.op /\ handler'[h].bearer = q.bearer
          /\ handler'[h].status = "none"
          /\ handler'[h].blocked => q.op = "request" /\ q.bearer \in revoked
          /\ \A g \in Handlers \ {h} : handler'[g] = handler[g]
        BY <2>b, <2>c DEF blocked
    <2>2. UNCHANGED <<revoked, expired>>
        BY <1>1 DEF Receive, rows, clock
    <2>3. handler'[h].blocked => Barred(h)'
        BY <2>1, <2>2 DEF Barred
    <2> QED BY <2>1, <2>2, <2>3, BlockKept
<1>2. ASSUME NEW h \in Handlers, Answer(h)
      PROVE  BlockInv'
    <2>1. /\ ~handler'[h].blocked /\ \A g \in Handlers \ {h} : handler'[g] = handler[g]
          /\ UNCHANGED <<revoked, expired>>
        BY <1>2, <1>a DEF Answer, IdleHandler, rows, clock
    <2> QED BY <2>1, BlockKept
<1>3. ASSUME NEW t \in Tokens, Tick(t)
      PROVE  BlockInv'
    BY <1>3, BlockKept DEF Tick, rows
<1>4. ASSUME NEW h \in Handlers, Issue(h) \/ RefreshIssue(h)
      PROVE  BlockInv'
    <2>a. PICK s \in {None, root[handler[h].token]}, pc \in {"replied", "sign"},
                 status \in Statuses : IssueRefresh(h, s, pc, status)
        BY <1>4 DEF Issue, RefreshIssue, Statuses
    <2>b. PICK t \in Tokens :
              handler' = [handler EXCEPT ![h] =
                  [IdleHandler EXCEPT !.pc = pc, !.op = handler[h].op,
                                      !.status = status, !.new = t]]
        BY <2>a DEF IssueRefresh
    <2>1. /\ ~handler'[h].blocked /\ \A g \in Handlers \ {h} : handler'[g] = handler[g]
          /\ UNCHANGED <<revoked, expired>>
        BY <1>4, <1>a, <2>b DEF Issue, RefreshIssue, IdleHandler, clock
    <2> QED BY <2>1, BlockKept
<1>5. ASSUME NEW h \in Handlers,
             \/ RegisterFind(h) \/ RegisterCreate(h) \/ LoginVerify(h) \/ RefreshFind(h)
             \/ RefreshPurge(h) \/ RefreshDelete(h) \/ RefreshSign(h) \/ LogoutVerify(h)
             \/ LogoutSweep(h) \/ LogoutBlock(h) \/ LogoutFind(h) \/ LogoutDrop(h)
      PROVE  BlockInv'
    <2>1. /\ expired' = expired
          /\ revoked \cup expired \subseteq revoked' \cup expired'
        BY <1>5 DEF RegisterFind, RegisterCreate, LoginVerify, RefreshFind, RefreshPurge,
                    RefreshDelete, RefreshSign, LogoutVerify, LogoutSweep, LogoutBlock,
                    LogoutFind, LogoutDrop, SweepExpired, rows, clock
    <2>2. handler[h].pc \in Stages \ {"request", "lookup", "replied"}
        BY <1>5 DEF RegisterFind, RegisterCreate, LoginVerify, RefreshFind, RefreshPurge,
                    RefreshDelete, RefreshSign, LogoutVerify, LogoutSweep, LogoutBlock,
                    LogoutFind, LogoutDrop, Stages
    <2>3. ~handler[h].blocked
        BY <2>2 DEF BlockInv, Barred
    <2>4. \/ \E status \in Statuses : Reply(h, status)
          \/ \E pc \in Stages : Goto(h, pc)
        BY <1>5 DEF RegisterFind, RegisterCreate, LoginVerify, RefreshFind, RefreshPurge,
                    RefreshDelete, RefreshSign, LogoutVerify, LogoutSweep, LogoutBlock,
                    LogoutFind, LogoutDrop, DeleteRefresh, Statuses, Stages
    <2> QED BY <1>b, <1>c, <2>1, <2>3, <2>4
<1>6. ASSUME NEW h \in Handlers, AuthVerify(h)
      PROVE  BlockInv'
    <2>1. UNCHANGED <<revoked, expired>> /\ handler[h].pc = "request"
        BY <1>6 DEF AuthVerify, rows, clock
    <2>2. Reply(h, "denied") \/ Goto(h, "lookup")
        BY <1>6 DEF AuthVerify
    <2> QED BY <1>b, <1>c, <2>1, <2>2 DEF Statuses, Stages
<1>7. ASSUME NEW h \in Handlers, AuthLookup(h)
      PROVE  BlockInv'
    <2>1. UNCHANGED <<revoked, expired>> /\ handler[h].pc = "lookup"
        BY <1>7 DEF AuthLookup, rows, clock
    <2>2. CASE handler[h].bearer \in revoked
        BY <1>7, <1>b, <2>1, <2>2 DEF AuthLookup, Statuses
    <2>3. CASE handler[h].bearer \notin revoked
        <3>1. Reply(h, "ok")
            BY <1>7, <2>3 DEF AuthLookup
        <3>2. handler[h].blocked => handler[h].bearer \in expired
            BY <2>1, <2>3 DEF BlockInv, Barred
        <3> QED BY <1>b, <2>1, <3>1, <3>2 DEF Statuses
    <2> QED BY <2>2, <2>3
<1>8. ASSUME NEW h \in Handlers, Fault(h)
      PROVE  BlockInv'
    <2>1. UNCHANGED <<revoked, expired>>
        BY <1>8 DEF Fault, rows, clock
    <2>2. CASE handler[h].pc \in {"sweep", "block"} /\ Goto(h, "find")
        BY <1>c, <2>1, <2>2 DEF BlockInv, Barred, Stages
    <2>3. CASE handler[h].pc = "lookup" /\ FailOpen(h)
        <3> DEFINE r == [handler[h] EXCEPT !.pc = "replied", !.status = "ok", !.faulty = TRUE]
        <3>1. handler[h] \in HandlerRecord
            BY <1>a
        <3>2. /\ r.pc = "replied" /\ r.faulty /\ r.op = handler[h].op
              /\ r.blocked = handler[h].blocked
            BY <3>1 DEF HandlerRecord
        <3> HIDE DEF r
        <3>3. handler'[h] = r /\ \A g \in Handlers \ {h} : handler'[g] = handler[g]
            BY <1>a, <2>3 DEF FailOpen, r
        <3>4. handler'[h].blocked => Barred(h)'
            BY <3>2, <3>3 DEF BlockInv, Barred
        <3> QED BY <2>1, <3>3, <3>4, BlockKept
    <2>4. CASE Reply(h, "error")
        BY <1>b, <2>1, <2>4 DEF Statuses
    <2> QED BY <1>8, <2>2, <2>3, <2>4 DEF Fault
<1>9. CASE UNCHANGED vars
    BY <1>9, BlockKept DEF vars
<1> QED
    BY <1>1, <1>2, <1>3, <1>4, <1>5, <1>6, <1>7, <1>8, <1>9 DEF Next, HandlerStep

\* An access token revoked before a request stays out, however many logouts
\* sweep the list while the request is on its way.
THEOREM RevocationHolds == Spec => []RevokedStaysOut
<1>1. Init => BlockInv
    BY DEF Init, BlockInv, IdleHandler
<1>2. BlockInv => RevokedStaysOut
    BY DEF BlockInv, Barred, RevokedStaysOut
<1> QED BY <1>1, <1>2, TypeInit, TypeStep, BlockStep, PTL DEF Spec
===============================================================================
