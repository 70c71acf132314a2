---------------------------- MODULE SavesApiProofs ----------------------------
(***************************************************************************)
(* Theorems about SavesApi: its types; that it keeps the promise of        *)
(* optimistic locking, and implements the register, when the puts and      *)
(* deletes of an account do not overlap; and what a download finds while   *)
(* nobody deletes.                                                         *)
(***************************************************************************)
EXTENDS SavesApi, FiniteSetTheorems, TLAPS

-------------------------------------------------------------------------------
(* Types *)

\* A put past its check and not yet committed.
Putting(h) == handler[h].pc \in {"checked", "writing", "written"}

\* A busy handler has a user, a put its package, and a put past its check
\* room for one more revision.
HandlerInv ==
    \A h \in Handlers :
        /\ handler[h].pc # "idle" => handler[h].user \in Users
        /\ handler[h].pc = "start" => handler[h].op \in Ops
        /\ handler[h].pc = "start" /\ handler[h].op = "put" => handler[h].content \in Contents
        /\ Putting(h) => handler[h].content \in Contents /\ handler[h].existing < MaxRev

TypeInv == ApiTypeOK /\ HandlerInv

\* What one step may change of the handlers.
HandlerRecord ==
    [pc : Stages, op : Ops \cup {"none"}, user : Users \cup {Absent},
     expected : NoRev .. MaxRev, content : Contents \cup {Absent},
     existing : 0 .. MaxRev,
     status : {"none", "ok", "missing", "conflict", "error"},
     rev : 0 .. MaxRev, data : Contents \cup {Absent, Torn}]

\* The record of a handler without a request is one of the handlers' records.
LEMMA IdleHandlerType == IdleHandler \in HandlerRecord
BY SavesApiAssumption DEF IdleHandler, HandlerRecord, Stages, NoRev

\* The initial states satisfy the type invariant.
LEMMA TypeInit == ApiInit => TypeInv
BY SavesApiAssumption, IdleHandlerType
   DEF ApiInit, TypeInv, ApiTypeOK, HandlerInv, IdleHandler, HandlerRecord, Putting

\* An answer keeps the type invariant, whatever else the step does to the
\* other variables.
LEMMA ReplyType ==
    ASSUME TypeInv, NEW h \in Handlers, handler[h].pc # "idle",
           NEW status \in {"none", "ok", "missing", "conflict", "error"},
           NEW rev \in 0 .. MaxRev, NEW data \in Contents \cup {Absent, Torn},
           Reply(h, status, rev, data)
    PROVE  /\ handler' \in [Handlers -> HandlerRecord]
           /\ HandlerInv'
<1> DEFINE answer == [IdleHandler EXCEPT !.pc = "replied", !.op = handler[h].op,
                                         !.user = handler[h].user, !.status = status,
                                         !.rev = rev, !.data = data]
<1>1. handler \in [Handlers -> HandlerRecord]
    BY DEF TypeInv, ApiTypeOK, HandlerRecord
<1>2. handler' = [handler EXCEPT ![h] = answer]
    BY DEF Reply
<1>3. handler[h].op \in Ops \cup {"none"} /\ handler[h].user \in Users
    BY <1>1 DEF TypeInv, HandlerInv, HandlerRecord
<1>4. answer \in HandlerRecord /\ answer.pc = "replied" /\ answer.user = handler[h].user
    BY <1>3, IdleHandlerType DEF HandlerRecord, IdleHandler, Stages
<1> HIDE DEF answer
<1>5. handler' \in [Handlers -> HandlerRecord]
    BY <1>1, <1>2, <1>4
<1>6. HandlerInv'
    BY <1>1, <1>2, <1>3, <1>4 DEF TypeInv, HandlerInv, Putting
<1> QED BY <1>5, <1>6

\* Going on to a later stage keeps it too.
LEMMA GotoType ==
    ASSUME TypeInv, NEW h \in Handlers,
           NEW pc \in Stages \ {"idle", "start"}, handler[h].pc # "idle",
           pc \in {"checked", "writing", "written"} => Putting(h),
           Goto(h, pc)
    PROVE  /\ handler' \in [Handlers -> HandlerRecord]
           /\ HandlerInv'
BY DEF TypeInv, ApiTypeOK, HandlerInv, HandlerRecord, Goto, Putting, Stages

\* Every step keeps the type invariant.
LEMMA TypeStep == TypeInv /\ [ApiNext]_apiVars => TypeInv'
<1> SUFFICES ASSUME TypeInv, [ApiNext]_apiVars
             PROVE  TypeInv'
    OBVIOUS
<1> USE SavesApiAssumption
<1>c. handler \in [Handlers -> HandlerRecord]
    BY DEF TypeInv, ApiTypeOK, HandlerRecord
<1>a. 0 \in 0 .. MaxRev
    OBVIOUS
<1>b. ASSUME NEW h \in Handlers, handler[h].pc # "idle",
              NEW status \in {"none", "ok", "missing", "conflict", "error"},
              Reply(h, status, 0, Absent)
       PROVE  handler' \in [Handlers -> HandlerRecord] /\ HandlerInv'
    BY <1>a, <1>b, ReplyType
<1>1. ASSUME NEW h \in Handlers, NEW q \in Requests, Receive(h, q)
      PROVE  TypeInv'
    <2>1. handler' \in [Handlers -> HandlerRecord]
        BY <1>c, <1>1, IdleHandlerType
           DEF Receive, Requests, HandlerRecord, IdleHandler, Stages, NoRev
    <2>2. HandlerInv'
        BY <1>1 DEF TypeInv, HandlerInv, Receive, Requests, IdleHandler, Putting, ApiTypeOK
    <2> QED BY <1>1, <2>1, <2>2 DEF TypeInv, ApiTypeOK, Receive, HandlerRecord
<1>2. ASSUME NEW h \in Handlers, Answer(h)
      PROVE  TypeInv'
    <2>1. handler' \in [Handlers -> HandlerRecord]
        BY <1>c, <1>2, IdleHandlerType DEF Answer
    <2>2. HandlerInv'
        BY <1>2 DEF TypeInv, HandlerInv, Answer, IdleHandler, Putting, ApiTypeOK
    <2> QED BY <1>2, <2>1, <2>2 DEF TypeInv, ApiTypeOK, Answer, HandlerRecord
<1>3. ASSUME NEW h \in Handlers, GetStatus(h)
      PROVE  TypeInv'
    <2>1. handler[h].user \in Users /\ slot[handler[h].user] \in 0 .. MaxRev
        BY <1>3 DEF GetStatus, TypeInv, HandlerInv, ApiTypeOK
    <2>2. handler' \in [Handlers -> HandlerRecord] /\ HandlerInv'
        BY <1>3, <2>1, ReplyType DEF GetStatus
    <2> QED BY <1>3, <2>2 DEF TypeInv, ApiTypeOK, GetStatus, HandlerRecord
<1>4. ASSUME NEW h \in Handlers, GetFind(h)
      PROVE  TypeInv'
    <2>1. handler[h].user \in Users /\ slot[handler[h].user] \in 0 .. MaxRev
        BY <1>4 DEF GetFind, TypeInv, HandlerInv, ApiTypeOK
    <2>2. handler' \in [Handlers -> HandlerRecord] /\ HandlerInv'
        <3>1. CASE slot[handler[h].user] = 0
            BY <1>b, <1>4, <3>1 DEF GetFind
        <3>2. CASE slot[handler[h].user] # 0
            BY <1>c, <1>4, <2>1, <3>2
               DEF GetFind, TypeInv, HandlerInv, HandlerRecord, Putting, Stages
        <3> QED BY <3>1, <3>2
    <2> QED BY <1>4, <2>2 DEF TypeInv, ApiTypeOK, GetFind, HandlerRecord
<1>5. ASSUME NEW h \in Handlers, GetData(h)
      PROVE  TypeInv'
    <2>1. /\ handler[h].user \in Users
          /\ blob[handler[h].user] \in Contents \cup {Absent, Torn}
          /\ handler[h].existing \in 0 .. MaxRev
        BY <1>5 DEF GetData, TypeInv, HandlerInv, ApiTypeOK
    <2>2. handler' \in [Handlers -> HandlerRecord] /\ HandlerInv'
        <3>1. CASE blob[handler[h].user] = Absent
            BY <1>b, <1>5, <3>1 DEF GetData
        <3>2. CASE blob[handler[h].user] # Absent
            BY <1>5, <2>1, <3>2, ReplyType DEF GetData
        <3> QED BY <3>1, <3>2
    <2> QED BY <1>5, <2>2 DEF TypeInv, ApiTypeOK, GetData, HandlerRecord
<1>6. ASSUME NEW h \in Handlers, PutCheck(h)
      PROVE  TypeInv'
    <2>1. /\ handler[h].user \in Users /\ slot[handler[h].user] \in 0 .. MaxRev
          /\ slot[handler[h].user] < MaxRev
          /\ handler[h].content \in Contents
          /\ Base(h) \in 0 .. MaxRev
        BY <1>6 DEF PutCheck, TypeInv, HandlerInv, ApiTypeOK, Base, NoRev
    <2>2. handler' \in [Handlers -> HandlerRecord] /\ HandlerInv'
        <3>1. CASE RevisionMatches(handler[h].expected, slot[handler[h].user])
            <4>1. handler' \in [Handlers -> HandlerRecord]
                BY <1>c, <1>6, <2>1, <3>1 DEF PutCheck, HandlerRecord, Stages
            <4>2. HandlerInv'
                BY <1>c, <1>6, <2>1, <3>1 DEF PutCheck, TypeInv, HandlerInv, Putting, HandlerRecord
            <4> QED BY <4>1, <4>2
        <3>2. CASE ~RevisionMatches(handler[h].expected, slot[handler[h].user])
            BY <1>b, <1>6, <3>2 DEF PutCheck
        <3> QED BY <3>1, <3>2
    <2>3. admitted' \subseteq [user : Users, content : Contents, base : 0 .. MaxRev]
        BY <1>6, <2>1 DEF PutCheck, TypeInv, ApiTypeOK
    <2> QED BY <1>6, <2>2, <2>3 DEF TypeInv, ApiTypeOK, PutCheck, HandlerRecord
<1>7. ASSUME NEW h \in Handlers, PutOpen(h)
      PROVE  TypeInv'
    <2>1. handler' \in [Handlers -> HandlerRecord] /\ HandlerInv'
        BY <1>7, GotoType DEF PutOpen, Putting, Stages
    <2> QED BY <1>7, <2>1 DEF TypeInv, ApiTypeOK, PutOpen, HandlerRecord
<1>8. ASSUME NEW h \in Handlers, PutWrite(h)
      PROVE  TypeInv'
    <2>1. handler' \in [Handlers -> HandlerRecord] /\ HandlerInv'
        BY <1>8, GotoType DEF PutWrite, Putting, Stages
    <2>2. handler[h].content \in Contents
        BY <1>8 DEF PutWrite, TypeInv, HandlerInv, Putting
    <2>3. blob' \in [Users -> Contents \cup {Absent, Torn}]
        BY <1>8, <2>2 DEF PutWrite, TypeInv, ApiTypeOK
    <2> QED BY <1>8, <2>1, <2>3 DEF TypeInv, ApiTypeOK, PutWrite, HandlerRecord
<1>9. ASSUME NEW h \in Handlers, PutCommit(h)
      PROVE  TypeInv'
    <2>1. /\ handler[h].user \in Users
          /\ handler[h].content \in Contents
          /\ NextRevision(h) \in 0 .. MaxRev
          /\ Base(h) \in 0 .. MaxRev
        BY <1>9 DEF PutCommit, TypeInv, HandlerInv, ApiTypeOK, Putting, NextRevision, Base, NoRev
    <2>2. handler' \in [Handlers -> HandlerRecord] /\ HandlerInv'
        BY <1>9, <2>1, ReplyType DEF PutCommit
    <2>3. /\ slot' \in [Users -> 0 .. MaxRev]
          /\ row' \in [Users -> Contents \cup {Absent}]
        BY <1>9, <2>1 DEF PutCommit, TypeInv, ApiTypeOK
    <2>4. accepted' \subseteq [user : Users, content : Contents,
                               base : 0 .. MaxRev, new : 0 .. MaxRev]
        BY <1>9, <2>1 DEF PutCommit, TypeInv, ApiTypeOK
    <2> QED BY <1>9, <2>2, <2>3, <2>4 DEF TypeInv, ApiTypeOK, PutCommit, HandlerRecord
<1>10. ASSUME NEW h \in Handlers, DeleteFind(h)
       PROVE  TypeInv'
    <2>1. handler' \in [Handlers -> HandlerRecord] /\ HandlerInv'
        <3>1. CASE slot[handler[h].user] = 0
            BY <1>b, <1>10, <3>1 DEF DeleteFind
        <3>2. CASE slot[handler[h].user] # 0
            BY <1>10, <3>2, GotoType DEF DeleteFind, Stages
        <3> QED BY <3>1, <3>2
    <2> QED BY <1>10, <2>1 DEF TypeInv, ApiTypeOK, DeleteFind, HandlerRecord
<1>11. ASSUME NEW h \in Handlers, DeleteBlob(h)
       PROVE  TypeInv'
    <2>1. handler' \in [Handlers -> HandlerRecord] /\ HandlerInv'
        BY <1>11, GotoType DEF DeleteBlob, Stages
    <2> QED BY <1>11, <2>1 DEF TypeInv, ApiTypeOK, DeleteBlob, HandlerRecord
<1>12. ASSUME NEW h \in Handlers, DeleteRow(h)
       PROVE  TypeInv'
    <2>1. handler' \in [Handlers -> HandlerRecord] /\ HandlerInv'
        BY <1>b, <1>12 DEF DeleteRow
    <2>2. /\ slot' \in [Users -> 0 .. MaxRev]
          /\ row' \in [Users -> Contents \cup {Absent}]
          /\ accepted' \subseteq accepted
        BY <1>12 DEF DeleteRow, TypeInv, ApiTypeOK
    <2> QED BY <1>12, <2>1, <2>2 DEF TypeInv, ApiTypeOK, DeleteRow, HandlerRecord
<1>13. ASSUME NEW h \in Handlers, Fail(h)
       PROVE  TypeInv'
    <2>1. handler' \in [Handlers -> HandlerRecord] /\ HandlerInv'
        BY <1>b, <1>13 DEF Fail
    <2> QED BY <1>13, <2>1 DEF TypeInv, ApiTypeOK, Fail, HandlerRecord
<1>14. CASE UNCHANGED apiVars
    BY <1>14 DEF apiVars, TypeInv, ApiTypeOK, HandlerInv, Putting
<1> QED
    BY <1>1, <1>2, <1>3, <1>4, <1>5, <1>6, <1>7, <1>8, <1>9, <1>10, <1>11,
       <1>12, <1>13, <1>14 DEF ApiNext, HandlerStep

\* Every variable keeps its range, for any accounts, packages, handlers and
\* bounds.
THEOREM TypeCorrect == ApiSpec => []ApiTypeOK
<1>1. TypeInv => ApiTypeOK
    BY DEF TypeInv
<1> QED BY <1>1, TypeInit, TypeStep, PTL DEF ApiSpec

-------------------------------------------------------------------------------
(* Optimistic locking *)

\* An account has one writer at a time, ...
OneWriter ==
    \A g, h \in Handlers :
        Writing(g) /\ Writing(h) /\ handler[g].user = handler[h].user => g = h

\* ... so what a put has read of the row, and named, still holds ...
ReadIsCurrent ==
    \A h \in Handlers :
        Putting(h) => /\ handler[h].existing = slot[handler[h].user]
                      /\ Base(h) = handler[h].existing

\* ... and everything accepted lies behind the row.
AcceptedIsPast ==
    \A a \in accepted : a.base < slot[a.user]

LockInv == OneWriter /\ ReadIsCurrent /\ AcceptedIsPast /\ NoLostUpdate

\* Without overlap a put or a delete finds no other writer of its account.
LEMMA NoOtherWriter ==
    ASSUME MaxWriters = 1, NEW u, Cardinality(Writers(u)) < MaxWriters
    PROVE  \A g \in Handlers : ~(Writing(g) /\ handler[g].user = u)
<1>1. Writers(u) \subseteq Handlers
    BY DEF Writers
<1>2. IsFiniteSet(Writers(u))
    BY <1>1, SavesApiAssumption, FS_Subset
<1>3. Cardinality(Writers(u)) = 0
    BY <1>2, FS_CardinalityType
<1>4. Writers(u) = {}
    BY <1>2, <1>3, FS_EmptySet
<1> QED BY <1>4 DEF Writers

\* A step that changes the stage of no writer, the row of no account and
\* nothing of what was accepted keeps the locking invariant.
LEMMA LockKept ==
    ASSUME LockInv, NEW h \in Handlers,
           UNCHANGED <<slot, accepted>>,
           \A g \in Handlers \ {h} : handler'[g] = handler[g],
           Writing(h)' => /\ Writing(h)
                          /\ handler[h].user = handler'[h].user,
           Putting(h)' => /\ Putting(h)
                          /\ handler[h].existing = handler'[h].existing
                          /\ handler[h].expected = handler'[h].expected
    PROVE  LockInv'
<1>1. OneWriter'
    BY DEF LockInv, OneWriter, Writing
<1>2. ReadIsCurrent'
    <2> SUFFICES ASSUME NEW g \in Handlers, Putting(g)'
                 PROVE  (handler[g].existing = slot[handler[g].user] /\ Base(g) = handler[g].existing)'
        BY DEF ReadIsCurrent
    <2>1. CASE g = h
        BY <2>1 DEF LockInv, ReadIsCurrent, Putting, Writing, Base
    <2>2. CASE g # h
        BY <2>2 DEF LockInv, ReadIsCurrent, Putting, Base
    <2> QED BY <2>1, <2>2
<1>3. AcceptedIsPast' /\ NoLostUpdate'
    BY DEF LockInv, AcceptedIsPast, NoLostUpdate
<1> QED BY <1>1, <1>2, <1>3 DEF LockInv

\* The initial states satisfy the locking invariant.
LEMMA LockInit == ApiInit => LockInv
BY DEF ApiInit, LockInv, OneWriter, ReadIsCurrent, AcceptedIsPast, NoLostUpdate,
       IdleHandler, Writing, Putting

\* What the answer of a handler leaves: nobody else is touched, and the
\* handler itself writes no more.
LEMMA ReplyEffect ==
    ASSUME TypeInv, NEW h \in Handlers, NEW status, NEW rev, NEW data,
           Reply(h, status, rev, data)
    PROVE  /\ \A g \in Handlers \ {h} : handler'[g] = handler[g]
           /\ ~Writing(h)' /\ ~Putting(h)'
BY DEF TypeInv, ApiTypeOK, Reply, IdleHandler, Writing, Putting

\* What going on to another stage leaves.
LEMMA GotoEffect ==
    ASSUME TypeInv, NEW h \in Handlers, NEW pc, Goto(h, pc)
    PROVE  /\ \A g \in Handlers \ {h} : handler'[g] = handler[g]
           /\ handler'[h].pc = pc
           /\ handler'[h].user = handler[h].user
           /\ handler'[h].existing = handler[h].existing
           /\ handler'[h].expected = handler[h].expected
           /\ handler'[h].content = handler[h].content
BY DEF TypeInv, ApiTypeOK, Goto

\* Without overlap every step keeps the locking invariant.
LEMMA LockStep ==
    ASSUME MaxWriters = 1
    PROVE  TypeInv /\ LockInv /\ [ApiNext]_apiVars => LockInv'
<1> SUFFICES ASSUME TypeInv, LockInv, [ApiNext]_apiVars
             PROVE  LockInv'
    OBVIOUS
<1>a. handler \in [Handlers -> HandlerRecord]
    BY DEF TypeInv, ApiTypeOK, HandlerRecord
<1>b. slot \in [Users -> 0 .. MaxRev]
    BY DEF TypeInv, ApiTypeOK
<1>c. ASSUME NEW h \in Handlers, NEW status, NEW rev, NEW data,
             Reply(h, status, rev, data), UNCHANGED <<slot, accepted>>
      PROVE  LockInv'
    BY <1>c, ReplyEffect, LockKept
<1>1. ASSUME NEW h \in Handlers, NEW q \in Requests, Receive(h, q)
      PROVE  LockInv'
    <2>1. /\ \A g \in Handlers \ {h} : handler'[g] = handler[g]
          /\ ~Writing(h)' /\ ~Putting(h)'
        BY <1>a, <1>1 DEF Receive, Writing, Putting, IdleHandler
    <2> QED BY <1>1, <2>1, LockKept DEF Receive
<1>2. ASSUME NEW h \in Handlers, Answer(h)
      PROVE  LockInv'
    <2>1. /\ \A g \in Handlers \ {h} : handler'[g] = handler[g]
          /\ ~Writing(h)' /\ ~Putting(h)'
        BY <1>a, <1>2 DEF Answer, Writing, Putting, IdleHandler
    <2> QED BY <1>2, <2>1, LockKept DEF Answer
<1>3. ASSUME NEW h \in Handlers, GetStatus(h) \/ GetData(h) \/ Fail(h)
      PROVE  LockInv'
    BY <1>c, <1>3 DEF GetStatus, GetData, Fail
<1>4. ASSUME NEW h \in Handlers, GetFind(h)
      PROVE  LockInv'
    <2>1. CASE slot[handler[h].user] = 0
        BY <1>c, <1>4, <2>1 DEF GetFind
    <2>2. CASE slot[handler[h].user] # 0
        <3>1. /\ \A g \in Handlers \ {h} : handler'[g] = handler[g]
              /\ ~Writing(h)' /\ ~Putting(h)'
            BY <1>a, <1>4, <2>2 DEF GetFind, Writing, Putting, HandlerRecord
        <3> QED BY <1>4, <3>1, LockKept DEF GetFind
    <2> QED BY <2>1, <2>2
<1>5. ASSUME NEW h \in Handlers, PutCheck(h)
      PROVE  LockInv'
    <2> DEFINE u == handler[h].user
    <2>1. CASE ~RevisionMatches(handler[h].expected, slot[u])
        BY <1>c, <1>5, <2>1 DEF PutCheck
    <2>2. CASE RevisionMatches(handler[h].expected, slot[u])
        <3>1. /\ \A g \in Handlers \ {h} : handler'[g] = handler[g]
              /\ handler'[h].user = u /\ handler'[h].existing = slot[u]
              /\ handler'[h].expected = handler[h].expected
            BY <1>a, <1>5, <2>2 DEF PutCheck, HandlerRecord
        <3>2. \A g \in Handlers : ~(Writing(g) /\ handler[g].user = u)
            BY <1>5, NoOtherWriter DEF PutCheck
        <3>3. OneWriter'
            BY <3>1, <3>2 DEF LockInv, OneWriter, Writing
        <3>4. Base(h) = slot[u]
            <4>1. u \in Users /\ slot[u] \in 0 .. MaxRev
                BY <1>b, <1>5 DEF PutCheck, TypeInv, HandlerInv
            <4> QED BY <2>2, <4>1, SavesApiAssumption DEF RevisionMatches, Base, NoRev
        <3>5. UNCHANGED <<slot, accepted>>
            BY <1>5 DEF PutCheck
        <3>6. ReadIsCurrent'
            BY <3>1, <3>4, <3>5 DEF LockInv, ReadIsCurrent, Putting, Base
        <3> QED BY <3>3, <3>5, <3>6 DEF LockInv, AcceptedIsPast, NoLostUpdate
    <2> QED BY <2>1, <2>2
<1>6. ASSUME NEW h \in Handlers, PutOpen(h) \/ PutWrite(h)
      PROVE  LockInv'
    <2>1. Writing(h) /\ Putting(h) /\ \E pc \in Stages : Goto(h, pc)
        BY <1>6 DEF PutOpen, PutWrite, Writing, Putting, Stages
    <2>2. UNCHANGED <<slot, accepted>>
        BY <1>6 DEF PutOpen, PutWrite
    <2> QED BY <2>1, <2>2, GotoEffect, LockKept
<1>7. ASSUME NEW h \in Handlers, PutCommit(h)
      PROVE  LockInv'
    <2> DEFINE u == handler[h].user
               new == NextRevision(h)
    <2>1. /\ u \in Users /\ Putting(h) /\ Writing(h)
          /\ handler[h].existing = slot[u] /\ Base(h) = slot[u]
        BY <1>7 DEF PutCommit, TypeInv, HandlerInv, LockInv, ReadIsCurrent, Putting, Writing
    <2>2. new = slot[u] + 1
        BY <2>1 DEF NextRevision
    <2>3. slot' = [slot EXCEPT ![u] = new]
        BY <1>7 DEF PutCommit
    <2>4. /\ \A g \in Handlers \ {h} : handler'[g] = handler[g]
          /\ ~Writing(h)' /\ ~Putting(h)'
        BY <1>7, ReplyEffect DEF PutCommit
    <2>5. OneWriter'
        BY <2>4 DEF LockInv, OneWriter, Writing
    <2>6. ReadIsCurrent'
        <3> SUFFICES ASSUME NEW g \in Handlers, Putting(g)'
                     PROVE  (handler[g].existing = slot[handler[g].user] /\ Base(g) = handler[g].existing)'
            BY DEF ReadIsCurrent
        <3>1. g # h /\ handler'[g] = handler[g] /\ Putting(g)
            BY <2>4 DEF Putting
        <3>2. handler[g].user # u
            BY <2>1, <3>1 DEF LockInv, OneWriter, Putting, Writing
        <3>3. slot'[handler[g].user] = slot[handler[g].user]
            BY <1>b, <2>3, <3>2
        <3> QED BY <3>1, <3>3 DEF LockInv, ReadIsCurrent, Base
    <2> DEFINE put == [user |-> u, content |-> handler[h].content, base |-> Base(h), new |-> new]
    <2>7. accepted' = accepted \cup {put} /\ put.user = u /\ put.base = slot[u]
        BY <1>7, <2>1 DEF PutCommit
    <2>8. accepted \subseteq [user : Users, content : Contents, base : 0 .. MaxRev, new : 0 .. MaxRev]
        BY DEF TypeInv, ApiTypeOK
    <2>9. AcceptedIsPast'
        BY <1>b, <2>1, <2>2, <2>3, <2>7, <2>8 DEF LockInv, AcceptedIsPast
    <2>10. NoLostUpdate'
        BY <1>b, <2>1, <2>7, <2>8 DEF LockInv, AcceptedIsPast, NoLostUpdate
    <2> QED BY <2>5, <2>6, <2>9, <2>10 DEF LockInv
<1>8. ASSUME NEW h \in Handlers, DeleteFind(h)
      PROVE  LockInv'
    <2>1. CASE slot[handler[h].user] = 0
        BY <1>c, <1>8, <2>1 DEF DeleteFind
    <2>2. CASE slot[handler[h].user] # 0
        <3>1. Goto(h, "removing") /\ UNCHANGED <<slot, accepted>>
            BY <1>8, <2>2 DEF DeleteFind
        <3>2. \A g \in Handlers : ~(Writing(g) /\ handler[g].user = handler[h].user)
            BY <1>8, NoOtherWriter DEF DeleteFind
        <3>3. OneWriter'
            BY <3>1, <3>2, GotoEffect DEF LockInv, OneWriter, Writing
        <3>4. ReadIsCurrent'
            BY <3>1, GotoEffect DEF LockInv, ReadIsCurrent, Putting, Base
        <3> QED BY <3>1, <3>3, <3>4 DEF LockInv, AcceptedIsPast, NoLostUpdate
    <2> QED BY <2>1, <2>2
<1>9. ASSUME NEW h \in Handlers, DeleteBlob(h)
      PROVE  LockInv'
    <2>1. Goto(h, "unlinked") /\ Writing(h) /\ UNCHANGED <<slot, accepted>>
        BY <1>9 DEF DeleteBlob, Writing
    <2>2. ~Putting(h)'
        BY <2>1, GotoEffect DEF Putting
    <2> QED BY <2>1, <2>2, GotoEffect, LockKept
<1>10. ASSUME NEW h \in Handlers, DeleteRow(h)
       PROVE  LockInv'
    <2> DEFINE u == handler[h].user
    <2>1. CASE slot[u] = 0
        BY <1>c, <1>10, <2>1 DEF DeleteRow
    <2>2. CASE slot[u] # 0
        <3>1. /\ Reply(h, "ok", 0, Absent)
              /\ slot' = [slot EXCEPT ![u] = 0]
              /\ accepted' = {a \in accepted : a.user # u}
              /\ Writing(h)
            BY <1>10, <2>2 DEF DeleteRow, Writing
        <3>2. /\ \A g \in Handlers \ {h} : handler'[g] = handler[g]
              /\ ~Writing(h)' /\ ~Putting(h)'
            BY <3>1, ReplyEffect
        <3>3. OneWriter'
            BY <3>2 DEF LockInv, OneWriter, Writing
        <3>4. ReadIsCurrent'
            <4> SUFFICES ASSUME NEW g \in Handlers, Putting(g)'
                         PROVE  (handler[g].existing = slot[handler[g].user] /\ Base(g) = handler[g].existing)'
                BY DEF ReadIsCurrent
            <4>1. g # h /\ handler'[g] = handler[g] /\ Putting(g)
                BY <3>2 DEF Putting
            <4>2. handler[g].user # u
                BY <3>1, <4>1 DEF LockInv, OneWriter, Putting, Writing
            <4>3. slot'[handler[g].user] = slot[handler[g].user]
                BY <1>b, <3>1, <4>2
            <4> QED BY <4>1, <4>3 DEF LockInv, ReadIsCurrent, Base
        <3>5. AcceptedIsPast'
            BY <1>b, <3>1 DEF LockInv, AcceptedIsPast
        <3>6. NoLostUpdate'
            BY <3>1 DEF LockInv, NoLostUpdate
        <3> QED BY <3>3, <3>4, <3>5, <3>6 DEF LockInv
    <2> QED BY <2>1, <2>2
<1>11. CASE UNCHANGED apiVars
    BY <1>11 DEF apiVars, LockInv, OneWriter, ReadIsCurrent, AcceptedIsPast,
                 NoLostUpdate, Writing, Putting, Base
<1> QED
    BY <1>1, <1>2, <1>3, <1>4, <1>5, <1>6, <1>7, <1>8, <1>9, <1>10, <1>11
       DEF ApiNext, HandlerStep

\* Without overlap, of two puts that name the same revision of a slot at
\* most one is accepted.
THEOREM NoLostUpdateWithoutOverlap ==
    ASSUME MaxWriters = 1
    PROVE  ApiSpec => []NoLostUpdate
<1>1. LockInv => NoLostUpdate
    BY DEF LockInv
<1>2. ApiInit => TypeInv /\ LockInv
    BY TypeInit, LockInit
<1>3. TypeInv /\ LockInv /\ [ApiNext]_apiVars => (TypeInv /\ LockInv)'
    BY TypeStep, LockStep
<1> QED BY <1>1, <1>2, <1>3, PTL DEF ApiSpec

-------------------------------------------------------------------------------
(* The register *)

\* The register starts without slots.
LEMMA RegisterInit == ApiInit => Register!Init
BY DEF ApiInit, Register!Init

\* A step that touches neither rows nor what was accepted is a stutter.
LEMMA RegisterStutter ==
    ASSUME UNCHANGED <<slot, row, accepted>>
    PROVE  UNCHANGED Register!vars
BY DEF Register!vars

\* Without overlap a commit is the register's push, the removal of a row its
\* removal, and every other step changes nothing of it.
LEMMA RegisterStep ==
    TypeInv /\ LockInv /\ [ApiNext]_apiVars => [Register!Next]_(Register!vars)
<1> SUFFICES ASSUME TypeInv, LockInv, [ApiNext]_apiVars
             PROVE  [Register!Next]_(Register!vars)
    OBVIOUS
<1>a. slot \in [Users -> 0 .. MaxRev] /\ row \in [Users -> Contents \cup {Absent}]
    BY DEF TypeInv, ApiTypeOK
<1>1. ASSUME NEW h \in Handlers, PutCommit(h)
      PROVE  Register!Next
    <2>1. PICK u \in Users, c \in Contents : u = handler[h].user /\ c = handler[h].content
        BY <1>1 DEF PutCommit, TypeInv, HandlerInv, Putting
    <2>2. Base(h) = slot[u] /\ handler[h].existing = slot[u]
        BY <1>1, <2>1 DEF PutCommit, LockInv, ReadIsCurrent, Putting
    <2>3. NextRevision(h) = slot[u] + 1
        BY <2>1, <2>2 DEF NextRevision
    <2>4. /\ slot' = [slot EXCEPT ![u] = slot[u] + 1]
          /\ row' = [row EXCEPT ![u] = c]
          /\ accepted' = accepted \cup
                 {[user |-> u, content |-> c, base |-> slot[u], new |-> slot[u] + 1]}
        BY <1>1, <2>1, <2>2, <2>3 DEF PutCommit
    <2>5. Register!Push(u, c)
        <3>1. [v \in Users |-> [rev |-> slot[v], content |-> row[v]]][u].rev = slot[u]
            BY <2>1
        <3>2. [v \in Users |-> [rev |-> slot'[v], content |-> row'[v]]]
              = [[v \in Users |-> [rev |-> slot[v], content |-> row[v]]]
                    EXCEPT ![u] = [rev |-> slot[u] + 1, content |-> c]]
            BY <1>a, <2>1, <2>4
        <3> QED BY <2>4, <3>1, <3>2 DEF Register!Push
    <2> QED BY <2>1, <2>5 DEF Register!Next
<1>2. ASSUME NEW h \in Handlers, DeleteRow(h), slot[handler[h].user] # 0
      PROVE  Register!Next
    <2>1. PICK u \in Users : u = handler[h].user
        BY <1>2 DEF DeleteRow, TypeInv, HandlerInv
    <2>2. /\ slot' = [slot EXCEPT ![u] = 0]
          /\ row' = [row EXCEPT ![u] = Absent]
          /\ accepted' = {a \in accepted : a.user # u}
        BY <1>2, <2>1 DEF DeleteRow
    <2>3. Register!Remove(u)
        <3>1. [v \in Users |-> [rev |-> slot[v], content |-> row[v]]][u].rev # 0
            BY <1>2, <2>1
        <3>2. [v \in Users |-> [rev |-> slot'[v], content |-> row'[v]]]
              = [[v \in Users |-> [rev |-> slot[v], content |-> row[v]]]
                    EXCEPT ![u] = [rev |-> 0, content |-> Absent]]
            BY <1>a, <2>1, <2>2
        <3> QED BY <2>2, <3>1, <3>2 DEF Register!Remove
    <2> QED BY <2>1, <2>3 DEF Register!Next
<1>3. ASSUME NEW h \in Handlers,
             \/ \E q \in Requests : Receive(h, q)
             \/ Answer(h)
             \/ GetStatus(h) \/ GetFind(h) \/ GetData(h)
             \/ PutCheck(h) \/ PutOpen(h) \/ PutWrite(h)
             \/ DeleteFind(h) \/ DeleteBlob(h) \/ Fail(h)
             \/ DeleteRow(h) /\ slot[handler[h].user] = 0
      PROVE  UNCHANGED <<slot, row, accepted>>
    BY <1>3 DEF Receive, Answer, GetStatus, GetFind, GetData, PutCheck, PutOpen,
                PutWrite, DeleteFind, DeleteBlob, Fail, DeleteRow
<1>4. CASE UNCHANGED apiVars
    BY <1>4, RegisterStutter DEF apiVars
<1> QED
    BY <1>1, <1>2, <1>3, <1>4, RegisterStutter DEF ApiNext, HandlerStep

\* Without overlap the routes implement the register their clients rely on.
THEOREM RegisterRefined ==
    ASSUME MaxWriters = 1
    PROVE  ApiSpec => ImplementsRegister
<1>1. ApiInit => TypeInv /\ LockInv
    BY TypeInit, LockInit
<1>2. TypeInv /\ LockInv /\ [ApiNext]_apiVars => (TypeInv /\ LockInv)'
    BY TypeStep, LockStep
<1> QED
    BY <1>1, <1>2, RegisterInit, RegisterStep, PTL
       DEF ApiSpec, ImplementsRegister, Register!Spec

-------------------------------------------------------------------------------
(* What a download finds *)

NoDeletes == "delete" \notin Ops

\* What a step of handler h leaves of the others' stages.
OthersStay(h) == \A g \in Handlers \ {h} : handler'[g] = handler[g]

LEMMA RequestEffect ==
    ASSUME TypeInv, NEW h \in Handlers, Answer(h) \/ \E q \in Requests : Receive(h, q)
    PROVE  OthersStay(h) /\ handler'[h].pc \in {"idle", "start"} /\ UNCHANGED <<slot, blob, admitted>>
<1>1. CASE Answer(h)
    BY <1>1 DEF TypeInv, ApiTypeOK, Answer, IdleHandler, OthersStay
<1>2. ASSUME NEW q \in Requests, Receive(h, q)
      PROVE  /\ OthersStay(h) /\ handler'[h].pc \in {"idle", "start"}
             /\ UNCHANGED <<slot, blob, admitted>>
    <2> DEFINE r == [IdleHandler EXCEPT !.pc = "start", !.op = q.op, !.user = q.user,
                                        !.expected = q.expected, !.content = q.content]
    <2>1. handler' = [handler EXCEPT ![h] = r] /\ UNCHANGED <<slot, blob, admitted>>
        BY <1>2 DEF Receive
    <2>2. r.pc = "start"
        BY DEF IdleHandler
    <2> HIDE DEF r
    <2> QED BY <2>1, <2>2 DEF TypeInv, ApiTypeOK, OthersStay
<1> QED BY <1>1, <1>2

LEMMA AnswerEffect ==
    ASSUME TypeInv, NEW h \in Handlers, NEW status, NEW rev, NEW data, Reply(h, status, rev, data)
    PROVE  /\ OthersStay(h)
           /\ handler'[h].pc = "replied" /\ handler'[h].op = handler[h].op
           /\ handler'[h].user = handler[h].user
           /\ handler'[h].status = status /\ handler'[h].rev = rev /\ handler'[h].data = data
BY DEF TypeInv, ApiTypeOK, Reply, IdleHandler, OthersStay

LEMMA FoundEffect ==
    ASSUME TypeInv, NEW h \in Handlers, GetFind(h), slot[handler[h].user] # 0
    PROVE  /\ OthersStay(h)
           /\ handler'[h].pc = "found" /\ handler'[h].user = handler[h].user
           /\ handler'[h].existing = slot[handler[h].user]
BY DEF TypeInv, ApiTypeOK, GetFind, OthersStay

LEMMA CheckedEffect ==
    ASSUME TypeInv, NEW h \in Handlers, PutCheck(h),
           RevisionMatches(handler[h].expected, slot[handler[h].user])
    PROVE  /\ OthersStay(h)
           /\ handler'[h].pc = "checked" /\ handler'[h].op = "put"
           /\ handler'[h].user = handler[h].user /\ handler'[h].content = handler[h].content
           /\ handler'[h].expected = handler[h].expected
BY DEF TypeInv, ApiTypeOK, PutCheck, OthersStay

\* No handler deletes, and one past the truncation has a file.
FileInv ==
    /\ \A h \in Handlers :
          /\ handler[h].pc \notin {"removing", "unlinked"}
          /\ handler[h].pc \in {"writing", "written"} => blob[handler[h].user] # Absent
    /\ RowHasFile

LEMMA FileKept ==
    ASSUME FileInv, NEW h \in Handlers, UNCHANGED <<slot, blob>>, OthersStay(h),
           handler'[h].pc \notin {"writing", "written", "removing", "unlinked"}
    PROVE  FileInv'
<1>1. RowHasFile'
    BY DEF FileInv, RowHasFile
<1>2. ASSUME NEW g \in Handlers
      PROVE  /\ handler'[g].pc \notin {"removing", "unlinked"}
             /\ handler'[g].pc \in {"writing", "written"} => blob'[handler'[g].user] # Absent
    <2>1. CASE g = h
        BY <2>1
    <2>2. CASE g # h
        BY <2>2 DEF FileInv, OthersStay
    <2> QED BY <2>1, <2>2
<1> QED BY <1>1, <1>2 DEF FileInv

\* A put's truncation or writing leaves a file, whole or torn.
LEMMA BlobStep ==
    ASSUME TypeInv, NEW h \in Handlers, PutOpen(h) \/ PutWrite(h)
    PROVE  /\ \E pc \in {"writing", "written"} : Goto(h, pc)
           /\ handler[h].user \in Users /\ Putting(h) /\ handler[h].content \in Contents
           /\ UNCHANGED <<slot, admitted>>
           /\ \E data : blob' = [blob EXCEPT ![handler[h].user] = data]
           /\ blob'[handler[h].user] \in {handler[h].content, Torn}
<1>1. handler[h].user \in Users /\ Putting(h) /\ handler[h].content \in Contents
      /\ blob \in [Users -> Contents \cup {Absent, Torn}]
    BY DEF PutOpen, PutWrite, Putting, TypeInv, HandlerInv, ApiTypeOK
<1>2. CASE PutOpen(h)
    BY <1>1, <1>2 DEF PutOpen
<1>3. CASE PutWrite(h)
    <2>1. PICK data \in {handler[h].content, Torn} : blob' = [blob EXCEPT ![handler[h].user] = data]
        BY <1>3 DEF PutWrite
    <2>2. blob'[handler[h].user] = data
        BY <1>1, <2>1
    <2>3. Goto(h, "written") /\ UNCHANGED <<slot, admitted>>
        BY <1>3 DEF PutWrite
    <2> QED BY <1>1, <2>1, <2>2, <2>3
<1> QED BY <1>2, <1>3

LEMMA FileStep ==
    ASSUME NoDeletes
    PROVE  TypeInv /\ FileInv /\ [ApiNext]_apiVars => FileInv'
<1> SUFFICES ASSUME TypeInv, FileInv, [ApiNext]_apiVars
             PROVE  FileInv'
    OBVIOUS
<1>a. ASSUME NEW h \in Handlers, NEW status, NEW rev, NEW data,
             Reply(h, status, rev, data), UNCHANGED <<slot, blob>>
      PROVE  FileInv'
    BY <1>a, AnswerEffect, FileKept
<1>1. ASSUME NEW h \in Handlers, Answer(h) \/ \E q \in Requests : Receive(h, q)
      PROVE  FileInv'
    BY <1>1, RequestEffect, FileKept
<1>2. ASSUME NEW h \in Handlers, GetStatus(h) \/ GetData(h) \/ Fail(h)
      PROVE  FileInv'
    BY <1>2, <1>a DEF GetStatus, GetData, Fail
<1>3. ASSUME NEW h \in Handlers, GetFind(h)
      PROVE  FileInv'
    <2>1. CASE slot[handler[h].user] = 0
        BY <1>3, <1>a, <2>1 DEF GetFind
    <2>2. CASE slot[handler[h].user] # 0
        BY <1>3, <2>2, FoundEffect, FileKept DEF GetFind
    <2> QED BY <2>1, <2>2
<1>4. ASSUME NEW h \in Handlers, PutCheck(h)
      PROVE  FileInv'
    <2>1. CASE ~RevisionMatches(handler[h].expected, slot[handler[h].user])
        BY <1>4, <1>a, <2>1 DEF PutCheck
    <2>2. CASE RevisionMatches(handler[h].expected, slot[handler[h].user])
        BY <1>4, <2>2, CheckedEffect, FileKept DEF PutCheck
    <2> QED BY <2>1, <2>2
<1>5. ASSUME NEW h \in Handlers, PutOpen(h) \/ PutWrite(h)
      PROVE  FileInv'
    <2> DEFINE u == handler[h].user
    <2>1. /\ \E pc \in {"writing", "written"} : Goto(h, pc)
          /\ u \in Users /\ slot' = slot
          /\ \E data : blob' = [blob EXCEPT ![u] = data]
          /\ blob'[u] # Absent
        BY <1>5, BlobStep, SavesApiAssumption
    <2>2. \A v \in Users : blob[v] # Absent => blob'[v] # Absent
        BY <2>1 DEF TypeInv, ApiTypeOK
    <2>3. RowHasFile'
        BY <2>1, <2>2 DEF FileInv, RowHasFile
    <2>4. OthersStay(h) /\ handler'[h].user = u /\ handler'[h].pc \in {"writing", "written"}
        BY <2>1, GotoEffect DEF OthersStay
    <2>5. ASSUME NEW g \in Handlers
          PROVE  /\ handler'[g].pc \notin {"removing", "unlinked"}
                 /\ handler'[g].pc \in {"writing", "written"} => blob'[handler'[g].user] # Absent
        <3>1. CASE g = h
            BY <2>1, <2>4, <3>1
        <3>2. CASE g # h
            BY <2>2, <2>4, <3>2 DEF FileInv, OthersStay, TypeInv, HandlerInv
        <3> QED BY <3>1, <3>2
    <2> QED BY <2>3, <2>5 DEF FileInv
<1>6. ASSUME NEW h \in Handlers, PutCommit(h)
      PROVE  FileInv'
    <2> DEFINE u == handler[h].user
    <2>1. u \in Users /\ blob[u] # Absent /\ blob' = blob /\ slot' = [slot EXCEPT ![u] = NextRevision(h)]
        BY <1>6 DEF PutCommit, FileInv, TypeInv, HandlerInv
    <2>2. OthersStay(h) /\ handler'[h].pc = "replied"
        BY <1>6, AnswerEffect DEF PutCommit
    <2>3. RowHasFile'
        BY <2>1 DEF FileInv, RowHasFile, TypeInv, ApiTypeOK
    <2>4. ASSUME NEW g \in Handlers
          PROVE  /\ handler'[g].pc \notin {"removing", "unlinked"}
                 /\ handler'[g].pc \in {"writing", "written"} => blob'[handler'[g].user] # Absent
        <3>1. CASE g = h
            BY <2>2, <3>1
        <3>2. CASE g # h
            BY <2>1, <2>2, <3>2 DEF FileInv, OthersStay
        <3> QED BY <3>1, <3>2
    <2> QED BY <2>3, <2>4 DEF FileInv
<1>7. ASSUME NEW h \in Handlers
      PROVE  ~DeleteFind(h) /\ ~DeleteBlob(h) /\ ~DeleteRow(h)
    <2>1. ~DeleteFind(h)
        BY DEF DeleteFind, TypeInv, HandlerInv, NoDeletes
    <2> QED BY <2>1 DEF DeleteBlob, DeleteRow, FileInv
<1>8. CASE UNCHANGED apiVars
    BY <1>8 DEF apiVars, FileInv, RowHasFile
<1> QED BY <1>1, <1>2, <1>3, <1>4, <1>5, <1>6, <1>7, <1>8 DEF ApiNext, HandlerStep

LEMMA FileInit == ApiInit => FileInv
BY DEF ApiInit, FileInv, RowHasFile, IdleHandler

\* While nobody deletes, a row has its file, however many puts overlap and
\* wherever they break off.
THEOREM RowsHaveFiles ==
    ASSUME NoDeletes
    PROVE  ApiSpec => []RowHasFile
<1>1. FileInv => RowHasFile
    BY DEF FileInv
<1> QED BY <1>1, TypeInit, TypeStep, FileInit, FileStep, PTL DEF ApiSpec

\* Package c of account u was admitted by a put that makes revision r or a
\* later one.
Backed(u, c, r) ==
    \E p \in admitted : p.user = u /\ p.content = c /\ p.base + 1 >= r

\* The file is as new as the row; a put in progress was admitted with what
\* it named; one that has written finds its package in the file; and what a
\* download has read of the row lies behind it.
FileIsFresh == \A u \in Users : blob[u] \in Contents => Backed(u, blob[u], slot[u])
PutIsAdmitted ==
    \A h \in Handlers : Putting(h) =>
        /\ handler[h].op = "put"
        /\ [user |-> handler[h].user, content |-> handler[h].content, base |-> Base(h)] \in admitted
WrittenIsThere ==
    \A h \in Handlers : handler[h].pc = "written" => blob[handler[h].user] = handler[h].content
FoundIsPast ==
    \A h \in Handlers : handler[h].pc = "found" => handler[h].existing <= slot[handler[h].user]

FreshInv == FileIsFresh /\ PutIsAdmitted /\ WrittenIsThere /\ FoundIsPast /\ PullNotOlder

LEMMA BackedGrows ==
    ASSUME admitted \subseteq admitted'
    PROVE  \A u, c, r : Backed(u, c, r) => Backed(u, c, r)'
BY DEF Backed

LEMMA BackedLess ==
    ASSUME TypeInv, NEW u, NEW c, NEW r \in Nat, NEW s \in Nat, s <= r, Backed(u, c, r)
    PROVE  Backed(u, c, s)
<1>1. PICK p \in admitted : p.user = u /\ p.content = c /\ p.base + 1 >= r
    BY DEF Backed
<1>2. p.base \in Nat
    BY SavesApiAssumption DEF TypeInv, ApiTypeOK
<1>3. p.base + 1 >= s
    BY <1>1, <1>2
<1> QED BY <1>1, <1>3 DEF Backed

\* What is served: the replies of downloads.
Served(h) ==
    handler[h].pc = "replied" /\ handler[h].op = "pull" /\ handler[h].status = "ok"
        /\ handler[h].data # Torn
    => Backed(handler[h].user, handler[h].data, handler[h].rev)

LEMMA PullIsServed == PullNotOlder <=> \A h \in Handlers : Served(h)
BY DEF PullNotOlder, Served, Backed

\* A step that leaves rows and files.
LEMMA FreshKept ==
    ASSUME FreshInv, NEW h \in Handlers, UNCHANGED <<slot, blob>>, admitted \subseteq admitted',
           OthersStay(h), Served(h)',
           Putting(h)' => /\ handler'[h].op = "put"
                          /\ [user |-> handler'[h].user, content |-> handler'[h].content,
                              base |-> Base(h)'] \in admitted',
           handler'[h].pc # "written",
           handler'[h].pc = "found" => handler'[h].existing <= slot[handler'[h].user]
    PROVE  FreshInv'
<1>1. \A u, c, r : Backed(u, c, r) => Backed(u, c, r)'
    BY BackedGrows
<1>2. FileIsFresh'
    BY <1>1 DEF FreshInv, FileIsFresh, Backed
<1>3. PutIsAdmitted'
    <2> SUFFICES ASSUME NEW g \in Handlers, Putting(g)'
                 PROVE  /\ handler'[g].op = "put"
                        /\ [user |-> handler'[g].user, content |-> handler'[g].content,
                            base |-> Base(g)'] \in admitted'
        BY DEF PutIsAdmitted
    <2>1. CASE g = h
        BY <2>1
    <2>2. CASE g # h
        <3>1. handler'[g] = handler[g] /\ Putting(g) /\ Base(g)' = Base(g)
            BY <2>2 DEF OthersStay, Putting, Base
        <3> QED BY <3>1 DEF FreshInv, PutIsAdmitted
    <2> QED BY <2>1, <2>2
<1>4. WrittenIsThere' /\ FoundIsPast'
    BY DEF FreshInv, WrittenIsThere, FoundIsPast, OthersStay
<1>5. PullNotOlder'
    <2>1. ASSUME NEW g \in Handlers
          PROVE  Served(g)'
        <3>1. CASE g = h
            BY <3>1
        <3>2. CASE g # h
            BY <1>1, <3>2, PullIsServed DEF FreshInv, Served, OthersStay, Backed
        <3> QED BY <3>1, <3>2
    <2> QED BY <2>1 DEF PullNotOlder, Served, Backed
<1> QED BY <1>2, <1>3, <1>4, <1>5 DEF FreshInv

LEMMA FreshStep ==
    ASSUME NoDeletes, MaxWriters = 1
    PROVE  TypeInv /\ LockInv /\ FileInv /\ FreshInv /\ [ApiNext]_apiVars => FreshInv'
<1> SUFFICES ASSUME TypeInv, LockInv, FileInv, FreshInv, [ApiNext]_apiVars
             PROVE  FreshInv'
    OBVIOUS
<1>b. /\ slot \in [Users -> 0 .. MaxRev] /\ MaxRev \in Nat
      /\ blob \in [Users -> Contents \cup {Absent, Torn}]
    BY SavesApiAssumption DEF TypeInv, ApiTypeOK
<1>a. ASSUME NEW h \in Handlers, NEW status, NEW rev, NEW data,
             Reply(h, status, rev, data), UNCHANGED <<slot, blob, admitted>>,
             status = "ok" => handler[h].op # "pull" \/ data = Torn
                              \/ Backed(handler[h].user, data, rev)
      PROVE  FreshInv'
    <2>1. /\ OthersStay(h) /\ handler'[h].pc = "replied" /\ handler'[h].op = handler[h].op
          /\ handler'[h].user = handler[h].user
          /\ handler'[h].status = status /\ handler'[h].rev = rev /\ handler'[h].data = data
        BY <1>a, AnswerEffect
    <2>2. Served(h)'
        BY <1>a, <2>1 DEF Served, Backed
    <2>3. ~Putting(h)'
        BY <2>1 DEF Putting
    <2> QED BY <1>a, <2>1, <2>2, <2>3, FreshKept
<1>1. ASSUME NEW h \in Handlers, Answer(h) \/ \E q \in Requests : Receive(h, q)
      PROVE  FreshInv'
    <2>1. OthersStay(h) /\ handler'[h].pc \in {"idle", "start"} /\ UNCHANGED <<slot, blob, admitted>>
        BY <1>1, RequestEffect
    <2>2. Served(h)' /\ ~Putting(h)'
        BY <2>1 DEF Served, Putting
    <2> QED BY <2>1, <2>2, FreshKept
<1>2. ASSUME NEW h \in Handlers, GetStatus(h)
      PROVE  FreshInv'
    BY <1>2, <1>a DEF GetStatus
<1>3. ASSUME NEW h \in Handlers, GetFind(h)
      PROVE  FreshInv'
    <2>1. CASE slot[handler[h].user] = 0
        BY <1>3, <1>a, <2>1 DEF GetFind
    <2>2. CASE slot[handler[h].user] # 0
        <3>1. /\ OthersStay(h) /\ handler'[h].pc = "found"
              /\ handler'[h].existing = slot[handler'[h].user] /\ handler[h].user \in Users
              /\ handler'[h].user = handler[h].user
              /\ UNCHANGED <<slot, blob, admitted>>
            BY <1>3, <2>2, FoundEffect DEF GetFind, TypeInv, HandlerInv
        <3>2. Served(h)' /\ ~Putting(h)'
            BY <3>1 DEF Served, Putting
        <3>3. slot[handler[h].user] <= slot[handler[h].user]
            BY <1>b, <3>1
        <3> QED BY <3>1, <3>2, <3>3, FreshKept
    <2> QED BY <2>1, <2>2
<1>4. ASSUME NEW h \in Handlers, GetData(h)
      PROVE  FreshInv'
    <2> DEFINE u == handler[h].user
               data == blob[u]
    <2>1. /\ u \in Users /\ handler[h].existing <= slot[u] /\ UNCHANGED <<slot, blob, admitted>>
          /\ handler[h].existing \in Nat /\ slot[u] \in Nat
        BY <1>4, <1>b DEF GetData, FreshInv, FoundIsPast, TypeInv, HandlerInv, ApiTypeOK
    <2>2. CASE data = Absent
        BY <1>4, <1>a, <2>1, <2>2 DEF GetData
    <2>3. CASE data = Torn
        BY <1>4, <1>a, <2>1, <2>3, SavesApiAssumption DEF GetData
    <2>4. CASE data \in Contents
        <3>1. Backed(u, data, slot[u])
            BY <2>1, <2>4 DEF FreshInv, FileIsFresh
        <3>2. Backed(u, data, handler[h].existing)
            BY <2>1, <3>1, BackedLess
        <3>3. Reply(h, "ok", handler[h].existing, data)
            BY <1>4, <2>4, SavesApiAssumption DEF GetData
        <3> QED BY <1>a, <2>1, <3>2, <3>3
    <2> QED BY <1>b, <2>1, <2>2, <2>3, <2>4
<1>5. ASSUME NEW h \in Handlers, PutCheck(h)
      PROVE  FreshInv'
    <2> DEFINE put == [user |-> handler[h].user, content |-> handler[h].content, base |-> Base(h)]
    <2>1. CASE ~RevisionMatches(handler[h].expected, slot[handler[h].user])
        <3>1. /\ Reply(h, IF handler[h].expected = NoRev THEN "error" ELSE "conflict", 0, Absent)
              /\ UNCHANGED <<slot, blob, admitted>>
            BY <1>5, <2>1 DEF PutCheck
        <3> QED BY <1>a, <3>1
    <2>2. CASE RevisionMatches(handler[h].expected, slot[handler[h].user])
        <3>1. admitted' = admitted \cup {put} /\ UNCHANGED <<slot, blob>>
            BY <1>5, <2>2 DEF PutCheck
        <3>2. /\ OthersStay(h)
              /\ handler'[h].pc = "checked" /\ handler'[h].op = "put"
              /\ handler'[h].user = handler[h].user /\ handler'[h].content = handler[h].content
              /\ Base(h)' = Base(h)
            BY <1>5, <2>2, CheckedEffect DEF Base
        <3>3. Served(h)' /\ put \in admitted' /\ admitted \subseteq admitted'
            BY <3>1, <3>2 DEF Served
        <3> QED BY <3>1, <3>2, <3>3, FreshKept
    <2> QED BY <2>1, <2>2
<1>6. ASSUME NEW h \in Handlers, PutOpen(h) \/ PutWrite(h)
      PROVE  FreshInv'
    <2> DEFINE u == handler[h].user
    <2>1. /\ \E pc \in {"writing", "written"} : Goto(h, pc)
          /\ u \in Users /\ Putting(h) /\ handler[h].content \in Contents
          /\ UNCHANGED <<slot, admitted>>
          /\ \E data : blob' = [blob EXCEPT ![u] = data]
          /\ blob'[u] \in {handler[h].content, Torn}
        BY <1>6, BlobStep
    <2>2. /\ OthersStay(h) /\ handler'[h].user = u /\ handler'[h].content = handler[h].content
          /\ handler'[h].pc \in {"writing", "written"}
          /\ Base(h)' = Base(h)
          /\ handler'[h].op = handler[h].op
        <3>1. OthersStay(h) /\ handler'[h].user = u /\ handler'[h].content = handler[h].content
              /\ handler'[h].pc \in {"writing", "written"}
              /\ handler'[h].expected = handler[h].expected
            BY <2>1, GotoEffect DEF OthersStay
        <3>2. handler'[h].op = handler[h].op
            BY <2>1 DEF Goto, TypeInv, ApiTypeOK
        <3> QED BY <3>1, <3>2 DEF Base
    <2>3. \A v \in Users : v # u => blob'[v] = blob[v]
        BY <1>b, <2>1
    <2>4. \A g \in Handlers : g # h /\ Writing(g) => handler[g].user # u
        <3>1. Writing(h)
            BY <2>1 DEF Putting, Writing
        <3> QED BY <3>1 DEF LockInv, OneWriter
    <2>5. handler'[h].pc = "written" => blob'[u] = handler[h].content
        <3>1. CASE PutOpen(h)
            <4>1. handler'[h].pc = "writing"
                BY <3>1, GotoEffect DEF PutOpen
            <4> QED BY <4>1
        <3>2. CASE PutWrite(h)
            <4>1. ~\E g \in Writers(u) \ {h} : handler[g].pc = "writing"
                BY <2>4 DEF Writers
            <4>2. blob' = [blob EXCEPT ![u] = handler[h].content]
                BY <3>2, <4>1 DEF PutWrite
            <4> QED BY <1>b, <2>1, <4>2
        <3> QED BY <1>6, <3>1, <3>2
    <2>6. FileIsFresh'
        <3>1. Backed(u, handler[h].content, slot[u])
            <4>1. [user |-> u, content |-> handler[h].content, base |-> Base(h)] \in admitted
                BY <2>1 DEF FreshInv, PutIsAdmitted
            <4>2. Base(h) = slot[u] /\ slot[u] \in Nat
                BY <1>b, <2>1 DEF LockInv, ReadIsCurrent
            <4>3. slot[u] + 1 >= slot[u]
                BY <4>2
            <4> QED BY <4>1, <4>2, <4>3 DEF Backed
        <3> SUFFICES ASSUME NEW v \in Users, blob'[v] \in Contents
                     PROVE  Backed(v, blob'[v], slot[v])
            BY <2>1 DEF FileIsFresh, Backed
        <3>2. CASE v = u
            BY <2>1, <3>1, <3>2, SavesApiAssumption
        <3>3. CASE v # u
            BY <2>3, <3>3 DEF FreshInv, FileIsFresh
        <3> QED BY <3>2, <3>3
    <2>7. PutIsAdmitted'
        <3> SUFFICES ASSUME NEW g \in Handlers, Putting(g)'
                     PROVE  /\ handler'[g].op = "put"
                            /\ [user |-> handler'[g].user, content |-> handler'[g].content,
                                base |-> Base(g)'] \in admitted'
            BY DEF PutIsAdmitted
        <3>1. CASE g = h
            BY <2>1, <2>2, <3>1 DEF FreshInv, PutIsAdmitted
        <3>2. CASE g # h
            <4>1. handler'[g] = handler[g] /\ Putting(g) /\ Base(g)' = Base(g)
                BY <2>2, <3>2 DEF OthersStay, Putting, Base
            <4> QED BY <2>1, <4>1 DEF FreshInv, PutIsAdmitted
        <3> QED BY <3>1, <3>2
    <2>8. WrittenIsThere'
        <3> SUFFICES ASSUME NEW g \in Handlers, handler'[g].pc = "written"
                     PROVE  blob'[handler'[g].user] = handler'[g].content
            BY DEF WrittenIsThere
        <3>1. CASE g = h
            BY <2>2, <2>5, <3>1
        <3>2. CASE g # h
            <4>1. handler'[g] = handler[g] /\ handler[g].user \in Users
                BY <2>2, <3>2 DEF OthersStay, TypeInv, HandlerInv
            <4>2. handler[g].user # u
                BY <2>4, <3>2, <4>1 DEF Writing
            <4> QED BY <2>3, <4>1, <4>2 DEF FreshInv, WrittenIsThere
        <3> QED BY <3>1, <3>2
    <2>9. FoundIsPast' /\ PullNotOlder'
        BY <2>1, <2>2 DEF FreshInv, FoundIsPast, PullNotOlder, OthersStay
    <2> QED BY <2>6, <2>7, <2>8, <2>9 DEF FreshInv
<1>7. ASSUME NEW h \in Handlers, PutCommit(h)
      PROVE  FreshInv'
    <2> DEFINE u == handler[h].user
    <2>1. /\ u \in Users /\ Putting(h) /\ Writing(h) /\ handler[h].pc = "written"
          /\ handler[h].existing = slot[u] /\ Base(h) = slot[u]
        BY <1>7 DEF PutCommit, TypeInv, HandlerInv, LockInv, ReadIsCurrent, Putting, Writing
    <2>2. NextRevision(h) = slot[u] + 1
        BY <2>1 DEF NextRevision
    <2>3. slot' = [slot EXCEPT ![u] = slot[u] + 1] /\ UNCHANGED <<blob, admitted>>
        BY <1>7, <2>2 DEF PutCommit
    <2>4. OthersStay(h) /\ handler'[h].pc = "replied" /\ handler'[h].op = handler[h].op
        BY <1>7, AnswerEffect DEF PutCommit
    <2>5. /\ [user |-> u, content |-> handler[h].content, base |-> slot[u]] \in admitted
          /\ handler[h].op = "put" /\ blob[u] = handler[h].content
        BY <2>1 DEF FreshInv, PutIsAdmitted, WrittenIsThere
    <2>6. slot[u] \in Nat /\ slot'[u] = slot[u] + 1 /\ \A v \in Users : v # u => slot'[v] = slot[v]
        BY <1>b, <2>1, <2>3
    <2>7. FileIsFresh'
        <3>1. Backed(u, blob[u], slot[u] + 1)
            BY <2>5, <2>6 DEF Backed
        <3> SUFFICES ASSUME NEW v \in Users, blob[v] \in Contents
                     PROVE  Backed(v, blob[v], slot'[v])
            BY <2>3 DEF FileIsFresh, Backed
        <3>2. CASE v = u
            BY <2>6, <3>1, <3>2
        <3>3. CASE v # u
            BY <2>6, <3>3 DEF FreshInv, FileIsFresh
        <3> QED BY <3>2, <3>3
    <2>8. PutIsAdmitted'
        <3> SUFFICES ASSUME NEW g \in Handlers, Putting(g)'
                     PROVE  /\ handler'[g].op = "put"
                            /\ [user |-> handler'[g].user, content |-> handler'[g].content,
                                base |-> Base(g)'] \in admitted'
            BY DEF PutIsAdmitted
        <3>1. g # h
            BY <2>4 DEF Putting
        <3>2. handler'[g] = handler[g] /\ Putting(g) /\ Base(g)' = Base(g)
            BY <2>4, <3>1 DEF OthersStay, Putting, Base
        <3> QED BY <2>3, <3>2 DEF FreshInv, PutIsAdmitted
    <2>9. WrittenIsThere'
        BY <2>3, <2>4 DEF FreshInv, WrittenIsThere, OthersStay
    <2>10. FoundIsPast'
        <3> SUFFICES ASSUME NEW g \in Handlers, handler'[g].pc = "found"
                     PROVE  handler'[g].existing <= slot'[handler'[g].user]
            BY DEF FoundIsPast
        <3>1. handler'[g] = handler[g] /\ g # h
            BY <2>4 DEF OthersStay
        <3>2. /\ handler[g].existing <= slot[handler[g].user]
              /\ handler[g].user \in Users /\ handler[g].existing \in Nat
            BY <3>1 DEF FreshInv, FoundIsPast, TypeInv, HandlerInv, ApiTypeOK
        <3>3. slot[handler[g].user] \in Nat
            BY <1>b, <3>2
        <3>4. CASE handler[g].user = u
            BY <2>6, <3>1, <3>2, <3>3, <3>4
        <3>5. CASE handler[g].user # u
            BY <2>6, <3>1, <3>2, <3>5
        <3> QED BY <3>4, <3>5
    <2>11. PullNotOlder'
        BY <2>3, <2>4, <2>5 DEF FreshInv, PullNotOlder, OthersStay
    <2> QED BY <2>7, <2>8, <2>9, <2>10, <2>11 DEF FreshInv
<1>8. ASSUME NEW h \in Handlers
      PROVE  ~DeleteFind(h) /\ ~DeleteBlob(h) /\ ~DeleteRow(h)
    <2>1. ~DeleteFind(h)
        BY DEF DeleteFind, TypeInv, HandlerInv, NoDeletes
    <2> QED BY <2>1 DEF DeleteBlob, DeleteRow, FileInv
<1>9. ASSUME NEW h \in Handlers, Fail(h)
      PROVE  FreshInv'
    BY <1>9, <1>a DEF Fail
<1>10. CASE UNCHANGED apiVars
    BY <1>10 DEF apiVars, FreshInv, FileIsFresh, Backed, PutIsAdmitted, WrittenIsThere, FoundIsPast,
                 PullNotOlder, Putting, Base
<1> QED BY <1>1, <1>2, <1>3, <1>4, <1>5, <1>6, <1>7, <1>8, <1>9, <1>10 DEF ApiNext, HandlerStep

LEMMA FreshInit == ApiInit => FreshInv
<1> SUFFICES ASSUME ApiInit PROVE FreshInv
    OBVIOUS
<1>1. \A h \in Handlers : handler[h].pc = "idle"
    BY DEF ApiInit, IdleHandler
<1>2. \A u \in Users : blob[u] \notin Contents
    BY SavesApiAssumption DEF ApiInit
<1> QED BY <1>1, <1>2
        DEF FreshInv, FileIsFresh, PutIsAdmitted, WrittenIsThere, FoundIsPast, PullNotOlder, Putting

\* Without overlap and while nobody deletes, a download never names a
\* revision with a package older than it, though it reads the row and the
\* file in two steps with any number of puts in between.
THEOREM PullsAreNotOlder ==
    ASSUME NoDeletes, MaxWriters = 1
    PROVE  ApiSpec => []PullNotOlder
<1>1. FreshInv => PullNotOlder
    BY DEF FreshInv
<1> QED BY <1>1, TypeInit, TypeStep, LockInit, LockStep, FileInit, FileStep, FreshInit, FreshStep,
           PTL DEF ApiSpec
===============================================================================
