-------------------------- MODULE SourceLinksProofs ---------------------------
(***************************************************************************)
(* Theorems about SourceLinks: types, rows that only their owner changes,  *)
(* links that keep their own id, and a green button that tells the truth.  *)
(***************************************************************************)
EXTENDS SourceLinks, FiniteSetTheorems, TLAPS

-------------------------------------------------------------------------------
(* Types *)

HandlerRecord ==
    [pc : {"idle", "start", "collide", "write", "remove", "replied"},
     op : {"none", "put", "delete"}, user : Users \cup {None}, id : Urls \cup {None},
     url : Urls \cup {None}, existing : BOOLEAN, status : Statuses]
JobRecord == [kind : {"sync", "delete"}, snap : Seq(Source), results : Seq(Result),
              rid : Urls \cup {None}, mine : BOOLEAN]
RowRecord == [owner : Users \cup {None}, url : Urls \cup {None}]

Working == {"start", "collide", "write", "remove"}

\* A handler at work knows what for; a put has a url.
HandlerTyped(r) ==
    /\ r \in HandlerRecord
    /\ r.pc \in Working => r.id \in Urls /\ r.user \in Users /\ r.op # "none"
    /\ r.pc \notin Working => r.user = None
    /\ r.pc \in {"collide", "write"} => r.op = "put"
    /\ r.pc = "remove" => r.op = "delete"
    /\ r.pc = "collide" => ~r.existing
    /\ r.op = "put" => r.url \in Urls

JobTyped(j) == j \in JobRecord /\ (j.kind = "delete" => j.rid \in Urls)

RowsType == rows \in [Urls -> RowRecord] /\ \A i \in Urls : rows[i].owner = None <=> rows[i].url = None
HandlersType ==
    /\ DOMAIN handler = Handlers /\ handler = [h \in Handlers |-> handler[h]]
    /\ \A h \in Handlers : HandlerTyped(handler[h])
QueueType == queue \in Seq(JobRecord) /\ \A n \in DOMAIN queue : JobTyped(queue[n])
DeviceType ==
    /\ list \in Seq(Source) /\ file \in Seq(Source)
    /\ here \in BOOLEAN /\ syncBusy \in BOOLEAN /\ syncOk \in BOOLEAN
    /\ call \in Handlers \cup {None}

TypeInv == RowsType /\ HandlersType /\ QueueType /\ DeviceType

LEMMA TypeInvImplies == TypeInv => TypeOK
<1> SUFFICES ASSUME TypeInv PROVE TypeOK
    OBVIOUS
<1>1. handler \in [Handlers -> HandlerRecord]
    BY DEF TypeInv, HandlersType, HandlerTyped
<1>2. \A h \in Handlers : handler[h].pc \notin {"idle", "replied"} =>
          handler[h].id \in Urls /\ handler[h].user \in Users
    BY DEF TypeInv, HandlersType, HandlerTyped, HandlerRecord, Working
<1> QED
    BY <1>1, <1>2
    DEF TypeOK, TypeInv, RowsType, QueueType, DeviceType, HandlerRecord, JobRecord, RowRecord

\* One handler changes, the others keep their states.
Changes(h, r) == handler' = [handler EXCEPT ![h] = r]

LEMMA ChangeEffect ==
    ASSUME HandlersType, NEW h \in Handlers, NEW r, HandlerTyped(r), Changes(h, r)
    PROVE  /\ HandlersType'
           /\ handler'[h] = r
           /\ \A g \in Handlers \ {h} : handler'[g] = handler[g]
BY DEF HandlersType, Changes

LEMMA IdleTyped == HandlerTyped(IdleHandler)
BY DEF HandlerTyped, HandlerRecord, IdleHandler, Working, Statuses

\* A handler that answers is a worker's no more.
Replied(i, status) == [IdleHandler EXCEPT !.pc = "replied", !.status = status, !.id = i]

LEMMA RepliedTyped ==
    ASSUME NEW i \in Urls \cup {None}, NEW status \in Statuses
    PROVE  LET r == Replied(i, status) IN
           /\ HandlerTyped(r)
           /\ r.pc = "replied" /\ r.status = status /\ r.id = i /\ r.user = None /\ r.op = "none"
<1>1. ASSUME NEW r \in HandlerRecord,
             NEW s, s = [r EXCEPT !.pc = "replied", !.status = status, !.id = i]
      PROVE  /\ s \in HandlerRecord /\ s.pc = "replied" /\ s.status = status /\ s.id = i
             /\ s.user = r.user /\ s.op = r.op
    BY <1>1 DEF HandlerRecord
<1>2. IdleHandler \in HandlerRecord /\ IdleHandler.user = None /\ IdleHandler.op = "none"
    BY DEF IdleHandler, HandlerRecord, Statuses
<1> QED BY <1>1, <1>2 DEF Replied, HandlerTyped, Working

\* What an answer leaves.
LEMMA ReplyEffect ==
    ASSUME HandlersType, NEW h \in Handlers, NEW status \in Statuses, Reply(h, status),
           handler[h].pc \in Working
    PROVE  /\ HandlersType'
           /\ \A g \in Handlers \ {h} : handler'[g] = handler[g]
           /\ handler'[h].user = None /\ handler'[h].op = "none"
           /\ call = h => handler'[h].pc = "replied" /\ handler'[h].id = handler[h].id
                          /\ handler'[h].status = status
           /\ call # h => handler'[h] = IdleHandler
<1> DEFINE r == IF call = h THEN Replied(handler[h].id, status) ELSE IdleHandler
<1>1. Changes(h, r)
    BY DEF Reply, Changes, Replied
<1>2. handler[h].id \in Urls
    BY DEF HandlersType, HandlerTyped
<1>3. HandlerTyped(r) /\ r.user = None /\ r.op = "none"
    BY <1>2, RepliedTyped, IdleTyped DEF IdleHandler
<1>4. /\ call = h => r.pc = "replied" /\ r.id = handler[h].id /\ r.status = status
      /\ call # h => r = IdleHandler
    BY <1>2, RepliedTyped
<1> HIDE DEF r
<1> QED BY <1>1, <1>3, <1>4, ChangeEffect

\* What going on to another query leaves.
At(r, pc, existing) == [r EXCEPT !.pc = pc, !.existing = existing]

LEMMA AtTyped ==
    ASSUME NEW r, HandlerTyped(r), r.pc \in Working, NEW existing \in BOOLEAN,
           NEW pc \in {"collide", "write", "remove"},
           pc = "remove" <=> r.op = "delete", pc = "collide" => ~existing
    PROVE  LET s == At(r, pc, existing) IN
           /\ HandlerTyped(s)
           /\ s.pc = pc /\ s.existing = existing /\ s.user = r.user /\ s.id = r.id
           /\ s.url = r.url /\ s.op = r.op
<1> DEFINE s == At(r, pc, existing)
<1>1. /\ s \in HandlerRecord
      /\ s.pc = pc /\ s.existing = existing /\ s.user = r.user /\ s.id = r.id
      /\ s.url = r.url /\ s.op = r.op
    BY DEF HandlerTyped, HandlerRecord, At
<1>2. r.op \in {"put", "delete"}
    BY DEF HandlerTyped, HandlerRecord
<1> HIDE DEF s
<1> QED BY <1>1, <1>2 DEF HandlerTyped, Working, s

-------------------------------------------------------------------------------
(* What the steps of the server do *)

Answered(h, status) ==
    /\ handler'[h].user = None /\ handler'[h].op = "none"
    /\ call = h => /\ handler'[h].pc = "replied" /\ handler'[h].id = handler[h].id
                   /\ handler'[h].status = status
    /\ call # h => handler'[h] = IdleHandler

\* A handler that changes its own row knows that it is.
Holds(r) == (r.pc = "write" /\ r.existing) \/ r.pc = "remove"

GoneOn(h) ==
    /\ handler'[h].user = handler[h].user /\ handler'[h].id = handler[h].id
    /\ handler'[h].url = handler[h].url /\ handler'[h].op = handler[h].op
    /\ handler'[h].pc \in Working
    /\ Holds(handler'[h]) => rows[handler[h].id].owner = handler[h].user

Written(h) ==
    /\ handler[h].pc = "write"
    /\ handler[h].existing <=> rows[handler[h].id] # NoRow
    /\ rows' = [rows EXCEPT ![handler[h].id] =
           [owner |-> IF handler[h].existing THEN rows[handler[h].id].owner ELSE handler[h].user,
            url |-> handler[h].url]]

Removed(h) ==
    /\ handler[h].pc = "remove"
    /\ rows' = [rows EXCEPT ![handler[h].id] = NoRow]

RowStep(h, status) ==
    /\ Written(h) \/ Removed(h) \/ rows' = rows
    /\ status = "ok" /\ handler[h].op = "put" => Written(h)

RouteStep(h) ==
    /\ handler[h].pc \in Working
    /\ \A g \in Handlers \ {h} : handler'[g] = handler[g]
    /\ \/ GoneOn(h) /\ rows' = rows
       \/ \E status \in Statuses : Answered(h, status) /\ RowStep(h, status)

\* An answer without a change of a row.
LEMMA JustAnswers ==
    ASSUME HandlersType, NEW h \in Handlers, NEW status \in Statuses \ {"ok"},
           Reply(h, status), handler[h].pc \in Working, rows' = rows
    PROVE  RouteStep(h) /\ HandlersType'
BY ReplyEffect DEF RouteStep, Answered, RowStep

\* Another query without a change of a row.
LEMMA JustGoesOn ==
    ASSUME HandlersType, NEW h \in Handlers, handler[h].pc \in Working, rows' = rows,
           NEW existing \in BOOLEAN, NEW pc \in {"collide", "write", "remove"},
           pc = "remove" <=> handler[h].op = "delete", pc = "collide" => ~existing,
           Changes(h, At(handler[h], pc, existing)),
           (pc = "write" /\ existing) \/ pc = "remove"
               => rows[handler[h].id].owner = handler[h].user
    PROVE  RouteStep(h) /\ HandlersType'
<1>1. HandlerTyped(handler[h])
    BY DEF HandlersType
<1> DEFINE s == At(handler[h], pc, existing)
<1>2. /\ HandlerTyped(s)
      /\ s.pc = pc /\ s.existing = existing /\ s.user = handler[h].user
      /\ s.id = handler[h].id /\ s.url = handler[h].url /\ s.op = handler[h].op
    BY <1>1, AtTyped
<1> HIDE DEF s
<1>3. HandlersType' /\ handler'[h] = s /\ \A g \in Handlers \ {h} : handler'[g] = handler[g]
    BY <1>2, ChangeEffect DEF s
<1> QED BY <1>2, <1>3 DEF RouteStep, GoneOn, Holds, Working

LEMMA RouteEffect ==
    ASSUME TypeInv, NEW h \in Handlers, Route(h)
    PROVE  RouteStep(h) /\ HandlersType' /\ UNCHANGED device
<1>0. /\ HandlersType /\ HandlerTyped(handler[h]) /\ handler[h] \in HandlerRecord
      /\ handler[h].existing \in BOOLEAN
    BY DEF TypeInv, HandlersType, HandlerTyped, HandlerRecord
<1>1. CASE PutFind(h)
    <2>1. rows' = rows /\ handler[h].pc = "start" /\ handler[h].op = "put"
          /\ UNCHANGED device
        BY <1>1 DEF PutFind
    <2>2. CASE Reply(h, "secret_required")
        BY <1>0, <2>1, <2>2, JustAnswers DEF Working, Statuses
    <2>3. CASE ~Reply(h, "secret_required")
        <3> DEFINE pc == IF FindOwn(h) THEN "write" ELSE "collide"
        <3>1. handler' = [handler EXCEPT ![h].pc = pc, ![h].existing = FindOwn(h)]
            BY <1>1, <2>3 DEF PutFind
        <3>2. FindOwn(h) \in BOOLEAN
            BY DEF FindOwn
        <3>3. Changes(h, At(handler[h], pc, FindOwn(h)))
            BY <3>1 DEF Changes, At
        <3>4. FindOwn(h) => rows[handler[h].id].owner = handler[h].user
            BY DEF FindOwn
        <3>5. /\ pc \in {"collide", "write", "remove"} /\ pc # "remove"
              /\ pc = "collide" => ~FindOwn(h)
            OBVIOUS
        <3> HIDE DEF pc
        <3> QED BY <1>0, <2>1, <3>2, <3>3, <3>4, <3>5, JustGoesOn DEF Working
    <2> QED BY <2>1, <2>2, <2>3
<1>2. CASE PutCollide(h)
    <2>1. rows' = rows /\ handler[h].pc = "collide" /\ handler[h].op = "put"
          /\ ~handler[h].existing /\ UNCHANGED device
        BY <1>0, <1>2 DEF PutCollide, HandlerTyped
    <2>2. CASE Reply(h, "not_found")
        BY <1>0, <2>1, <2>2, JustAnswers DEF Working, Statuses
    <2>3. CASE Goto(h, "write")
        <3>1. [handler[h] EXCEPT !.pc = "write"] = At(handler[h], "write", handler[h].existing)
            BY <1>0 DEF At, HandlerRecord
        <3>2. Changes(h, At(handler[h], "write", handler[h].existing))
            BY <2>3, <3>1 DEF Goto, Changes
        <3> QED BY <1>0, <2>1, <3>2, JustGoesOn DEF Working
    <2> QED BY <1>2, <2>1, <2>2, <2>3 DEF PutCollide
<1>3. CASE PutWrite(h)
    <2>1. handler[h].pc = "write" /\ UNCHANGED device
        BY <1>3 DEF PutWrite
    <2>2. CASE (rows[handler[h].id] # NoRow) = handler[h].existing
        <3>0. Reply(h, "ok")
            BY <1>3, <2>2 DEF PutWrite
        <3>1. Written(h)
            BY <1>0, <1>3, <2>2 DEF PutWrite, Written
        <3>2. HandlersType' /\ Answered(h, "ok") /\ "ok" \in Statuses
              /\ \A g \in Handlers \ {h} : handler'[g] = handler[g]
            BY <1>0, <2>1, <3>0, ReplyEffect DEF Working, Statuses, Answered
        <3> QED BY <2>1, <3>1, <3>2 DEF RouteStep, RowStep, Working
    <2>3. CASE (rows[handler[h].id] # NoRow) # handler[h].existing
        <3>1. Reply(h, "error") /\ rows' = rows
            BY <1>3, <2>3 DEF PutWrite
        <3> QED BY <1>0, <2>1, <3>1, JustAnswers DEF Working, Statuses
    <2> QED BY <1>3, <2>1, <2>2, <2>3 DEF PutWrite
<1>4. CASE DeleteFind(h)
    <2>1. rows' = rows /\ handler[h].pc = "start" /\ handler[h].op = "delete"
          /\ UNCHANGED device
        BY <1>4 DEF DeleteFind
    <2>2. CASE Reply(h, "not_found")
        BY <1>0, <2>1, <2>2, JustAnswers DEF Working, Statuses
    <2>3. CASE FindOwn(h) /\ Goto(h, "remove")
        <3>1. [handler[h] EXCEPT !.pc = "remove"] = At(handler[h], "remove", handler[h].existing)
            BY <1>0 DEF At, HandlerRecord
        <3>2. Changes(h, At(handler[h], "remove", handler[h].existing))
            BY <2>3, <3>1 DEF Goto, Changes
        <3>3. rows[handler[h].id].owner = handler[h].user
            BY <2>3 DEF FindOwn
        <3> QED BY <1>0, <2>1, <3>2, <3>3, JustGoesOn DEF Working
    <2> QED BY <1>4, <2>1, <2>2, <2>3 DEF DeleteFind
<1>5. CASE DeleteRow(h)
    <2>1. handler[h].pc = "remove" /\ handler[h].op = "delete" /\ UNCHANGED device /\ Removed(h)
        BY <1>0, <1>5 DEF DeleteRow, HandlerTyped, Removed
    <2>2. PICK status \in {"ok", "error"} : Reply(h, status)
        BY <1>5 DEF DeleteRow
    <2>3. HandlersType' /\ Answered(h, status) /\ status \in Statuses
          /\ \A g \in Handlers \ {h} : handler'[g] = handler[g]
        BY <1>0, <2>1, <2>2, ReplyEffect DEF Working, Statuses, Answered
    <2> QED BY <2>1, <2>3 DEF RouteStep, RowStep, Working
<1>6. CASE Fail(h)
    BY <1>0, <1>6, JustAnswers DEF Fail, Working, Statuses
<1> QED BY <1>1, <1>2, <1>3, <1>4, <1>5, <1>6 DEF Route

LEMMA RouteRows ==
    ASSUME TypeInv, NEW h \in Handlers, RouteStep(h)
    PROVE  RowsType'
<1>1. HandlerTyped(handler[h]) /\ handler[h].id \in Urls /\ handler[h].user \in Users
    BY DEF TypeInv, HandlersType, HandlerTyped, RouteStep
<1>2. CASE Written(h)
    <2>1. handler[h].url \in Urls
        BY <1>1, <1>2 DEF Written, HandlerTyped
    <2> DEFINE row == rows[handler[h].id]
               u == IF handler[h].existing THEN row.owner ELSE handler[h].user
    <2>2. u \in Users
        <3>1. row \in RowRecord /\ (row.owner = None <=> row.url = None)
            BY <1>1 DEF TypeInv, RowsType
        <3>2. row # NoRow => row.owner # None
            BY <3>1 DEF RowRecord, NoRow
        <3>3. row.owner \in Users \cup {None}
            BY <3>1 DEF RowRecord
        <3> QED BY <1>1, <1>2, <3>2, <3>3 DEF Written
    <2>3. rows' = [rows EXCEPT ![handler[h].id] = [owner |-> u, url |-> handler[h].url]]
        BY <1>2 DEF Written
    <2> HIDE DEF u
    <2>4. [owner |-> u, url |-> handler[h].url] \in RowRecord
        BY <2>1, <2>2 DEF RowRecord
    <2> QED BY <1>1, <2>1, <2>2, <2>3, <2>4, SourceLinksAssumption DEF TypeInv, RowsType
<1>3. CASE Removed(h)
    <2>1. NoRow \in RowRecord /\ NoRow.owner = None /\ NoRow.url = None
        BY DEF NoRow, RowRecord
    <2> QED BY <1>1, <1>3, <2>1 DEF Removed, TypeInv, RowsType
<1>4. CASE rows' = rows
    BY <1>4 DEF TypeInv, RowsType
<1> QED BY <1>2, <1>3, <1>4 DEF RouteStep, RowStep

-------------------------------------------------------------------------------
(* Sequences *)

LEMMA HeadFacts ==
    ASSUME NEW S, NEW s \in Seq(S), s # <<>>
    PROVE  /\ Head(s) = s[1] /\ 1 \in DOMAIN s /\ Len(s) \in Nat \ {0}
           /\ Tail(s) \in Seq(S) /\ Len(Tail(s)) = Len(s) - 1
           /\ \A n \in DOMAIN Tail(s) : n \in Nat /\ n + 1 \in DOMAIN s /\ Tail(s)[n] = s[n + 1]
           /\ Len(s) = 1 => Tail(s) = <<>>
OBVIOUS

LEMMA AppendFacts ==
    ASSUME NEW S, NEW s \in Seq(S), NEW x \in S
    PROVE  /\ Append(s, x) \in Seq(S) /\ Len(Append(s, x)) = Len(s) + 1
           /\ Append(s, x) # <<>>
           /\ DOMAIN Append(s, x) = DOMAIN s \cup {Len(s) + 1}
           /\ Len(s) \in Nat /\ DOMAIN s = 1 .. Len(s)
           /\ Append(s, x)[Len(s) + 1] = x
           /\ \A n \in DOMAIN s : Append(s, x)[n] = s[n]
           /\ s # <<>> => Head(Append(s, x)) = Head(s)
<1>1. Append(s, x) \in Seq(S) /\ Len(Append(s, x)) = Len(s) + 1 /\ Len(s) \in Nat
    OBVIOUS
<1>2. DOMAIN s = 1 .. Len(s) /\ DOMAIN Append(s, x) = 1 .. Len(s) + 1
    BY <1>1
<1>3. Append(s, x)[Len(s) + 1] = x /\ \A n \in 1 .. Len(s) : Append(s, x)[n] = s[n]
    BY <1>1
<1>4. 1 .. Len(s) + 1 = (1 .. Len(s)) \cup {Len(s) + 1}
    BY <1>1
<1>5. Append(s, x) # <<>>
    BY <1>1
<1>6. s # <<>> => Head(Append(s, x)) = Head(s)
    <2>1. Head(Append(s, x)) = Append(s, x)[1]
        BY <1>1, <1>5
    <2>2. s # <<>> => Head(s) = s[1] /\ 1 \in 1 .. Len(s)
        BY <1>1
    <2> QED BY <1>3, <2>1, <2>2
<1> QED BY <1>1, <1>2, <1>3, <1>4, <1>5, <1>6

PutHead(s, x) == [s EXCEPT ![1] = x]

LEMMA PutHeadFacts ==
    ASSUME NEW S, NEW s \in Seq(S), s # <<>>, NEW x \in S
    PROVE  LET t == PutHead(s, x) IN
           /\ t \in Seq(S) /\ Len(t) = Len(s) /\ t # <<>>
           /\ DOMAIN t = DOMAIN s /\ Head(t) = x /\ t[1] = x
           /\ \A n \in DOMAIN s \ {1} : t[n] = s[n]
<1>1. Len(s) \in Nat \ {0} /\ s \in [1 .. Len(s) -> S] /\ DOMAIN s = 1 .. Len(s)
    OBVIOUS
<1>2. PutHead(s, x) \in [1 .. Len(s) -> S]
    BY <1>1 DEF PutHead
<1>3. PutHead(s, x) \in Seq(S) /\ Len(PutHead(s, x)) = Len(s)
    BY <1>1, <1>2
<1>4. PutHead(s, x)[1] = x /\ \A n \in DOMAIN s \ {1} : PutHead(s, x)[n] = s[n]
    BY <1>1 DEF PutHead
<1>5. PutHead(s, x) # <<>>
    BY <1>1, <1>3
<1>6. Head(PutHead(s, x)) = PutHead(s, x)[1]
    BY <1>3, <1>5
<1> QED BY <1>1, <1>2, <1>3, <1>4, <1>5, <1>6

-------------------------------------------------------------------------------
(* What the steps of the device do to the list and the queue *)

WithResult(j, r) == [j EXCEPT !.results = Append(@, r)]
WithResults(j, s) == [j EXCEPT !.results = s]
Disowned(j) == [j EXCEPT !.mine = FALSE]
WithRid(source, rid) == [source EXCEPT !.rid = rid]

LEMMA WithResultTyped ==
    ASSUME NEW j, JobTyped(j), NEW r \in Result
    PROVE  LET k == WithResult(j, r) IN
           /\ JobTyped(k) /\ k.results = Append(j.results, r)
           /\ k.kind = j.kind /\ k.snap = j.snap /\ k.rid = j.rid /\ k.mine = j.mine
<1>1. ASSUME NEW s \in Seq(Result)
      PROVE  LET k == WithResults(j, s) IN
             /\ JobTyped(k) /\ k.results = s
             /\ k.kind = j.kind /\ k.snap = j.snap /\ k.rid = j.rid /\ k.mine = j.mine
    BY DEF JobTyped, JobRecord, WithResults
<1> DEFINE more == Append(j.results, r)
<1>2. more \in Seq(Result)
    BY DEF JobTyped, JobRecord
<1>3. WithResult(j, r) = WithResults(j, more)
    BY DEF WithResult, WithResults
<1> HIDE DEF more
<1>4. LET k == WithResults(j, more) IN
      /\ JobTyped(k) /\ k.results = more
      /\ k.kind = j.kind /\ k.snap = j.snap /\ k.rid = j.rid /\ k.mine = j.mine
    BY <1>1, <1>2
<1> QED BY <1>3, <1>4 DEF more

LEMMA DisownedTyped ==
    ASSUME NEW j, JobTyped(j)
    PROVE  LET k == Disowned(j) IN
           /\ JobTyped(k) /\ ~k.mine
           /\ k.kind = j.kind /\ k.snap = j.snap /\ k.rid = j.rid /\ k.results = j.results
BY DEF JobTyped, JobRecord, Disowned

LEMMA WithRidTyped ==
    ASSUME NEW source \in Source, NEW rid \in Urls \cup {None}
    PROVE  LET s == WithRid(source, rid) IN s \in Source /\ s.rid = rid /\ s.url = source.url
BY DEF Source, WithRid

LEMMA NoList == <<>> \in Seq(Source)
OBVIOUS

LEMMA WithoutTyped ==
    ASSUME NEW S, NEW s \in Seq(S), NEW i \in DOMAIN s
    PROVE  /\ Without(s, i) \in Seq(S)
           /\ \A n \in DOMAIN Without(s, i) :
                  \E m \in DOMAIN s : Without(s, i)[n] = s[m]
<1>1. Len(s) \in Nat \ {0} /\ i \in 1 .. Len(s) /\ DOMAIN s = 1 .. Len(s)
      /\ \A n \in 1 .. Len(s) : s[n] \in S
    OBVIOUS
<1>2. \A n \in 1 .. Len(s) - 1 :
          LET m == IF n < i THEN n ELSE n + 1 IN m \in 1 .. Len(s)
    BY <1>1
<1>3. \A n \in 1 .. Len(s) - 1 :
          (IF n < i THEN s[n] ELSE s[n + 1]) = s[IF n < i THEN n ELSE n + 1]
    OBVIOUS
<1>4. Without(s, i) = [n \in 1 .. Len(s) - 1 |-> s[IF n < i THEN n ELSE n + 1]]
    BY <1>3 DEF Without
<1>5. Len(s) - 1 \in Nat
    BY <1>1
<1>6. Without(s, i) \in Seq(S)
    BY <1>1, <1>2, <1>4, <1>5
<1> QED BY <1>1, <1>2, <1>4, <1>6

\* The ids a sync came back with go to the rows with their indices.
LEMMA AssignTyped ==
    ASSUME DeviceType, NEW results \in Seq(Result)
    PROVE  /\ Assign(results) \in Seq(Source) /\ DOMAIN Assign(results) = DOMAIN list
           /\ \A n \in DOMAIN list :
                  LET s == Assign(results)[n] IN
                  /\ s.url = list[n].url
                  /\ n \in DOMAIN results /\ results[n].status = "ok" => s.rid = results[n].id
                  /\ ~(n \in DOMAIN results /\ results[n].status = "ok") => s = list[n]
<1>1. list \in Seq(Source) /\ Len(list) \in Nat /\ DOMAIN list = 1 .. Len(list)
    BY DEF DeviceType
<1> DEFINE entry(n) == IF n \in DOMAIN results /\ results[n].status = "ok"
                       THEN WithRid(list[n], results[n].id) ELSE list[n]
<1>2. Assign(results) = [n \in DOMAIN list |-> entry(n)]
    BY DEF Assign, WithRid
<1>3. ASSUME NEW n \in DOMAIN list
      PROVE  /\ entry(n) \in Source
             /\ entry(n).url = list[n].url
             /\ n \in DOMAIN results /\ results[n].status = "ok" => entry(n).rid = results[n].id
             /\ ~(n \in DOMAIN results /\ results[n].status = "ok") => entry(n) = list[n]
    <2>1. list[n] \in Source
        BY <1>1
    <2>2. CASE n \in DOMAIN results /\ results[n].status = "ok"
        <3>1. results[n] \in Result
            BY <2>2
        <3>2. results[n].id \in Urls \cup {None}
            BY <3>1 DEF Result
        <3>3. entry(n) = WithRid(list[n], results[n].id)
            BY <2>2
        <3> QED BY <2>1, <2>2, <3>2, <3>3, WithRidTyped
    <2>3. CASE ~(n \in DOMAIN results /\ results[n].status = "ok")
        BY <2>1, <2>3
    <2> QED BY <2>2, <2>3
<1> HIDE DEF entry
<1>4. Assign(results) \in Seq(Source)
    BY <1>1, <1>2, <1>3
<1> QED BY <1>2, <1>3, <1>4

-------------------------------------------------------------------------------
(* The invariant of types *)

LEMMA ReceiveEffect ==
    ASSUME HandlersType, NEW h \in Handlers, NEW request, HandlerTyped(request),
           Receive(h, request)
    PROVE  /\ HandlersType'
           /\ handler[h].pc = "idle" /\ handler'[h] = request
           /\ \A g \in Handlers \ {h} : handler'[g] = handler[g]
<1>1. Changes(h, request) /\ handler[h].pc = "idle"
    BY DEF Receive, Changes
<1> QED BY <1>1, ChangeEffect

LEMMA RequestTyped ==
    ASSUME NEW op \in {"put", "delete"}, NEW u \in Users, NEW i \in Urls,
           NEW url \in Urls \cup {None}, op = "put" => url \in Urls
    PROVE  LET r == Request(op, u, i, url) IN
           /\ HandlerTyped(r) /\ r.pc = "start" /\ r.op = op /\ r.user = u /\ r.id = i
           /\ r.url = url
<1>1. ASSUME NEW r \in HandlerRecord,
             NEW s, s = [r EXCEPT !.pc = "start", !.op = op, !.user = u, !.id = i, !.url = url]
      PROVE  /\ s \in HandlerRecord /\ s.pc = "start" /\ s.op = op /\ s.user = u /\ s.id = i
             /\ s.url = url
    BY <1>1 DEF HandlerRecord
<1>2. IdleHandler \in HandlerRecord
    BY IdleTyped DEF HandlerTyped
<1> QED BY <1>1, <1>2 DEF Request, HandlerTyped, Working

LEMMA QueueElems ==
    ASSUME QueueType, queue # <<>>
    PROVE  /\ job = queue[1] /\ 1 \in DOMAIN queue /\ job \in JobRecord /\ JobTyped(job)
           /\ Len(queue) \in Nat \ {0}
           /\ Tail(queue) \in Seq(JobRecord)
           /\ \A n \in DOMAIN Tail(queue) : JobTyped(Tail(queue)[n])
BY HeadFacts DEF QueueType, job, JobTyped

LEMMA AppendTyped ==
    ASSUME QueueType, NEW j, JobTyped(j), queue' = Append(queue, j)
    PROVE  QueueType'
BY AppendFacts DEF QueueType, JobTyped

LEMMA LearnEffect ==
    ASSUME QueueType, queue # <<>>, NEW result \in Result, Learn(result)
    PROVE  /\ QueueType'
           /\ call' = None /\ UNCHANGED <<rows, list, file, here, syncBusy, syncOk>>
           /\ Deleting => queue' = Tail(queue)
           /\ ~Deleting => queue' = PutHead(queue, WithResult(job, result))
<1>1. JobTyped(job) /\ job = queue[1] /\ 1 \in DOMAIN queue
    BY QueueElems
<1>2. /\ call' = None /\ UNCHANGED <<rows, list, file, here, syncBusy, syncOk>>
      /\ Deleting => queue' = Tail(queue)
      /\ ~Deleting => queue' = [queue EXCEPT ![1].results = Append(@, result)]
    BY DEF Learn
<1>3. [queue EXCEPT ![1].results = Append(@, result)] = PutHead(queue, WithResult(queue[1], result))
    BY DEF PutHead, WithResult
<1>4. ~Deleting => queue' = PutHead(queue, WithResult(job, result))
    BY <1>1, <1>2, <1>3
<1>5. ASSUME Deleting PROVE QueueType'
    BY <1>2, <1>5, QueueElems DEF QueueType
<1>6. ASSUME ~Deleting PROVE QueueType'
    <2> DEFINE j == WithResult(job, result)
    <2>1. JobTyped(j)
        BY <1>1, WithResultTyped
    <2> HIDE DEF j
    <2>2. j \in JobRecord /\ queue \in Seq(JobRecord)
        BY <2>1 DEF JobTyped, QueueType
    <2>3. /\ PutHead(queue, j) \in Seq(JobRecord) /\ DOMAIN PutHead(queue, j) = DOMAIN queue
          /\ PutHead(queue, j)[1] = j
          /\ \A n \in DOMAIN queue \ {1} : PutHead(queue, j)[n] = queue[n]
        BY <2>2, PutHeadFacts
    <2>4. \A n \in DOMAIN queue : JobTyped(queue[n])
        BY DEF QueueType
    <2>5. queue' = PutHead(queue, j)
        BY <1>4, <1>6 DEF j
    <2>6. queue' \in Seq(JobRecord) /\ DOMAIN queue' = DOMAIN queue /\ queue'[1] = j
          /\ \A n \in DOMAIN queue \ {1} : queue'[n] = queue[n]
        BY <2>3, <2>5
    <2>7. \A n \in DOMAIN queue' : JobTyped(queue'[n])
        BY <2>1, <2>4, <2>6
    <2>8. QueueType'
        BY <2>6, <2>7 DEF QueueType
    <2> QED BY <2>8
<1>7. QueueType'
    BY <1>5, <1>6
<1> QED BY <1>2, <1>4, <1>7

\* What the worker may be told.
LEMMA ResultTyped ==
    /\ [status |-> "error", id |-> None] \in Result
    /\ [status |-> "expired", id |-> None] \in Result
    /\ \A h \in Handlers : HandlersType =>
           [status |-> handler[h].status, id |-> handler[h].id] \in Result
<1>1. \A h \in Handlers : HandlersType => handler[h] \in HandlerRecord
    BY DEF HandlersType, HandlerTyped
<1> QED BY <1>1 DEF Result, Statuses, HandlerRecord

LEMMA LinkIdTyped ==
    ASSUME TypeInv, Syncing, Len(job.results) < Len(job.snap)
    PROVE  /\ Turn \in Source /\ Turn.url \in Urls /\ LinkId(Turn) \in Urls
           /\ Len(job.results) + 1 \in DOMAIN job.snap
<1>1. job \in JobRecord
    BY QueueElems DEF TypeInv, Syncing
<1>2. job.snap \in Seq(Source) /\ job.results \in Seq(Result)
    BY <1>1 DEF JobRecord
<1>3. Len(job.results) + 1 \in DOMAIN job.snap
    BY <1>2
<1>4. Turn \in Source
    BY <1>2, <1>3 DEF Turn
<1> QED BY <1>3, <1>4 DEF Source, LinkId, stable_remote_id

LEMMA LostEffect ==
    ASSUME HandlersType, Lost
    PROVE  /\ HandlersType'
           /\ \A h \in Handlers :
                  handler'[h] = IF h = call /\ handler[h].pc = "replied" THEN IdleHandler
                                                                        ELSE handler[h]
<1>1. \A h \in Handlers :
          handler'[h] = IF h = call /\ handler[h].pc = "replied" THEN IdleHandler
                                                                ELSE handler[h]
    BY DEF Lost
<1>2. DOMAIN handler' = Handlers /\ handler' = [h \in Handlers |-> handler'[h]]
    BY DEF Lost
<1>3. \A h \in Handlers : HandlerTyped(handler'[h])
    BY <1>1, IdleTyped DEF HandlersType
<1> QED BY <1>1, <1>2, <1>3 DEF HandlersType

LEMMA TypeInit == Init => TypeInv
<1> SUFFICES ASSUME Init PROVE TypeInv
    OBVIOUS
<1>1. RowsType
    BY DEF Init, RowsType, RowRecord, NoRow
<1>2. HandlersType
    BY IdleTyped DEF Init, HandlersType
<1>3. queue \in Seq(JobRecord) /\ DOMAIN queue = {}
    BY DEF Init
<1>4. list \in Seq(Source) /\ file \in Seq(Source)
    BY DEF Init
<1>5. QueueType /\ DeviceType
    BY <1>3, <1>4 DEF Init, QueueType, DeviceType
<1> QED BY <1>1, <1>2, <1>5 DEF TypeInv

\* The jobs a device queues.
LEMMA JobsTyped ==
    /\ \A snap \in Seq(Source) :
           LET j == Job("sync", snap, None) IN
           JobTyped(j) /\ j.kind = "sync" /\ j.snap = snap /\ j.results = <<>> /\ j.mine
    /\ \A i \in Urls :
           LET j == Job("delete", <<>>, i) IN
           JobTyped(j) /\ j.kind = "delete" /\ j.rid = i
BY DEF Job, JobTyped, JobRecord

LEMMA TypeStep == TypeInv /\ [Next]_vars => TypeInv'
<1> SUFFICES ASSUME TypeInv, [Next]_vars PROVE TypeInv'
    OBVIOUS
<1> USE DEF TypeInv
<1>1. ASSUME NEW h \in Handlers, OtherClient(h) PROVE TypeInv'
    <2>1. PICK u \in Others, i \in Urls, op \in {"put", "delete"} : Receive(h, Request(op, u, i, i))
        BY <1>1 DEF OtherClient
    <2>2. HandlersType'
        BY <2>1, ReceiveEffect, RequestTyped, SourceLinksAssumption
    <2>3. UNCHANGED <<rows, device>>
        BY <1>1 DEF OtherClient
    <2> QED BY <2>2, <2>3 DEF device, RowsType, QueueType, DeviceType
<1>2. ASSUME NEW h \in Handlers, Route(h) PROVE TypeInv'
    BY <1>2, RouteEffect, RouteRows DEF device, QueueType, DeviceType
<1>3. ASSUME NEW url \in Urls, Add(url) PROVE TypeInv'
    <2>1. Append(list, Unsynced(url)) \in Seq(Source)
        BY DEF DeviceType, Unsynced, Source
    <2>2. list' \in Seq(Source) /\ file' \in Seq(Source) /\ syncOk' \in BOOLEAN
        BY <1>3, <2>1, NoList DEF Add, DeviceType, NotSaved
    <2> QED BY <1>3, <2>2 DEF Add, RowsType, HandlersType, QueueType, DeviceType
<1>4. ASSUME NEW i \in DOMAIN list, Remove(i) PROVE TypeInv'
    <2>1. list[i] \in Source /\ list[i].rid \in Urls \cup {None}
        <3>1. list \in Seq(Source)
            BY DEF DeviceType
        <3>2. list[i] \in Source
            BY <3>1
        <3> QED BY <3>2 DEF Source
    <2>2. list' \in Seq(Source) /\ file' \in Seq(Source)
        BY <1>4, WithoutTyped, NoList DEF Remove, DeviceType, Saved, NotSaved
    <2>3. QueueType'
        <3>1. CASE list[i].rid = None
            BY <1>4, <3>1 DEF Remove, QueueType
        <3>2. CASE list[i].rid # None
            BY <1>4, <2>1, <3>2, JobsTyped, AppendTyped DEF Remove
        <3> QED BY <3>1, <3>2
    <2> QED BY <1>4, <2>2, <2>3 DEF Remove, RowsType, HandlersType, DeviceType
<1>5. CASE TapSync
    <2>1. QueueType'
        BY <1>5, JobsTyped, AppendTyped DEF TapSync, DeviceType
    <2> QED BY <1>5, <2>1 DEF TapSync, RowsType, HandlersType, DeviceType
<1>6. CASE Leave
    <2>1. queue' = [n \in DOMAIN queue |-> Disowned(queue[n])]
        BY <1>6 DEF Leave, Disowned
    <2>2. \A n \in DOMAIN queue : JobTyped(Disowned(queue[n]))
        BY DisownedTyped DEF QueueType
    <2>3. QueueType'
        <3>1. Len(queue) \in Nat /\ DOMAIN queue = 1 .. Len(queue)
            BY DEF QueueType
        <3>2. \A n \in 1 .. Len(queue) : Disowned(queue[n]) \in JobRecord
            BY <2>2, <3>1 DEF JobTyped
        <3>3. queue' \in Seq(JobRecord) /\ DOMAIN queue' = DOMAIN queue
            BY <2>1, <3>1, <3>2
        <3> QED BY <2>1, <2>2, <3>3 DEF QueueType
    <2> QED BY <1>6, <2>3 DEF Leave, RowsType, HandlersType, DeviceType
<1>7. CASE Open
    BY <1>7 DEF Open, RowsType, HandlersType, QueueType, DeviceType
<1>8. ASSUME NEW h \in Handlers, Push(h) PROVE TypeInv'
    <2>1. Turn.url \in Urls /\ LinkId(Turn) \in Urls
        BY <1>8, LinkIdTyped DEF Push
    <2>2. HandlersType'
        BY <1>8, <2>1, ReceiveEffect, RequestTyped, SourceLinksAssumption DEF Push
    <2> QED BY <1>8, <2>2 DEF Push, RowsType, QueueType, DeviceType
<1>9. ASSUME NEW h \in Handlers, SendDelete(h) PROVE TypeInv'
    <2>1. job.rid \in Urls
        BY <1>9, QueueElems DEF SendDelete, Deleting, JobTyped
    <2>2. HandlersType'
        BY <1>9, <2>1, ReceiveEffect, RequestTyped, SourceLinksAssumption DEF SendDelete
    <2> QED BY <1>9, <2>2 DEF SendDelete, RowsType, QueueType, DeviceType
<1>12. ASSUME HandlersType', queue # <<>>, NEW r \in Result, Learn(r) PROVE TypeInv'
    <2>1. QueueType' /\ call' = None /\ UNCHANGED <<rows, list, file, here, syncBusy, syncOk>>
        BY <1>12, LearnEffect
    <2> QED BY <1>12, <2>1 DEF RowsType, DeviceType
<1>10. ASSUME NEW h \in Handlers, Answer(h) PROVE TypeInv'
    <2>1. Changes(h, IdleHandler)
        BY <1>10 DEF Answer, Changes
    <2>2. HandlersType'
        BY <2>1, ChangeEffect, IdleTyped
    <2>3. CASE queue # <<>>
        BY <1>10, <1>12, <2>2, <2>3, ResultTyped DEF Answer
    <2>4. CASE queue = <<>>
        <3>1. queue' = queue /\ call' = None /\ UNCHANGED <<rows, list, file, here, syncBusy, syncOk>>
            BY <1>10, <2>4 DEF Answer, Learn, Deleting
        <3> QED BY <2>2, <3>1 DEF RowsType, QueueType, DeviceType
    <2> QED BY <2>3, <2>4
<1>11. CASE Lost
    <2>1. HandlersType' /\ queue # <<>>
        BY <1>11, LostEffect DEF Lost, Deleting, Syncing
    <2> QED BY <1>11, <1>12, <2>1, ResultTyped DEF Lost
<1>13. CASE Expired
    <2>1. HandlersType' /\ queue # <<>>
        BY <1>13 DEF Expired, HandlersType, Deleting, Syncing
    <2> QED BY <1>13, <1>12, <2>1, ResultTyped DEF Expired
<1>14. CASE SyncDone
    <2>1. QueueType' /\ job \in JobRecord
        <3>1. QueueType /\ queue # <<>> /\ queue' = Tail(queue)
            BY <1>14 DEF SyncDone, Syncing
        <3> QED BY <3>1, QueueElems DEF QueueType
    <2>2. job.results \in Seq(Result)
        BY <2>1 DEF JobRecord
    <2>3. list' \in Seq(Source) /\ file' \in Seq(Source)
          /\ syncBusy' \in BOOLEAN /\ syncOk' \in BOOLEAN
        <3>1. Assign(job.results) \in Seq(Source)
            BY <2>2, AssignTyped
        <3> QED BY <1>14, <3>1, NoList DEF SyncDone, DeviceType, Saved, NotSaved
    <2> QED BY <1>14, <2>1, <2>3 DEF SyncDone, RowsType, HandlersType, DeviceType
<1>15. CASE UNCHANGED vars
    BY <1>15 DEF vars, RowsType, HandlersType, QueueType, DeviceType
<1> QED
    BY <1>1, <1>2, <1>3, <1>4, <1>5, <1>6, <1>7, <1>8, <1>9, <1>10, <1>11, <1>13, <1>14, <1>15
    DEF Next, User, Worker

\* TypeOK holds in every state: a handler at work has an account and an id.
THEOREM SourcesTyped == Spec => []TypeOK
<1>1. Spec => []TypeInv
    BY TypeInit, TypeStep, PTL DEF Spec
<1> QED BY <1>1, TypeInvImplies, PTL

-------------------------------------------------------------------------------
(* Rows are changed by their owner's handlers *)

Received(h, r) ==
    /\ r.pc = "start" /\ r.user \in Users
    /\ Overlapping(r.user) = {} \/ MaxPerUser # 1
    /\ handler[h].pc = "idle" /\ handler'[h] = r
    /\ \A g \in Handlers \ {h} : handler'[g] = handler[g]

LEMMA ReceivedFacts ==
    ASSUME HandlersType, NEW h \in Handlers, NEW op \in {"put", "delete"}, NEW u \in Users,
           NEW i \in Urls, NEW url \in Urls \cup {None}, op = "put" => url \in Urls,
           Receive(h, Request(op, u, i, url))
    PROVE  /\ Received(h, Request(op, u, i, url))
           /\ Request(op, u, i, url).op = op /\ Request(op, u, i, url).user = u
           /\ Request(op, u, i, url).id = i /\ Request(op, u, i, url).url = url
<1> DEFINE r == Request(op, u, i, url)
<1>1. /\ HandlerTyped(r) /\ r.pc = "start" /\ r.op = op /\ r.user = u /\ r.id = i
      /\ r.url = url
    BY RequestTyped
<1>2. Receive(h, r)
    OBVIOUS
<1> HIDE DEF r
<1>3. /\ handler[h].pc = "idle" /\ handler'[h] = r
      /\ \A g \in Handlers \ {h} : handler'[g] = handler[g]
    BY <1>1, <1>2, ReceiveEffect
<1>4. Overlapping(u) = {} \/ MaxPerUser # 1
    <2>1. IsFiniteSet(Overlapping(u))
        BY SourceLinksAssumption, FS_Subset DEF Overlapping
    <2>2. Cardinality(Overlapping(u)) \in Nat /\ Cardinality(Overlapping(u)) < MaxPerUser
        BY <1>1, <1>2, <2>1, FS_CardinalityType DEF Receive
    <2>3. MaxPerUser = 1 => Cardinality(Overlapping(u)) = 0
        BY <2>2
    <2> QED BY <2>1, <2>3, FS_EmptySet
<1> QED BY <1>1, <1>3, <1>4 DEF Received, r

\* What any step does on the server.
Freed == rows' = rows /\ \A h \in Handlers : handler'[h] \in {handler[h], IdleHandler}

LEMMA ServerStep ==
    ASSUME TypeInv, [Next]_vars
    PROVE  \/ \E h \in Handlers : RouteStep(h)
           \/ rows' = rows /\ \E h \in Handlers : Received(h, handler'[h])
           \/ Freed
<1>0. HandlersType
    BY DEF TypeInv
<1>1. ASSUME NEW h \in Handlers, OtherClient(h)
      PROVE  rows' = rows /\ Received(h, handler'[h])
    <2>1. PICK u \in Others, i \in Urls, op \in {"put", "delete"} : Receive(h, Request(op, u, i, i))
        BY <1>1 DEF OtherClient
    <2>2. Received(h, Request(op, u, i, i))
        BY <1>0, <2>1, ReceivedFacts, SourceLinksAssumption
    <2> QED BY <1>1, <2>2 DEF OtherClient, Received
<1>2. ASSUME NEW h \in Handlers, Route(h) PROVE RouteStep(h)
    BY <1>2, RouteEffect
<1>3. ASSUME NEW h \in Handlers, Push(h)
      PROVE  rows' = rows /\ Received(h, handler'[h])
    <2>1. Turn.url \in Urls /\ LinkId(Turn) \in Urls
        BY <1>3, LinkIdTyped DEF Push
    <2>2. Received(h, Request("put", Me, LinkId(Turn), Turn.url))
        BY <1>0, <1>3, <2>1, ReceivedFacts, SourceLinksAssumption DEF Push
    <2> QED BY <1>3, <2>2 DEF Push, Received
<1>4. ASSUME NEW h \in Handlers, SendDelete(h)
      PROVE  rows' = rows /\ Received(h, handler'[h])
    <2>1. job.rid \in Urls
        BY <1>4, QueueElems DEF SendDelete, Deleting, JobTyped, TypeInv
    <2>2. Received(h, Request("delete", Me, job.rid, None))
        BY <1>0, <1>4, <2>1, ReceivedFacts, SourceLinksAssumption DEF SendDelete
    <2> QED BY <1>4, <2>2 DEF SendDelete, Received
<1>5. ASSUME NEW h \in Handlers, Answer(h) PROVE Freed
    <2>1. Changes(h, IdleHandler)
        BY <1>5 DEF Answer, Changes
    <2>2. handler'[h] = IdleHandler /\ \A g \in Handlers \ {h} : handler'[g] = handler[g]
        BY <1>0, <2>1, ChangeEffect, IdleTyped
    <2> QED BY <1>5, <2>2 DEF Freed, Answer, Learn
<1>6. CASE Lost
    BY <1>0, <1>6, LostEffect DEF Freed, Lost, Learn
<1>7. CASE User \/ Expired \/ SyncDone \/ UNCHANGED vars
    BY <1>7 DEF Freed, User, Add, Remove, TapSync, Leave, Open, Expired, Learn, SyncDone, vars
<1> QED BY <1>1, <1>2, <1>3, <1>4, <1>5, <1>6, <1>7 DEF Next, Worker

OneRequest ==
    \A g, h \in Handlers :
        g # h => handler[g].user # handler[h].user \/ handler[g].user = None
Held == \A h \in Handlers : Holds(handler[h]) => rows[handler[h].id].owner = handler[h].user
OwnInv == TypeInv /\ OneRequest /\ Held

\* Whoever changes a row has found it to be its account's.
LEMMA RowChange ==
    ASSUME TypeInv, Held, NEW h \in Handlers, RouteStep(h), NEW i \in Urls,
           rows[i] # NoRow, rows'[i] # rows[i]
    PROVE  /\ handler[h].id = i /\ rows[i].owner = handler[h].user
           /\ handler[h].pc \in {"write", "remove"} /\ handler'[h].user = None
           /\ rows'[i].owner = rows[i].owner \/ Removed(h)
<1>1. PICK status \in Statuses : Answered(h, status) /\ RowStep(h, status)
    BY DEF RouteStep
<1>2. handler[h].id \in Urls /\ DOMAIN rows = Urls
    BY DEF TypeInv, HandlersType, HandlerTyped, RouteStep, RowsType
<1>3. CASE Written(h)
    BY <1>1, <1>2, <1>3 DEF Written, Held, Holds, Answered
<1>4. CASE Removed(h)
    BY <1>1, <1>2, <1>4 DEF Removed, Held, Holds, Answered
<1> QED BY <1>1, <1>3, <1>4 DEF RowStep

LEMMA OwnStep ==
    ASSUME MaxPerUser = 1, OwnInv, [Next]_vars
    PROVE  OneRequest' /\ Held'
<1>0. TypeInv /\ OneRequest /\ Held /\ \A g \in Handlers : HandlerTyped(handler[g])
    BY DEF OwnInv, TypeInv, HandlersType
<1>1. ASSUME NEW h \in Handlers, RouteStep(h) PROVE OneRequest' /\ Held'
    <2>1. handler[h].user \in Users
        BY <1>0, <1>1 DEF RouteStep, HandlerTyped
    <2>2. handler'[h].user \in {None, handler[h].user}
        BY <1>1 DEF RouteStep, Answered, GoneOn
    <2>3. OneRequest'
        BY <1>0, <1>1, <2>2 DEF RouteStep, OneRequest
    <2>4. ASSUME NEW g \in Handlers, Holds(handler'[g])
          PROVE  rows'[handler'[g].id].owner = handler'[g].user
        <3>1. CASE g = h
            <4>1. \A status : ~Answered(h, status)
                BY <2>4, <3>1 DEF Answered, Holds, IdleHandler
            <4> QED BY <1>1, <2>4, <3>1, <4>1 DEF RouteStep, GoneOn
        <3>2. CASE g # h
            <4>1. handler'[g] = handler[g]
                BY <1>1, <3>2 DEF RouteStep
            <4>2. /\ rows[handler[g].id].owner = handler[g].user
                  /\ handler[g].id \in Urls /\ handler[g].user \in Users
                BY <1>0, <2>4, <4>1 DEF Held, Holds, HandlerTyped, Working
            <4>3. rows[handler[g].id] # NoRow
                BY <4>2, SourceLinksAssumption DEF NoRow
            <4>4. handler[g].user # handler[h].user
                BY <1>0, <2>1, <3>2, <4>2, SourceLinksAssumption DEF OneRequest
            <4>5. rows'[handler[g].id] = rows[handler[g].id]
                BY <1>0, <1>1, <4>2, <4>3, <4>4, RowChange
            <4> QED BY <4>1, <4>2, <4>5
        <3> QED BY <3>1, <3>2
    <2> QED BY <2>3, <2>4 DEF Held
<1>2. ASSUME rows' = rows, NEW h \in Handlers, Received(h, handler'[h])
      PROVE  OneRequest' /\ Held'
    <2>1. \A g \in Handlers : handler[g].user # handler'[h].user
        BY <1>2 DEF Received, Overlapping
    <2>2. OneRequest'
        BY <1>0, <1>2, <2>1 DEF Received, OneRequest
    <2>3. Held'
        BY <1>0, <1>2 DEF Received, Held, Holds
    <2> QED BY <2>2, <2>3
<1>3. CASE Freed
    <2>1. IdleHandler.user = None /\ ~Holds(IdleHandler)
        BY DEF IdleHandler, Holds
    <2>2. OneRequest'
        BY <1>0, <1>3, <2>1 DEF Freed, OneRequest
    <2>3. Held'
        BY <1>0, <1>3, <2>1 DEF Freed, Held
    <2> QED BY <2>2, <2>3
<1> QED BY <1>0, <1>1, <1>2, <1>3, ServerStep

LEMMA OwnInit == Init => OwnInv
<1>1. ASSUME Init PROVE OneRequest /\ Held
    <2>1. \A h \in Handlers : handler[h] = IdleHandler
        BY <1>1 DEF Init
    <2> QED BY <2>1 DEF OneRequest, Held, Holds, IdleHandler
<1> QED BY <1>1, TypeInit DEF OwnInv

\* As long as the requests of an account do not overlap, a row is changed or
\* removed only by a handler of its owner's, whatever ids other accounts send.
THEOREM RowsAreOwn ==
    ASSUME MaxPerUser = 1
    PROVE  Spec => OwnRows
<1>1. OwnInv /\ [Next]_vars => OwnInv'
    BY OwnStep, TypeStep DEF OwnInv
<1> DEFINE Own ==
        \A i \in Urls :
           rows'[i] # rows[i] /\ rows[i] # NoRow =>
               \E h \in Handlers :
                   /\ handler[h].pc \in {"write", "remove"} /\ handler'[h] # handler[h]
                   /\ handler[h].user = rows[i].owner
<1>2. OwnInv /\ [Next]_vars => [Own]_vars
    <2> SUFFICES ASSUME OwnInv, [Next]_vars, NEW i \in Urls, rows'[i] # rows[i], rows[i] # NoRow
                 PROVE  \E h \in Handlers :
                            /\ handler[h].pc \in {"write", "remove"} /\ handler'[h] # handler[h]
                            /\ handler[h].user = rows[i].owner
        OBVIOUS
    <2>1. TypeInv /\ Held
        BY DEF OwnInv
    <2>2. PICK h \in Handlers : RouteStep(h)
        BY <2>1, ServerStep DEF Freed
    <2>3. handler[h].user \in Users
        BY <2>1, <2>2 DEF RouteStep, TypeInv, HandlersType, HandlerTyped
    <2> QED BY <2>1, <2>2, <2>3, RowChange, SourceLinksAssumption
<1> HIDE DEF Own
<1>3. Spec => [][Own]_vars
    BY <1>1, <1>2, OwnInit, PTL DEF Spec
<1> QED BY <1>3 DEF OwnRows, Own

-------------------------------------------------------------------------------
(* A row of the list keeps its own id *)

Own(s) == \A n \in DOMAIN s : s[n].rid \in {None, stable_remote_id(s[n].url)}

LEMMA OwnNone == Own(<<>>)
BY DEF Own

OwnResults(j) ==
    j.kind = "sync" =>
        /\ Len(j.results) <= Len(j.snap)
        /\ \A n \in DOMAIN j.results :
               j.results[n].status = "ok" => j.results[n].id = j.snap[n].url
JobOwn(j) == Own(j.snap) /\ OwnResults(j)
OwnJobs == \A n \in DOMAIN queue : JobOwn(queue[n])

\* The worker waits for the link whose turn it is.
Waits ==
    call # None =>
        /\ queue # <<>> /\ handler[call].pc # "idle"
        /\ Syncing => Len(job.results) < Len(job.snap) /\ handler[call].id = Turn.url

\* A sync whose end the screen will see is the last job, and the rows it was
\* started with are still where they were.
Seen(j) == j.kind = "sync" /\ j.mine
Matches(snap, s) == \A n \in DOMAIN snap : n \in DOMAIN s /\ s[n].url = snap[n].url
Current ==
    \A n \in DOMAIN queue :
        Seen(queue[n]) => syncBusy /\ here /\ n = Len(queue) /\ Matches(queue[n].snap, list)

OwnIdInv == TypeInv /\ Own(list) /\ Own(file) /\ OwnJobs /\ Waits /\ Current

SameJob ==
    queue # <<>> => /\ queue' # <<>>
                    /\ job'.kind = job.kind /\ job'.snap = job.snap
                    /\ job'.results = job.results
SameCall ==
    /\ call' = call
    /\ call # None => handler'[call].pc # "idle" /\ handler'[call].id = handler[call].id

LEMMA WaitsKept ==
    ASSUME Waits, SameJob, SameCall
    PROVE  Waits'
BY DEF Waits, SameJob, SameCall, Syncing, Turn

\* The queue gets longer only while no sync is to be seen.
LEMMA Appended ==
    ASSUME QueueType, OwnJobs, NEW j, JobTyped(j), JobOwn(j), queue' = Append(queue, j)
    PROVE  /\ OwnJobs' /\ SameJob
           /\ Len(queue') = Len(queue) + 1 /\ queue'[Len(queue')] = j
           /\ \A n \in DOMAIN queue' :
                  n = Len(queue') \/ (n \in DOMAIN queue /\ queue'[n] = queue[n])
<1>1. queue \in Seq(JobRecord) /\ j \in JobRecord
    BY DEF QueueType, JobTyped
<1>2. /\ Append(queue, j) # <<>> /\ Len(Append(queue, j)) = Len(queue) + 1
      /\ DOMAIN Append(queue, j) = DOMAIN queue \cup {Len(queue) + 1}
      /\ Append(queue, j)[Len(queue) + 1] = j
      /\ \A n \in DOMAIN queue : Append(queue, j)[n] = queue[n]
      /\ queue # <<>> => Head(Append(queue, j)) = Head(queue)
    BY <1>1, AppendFacts
<1>3. \A n \in DOMAIN queue' :
          n = Len(queue') \/ (n \in DOMAIN queue /\ queue'[n] = queue[n])
    BY <1>2
<1>4. queue'[Len(queue')] = j
    BY <1>2
<1>5. OwnJobs'
    BY <1>3, <1>4 DEF OwnJobs
<1>6. SameJob
    BY <1>2 DEF SameJob, job
<1> QED BY <1>2, <1>3, <1>4, <1>5, <1>6

\* The server does not touch what the worker waits for.
LEMMA ServerKeeps ==
    ASSUME TypeInv, Waits, UNCHANGED device, NEW h \in Handlers,
           RouteStep(h) \/ Received(h, handler'[h])
    PROVE  Waits'
<1>1. SameJob /\ call' = call
    BY DEF SameJob, device, job
<1>2. call # None => handler[call].pc # "idle" /\ call \in Handlers
    BY DEF Waits, TypeInv, DeviceType
<1>3. SameCall
    <2>1. CASE RouteStep(h)
        BY <1>1, <1>2, <2>1 DEF SameCall, RouteStep, GoneOn, Answered, Working
    <2>2. CASE Received(h, handler'[h])
        BY <1>1, <1>2, <2>2 DEF SameCall, Received
    <2> QED BY <2>1, <2>2
<1> QED BY <1>1, <1>3, WaitsKept

\* What the worker is told, it is told of the link whose turn it is.
LEMMA LearnKeeps ==
    ASSUME OwnIdInv, NEW result \in Result, Learn(result),
           Deleting \/ (Syncing /\ Len(job.results) < Len(job.snap)),
           Syncing /\ result.status = "ok" => result.id = Turn.url
    PROVE  OwnJobs' /\ Waits' /\ Current'
<1>1. QueueType /\ queue # <<>> /\ OwnJobs /\ Current
    BY DEF OwnIdInv, TypeInv, Deleting, Syncing
<1>2. /\ call' = None /\ UNCHANGED <<rows, list, file, here, syncBusy, syncOk>>
      /\ Deleting => queue' = Tail(queue)
      /\ ~Deleting => queue' = PutHead(queue, WithResult(job, result))
    BY <1>1, LearnEffect
<1>3. Waits'
    BY <1>2 DEF Waits
<1>4. queue \in Seq(JobRecord) /\ JobTyped(job) /\ job = queue[1] /\ 1 \in DOMAIN queue
    BY <1>1, QueueElems DEF QueueType
<1>5. CASE Deleting
    <2>1. Len(queue') = Len(queue) - 1 /\ Len(queue) \in Nat
          /\ \A n \in DOMAIN queue' : n \in Nat /\ n + 1 \in DOMAIN queue /\ queue'[n] = queue[n + 1]
        BY <1>1, <1>2, <1>4, <1>5, HeadFacts
    <2>2. OwnJobs'
        BY <1>1, <2>1 DEF OwnJobs
    <2>3. ASSUME NEW n \in DOMAIN queue', Seen(queue'[n])
          PROVE  /\ syncBusy' /\ here' /\ n = Len(queue')
                 /\ Matches(queue'[n].snap, list')
        <3>1. n \in Nat /\ n + 1 \in DOMAIN queue /\ queue'[n] = queue[n + 1]
            BY <2>1
        <3>2. syncBusy /\ here /\ n + 1 = Len(queue) /\ Matches(queue[n + 1].snap, list)
            BY <1>1, <2>3, <3>1 DEF Current
        <3> QED BY <1>2, <2>1, <3>1, <3>2
    <2>4. Current'
        BY <2>3 DEF Current
    <2> QED BY <1>3, <2>2, <2>4
<1>6. CASE Syncing /\ ~Deleting
    <2> DEFINE j == WithResult(job, result)
    <2>1. /\ JobTyped(j) /\ j.results = Append(job.results, result)
          /\ j.kind = job.kind /\ j.snap = job.snap /\ j.mine = job.mine
        BY <1>4, WithResultTyped
    <2> HIDE DEF j
    <2>2. /\ DOMAIN queue' = DOMAIN queue /\ Len(queue') = Len(queue) /\ queue'[1] = j
          /\ \A n \in DOMAIN queue \ {1} : queue'[n] = queue[n]
        <3>1. queue' = PutHead(queue, j)
            BY <1>2, <1>6 DEF j
        <3>2. j \in JobRecord
            BY <2>1 DEF JobTyped
        <3>3. LET q == PutHead(queue, j) IN
              /\ DOMAIN q = DOMAIN queue /\ Len(q) = Len(queue) /\ q[1] = j
              /\ \A n \in DOMAIN queue \ {1} : q[n] = queue[n]
            BY <1>1, <1>4, <3>2, PutHeadFacts
        <3> QED BY <3>1, <3>3
    <2>3. JobOwn(job)
        BY <1>1, <1>4 DEF OwnJobs
    <2>4. JobOwn(j)
        <3>1. /\ job.results \in Seq(Result) /\ job.snap \in Seq(Source)
              /\ Len(job.results) \in Nat /\ Len(job.snap) \in Nat
            BY <1>4 DEF JobTyped, JobRecord
        <3>2. /\ Len(job.results) < Len(job.snap)
              /\ result.status = "ok" => result.id = job.snap[Len(job.results) + 1].url
            BY <1>6 DEF Turn
        <3>3. /\ DOMAIN j.results = DOMAIN job.results \cup {Len(job.results) + 1}
              /\ Len(j.results) = Len(job.results) + 1
              /\ j.results[Len(job.results) + 1] = result
              /\ \A n \in DOMAIN job.results : j.results[n] = job.results[n]
            BY <2>1, <3>1, AppendFacts
        <3>4. \A n \in DOMAIN j.results :
                  j.results[n].status = "ok" => j.results[n].id = job.snap[n].url
            BY <1>6, <2>3, <3>2, <3>3 DEF JobOwn, OwnResults, Syncing
        <3>5. Len(j.results) <= Len(j.snap)
            BY <2>1, <3>1, <3>2, <3>3
        <3> QED BY <2>1, <2>3, <3>4, <3>5 DEF JobOwn, OwnResults
    <2>5. OwnJobs'
        BY <1>1, <2>2, <2>4 DEF OwnJobs
    <2>6. \A n \in DOMAIN queue' :
              /\ Seen(queue'[n]) <=> Seen(queue[n])
              /\ queue'[n].snap = queue[n].snap
        BY <1>4, <2>1, <2>2 DEF Seen
    <2>7. ASSUME NEW n \in DOMAIN queue', Seen(queue'[n])
          PROVE  /\ syncBusy' /\ here' /\ n = Len(queue')
                 /\ Matches(queue'[n].snap, list')
        <3>1. syncBusy /\ here /\ n = Len(queue) /\ Matches(queue[n].snap, list)
            BY <1>1, <2>2, <2>6, <2>7 DEF Current
        <3> QED BY <1>2, <2>2, <2>6, <3>1
    <2>8. Current'
        BY <2>7 DEF Current
    <2> QED BY <1>3, <2>5, <2>8
<1> QED BY <1>5, <1>6

LEMMA OwnIdInit == Init => OwnIdInv
<1> SUFFICES ASSUME Init PROVE OwnIdInv
    OBVIOUS
<1>1. list = <<>> /\ file = <<>> /\ queue = <<>> /\ call = None
    BY DEF Init
<1>2. Own(list) /\ Own(file) /\ OwnJobs /\ Current
    BY <1>1 DEF Own, OwnJobs, Current
<1> QED BY <1>1, <1>2, TypeInit DEF OwnIdInv, Waits

LEMMA OwnIdStep ==
    ASSUME ~EditWhileSync, OwnIdInv, [Next]_vars
    PROVE  OwnIdInv'
<1>0. /\ TypeInv /\ TypeInv' /\ QueueType /\ HandlersType
      /\ Own(list) /\ Own(file) /\ OwnJobs /\ Waits /\ Current
      /\ list \in Seq(Source) /\ file \in Seq(Source)
      /\ queue \in Seq(JobRecord)
    BY TypeStep DEF OwnIdInv, TypeInv, DeviceType, QueueType
<1>a. ASSUME NEW h \in Handlers, UNCHANGED device, RouteStep(h) \/ Received(h, handler'[h])
      PROVE  OwnIdInv'
    <2>1. Waits'
        BY <1>0, <1>a, ServerKeeps
    <2> QED BY <1>0, <1>a, <2>1 DEF OwnIdInv, device, OwnJobs, Current
<1>1. ASSUME NEW h \in Handlers, OtherClient(h) PROVE OwnIdInv'
    <2>1. PICK u \in Others, i \in Urls, op \in {"put", "delete"} : Receive(h, Request(op, u, i, i))
        BY <1>1 DEF OtherClient
    <2>2. Received(h, handler'[h])
        BY <1>0, <2>1, ReceivedFacts, SourceLinksAssumption DEF Received
    <2> QED BY <1>1, <1>a, <2>2 DEF OtherClient
<1>2. ASSUME NEW h \in Handlers, Route(h) PROVE OwnIdInv'
    BY <1>0, <1>2, <1>a, RouteEffect
<1>3. ASSUME NEW url \in Urls, Add(url) PROVE OwnIdInv'
    <2> DEFINE s == Append(list, Unsynced(url))
    <2>1. Unsynced(url) \in Source /\ Unsynced(url).rid = None
        BY DEF Unsynced, Source
    <2>2. Own(s) /\ \A n \in DOMAIN list : n \in DOMAIN s /\ s[n] = list[n]
        <3>1. /\ DOMAIN s = DOMAIN list \cup {Len(list) + 1} /\ s[Len(list) + 1] = Unsynced(url)
              /\ \A n \in DOMAIN list : s[n] = list[n]
            BY <1>0, <2>1, AppendFacts
        <3> HIDE DEF s
        <3> QED BY <1>0, <2>1, <3>1 DEF Own
    <2>3. /\ list' \in {s, list} /\ file' \in {s, file, <<>>}
          /\ UNCHANGED <<rows, handler, here, syncBusy, queue, call>>
        BY <1>3 DEF Add, NotSaved
    <2> HIDE DEF s
    <2>4. Own(list') /\ Own(file') /\ OwnJobs'
        BY <1>0, <2>2, <2>3, OwnNone DEF OwnJobs
    <2>5. Waits'
        BY <1>0, <2>3, WaitsKept DEF SameJob, SameCall, Waits, job
    <2>6. \A n \in DOMAIN list : n \in DOMAIN list' /\ list'[n] = list[n]
        BY <2>2, <2>3
    <2>7. Current'
        BY <1>0, <2>3, <2>6 DEF Current, Matches
    <2> QED BY <1>0, <2>4, <2>5, <2>7 DEF OwnIdInv
<1>4. ASSUME NEW i \in DOMAIN list, Remove(i) PROVE OwnIdInv'
    <2>1. ~syncBusy /\ UNCHANGED <<rows, handler, here, syncBusy, call>>
        BY <1>4 DEF Remove
    <2>2. list' = Without(list, i) /\ file' \in {file, list', <<>>}
        BY <1>4 DEF Remove, Saved, NotSaved
    <2>3. Own(list')
        BY <1>0, <2>2, WithoutTyped DEF Own
    <2>4. Own(file')
        BY <1>0, <2>2, <2>3, OwnNone
    <2>5. \A n \in DOMAIN queue : ~Seen(queue[n])
        BY <1>0, <2>1 DEF Current
    <2>6. CASE queue' = queue
        <3>1. Waits'
            BY <1>0, <2>1, <2>6, WaitsKept DEF SameJob, SameCall, Waits, job
        <3> QED BY <1>0, <2>3, <2>4, <2>5, <2>6, <3>1 DEF OwnIdInv, OwnJobs, Current
    <2>7. CASE list[i].rid # None /\ queue' = Append(queue, Job("delete", <<>>, list[i].rid))
        <3> DEFINE j == Job("delete", <<>>, list[i].rid)
        <3>1. list[i] \in Source
            BY <1>0
        <3>2. list[i].rid \in Urls
            BY <2>7, <3>1 DEF Source
        <3>3. JobTyped(j) /\ j.kind = "delete" /\ j.snap = <<>>
            BY <3>2, JobsTyped DEF Job
        <3> HIDE DEF j
        <3>4. JobOwn(j)
            BY <3>3 DEF JobOwn, Own, OwnResults
        <3>5. ~Seen(j)
            BY <3>3 DEF Seen
        <3>6. queue' = Append(queue, j)
            BY <2>7 DEF j
        <3>7. /\ OwnJobs' /\ SameJob
              /\ Len(queue') = Len(queue) + 1 /\ queue'[Len(queue')] = j
              /\ \A n \in DOMAIN queue' :
                  n = Len(queue') \/ (n \in DOMAIN queue /\ queue'[n] = queue[n])
            BY <1>0, <3>3, <3>4, <3>6, Appended
        <3>8. Waits'
            BY <1>0, <2>1, <3>7, WaitsKept DEF SameCall, Waits
        <3>9. \A n \in DOMAIN queue' : ~Seen(queue'[n])
            BY <2>5, <3>5, <3>7
        <3>10. Current'
            BY <3>9 DEF Current
        <3> QED BY <1>0, <2>3, <2>4, <3>7, <3>8, <3>10 DEF OwnIdInv
    <2> QED BY <1>4, <2>6, <2>7 DEF Remove
<1>5. CASE TapSync
    <2> DEFINE j == Job("sync", list, None)
    <2>1. JobTyped(j) /\ j.kind = "sync" /\ j.snap = list /\ j.results = <<>>
        BY <1>0, JobsTyped
    <2>2. /\ here' = here /\ here /\ ~syncBusy /\ syncBusy' /\ queue' = Append(queue, j)
          /\ UNCHANGED <<rows, handler, list, file, call>>
        BY <1>5 DEF TapSync
    <2> HIDE DEF j
    <2>3. JobOwn(j)
        <3>1. Len(j.results) = 0 /\ DOMAIN j.results = {} /\ Len(j.snap) \in Nat
            BY <1>0, <2>1
        <3> QED BY <1>0, <2>1, <3>1 DEF JobOwn, OwnResults
    <2>4. /\ OwnJobs' /\ SameJob
          /\ Len(queue') = Len(queue) + 1 /\ queue'[Len(queue')] = j
          /\ \A n \in DOMAIN queue' :
              n = Len(queue') \/ (n \in DOMAIN queue /\ queue'[n] = queue[n])
        BY <1>0, <2>1, <2>2, <2>3, Appended
    <2>5. Waits'
        BY <1>0, <2>2, <2>4, WaitsKept DEF SameCall, Waits
    <2>6. \A n \in DOMAIN queue : ~Seen(queue[n])
        BY <1>0, <2>2 DEF Current
    <2>7. \A n \in DOMAIN queue' : Seen(queue'[n]) => n = Len(queue')
        BY <2>4, <2>6
    <2>8. Matches(j.snap, list')
        BY <2>1, <2>2 DEF Matches
    <2>9. Current'
        BY <2>2, <2>4, <2>7, <2>8 DEF Current
    <2> QED BY <1>0, <2>2, <2>4, <2>5, <2>9 DEF OwnIdInv
<1>6. CASE Leave
    <2>1. queue' = [n \in DOMAIN queue |-> Disowned(queue[n])]
          /\ UNCHANGED <<rows, handler, list, file, call>>
        BY <1>6 DEF Leave, Disowned
    <2>2. \A n \in DOMAIN queue :
              LET k == queue'[n] IN
              /\ ~k.mine
              /\ k.kind = queue[n].kind /\ k.snap = queue[n].snap /\ k.results = queue[n].results
        BY <1>0, <2>1, DisownedTyped DEF QueueType
    <2>3. DOMAIN queue' = DOMAIN queue
        BY <2>1
    <2>4. OwnJobs'
        BY <1>0, <2>2, <2>3 DEF OwnJobs, JobOwn, OwnResults
    <2>5. Current'
        BY <2>2, <2>3 DEF Current, Seen
    <2>6. SameJob
        <3> SUFFICES ASSUME queue # <<>>
                     PROVE  /\ queue' # <<>>
                            /\ job'.kind = job.kind /\ job'.snap = job.snap
                            /\ job'.results = job.results
            BY DEF SameJob
        <3>1. job = queue[1] /\ 1 \in DOMAIN queue
            BY <1>0, QueueElems
        <3>2. queue' # <<>> /\ job' = queue'[1]
            <4>1. QueueType' /\ queue' # <<>>
                BY <1>0, <2>3, <3>1 DEF TypeInv
            <4>2. queue' \in Seq(JobRecord)
                BY <4>1 DEF QueueType
            <4> QED BY <4>1, <4>2, HeadFacts DEF job
        <3> QED BY <2>2, <3>1, <3>2
    <2>7. Waits'
        BY <1>0, <2>1, <2>6, WaitsKept DEF SameCall, Waits
    <2> QED BY <1>0, <2>1, <2>4, <2>5, <2>7 DEF OwnIdInv
<1>7. CASE Open
    <2>1. list' = file /\ ~here /\ UNCHANGED <<rows, handler, file, syncBusy, queue, call>>
        BY <1>7 DEF Open
    <2>2. Waits'
        BY <1>0, <2>1, WaitsKept DEF SameJob, SameCall, Waits, job
    <2>3. \A n \in DOMAIN queue : ~Seen(queue[n])
        BY <1>0, <2>1 DEF Current
    <2> QED BY <1>0, <2>1, <2>2, <2>3 DEF OwnIdInv, OwnJobs, Current
<1>8. ASSUME NEW h \in Handlers, Push(h) PROVE OwnIdInv'
    <2>1. /\ Syncing /\ call = None /\ call' = h /\ Len(job.results) < Len(job.snap)
          /\ UNCHANGED <<rows, list, file, here, syncBusy, queue>>
          /\ Receive(h, Request("put", Me, LinkId(Turn), Turn.url))
        BY <1>8 DEF Push
    <2>2. Turn.url \in Urls /\ LinkId(Turn) \in Urls /\ Len(job.results) + 1 \in DOMAIN job.snap
        BY <1>0, <2>1, LinkIdTyped
    <2>3. LinkId(Turn) = Turn.url
        <3>1. JobOwn(job)
            BY <1>0, <2>1, QueueElems DEF OwnJobs, Syncing
        <3>2. Turn.rid \in {None, Turn.url}
            BY <2>2, <3>1 DEF JobOwn, Own, Turn, stable_remote_id
        <3> QED BY <3>2 DEF LinkId, stable_remote_id
    <2> DEFINE r == Request("put", Me, LinkId(Turn), Turn.url)
    <2>4. Received(h, r) /\ r.id = LinkId(Turn)
        BY <1>0, <2>1, <2>2, ReceivedFacts, SourceLinksAssumption
    <2> HIDE DEF r
    <2>5. handler'[h].pc # "idle" /\ handler'[h].id = Turn.url
        BY <2>3, <2>4 DEF Received
    <2>6. Waits'
        BY <2>1, <2>5 DEF Waits, Syncing, job, Turn
    <2> QED BY <1>0, <2>1, <2>6 DEF OwnIdInv, OwnJobs, Current
<1>9. ASSUME NEW h \in Handlers, SendDelete(h) PROVE OwnIdInv'
    <2>1. /\ Deleting /\ call = None /\ call' = h
          /\ UNCHANGED <<rows, list, file, here, syncBusy, queue>>
          /\ Receive(h, Request("delete", Me, job.rid, None))
        BY <1>9 DEF SendDelete
    <2>2. job.rid \in Urls
        BY <1>0, <2>1, QueueElems DEF Deleting, JobTyped
    <2> DEFINE r == Request("delete", Me, job.rid, None)
    <2>3. Received(h, r)
        BY <1>0, <2>1, <2>2, ReceivedFacts, SourceLinksAssumption
    <2> HIDE DEF r
    <2>4. Waits'
        BY <2>1, <2>3 DEF Waits, Received, Syncing, Deleting, job
    <2> QED BY <1>0, <2>1, <2>4 DEF OwnIdInv, OwnJobs, Current
<1>b. ASSUME NEW r \in Result, Learn(r),
             Deleting \/ (Syncing /\ Len(job.results) < Len(job.snap)),
             Syncing /\ r.status = "ok" => r.id = Turn.url
      PROVE  OwnIdInv'
    <2>1. OwnJobs' /\ Waits' /\ Current'
        BY <1>b, LearnKeeps
    <2> QED BY <1>0, <1>b, <2>1 DEF OwnIdInv, Learn
<1>10. ASSUME NEW h \in Handlers, Answer(h) PROVE OwnIdInv'
    <2> DEFINE r == [status |-> handler[h].status, id |-> handler[h].id]
    <2>1. call # None /\ r.id = handler[call].id /\ Learn(r)
        BY <1>10, SourceLinksAssumption DEF Answer
    <2>2. r \in Result
        BY <1>0, ResultTyped
    <2> HIDE DEF r
    <2>3. Syncing => Len(job.results) < Len(job.snap) /\ r.id = Turn.url
        BY <1>0, <2>1 DEF Waits
    <2>4. Deleting \/ Syncing
        <3>1. queue # <<>>
            BY <1>0, <2>1 DEF Waits
        <3>2. job \in JobRecord
            BY <1>0, <3>1, QueueElems
        <3> QED BY <3>1, <3>2 DEF Deleting, Syncing, JobRecord
    <2> QED BY <1>b, <2>1, <2>2, <2>3, <2>4
<1>11. CASE Lost \/ Expired
    <2> DEFINE r(status) == [status |-> status, id |-> None]
    <2>1. PICK status \in {"error", "expired"} : Learn(r(status))
        BY <1>11 DEF Lost, Expired
    <2>2. r(status) \in Result /\ r(status).status # "ok"
        BY <2>1, ResultTyped
    <2>3. Deleting \/ (Syncing /\ Len(job.results) < Len(job.snap))
        BY <1>11 DEF Lost, Expired
    <2> HIDE DEF r
    <2> QED BY <1>b, <2>1, <2>2, <2>3
<1>12. CASE SyncDone
    <2>1. /\ Syncing /\ Len(job.results) = Len(job.snap) /\ queue' = Tail(queue)
          /\ UNCHANGED <<rows, handler, here, call>>
        BY <1>12 DEF SyncDone
    <2>2. queue # <<>> /\ job = queue[1] /\ 1 \in DOMAIN queue /\ JobTyped(job) /\ job \in JobRecord
        BY <1>0, <2>1, QueueElems DEF Syncing
    <2>3. /\ Len(queue') = Len(queue) - 1 /\ Len(queue) \in Nat
          /\ Len(queue) = 1 => queue' = <<>>
          /\ \A n \in DOMAIN queue' : n \in Nat /\ n + 1 \in DOMAIN queue /\ queue'[n] = queue[n + 1]
        BY <1>0, <2>1, <2>2, HeadFacts
    <2>4. OwnJobs' /\ JobOwn(job)
        BY <1>0, <2>2, <2>3 DEF OwnJobs
    <2>5. call = None
        <3>1. job.results \in Seq(Result) /\ Len(job.results) \in Nat
            BY <2>2 DEF JobRecord
        <3> QED BY <1>0, <2>1, <3>1 DEF Waits
    <2>6. Waits'
        BY <2>1, <2>5 DEF Waits
    <2>7. CASE ~job.mine
        <3>1. UNCHANGED <<list, file, syncBusy>>
            BY <1>12, <2>7 DEF SyncDone
        <3>2. ASSUME NEW n \in DOMAIN queue', Seen(queue'[n])
              PROVE  /\ syncBusy' /\ here' /\ n = Len(queue')
                     /\ Matches(queue'[n].snap, list')
            <4>1. n \in Nat /\ n + 1 \in DOMAIN queue /\ queue'[n] = queue[n + 1]
                BY <2>3
            <4>2. syncBusy /\ here /\ n + 1 = Len(queue) /\ Matches(queue[n + 1].snap, list)
                BY <1>0, <3>2, <4>1 DEF Current
            <4> QED BY <2>1, <2>3, <3>1, <4>1, <4>2
        <3>3. Current'
            BY <3>2 DEF Current
        <3> QED BY <1>0, <2>4, <2>6, <3>1, <3>3 DEF OwnIdInv
    <2>8. CASE job.mine
        <3>1. Len(queue) = 1 /\ Matches(job.snap, list)
            BY <1>0, <2>1, <2>2, <2>8 DEF Current, Seen, Syncing
        <3>2. Current'
            BY <2>3, <3>1 DEF Current
        <3>3. /\ job.results \in Seq(Result) /\ job.snap \in Seq(Source)
              /\ DOMAIN job.results = DOMAIN job.snap
            BY <2>1, <2>2 DEF JobRecord
        <3>4. Own(Assign(job.results))
            <4> DEFINE s == Assign(job.results)
            <4>1. /\ DOMAIN s = DOMAIN list
                  /\ \A n \in DOMAIN list :
                      /\ s[n].url = list[n].url
                      /\ n \in DOMAIN job.results /\ job.results[n].status = "ok"
                             => s[n].rid = job.results[n].id
                      /\ ~(n \in DOMAIN job.results /\ job.results[n].status = "ok") => s[n] = list[n]
                BY <1>0, <3>3, AssignTyped DEF TypeInv
            <4> HIDE DEF s
            <4>2. ASSUME NEW n \in DOMAIN list, n \in DOMAIN job.results, job.results[n].status = "ok"
                  PROVE  s[n].rid = s[n].url
                <5>1. job.results[n].id = job.snap[n].url
                    BY <2>1, <2>4, <4>2 DEF JobOwn, OwnResults, Syncing
                <5>2. list[n].url = job.snap[n].url
                    BY <3>1, <3>3, <4>2 DEF Matches
                <5> QED BY <4>1, <4>2, <5>1, <5>2
            <4>3. \A n \in DOMAIN list : s[n].rid \in {None, s[n].url}
                BY <1>0, <4>1, <4>2 DEF Own, stable_remote_id
            <4> QED BY <4>1, <4>3 DEF Own, stable_remote_id, s
        <3>5. list' \in {list, Assign(job.results)} /\ file' \in {file, list', <<>>}
            BY <1>12, <2>8 DEF SyncDone, Saved, NotSaved
        <3>6. Own(list') /\ Own(file')
            BY <1>0, <3>4, <3>5, OwnNone
        <3> QED BY <1>0, <2>4, <2>6, <3>2, <3>6 DEF OwnIdInv
    <2> QED BY <2>7, <2>8
<1>13. CASE UNCHANGED vars
    BY <1>0, <1>13, WaitsKept
    DEF vars, OwnIdInv, OwnJobs, Current, SameJob, SameCall, Waits, job
<1> QED
    BY <1>1, <1>2, <1>3, <1>4, <1>5, <1>6, <1>7, <1>8, <1>9, <1>10, <1>11, <1>12, <1>13
    DEF Next, User, Worker

\* As long as no row is removed while a sync is under way, every row of the
\* list and of the file has its own link's id or none.
THEOREM RowsKeepTheirIds ==
    ASSUME ~EditWhileSync
    PROVE  Spec => []RemoteIdOwn
<1>1. OwnIdInv /\ [Next]_vars => OwnIdInv'
    BY OwnIdStep
<1>2. OwnIdInv => RemoteIdOwn
    BY DEF OwnIdInv, Own, RemoteIdOwn
<1> QED BY <1>1, <1>2, OwnIdInit, PTL DEF Spec

-------------------------------------------------------------------------------
(* Green means stored *)

Link(i) == [owner |-> Me, url |-> i]
NoneMine == \A h \in Handlers : handler[h].user # Me
MinePut == \A h \in Handlers : handler[h].user = Me => handler[h].op = "put" /\ handler[h].url = handler[h].id

\* Only the worker sends requests of this account: while it waits there is no
\* other.
MineIsCall == call # None => \A h \in Handlers : handler[h].user = Me => h = call

CallPuts ==
    Syncing /\ call # None =>
        LET r == handler[call] IN
        /\ r.pc \in Working => r.op = "put" /\ r.user = Me /\ r.url = r.id
        /\ r.pc = "replied" /\ r.status = "ok" => rows[r.id] = Link(r.id)

StoredSoFar ==
    Syncing /\ AllOk(job.results) =>
        \A n \in DOMAIN job.results :
            rows[job.snap[n].url] = Link(job.snap[n].url) /\ (call = None => NoneMine)

Fresh == \A n \in DOMAIN queue : n # 1 => queue[n].results = <<>>
NewRows ==
    \A n \in DOMAIN queue : Seen(queue[n]) =>
        \A m \in DOMAIN list : m \notin DOMAIN queue[n].snap => list[m].rid = None
Green ==
    syncOk => here /\ queue = <<>> /\ \A n \in DOMAIN list : list[n].rid # None => NoneMine

ServerInv == MineIsCall /\ CallPuts /\ StoredSoFar
GreenInv == OwnInv /\ OwnIdInv /\ ServerInv /\ Fresh /\ NewRows /\ Green /\ SyncedIsStored

\* A stored link stays while this account's handlers only put links.
LEMMA LinkKept ==
    ASSUME OwnInv, MinePut, [Next]_vars, NEW i \in Urls, rows[i] = Link(i)
    PROVE  rows'[i] = Link(i)
<1>1. TypeInv /\ Held
    BY DEF OwnInv
<1>2. rows[i] # NoRow /\ rows[i].owner = Me
    BY SourceLinksAssumption DEF Link, NoRow
<1>3. ASSUME NEW h \in Handlers, RouteStep(h), rows'[i] # rows[i]
      PROVE  rows'[i] = Link(i)
    <2>1. /\ handler[h].id = i /\ handler[h].user = Me
          /\ handler[h].op = "put" /\ handler[h].url = i
        BY <1>1, <1>2, <1>3, RowChange DEF MinePut
    <2>2. ~Removed(h)
        BY <1>1, <2>1 DEF Removed, TypeInv, HandlersType, HandlerTyped
    <2>3. Written(h)
        BY <1>3, <2>2 DEF RouteStep, RowStep
    <2>4. DOMAIN rows = Urls
        BY <1>1 DEF TypeInv, RowsType
    <2> QED BY <1>2, <2>1, <2>3, <2>4 DEF Written, Link
<1> QED BY <1>1, <1>3, ServerStep DEF Freed

\* The requests of this account that a route's step leaves were there before.
LEMMA NoNewMine ==
    ASSUME NEW h \in Handlers, RouteStep(h) \/ (Received(h, handler'[h]) /\ handler'[h].user # Me),
           NEW g \in Handlers, handler'[g].user = Me, TypeInv
    PROVE  /\ handler[g].user = Me
           /\ handler'[g].op = handler[g].op /\ handler'[g].url = handler[g].url
           /\ handler'[g].id = handler[g].id
<1>1. CASE g # h
    BY <1>1 DEF RouteStep, Received
<1>2. CASE g = h
    BY <1>2, SourceLinksAssumption DEF RouteStep, Answered, GoneOn
<1> QED BY <1>1, <1>2

LEMMA ResultUrl ==
    ASSUME TypeInv, OwnJobs, Syncing, NEW n \in DOMAIN job.results
    PROVE  n \in DOMAIN job.snap /\ job.snap[n].url \in Urls
<1>1. job \in JobRecord /\ JobOwn(job)
    BY QueueElems DEF TypeInv, OwnJobs, Syncing
<1>2. /\ job.results \in Seq(Result) /\ job.snap \in Seq(Source)
      /\ Len(job.results) <= Len(job.snap)
    BY <1>1 DEF JobRecord, JobOwn, OwnResults, Syncing
<1>3. n \in DOMAIN job.snap
    BY <1>2
<1>4. job.snap[n] \in Source
    BY <1>2, <1>3
<1> QED BY <1>3, <1>4 DEF Source

LEMMA GreenRoute ==
    ASSUME GreenInv, [Next]_vars, UNCHANGED device, NEW h \in Handlers,
           RouteStep(h) \/ (rows' = rows /\ Received(h, handler'[h]) /\ handler'[h].user # Me)
    PROVE  ServerInv' /\ Fresh' /\ NewRows' /\ Green' /\ SyncedIsStored'
<1>0. /\ TypeInv /\ OwnInv /\ Held /\ Waits /\ Own(list) /\ MineIsCall /\ CallPuts /\ StoredSoFar
      /\ Green /\ Fresh /\ NewRows /\ SyncedIsStored
    BY DEF GreenInv, OwnInv, OwnIdInv, ServerInv
<1>1. UNCHANGED <<list, here, syncBusy, syncOk, queue, call>> /\ job' = job
    BY DEF device, job
<1>2. NoneMine => NoneMine'
    BY <1>0, NoNewMine DEF NoneMine
<1>3. NoneMine => MinePut
    BY DEF NoneMine, MinePut
<1>4. call \in Handlers \cup {None} /\ \A g \in Handlers : HandlerTyped(handler[g])
    BY <1>0 DEF TypeInv, DeviceType, HandlersType
<1>5. MineIsCall'
    BY <1>0, <1>1, NoNewMine DEF MineIsCall
<1>6. Syncing' <=> Syncing
    BY <1>1 DEF Syncing, job
<1>7. call # None /\ handler[call].pc \notin Working => NoneMine
    BY <1>0, <1>4, SourceLinksAssumption DEF MineIsCall, NoneMine, HandlerTyped
<1>8. Syncing /\ call # None => MinePut
    BY <1>0, <1>3, <1>4, <1>7 DEF MineIsCall, CallPuts, MinePut
<1>9. CallPuts'
    <2> SUFFICES ASSUME Syncing, call # None
                 PROVE  LET r == handler'[call] IN
                        /\ r.pc \in Working => r.op = "put" /\ r.user = Me /\ r.url = r.id
                        /\ r.pc = "replied" /\ r.status = "ok" => rows'[r.id] = Link(r.id)
        BY <1>1, <1>6 DEF CallPuts
    <2>1. call \in Handlers
        BY <1>4
    <2>2. CASE handler'[call] = handler[call]
        <3>1. ASSUME handler[call].pc = "replied", handler[call].status = "ok"
              PROVE  rows'[handler[call].id] = Link(handler[call].id)
            <4>1. handler[call].id \in Urls
                BY <1>0, LinkIdTyped DEF Waits
            <4> QED BY <1>0, <1>8, <3>1, <4>1, LinkKept DEF CallPuts
        <3> QED BY <1>0, <2>2, <3>1 DEF CallPuts
    <2>3. CASE h = call /\ RouteStep(h)
        <3>1. /\ handler[h].pc \in Working /\ handler[h].op = "put" /\ handler[h].user = Me
              /\ handler[h].url = handler[h].id /\ handler[h].id \in Urls
            BY <1>0, <1>4, <2>3 DEF CallPuts, RouteStep, HandlerTyped
        <3>2. CASE GoneOn(h)
            BY <2>3, <3>1, <3>2 DEF GoneOn, Working
        <3>3. ASSUME NEW status \in Statuses, Answered(h, status), RowStep(h, status)
              PROVE  LET r == handler'[h] IN
                     /\ r.pc = "replied" /\ r.id = handler[h].id
                     /\ r.status = "ok" => rows'[r.id] = Link(r.id)
            <4>1. handler'[h].pc = "replied" /\ handler'[h].id = handler[h].id
                  /\ handler'[h].status = status
                BY <2>3, <3>3 DEF Answered
            <4>2. ASSUME status = "ok" PROVE rows'[handler[h].id] = Link(handler[h].id)
                <5>1. Written(h)
                    BY <3>1, <3>3, <4>2 DEF RowStep
                <5>2. handler[h].existing => rows[handler[h].id].owner = Me
                    BY <1>0, <3>1, <5>1 DEF Held, Holds, Written
                <5>3. DOMAIN rows = Urls
                    BY <1>0 DEF TypeInv, RowsType
                <5> QED BY <3>1, <5>1, <5>2, <5>3 DEF Written, Link
            <4> QED BY <4>1, <4>2
        <3> QED BY <2>3, <3>2, <3>3 DEF RouteStep, Working
    <2>4. handler[call].pc # "idle"
        BY <1>0 DEF Waits
    <2> QED BY <2>1, <2>2, <2>3, <2>4 DEF RouteStep, Received
<1>10. StoredSoFar'
    <2> SUFFICES ASSUME Syncing, AllOk(job.results), NEW n \in DOMAIN job.results
                 PROVE  /\ rows'[job.snap[n].url] = Link(job.snap[n].url)
                        /\ call = None => NoneMine'
        BY <1>1, <1>6 DEF StoredSoFar
    <2>1. rows[job.snap[n].url] = Link(job.snap[n].url) /\ (call = None => NoneMine)
        BY <1>0 DEF StoredSoFar
    <2>2. job.snap[n].url \in Urls
        BY <1>0, ResultUrl DEF GreenInv, OwnIdInv
    <2>3. MinePut
        BY <1>3, <1>8, <2>1
    <2> QED BY <1>0, <1>2, <2>1, <2>2, <2>3, LinkKept
<1>11. Fresh' /\ NewRows'
    BY <1>0, <1>1 DEF Fresh, NewRows
<1>12. Green'
    BY <1>0, <1>1, <1>2 DEF Green
<1>13. SyncedIsStored'
    <2> SUFFICES ASSUME syncOk, NEW n \in DOMAIN list, list[n].rid # None
                 PROVE  rows'[list[n].rid] = [owner |-> Me, url |-> list[n].url]
        BY <1>1 DEF SyncedIsStored
    <2>1. list[n].rid = list[n].url /\ list[n].rid \in Urls
        <3>1. list \in Seq(Source)
            BY <1>0 DEF TypeInv, DeviceType
        <3>2. list[n] \in Source
            BY <3>1
        <3> QED BY <1>0, <3>2 DEF Own, stable_remote_id, Source
    <2>2. rows[list[n].rid] = Link(list[n].rid) /\ MinePut
        BY <1>0, <1>3, <2>1 DEF SyncedIsStored, Green, Link
    <2>3. rows'[list[n].rid] = Link(list[n].rid)
        BY <1>0, <2>1, <2>2, LinkKept
    <2> QED BY <2>1, <2>3 DEF Link
<1> QED BY <1>5, <1>9, <1>10, <1>11, <1>12, <1>13 DEF ServerInv

\* What the user does leaves the worker where it is.
LEMMA GreenUser ==
    ASSUME GreenInv, UNCHANGED <<rows, handler, call>>, SameJob,
           queue = <<>> /\ queue' # <<>> => job'.results = <<>>
    PROVE  ServerInv'
<1>0. Waits /\ MineIsCall /\ CallPuts /\ StoredSoFar
    BY DEF GreenInv, OwnIdInv, ServerInv
<1>1. MineIsCall'
    BY <1>0 DEF MineIsCall
<1>2. CASE queue # <<>>
    <2>1. /\ Syncing' <=> Syncing
          /\ job'.snap = job.snap /\ job'.results = job.results
        BY <1>2 DEF SameJob, Syncing
    <2>2. CallPuts'
        BY <1>0, <2>1 DEF CallPuts
    <2>3. StoredSoFar'
        BY <1>0, <2>1 DEF StoredSoFar, NoneMine
    <2> QED BY <1>1, <2>2, <2>3 DEF ServerInv
<1>3. CASE queue = <<>>
    <2>1. call = None
        BY <1>0, <1>3 DEF Waits
    <2>2. CallPuts' /\ StoredSoFar'
        BY <1>3, <2>1 DEF CallPuts, StoredSoFar, Syncing
    <2> QED BY <1>1, <2>2 DEF ServerInv
<1> QED BY <1>2, <1>3

\* The worker asks when no request of this account is being handled.
LEMMA GreenAsk ==
    ASSUME GreenInv, MaxPerUser = 1, NEW h \in Handlers, Push(h) \/ SendDelete(h)
    PROVE  ServerInv' /\ Fresh' /\ NewRows' /\ Green' /\ SyncedIsStored'
<1>0. TypeInv /\ OwnJobs /\ HandlersType /\ StoredSoFar /\ Fresh /\ NewRows /\ Green
    BY DEF GreenInv, OwnIdInv, ServerInv, TypeInv
<1>1. /\ queue # <<>> /\ call' = h
      /\ UNCHANGED <<rows, list, file, here, syncBusy, syncOk, queue>> /\ job' = job
    BY DEF Push, SendDelete, Syncing, Deleting, job
<1>2. ~syncOk /\ Fresh' /\ NewRows' /\ Green' /\ SyncedIsStored'
    BY <1>0, <1>1 DEF Fresh, NewRows, Green, SyncedIsStored
<1>3. h # None
    BY SourceLinksAssumption
<1>4. StoredSoFar'
    BY <1>0, <1>1, <1>3 DEF StoredSoFar, Syncing
<1>5. ASSUME NEW r, Received(h, r), r.user = Me
      PROVE  MineIsCall' /\ handler'[h] = r
    <2>1. \A g \in Handlers : handler[g].user # Me
        BY <1>5 DEF Received, Overlapping
    <2> QED BY <1>1, <1>5, <2>1 DEF Received, MineIsCall
<1>6. CASE Push(h)
    <2>1. Syncing /\ Len(job.results) < Len(job.snap)
        BY <1>6 DEF Push
    <2>2. Turn \in Source /\ Turn.url \in Urls /\ LinkId(Turn) \in Urls
          /\ Len(job.results) + 1 \in DOMAIN job.snap
        BY <1>0, <2>1, LinkIdTyped
    <2>3. JobOwn(job)
        BY <1>0, <1>1, QueueElems DEF OwnJobs, TypeInv
    <2>4. LinkId(Turn) = Turn.url
        BY <2>2, <2>3 DEF JobOwn, Own, Turn, LinkId, stable_remote_id
    <2> DEFINE r == Request("put", Me, LinkId(Turn), Turn.url)
    <2>5. Received(h, r) /\ r.op = "put" /\ r.user = Me /\ r.id = LinkId(Turn) /\ r.url = Turn.url
        BY <1>0, <1>6, <2>2, ReceivedFacts, SourceLinksAssumption DEF Push
    <2> HIDE DEF r
    <2>6. MineIsCall' /\ handler'[h] = r /\ r.pc = "start"
        BY <1>5, <2>5 DEF Received
    <2>7. CallPuts'
        BY <1>1, <2>4, <2>5, <2>6 DEF CallPuts
    <2> QED BY <1>2, <1>4, <2>6, <2>7 DEF ServerInv
<1>7. CASE SendDelete(h)
    <2>1. Deleting /\ job.rid \in Urls
        BY <1>0, <1>7, QueueElems DEF SendDelete, Deleting, JobTyped, TypeInv
    <2> DEFINE r == Request("delete", Me, job.rid, None)
    <2>2. Received(h, r) /\ r.user = Me
        BY <1>0, <1>7, <2>1, ReceivedFacts, SourceLinksAssumption DEF SendDelete
    <2> HIDE DEF r
    <2>3. MineIsCall'
        BY <1>5, <2>2
    <2>4. CallPuts'
        BY <1>1, <2>1 DEF CallPuts, Syncing, Deleting
    <2> QED BY <1>2, <1>4, <2>3, <2>4 DEF ServerInv
<1> QED BY <1>6, <1>7

\* Where the worker is when its job has ended: the next one has no results.
LEMMA GreenTail ==
    ASSUME QueueType, queue # <<>>, queue' = Tail(queue), Fresh, call' = None
    PROVE  ServerInv' /\ Fresh'
<1>1. /\ queue \in Seq(JobRecord) /\ Tail(queue) \in Seq(JobRecord)
      /\ \A n \in DOMAIN queue' : n \in Nat /\ n + 1 \in DOMAIN queue /\ queue'[n] = queue[n + 1]
    BY HeadFacts DEF QueueType
<1>2. ASSUME NEW n \in DOMAIN queue' PROVE queue'[n].results = <<>>
    <2>1. n \in 1 .. Len(queue')
        BY <1>1
    <2>2. n + 1 # 1
        BY <2>1
    <2> QED BY <1>1, <2>2 DEF Fresh
<1>3. Fresh'
    BY <1>2 DEF Fresh
<1>4. queue' # <<>> => job'.results = <<>>
    <2>1. queue' # <<>> => job' = queue'[1] /\ 1 \in DOMAIN queue'
        BY <1>1, HeadFacts DEF job
    <2> QED BY <1>2, <2>1
<1>5. StoredSoFar'
    BY <1>4 DEF StoredSoFar, Syncing
<1> QED BY <1>3, <1>5 DEF ServerInv, MineIsCall, CallPuts

\* An answer "ok" stands for a link that is stored, and no request is left.
LEMMA GreenLearn ==
    ASSUME GreenInv, NEW result \in Result, Learn(result), Deleting \/ Syncing,
           NoneMine => NoneMine',
           Syncing /\ result.status = "ok" =>
               rows[Turn.url] = Link(Turn.url) /\ NoneMine'
    PROVE  ServerInv' /\ Fresh' /\ NewRows' /\ Green' /\ SyncedIsStored'
<1>0. /\ TypeInv /\ QueueType /\ queue # <<>> /\ StoredSoFar /\ Fresh /\ NewRows /\ Green
      /\ queue \in Seq(JobRecord)
    BY DEF GreenInv, OwnIdInv, ServerInv, TypeInv, Deleting, Syncing, QueueType
<1>1. /\ call' = None /\ UNCHANGED <<rows, list, file, here, syncBusy, syncOk>>
      /\ Deleting => queue' = Tail(queue)
      /\ ~Deleting => queue' = PutHead(queue, WithResult(job, result))
    BY <1>0, LearnEffect
<1>2. ~syncOk /\ Green' /\ SyncedIsStored'
    BY <1>0, <1>1 DEF Green, SyncedIsStored
<1>3. CASE Deleting
    <2>1. ServerInv' /\ Fresh'
        BY <1>0, <1>1, <1>3, GreenTail
    <2>2. \A n \in DOMAIN queue' : n \in Nat /\ n + 1 \in DOMAIN queue /\ queue'[n] = queue[n + 1]
        BY <1>0, <1>1, <1>3, HeadFacts
    <2>3. NewRows'
        BY <1>0, <1>1, <2>2 DEF NewRows
    <2> QED BY <1>2, <2>1, <2>3
<1>4. CASE Syncing /\ ~Deleting
    <2> DEFINE j == WithResult(job, result)
    <2>0. JobTyped(job) /\ job = queue[1] /\ 1 \in DOMAIN queue
        BY <1>0, QueueElems
    <2>1. /\ JobTyped(j) /\ j.results = Append(job.results, result)
          /\ j.kind = job.kind /\ j.snap = job.snap /\ j.mine = job.mine
        BY <2>0, WithResultTyped
    <2> HIDE DEF j
    <2>2. /\ DOMAIN queue' = DOMAIN queue /\ queue' # <<>> /\ queue'[1] = j /\ job' = j
          /\ \A n \in DOMAIN queue \ {1} : queue'[n] = queue[n]
        <3>1. queue' = PutHead(queue, j)
            BY <1>1, <1>4 DEF j
        <3>2. j \in JobRecord
            BY <2>1 DEF JobTyped
        <3>3. LET q == PutHead(queue, j) IN
              /\ DOMAIN q = DOMAIN queue /\ q # <<>> /\ q[1] = j /\ Head(q) = j
              /\ \A n \in DOMAIN queue \ {1} : q[n] = queue[n]
            BY <1>0, <3>2, PutHeadFacts
        <3> QED BY <3>1, <3>3 DEF job
    <2>3. Fresh'
        BY <1>0, <2>2 DEF Fresh
    <2>4. \A n \in DOMAIN queue' :
              /\ Seen(queue'[n]) <=> Seen(queue[n])
              /\ queue'[n].snap = queue[n].snap
        BY <2>0, <2>1, <2>2 DEF Seen
    <2>5. NewRows'
        BY <1>0, <1>1, <2>2, <2>4 DEF NewRows
    <2>6. StoredSoFar'
        <3> SUFFICES ASSUME AllOk(j.results), NEW n \in DOMAIN j.results
                     PROVE  rows[j.snap[n].url] = Link(j.snap[n].url) /\ NoneMine'
            BY <1>1, <2>2 DEF StoredSoFar
        <3>1. job.results \in Seq(Result)
            BY <2>0 DEF JobTyped, JobRecord
        <3>2. /\ DOMAIN j.results = DOMAIN job.results \cup {Len(job.results) + 1}
              /\ j.results[Len(job.results) + 1] = result
              /\ \A m \in DOMAIN job.results : j.results[m] = job.results[m]
            BY <2>1, <3>1, AppendFacts
        <3>3. AllOk(job.results) /\ result.status = "ok"
            BY <3>2 DEF AllOk
        <3>4. rows[Turn.url] = Link(Turn.url) /\ NoneMine'
            BY <1>4, <3>3
        <3>5. CASE n = Len(job.results) + 1
            BY <2>1, <3>4, <3>5 DEF Turn
        <3>6. CASE n \in DOMAIN job.results
            BY <1>0, <1>4, <2>1, <3>3, <3>4, <3>6 DEF StoredSoFar
        <3> QED BY <3>2, <3>5, <3>6
    <2>7. MineIsCall' /\ CallPuts'
        BY <1>1 DEF MineIsCall, CallPuts
    <2> QED BY <1>2, <2>3, <2>5, <2>6, <2>7 DEF ServerInv
<1> QED BY <1>3, <1>4

LEMMA GreenInit == Init => GreenInv
<1> SUFFICES ASSUME Init PROVE GreenInv
    OBVIOUS
<1>1. ~syncOk /\ queue = <<>> /\ call = None
    BY DEF Init
<1>2. ServerInv /\ Fresh /\ NewRows /\ Green /\ SyncedIsStored
    BY <1>1
    DEF ServerInv, MineIsCall, CallPuts, StoredSoFar, Syncing, Fresh, NewRows, Green, SyncedIsStored
<1> QED BY <1>2, OwnInit, OwnIdInit DEF GreenInv

LEMMA GreenStep ==
    ASSUME MaxPerUser = 1, ~EditWhileSync, Me \notin Others, GreenInv, [Next]_vars
    PROVE  GreenInv'
<1>0. /\ TypeInv /\ OwnInv /\ OwnIdInv /\ QueueType /\ HandlersType
      /\ ServerInv /\ MineIsCall /\ CallPuts /\ StoredSoFar /\ Fresh /\ NewRows /\ Green /\ SyncedIsStored
      /\ OwnJobs /\ Waits /\ Current
      /\ list \in Seq(Source) /\ queue \in Seq(JobRecord)
    BY DEF GreenInv, OwnInv, OwnIdInv, ServerInv, TypeInv, DeviceType, QueueType
<1> SUFFICES ServerInv' /\ Fresh' /\ NewRows' /\ Green' /\ SyncedIsStored'
    BY <1>0, OwnStep, TypeStep, OwnIdStep DEF GreenInv, OwnInv
<1>1. ASSUME NEW h \in Handlers, OtherClient(h)
      PROVE  ServerInv' /\ Fresh' /\ NewRows' /\ Green' /\ SyncedIsStored'
    <2>1. PICK u \in Others, i \in Urls, op \in {"put", "delete"} : Receive(h, Request(op, u, i, i))
        BY <1>1 DEF OtherClient
    <2>2. Received(h, handler'[h]) /\ handler'[h].user # Me
        <3> DEFINE r == Request(op, u, i, i)
        <3>1. Received(h, r) /\ r.user = u
            BY <1>0, <2>1, ReceivedFacts, SourceLinksAssumption
        <3> HIDE DEF r
        <3>2. handler'[h] = r
            BY <3>1 DEF Received
        <3> QED BY <3>1, <3>2
    <2>3. rows' = rows /\ UNCHANGED device
        BY <1>1 DEF OtherClient
    <2> QED BY <2>2, <2>3, GreenRoute
<1>2. ASSUME NEW h \in Handlers, Route(h)
      PROVE  ServerInv' /\ Fresh' /\ NewRows' /\ Green' /\ SyncedIsStored'
    BY <1>0, <1>2, RouteEffect, GreenRoute
<1>3. ASSUME NEW url \in Urls, Add(url)
      PROVE  ServerInv' /\ Fresh' /\ NewRows' /\ Green' /\ SyncedIsStored'
    <2>1. ServerInv'
        BY <1>3, GreenUser DEF Add, SameJob, job
    <2>2. Fresh'
        BY <1>0, <1>3 DEF Add, Fresh
    <2>3. CASE UNCHANGED <<list, syncOk>>
        BY <1>0, <1>3, <2>1, <2>2, <2>3 DEF Add, NewRows, Green, NoneMine, SyncedIsStored
    <2>4. CASE list' = Append(list, Unsynced(url)) /\ syncOk' = FALSE
        <3>1. Unsynced(url) \in Source /\ Unsynced(url).rid = None
            BY DEF Unsynced, Source
        <3>2. \A m \in DOMAIN list' :
                  list'[m].rid = None \/ (m \in DOMAIN list /\ list'[m] = list[m])
            <4>1. /\ DOMAIN list' = DOMAIN list \cup {Len(list) + 1}
                  /\ list'[Len(list) + 1] = Unsynced(url)
                  /\ \A n \in DOMAIN list : list'[n] = list[n]
                BY <1>0, <2>4, <3>1, AppendFacts
            <4> QED BY <3>1, <4>1
        <3>3. NewRows'
            BY <1>0, <1>3, <3>2 DEF Add, NewRows
        <3> QED BY <2>1, <2>2, <2>4, <3>3 DEF Green, SyncedIsStored
    <2> QED BY <1>3, <2>3, <2>4 DEF Add
<1>4. ASSUME NEW i \in DOMAIN list, Remove(i)
      PROVE  ServerInv' /\ Fresh' /\ NewRows' /\ Green' /\ SyncedIsStored'
    <2>1. ~syncBusy /\ syncOk' = FALSE /\ UNCHANGED <<rows, handler, call>>
        BY <1>4 DEF Remove
    <2>2. Green' /\ SyncedIsStored'
        BY <2>1 DEF Green, SyncedIsStored
    <2>3. \A n \in DOMAIN queue : ~Seen(queue[n])
        BY <1>0, <2>1 DEF Current
    <2>4. CASE queue' = queue
        <3>1. ServerInv'
            BY <2>1, <2>4, GreenUser DEF SameJob, job
        <3> QED BY <1>0, <2>2, <2>3, <2>4, <3>1 DEF Fresh, NewRows
    <2>5. CASE list[i].rid # None /\ queue' = Append(queue, Job("delete", <<>>, list[i].rid))
        <3> DEFINE j == Job("delete", <<>>, list[i].rid)
        <3>1. list[i] \in Source
            BY <1>0
        <3>2. list[i].rid \in Urls
            BY <2>5, <3>1 DEF Source
        <3>3. JobTyped(j) /\ j.kind = "delete" /\ j.results = <<>> /\ j.snap = <<>>
            BY <3>2, JobsTyped DEF Job
        <3> HIDE DEF j
        <3>4. JobOwn(j) /\ ~Seen(j)
            BY <3>3 DEF JobOwn, Own, OwnResults, Seen
        <3>5. queue' = Append(queue, j)
            BY <2>5 DEF j
        <3>6. /\ SameJob
              /\ queue'[Len(queue')] = j
              /\ \A n \in DOMAIN queue' :
                  n = Len(queue') \/ (n \in DOMAIN queue /\ queue'[n] = queue[n])
            BY <1>0, <3>3, <3>4, <3>5, Appended
        <3>7. queue = <<>> => job' = j
            BY <1>0, <3>3, <3>5 DEF job, JobTyped
        <3>8. ServerInv'
            BY <2>1, <3>3, <3>6, <3>7, GreenUser
        <3>9. Fresh' /\ NewRows'
            BY <1>0, <2>3, <3>3, <3>4, <3>6 DEF Fresh, NewRows
        <3> QED BY <2>2, <3>8, <3>9
    <2> QED BY <1>4, <2>4, <2>5 DEF Remove
<1>5. ASSUME TapSync
      PROVE  ServerInv' /\ Fresh' /\ NewRows' /\ Green' /\ SyncedIsStored'
    <2> DEFINE j == Job("sync", list, None)
    <2>1. JobTyped(j) /\ j.kind = "sync" /\ j.snap = list /\ j.results = <<>>
        BY <1>0, JobsTyped
    <2>2. /\ ~syncBusy /\ syncOk' = FALSE /\ queue' = Append(queue, j)
          /\ UNCHANGED <<rows, handler, list, file, call>>
        BY <1>5 DEF TapSync
    <2> HIDE DEF j
    <2>3. JobOwn(j)
        <3>1. Len(j.results) = 0 /\ DOMAIN j.results = {} /\ Len(j.snap) \in Nat
            BY <1>0, <2>1
        <3> QED BY <1>0, <2>1, <3>1 DEF JobOwn, OwnResults, OwnIdInv
    <2>4. /\ SameJob /\ queue'[Len(queue')] = j
          /\ \A n \in DOMAIN queue' :
              n = Len(queue') \/ (n \in DOMAIN queue /\ queue'[n] = queue[n])
        BY <1>0, <2>1, <2>2, <2>3, Appended
    <2>5. queue = <<>> => job' = j
        BY <1>0, <2>1, <2>2 DEF job, JobTyped
    <2>6. ServerInv'
        BY <2>1, <2>2, <2>4, <2>5, GreenUser
    <2>7. \A n \in DOMAIN queue : ~Seen(queue[n])
        BY <1>0, <2>2 DEF Current
    <2>8. Fresh' /\ NewRows'
        BY <1>0, <2>1, <2>2, <2>4, <2>7 DEF Fresh, NewRows
    <2> QED BY <2>2, <2>6, <2>8 DEF Green, SyncedIsStored
<1>6. ASSUME Leave
      PROVE  ServerInv' /\ Fresh' /\ NewRows' /\ Green' /\ SyncedIsStored'
    <2>1. queue' = [n \in DOMAIN queue |-> Disowned(queue[n])]
          /\ UNCHANGED <<rows, handler, list, file, call>> /\ syncOk' = FALSE
        BY <1>6 DEF Leave, Disowned
    <2>2. DOMAIN queue' = DOMAIN queue /\
          \A n \in DOMAIN queue :
              LET k == queue'[n] IN
              /\ ~k.mine
              /\ k.kind = queue[n].kind /\ k.snap = queue[n].snap /\ k.results = queue[n].results
        BY <1>0, <2>1, DisownedTyped DEF QueueType
    <2>3. QueueType'
        BY <1>0, TypeStep DEF TypeInv
    <2>4. queue # <<>> => job = queue[1] /\ 1 \in DOMAIN queue
        BY <1>0, QueueElems
    <2>5. queue' # <<>> => job' = queue'[1] /\ 1 \in DOMAIN queue'
        BY <2>3, HeadFacts DEF QueueType, job
    <2>6. queue' # <<>> <=> queue # <<>>
        <3>1. queue # <<>> => queue' # <<>>
            BY <2>2, <2>4
        <3>2. queue = <<>> => queue' = <<>>
            BY <2>2, <2>5
        <3> QED BY <3>1, <3>2
    <2>7. SameJob
        BY <2>2, <2>4, <2>5, <2>6 DEF SameJob
    <2>8. ServerInv'
        BY <2>1, <2>6, <2>7, GreenUser
    <2>9. Fresh' /\ NewRows'
        BY <1>0, <2>2 DEF Fresh, NewRows, Seen
    <2> QED BY <2>1, <2>8, <2>9 DEF Green, SyncedIsStored
<1>7. ASSUME Open
      PROVE  ServerInv' /\ Fresh' /\ NewRows' /\ Green' /\ SyncedIsStored'
    <2>1. ~here /\ UNCHANGED <<rows, handler, syncOk, queue, call>>
        BY <1>7 DEF Open
    <2>2. ServerInv'
        BY <2>1, GreenUser DEF SameJob, job
    <2>3. ~syncOk' /\ \A n \in DOMAIN queue : ~Seen(queue[n])
        BY <1>0, <2>1 DEF Current, Green
    <2> QED BY <1>0, <2>1, <2>2, <2>3 DEF Fresh, NewRows, Green, SyncedIsStored
<1>8. ASSUME NEW h \in Handlers, Push(h) \/ SendDelete(h)
      PROVE  ServerInv' /\ Fresh' /\ NewRows' /\ Green' /\ SyncedIsStored'
    BY <1>8, GreenAsk
<1>9. ASSUME NEW h \in Handlers, Answer(h)
      PROVE  ServerInv' /\ Fresh' /\ NewRows' /\ Green' /\ SyncedIsStored'
    <2> DEFINE r == [status |-> handler[h].status, id |-> handler[h].id]
    <2>1. /\ call # None /\ call = h /\ handler[h].pc = "replied" /\ Learn(r)
          /\ r.status = handler[h].status /\ r \in Result
        BY <1>0, <1>9, ResultTyped, SourceLinksAssumption DEF Answer
    <2> HIDE DEF r
    <2>2. Deleting \/ Syncing
        <3>1. queue # <<>>
            BY <1>0, <2>1 DEF Waits
        <3>2. job \in JobRecord
            BY <1>0, <3>1, QueueElems
        <3> QED BY <3>1, <3>2 DEF Deleting, Syncing, JobRecord
    <2>3. NoneMine'
        <3>1. Changes(h, IdleHandler)
            BY <1>9 DEF Answer, Changes
        <3>2. handler'[h] = IdleHandler /\ \A g \in Handlers \ {h} : handler'[g] = handler[g]
            BY <1>0, <3>1, ChangeEffect, IdleTyped
        <3>3. IdleHandler.user # Me
            BY SourceLinksAssumption DEF IdleHandler
        <3> QED BY <1>0, <2>1, <3>2, <3>3 DEF MineIsCall, NoneMine
    <2>4. Syncing /\ r.status = "ok" => rows[Turn.url] = Link(Turn.url)
        BY <1>0, <2>1 DEF CallPuts, Waits
    <2> QED BY <2>1, <2>2, <2>3, <2>4, GreenLearn
<1>10. ASSUME Lost \/ Expired
       PROVE  ServerInv' /\ Fresh' /\ NewRows' /\ Green' /\ SyncedIsStored'
    <2> DEFINE r(status) == [status |-> status, id |-> None]
    <2>1. PICK status \in {"error", "expired"} : Learn(r(status))
        BY <1>10 DEF Lost, Expired
    <2>2. r(status) \in Result /\ r(status).status # "ok"
        BY <2>1, ResultTyped
    <2>3. Deleting \/ Syncing
        BY <1>10 DEF Lost, Expired
    <2> HIDE DEF r
    <2>4. NoneMine => NoneMine'
        <3>1. \A h \in Handlers : handler'[h] \in {handler[h], IdleHandler}
            BY <1>0, <1>10, LostEffect DEF Expired
        <3>2. IdleHandler.user # Me
            BY SourceLinksAssumption DEF IdleHandler
        <3> QED BY <3>1, <3>2 DEF NoneMine
    <2> QED BY <2>1, <2>2, <2>3, <2>4, GreenLearn
<1>11. ASSUME SyncDone
       PROVE  ServerInv' /\ Fresh' /\ NewRows' /\ Green' /\ SyncedIsStored'
    <2>1. /\ Syncing /\ Len(job.results) = Len(job.snap) /\ queue' = Tail(queue)
          /\ UNCHANGED <<rows, handler, here, call>>
        BY <1>11 DEF SyncDone
    <2>2. queue # <<>> /\ job = queue[1] /\ 1 \in DOMAIN queue /\ JobTyped(job) /\ job \in JobRecord
        BY <1>0, <2>1, QueueElems DEF Syncing
    <2>3. /\ Len(queue) = 1 => queue' = <<>>
          /\ \A n \in DOMAIN queue' : n \in Nat /\ n + 1 \in DOMAIN queue /\ queue'[n] = queue[n + 1]
        BY <1>0, <2>1, <2>2, HeadFacts
    <2>4. /\ job.results \in Seq(Result) /\ job.snap \in Seq(Source)
          /\ DOMAIN job.results = DOMAIN job.snap /\ Len(job.results) \in Nat
        BY <2>1, <2>2 DEF JobRecord
    <2>5. call = None
        BY <1>0, <2>1, <2>4 DEF Waits
    <2>6. ServerInv' /\ Fresh'
        BY <1>0, <2>1, <2>2, <2>5, GreenTail
    <2>7. ~syncOk
        BY <1>0, <2>2 DEF Green
    <2>8. CASE ~job.mine
        <3>1. UNCHANGED <<list, syncOk>>
            BY <1>11, <2>8 DEF SyncDone
        <3>2. NewRows'
            BY <1>0, <2>3, <3>1 DEF NewRows
        <3> QED BY <2>6, <2>7, <3>1, <3>2 DEF Green, SyncedIsStored
    <2>9. CASE job.mine
        <3>1. here /\ Len(queue) = 1 /\ Matches(job.snap, list)
              /\ \A m \in DOMAIN list : m \notin DOMAIN job.snap => list[m].rid = None
            BY <1>0, <2>1, <2>2, <2>9 DEF Current, NewRows, Seen, Syncing
        <3>2. queue' = <<>> /\ NewRows'
            BY <2>3, <3>1 DEF NewRows
        <3>3. CASE ~syncOk'
            BY <2>6, <3>2, <3>3 DEF Green, SyncedIsStored
        <3>4. CASE syncOk'
            <4> DEFINE s == Assign(job.results)
            <4>1. list' = s /\ AllOk(job.results)
                BY <1>11, <2>7, <2>9, <3>4 DEF SyncDone
            <4>2. /\ DOMAIN s = DOMAIN list
                  /\ \A n \in DOMAIN list :
                      /\ s[n].url = list[n].url
                      /\ n \in DOMAIN job.results /\ job.results[n].status = "ok"
                             => s[n].rid = job.results[n].id
                      /\ ~(n \in DOMAIN job.results /\ job.results[n].status = "ok") => s[n] = list[n]
                BY <1>0, <2>4, AssignTyped DEF TypeInv
            <4> HIDE DEF s
            <4>3. ASSUME NEW n \in DOMAIN list', list'[n].rid # None
                  PROVE  NoneMine' /\ rows'[list'[n].rid] = [owner |-> Me, url |-> list'[n].url]
                <5>1. n \in DOMAIN list /\ n \in DOMAIN job.results
                    BY <2>4, <3>1, <4>1, <4>2, <4>3
                <5>2. job.results[n].status = "ok"
                    BY <4>1, <5>1 DEF AllOk
                <5>3. job.results[n].id = job.snap[n].url
                    BY <1>0, <2>1, <2>2, <5>1, <5>2 DEF OwnJobs, JobOwn, OwnResults, Syncing
                <5>4. list[n].url = job.snap[n].url
                    BY <2>4, <3>1, <5>1 DEF Matches
                <5>5. rows[job.snap[n].url] = Link(job.snap[n].url) /\ NoneMine
                    BY <1>0, <2>1, <2>5, <4>1, <5>1 DEF StoredSoFar
                <5>6. list'[n].rid = list'[n].url /\ list'[n].url = job.snap[n].url
                    BY <4>1, <4>2, <5>1, <5>2, <5>3, <5>4
                <5> QED BY <2>1, <5>5, <5>6 DEF Link, NoneMine
            <4> QED BY <2>1, <2>6, <3>1, <3>2, <4>3 DEF Green, SyncedIsStored
        <3> QED BY <3>3, <3>4
    <2> QED BY <2>8, <2>9
<1>12. ASSUME UNCHANGED vars
       PROVE  ServerInv' /\ Fresh' /\ NewRows' /\ Green' /\ SyncedIsStored'
    <2>1. ServerInv'
        BY <1>12, GreenUser DEF vars, SameJob, job
    <2> QED BY <1>0, <1>12, <2>1 DEF vars, Fresh, NewRows, Green, NoneMine, SyncedIsStored
<1> QED
    BY <1>1, <1>2, <1>3, <1>4, <1>5, <1>6, <1>7, <1>8, <1>9, <1>10, <1>11, <1>12
    DEF Next, User, Worker

\* While the sync button is green, the account has every link the list has an
\* id for, with the list's url, as long as the device is the account's only
\* client, its requests do not overlap and no row is removed while a sync is
\* under way: no answer that is late, lost or in doubt makes it green.
THEOREM GreenIsStored ==
    ASSUME MaxPerUser = 1, ~EditWhileSync, Me \notin Others
    PROVE  Spec => []SyncedIsStored
<1>1. GreenInv /\ [Next]_vars => GreenInv'
    BY GreenStep
<1>2. GreenInv => SyncedIsStored
    BY DEF GreenInv
<1> QED BY <1>1, <1>2, GreenInit, PTL DEF Spec
===============================================================================
