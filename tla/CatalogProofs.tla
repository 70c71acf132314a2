---------------------------- MODULE CatalogProofs -----------------------------
(***************************************************************************)
(* Theorems about Catalog: types, covers in their cells, and lists that    *)
(* are complete unless the note says otherwise, for any site, any bounds   *)
(* and any number of pages and titles.                                     *)
(***************************************************************************)
EXTENDS Catalog, FiniteSetTheorems, TLAPS

Elems(s) == {s[n] : n \in DOMAIN s}

-------------------------------------------------------------------------------
(* Sequences *)

\* What the first element and the rest of a queue are.
LEMMA TailElems ==
    ASSUME NEW S, NEW s \in Seq(S), s # <<>>
    PROVE  /\ Head(s) \in S /\ Tail(s) \in Seq(S)
           /\ Head(s) \in Elems(s)
           /\ Elems(s) = {Head(s)} \cup Elems(Tail(s))
<1>1. Head(s) \in S /\ Tail(s) \in Seq(S) /\ Head(s) = s[1] /\ Len(s) \in Nat \ {0}
    OBVIOUS
<1>2. DOMAIN s = 1 .. Len(s) /\ DOMAIN Tail(s) = 1 .. Len(s) - 1
    OBVIOUS
<1>3. \A n \in 1 .. Len(s) - 1 : Tail(s)[n] = s[n + 1]
    OBVIOUS
<1>4. 1 \in DOMAIN s
    BY <1>1, <1>2
<1>5. ASSUME NEW e \in Elems(s) PROVE e \in {Head(s)} \cup Elems(Tail(s))
    <2>1. PICK n \in 1 .. Len(s) : e = s[n]
        BY <1>2, <1>5 DEF Elems
    <2>2. CASE n = 1
        BY <1>1, <2>1, <2>2
    <2>3. CASE n # 1
        <3>1. n - 1 \in 1 .. Len(s) - 1 /\ (n - 1) + 1 = n
            BY <1>1, <2>3
        <3>2. Tail(s)[n - 1] = s[n]
            BY <1>3, <3>1
        <3> QED BY <1>2, <2>1, <3>1, <3>2 DEF Elems
    <2> QED BY <2>2, <2>3
<1>6. ASSUME NEW e \in Elems(Tail(s)) PROVE e \in Elems(s)
    <2>1. PICK n \in 1 .. Len(s) - 1 : e = Tail(s)[n]
        BY <1>2, <1>6 DEF Elems
    <2>2. n + 1 \in 1 .. Len(s) /\ e = s[n + 1]
        BY <1>1, <1>3, <2>1
    <2> QED BY <1>2, <2>2 DEF Elems
<1>7. Head(s) \in Elems(s)
    BY <1>1, <1>4 DEF Elems
<1> QED BY <1>1, <1>5, <1>6, <1>7

\* The elements of two queues joined.
LEMMA CatElems ==
    ASSUME NEW S, NEW s \in Seq(S), NEW t \in Seq(S)
    PROVE  s \o t \in Seq(S) /\ Elems(s \o t) = Elems(s) \cup Elems(t)
<1>1. s \o t \in Seq(S) /\ Len(s) \in Nat /\ Len(t) \in Nat
    OBVIOUS
<1>2. /\ DOMAIN s = 1 .. Len(s) /\ DOMAIN t = 1 .. Len(t)
      /\ DOMAIN (s \o t) = 1 .. Len(s) + Len(t)
    OBVIOUS
<1>3. /\ \A n \in 1 .. Len(s) : (s \o t)[n] = s[n]
      /\ \A n \in 1 .. Len(t) : (s \o t)[Len(s) + n] = t[n]
    OBVIOUS
<1>4. ASSUME NEW e \in Elems(s \o t) PROVE e \in Elems(s) \cup Elems(t)
    <2>1. PICK n \in 1 .. Len(s) + Len(t) : e = (s \o t)[n]
        BY <1>2, <1>4 DEF Elems
    <2>2. CASE n \in 1 .. Len(s)
        BY <1>2, <1>3, <2>1, <2>2 DEF Elems
    <2>3. CASE n \notin 1 .. Len(s)
        <3>1. n - Len(s) \in 1 .. Len(t) /\ Len(s) + (n - Len(s)) = n
            BY <1>1, <2>3
        <3>2. e = t[n - Len(s)]
            BY <1>3, <2>1, <3>1
        <3> QED BY <1>2, <3>1, <3>2 DEF Elems
    <2> QED BY <2>2, <2>3
<1>5. ASSUME NEW e \in Elems(s) PROVE e \in Elems(s \o t)
    <2>1. PICK n \in 1 .. Len(s) : e = s[n]
        BY <1>2, <1>5 DEF Elems
    <2>2. n \in 1 .. Len(s) + Len(t) /\ e = (s \o t)[n]
        BY <1>1, <1>3, <2>1
    <2> QED BY <1>2, <2>2 DEF Elems
<1>6. ASSUME NEW e \in Elems(t) PROVE e \in Elems(s \o t)
    <2>1. PICK n \in 1 .. Len(t) : e = t[n]
        BY <1>2, <1>6 DEF Elems
    <2>2. Len(s) + n \in 1 .. Len(s) + Len(t) /\ e = (s \o t)[Len(s) + n]
        BY <1>1, <1>3, <2>1
    <2> QED BY <1>2, <2>2 DEF Elems
<1> QED BY <1>1, <1>4, <1>5, <1>6

LEMMA NoElems == Elems(<<>>) = {}
BY DEF Elems

LEMMA OneElem == ASSUME NEW e PROVE Elems(<<e>>) = {e} /\ <<e>> \in Seq({e})
BY DEF Elems

\* Elements and indices of a queue say the same.
LEMMA ElemAt ==
    ASSUME NEW S, NEW s \in Seq(S)
    PROVE  /\ \A n \in DOMAIN s : s[n] \in Elems(s)
           /\ Elems(s) \subseteq S
BY DEF Elems

-------------------------------------------------------------------------------
(* Types *)

\* A site lists and links what there is.
LEMMA SiteTyped ==
    ASSUME NEW s \in Sites, NEW p \in Pages
    PROVE  /\ s.dirs[p] \in Seq(Pages) /\ s.files[p] \in SUBSET Titles
           /\ Links(s, p) \subseteq Pages /\ Lists(s, p) \subseteq Titles
<1>1. s \in Site
    BY CatalogAssumption
<1>2. s.dirs[p] \in Seq(Pages) /\ s.files[p] \in SUBSET Titles
    BY <1>1 DEF Site
<1> QED BY <1>2 DEF Links, Lists

ScreenType ==
    /\ here \in BOOLEAN /\ loading \in BOOLEAN /\ listGen \in Nat
    /\ list \in SUBSET Titles /\ view \in Seq(list)
    /\ covers \in Seq(Titles \cup {None}) /\ Len(covers) = Len(view)
    /\ note \in {"none", "offline", "truncated"} /\ outcome \in {"pending", "ok", "error"}

QueueType == queue \in Seq(JobType)

CrawlTyped(c) ==
    /\ c \in CrawlType
    /\ IsFiniteSet(c.visited)
    /\ c.requests = Cardinality(c.visited) /\ c.requests <= maxRequests

CardType ==
    /\ site \in Sites
    /\ cached \in [kind : {"none", "torn", "whole"}, titles : SUBSET Titles]
    /\ art \in SUBSET Titles /\ index \in {"unloaded", "loaded", "failed"}

TypeInv == ScreenType /\ QueueType /\ CrawlTyped(crawl) /\ CardType

LEMMA TypeInvImplies == TypeInv => TypeOK
BY DEF TypeInv, ScreenType, QueueType, CrawlTyped, CardType, TypeOK

LEMMA NoCrawlTyped == CrawlTyped(NoCrawl)
<1>1. IsFiniteSet({}) /\ Cardinality({}) = 0
    BY FS_EmptySet
<1>2. <<>> \in Seq(Pages)
    OBVIOUS
<1> QED BY <1>1, <1>2, CatalogAssumption DEF CrawlTyped, NoCrawl, CrawlType

\* Cells of a list are a sequence of its titles, without covers at first.
LEMMA CellsTyped ==
    ASSUME NEW titles \in SUBSET Titles, NEW v \in Arrangements(titles), NEW gen \in Nat
    PROVE  /\ v \in Seq(titles)
           /\ [c \in DOMAIN v |-> None] \in Seq(Titles \cup {None})
           /\ Len([c \in DOMAIN v |-> None]) = Len(v)
           /\ DOMAIN v \subseteq Nat
           /\ CoverJobs(v, gen) \in Seq(JobType)
           /\ Elems(CoverJobs(v, gen)) = {Job("cover", v[c], c, gen) : c \in DOMAIN v}
<1>1. PICK n \in 0 .. Cardinality(titles) : v \in [1 .. n -> titles]
    BY DEF Arrangements
<1>2. Cardinality(titles) \in Nat
    BY CatalogAssumption, FS_Subset, FS_CardinalityType
<1>3. n \in Nat /\ DOMAIN v = 1 .. n
    BY <1>1, <1>2
<1>4. v \in Seq(titles) /\ Len(v) = n
    BY <1>1, <1>3
<1>5. /\ [c \in DOMAIN v |-> None] \in Seq(Titles \cup {None})
      /\ Len([c \in DOMAIN v |-> None]) = n
    BY <1>3
<1>6. \A c \in DOMAIN v : Job("cover", v[c], c, gen) \in JobType
    BY <1>1, <1>3 DEF Job, JobType
<1>7. CoverJobs(v, gen) \in Seq(JobType)
    BY <1>3, <1>6 DEF CoverJobs
<1>8. Elems(CoverJobs(v, gen)) = {Job("cover", v[c], c, gen) : c \in DOMAIN v}
    BY DEF CoverJobs, Elems
<1> QED BY <1>3, <1>4, <1>5, <1>7, <1>8

LEMMA CrawlJobTyped == CrawlJob \in JobType
BY DEF CrawlJob, Job, JobType

\* populate keeps types and adds cover jobs only.
LEMMA PopulateTyped ==
    ASSUME NEW titles \in SUBSET Titles, NEW gen \in Nat, NEW jobs \in Seq(JobType),
           Populate(titles, gen, jobs)
    PROVE  /\ listGen' = gen /\ view' \in Seq(titles)
           /\ covers' \in Seq(Titles \cup {None}) /\ Len(covers') = Len(view')
           /\ covers' = [c \in DOMAIN view' |-> None]
           /\ queue' \in Seq(JobType)
           /\ Elems(queue') \subseteq
                  Elems(jobs) \cup {Job("cover", view'[c], c, gen) : c \in DOMAIN view'}
<1>1. PICK v \in Arrangements(titles), grid \in BOOLEAN :
          /\ view' = v /\ covers' = [c \in DOMAIN v |-> None] /\ listGen' = gen
          /\ queue' = jobs \o (IF grid THEN CoverJobs(v, gen) ELSE <<>>)
    BY DEF Populate
<1>2. /\ v \in Seq(titles)
      /\ [c \in DOMAIN v |-> None] \in Seq(Titles \cup {None})
      /\ Len([c \in DOMAIN v |-> None]) = Len(v)
      /\ CoverJobs(v, gen) \in Seq(JobType)
      /\ Elems(CoverJobs(v, gen)) = {Job("cover", v[c], c, gen) : c \in DOMAIN v}
    BY CellsTyped
<1>3. <<>> \in Seq(JobType) /\ Elems(<<>>) = {}
    BY NoElems
<1>4. CASE grid
    BY <1>1, <1>2, <1>4, CatElems
<1>5. CASE ~grid
    <2>1. queue' = jobs \o <<>>
        BY <1>1, <1>5
    <2>2. queue' \in Seq(JobType) /\ Elems(queue') = Elems(jobs)
        BY <1>3, <2>1, CatElems
    <2> QED BY <1>1, <1>2, <2>2
<1> QED BY <1>4, <1>5

\* The worker's turn is a job of the queue.
LEMMA JobTyped ==
    ASSUME QueueType, queue # <<>>
    PROVE  /\ job \in JobType /\ job \in Elems(queue)
           /\ Tail(queue) \in Seq(JobType)
           /\ Elems(queue) = {job} \cup Elems(Tail(queue))
BY TailElems DEF QueueType, job

\* What replacing fields of a crawl leaves.
WithTodo(c, s) == [c EXCEPT !.todo = s]
WithVisited(c, ps, n) == [c EXCEPT !.visited = ps, !.requests = n]

LEMMA PoppedFields ==
    ASSUME NEW c \in CrawlType, NEW s \in Seq(Pages)
    PROVE  LET d == WithTodo(c, s) IN
           /\ d \in CrawlType
           /\ d.todo = s /\ d.visited = c.visited /\ d.requests = c.requests
           /\ d.entries = c.entries /\ d.merged = c.merged
           /\ d.truncated = c.truncated /\ d.running = c.running
BY DEF CrawlType, WithTodo

LEMMA AskedFields ==
    ASSUME NEW c \in CrawlType, NEW ps \in SUBSET Pages, NEW n \in Nat
    PROVE  LET d == WithVisited(c, ps, n) IN
           /\ d \in CrawlType
           /\ d.todo = c.todo /\ d.visited = ps /\ d.requests = n
           /\ d.entries = c.entries /\ d.merged = c.merged
           /\ d.truncated = c.truncated /\ d.running = c.running
BY DEF CrawlType, WithVisited

\* A page that is asked for leaves the crawl well typed and counted.
LEMMA AskedTyped ==
    ASSUME CrawlTyped(crawl), Request
    PROVE  /\ CrawlTyped(Asked)
           /\ Turn \in Pages
           /\ Elems(crawl.todo) = {Turn} \cup Elems(Asked.todo)
           /\ Asked.visited = crawl.visited \cup {Turn}
           /\ Asked.merged = crawl.merged /\ Asked.entries = crawl.entries
           /\ Asked.truncated = crawl.truncated /\ Asked.running = crawl.running
           /\ crawl.running
<1>1. /\ crawl \in CrawlType /\ crawl.todo # <<>> /\ crawl.running
      /\ crawl.requests < maxRequests /\ Turn \notin crawl.visited
    BY DEF CrawlTyped, Request, MayPop, Busy, Running
<1>2. crawl.todo \in Seq(Pages)
    BY <1>1 DEF CrawlType
<1>3. /\ Turn \in Pages /\ Tail(crawl.todo) \in Seq(Pages)
      /\ Elems(crawl.todo) = {Turn} \cup Elems(Tail(crawl.todo))
    BY <1>1, <1>2, TailElems DEF Turn
<1>4. /\ Asked \in CrawlType
      /\ Asked.todo = Tail(crawl.todo) /\ Asked.visited = crawl.visited \cup {Turn}
      /\ Asked.requests = crawl.requests + 1 /\ Asked.entries = crawl.entries
      /\ Asked.merged = crawl.merged /\ Asked.truncated = crawl.truncated
      /\ Asked.running = crawl.running
    <2>2. Popped = WithTodo(crawl, Tail(crawl.todo))
        BY DEF Popped, WithTodo
    <2>3. /\ Popped \in CrawlType
          /\ Popped.todo = Tail(crawl.todo) /\ Popped.visited = crawl.visited
          /\ Popped.requests = crawl.requests /\ Popped.entries = crawl.entries
          /\ Popped.merged = crawl.merged /\ Popped.truncated = crawl.truncated
          /\ Popped.running = crawl.running
        BY <1>1, <1>3, <2>2, PoppedFields
    <2>4. Popped.visited \cup {Turn} \in SUBSET Pages /\ Popped.requests + 1 \in Nat
        BY <1>3, <2>3 DEF CrawlType
    <2>5. Asked = WithVisited(Popped, Popped.visited \cup {Turn}, Popped.requests + 1)
        BY DEF Asked, WithVisited
    <2> QED BY <2>3, <2>4, <2>5, AskedFields
<1>5. /\ IsFiniteSet(crawl.visited \cup {Turn})
      /\ Cardinality(crawl.visited \cup {Turn}) = Cardinality(crawl.visited) + 1
    BY <1>1, FS_AddElement DEF CrawlTyped
<1>7. crawl.requests \in Nat /\ crawl.requests = Cardinality(crawl.visited)
    BY <1>1 DEF CrawlType, CrawlTyped
<1>8. Asked.requests = Cardinality(Asked.visited) /\ Asked.requests <= maxRequests
    BY <1>1, <1>4, <1>5, <1>7, CatalogAssumption
<1> QED BY <1>1, <1>3, <1>4, <1>5, <1>8 DEF CrawlTyped

\* Merging adds the titles of the page, if it parses.
LEMMA MergedTyped ==
    ASSUME CrawlTyped(crawl), CardType, Request
    PROVE  /\ CrawlTyped(Merged)
           /\ Merged.todo = Asked.todo /\ Merged.visited = Asked.visited
           /\ Merged.merged = crawl.merged \cup Lists(site, Turn)
           /\ Merged.truncated = crawl.truncated /\ Merged.running
           /\ Children \in Seq(Pages) /\ Elems(Children) = Links(site, Turn)
<1>1. CrawlTyped(Asked) /\ Turn \in Pages /\ Asked.merged = crawl.merged
      /\ Asked.truncated = crawl.truncated /\ Asked.running
    BY AskedTyped
<1>2. site.dirs[Turn] \in Seq(Pages) /\ site.files[Turn] \in SUBSET Titles
    BY <1>1, SiteTyped DEF CardType
<1>3. Cardinality(site.files[Turn]) \in Nat
    BY <1>2, CatalogAssumption, FS_Subset, FS_CardinalityType
<1>4. Asked \in CrawlType
    BY <1>1 DEF CrawlTyped
<1> DEFINE found == IF Parses THEN site.files[Turn] ELSE {}
           count == IF Parses THEN Cardinality(site.files[Turn]) ELSE 0
<1>5. found \in SUBSET Titles /\ count \in Nat /\ found = Lists(site, Turn)
    BY <1>2, <1>3 DEF Parses, Lists
<1>6. Merged = [todo |-> Asked.todo, visited |-> Asked.visited,
                requests |-> Asked.requests, entries |-> Asked.entries + count,
                merged |-> Asked.merged \cup found, truncated |-> Asked.truncated,
                running |-> Asked.running]
    <2>1. Merged = [Asked EXCEPT !.merged = @ \cup found, !.entries = @ + count]
        BY DEF Merged
    <2> HIDE DEF found, count
    <2> QED BY <1>4, <2>1 DEF CrawlType
<1>7. Merged \in CrawlType
    BY <1>4, <1>5, <1>6 DEF CrawlType
<1>8. CrawlTyped(Merged)
    BY <1>1, <1>6, <1>7 DEF CrawlTyped
<1>9. Children \in Seq(Pages) /\ Elems(Children) = Links(site, Turn)
    BY <1>2, NoElems DEF Children, Parses, Links, Elems
<1> HIDE DEF found, count
<1> QED BY <1>1, <1>5, <1>6, <1>8, <1>9

\* What a merged page does to the crawl.
LEMMA PageMergedTo ==
    ASSUME CrawlTyped(crawl), CardType, PageMerged
    PROVE  /\ CrawlTyped(crawl')
           /\ crawl'.visited = crawl.visited \cup {Turn}
           /\ crawl'.merged = crawl.merged \cup Lists(site, Turn)
           /\ crawl'.running
           /\ \/ /\ Elems(crawl'.todo) = Elems(Asked.todo) \cup Links(site, Turn)
                 /\ crawl'.truncated = crawl.truncated
              \/ /\ Elems(crawl'.todo) = Elems(Asked.todo)
                 /\ crawl'.truncated \/ (Links(site, Turn) = {} /\ ~crawl.truncated)
<1>1. Request
    BY DEF PageMerged
<1>2. /\ CrawlTyped(Merged)
      /\ Merged.todo = Asked.todo /\ Merged.visited = crawl.visited \cup {Turn}
      /\ Merged.merged = crawl.merged \cup Lists(site, Turn)
      /\ Merged.truncated = crawl.truncated /\ Merged.running
      /\ Children \in Seq(Pages) /\ Elems(Children) = Links(site, Turn)
    BY <1>1, MergedTyped, AskedTyped
<1>3. Merged \in CrawlType
    BY <1>2 DEF CrawlTyped
<1>4. Merged.todo \in Seq(Pages)
    BY <1>3 DEF CrawlType
<1>5. /\ Merged.todo \o Children \in Seq(Pages)
      /\ Elems(Merged.todo \o Children) = Elems(Merged.todo) \cup Elems(Children)
    BY <1>2, <1>4, CatElems
<1>6. CASE crawl' = [Merged EXCEPT !.todo = @ \o Children]
    <2>1. crawl' = [todo |-> Merged.todo \o Children, visited |-> Merged.visited,
                    requests |-> Merged.requests, entries |-> Merged.entries,
                    merged |-> Merged.merged, truncated |-> Merged.truncated,
                    running |-> Merged.running]
        BY <1>3, <1>6 DEF CrawlType
    <2>2. crawl' \in CrawlType
        BY <1>3, <1>5, <2>1 DEF CrawlType
    <2>3. CrawlTyped(crawl')
        BY <1>2, <2>1, <2>2 DEF CrawlTyped
    <2> QED BY <1>2, <1>5, <2>1, <2>3
<1>7. CASE crawl' = [Merged EXCEPT !.truncated = @ \/ Children # <<>>]
    <2>1. crawl' = [todo |-> Merged.todo, visited |-> Merged.visited,
                    requests |-> Merged.requests, entries |-> Merged.entries,
                    merged |-> Merged.merged,
                    truncated |-> Merged.truncated \/ Children # <<>>,
                    running |-> Merged.running]
        BY <1>3, <1>7 DEF CrawlType
    <2>2. crawl' \in CrawlType
        BY <1>3, <2>1 DEF CrawlType
    <2>3. CrawlTyped(crawl')
        BY <1>2, <2>1, <2>2 DEF CrawlTyped
    <2>4. crawl'.truncated \/ (Children = <<>> /\ ~Merged.truncated)
        BY <1>3, <2>1 DEF CrawlType
    <2>5. Children = <<>> => Links(site, Turn) = {}
        BY <1>2, NoElems
    <2> QED BY <1>2, <2>1, <2>3, <2>4, <2>5
<1> QED BY <1>6, <1>7 DEF PageMerged

\* The next state of a crawl that ended.
LEMMA CrawlOkTyped ==
    ASSUME TypeInv, Crawling, NEW result \in CrawlType, CrawlOk(result)
    PROVE  TypeInv'
<1>1. job \in JobType /\ Tail(queue) \in Seq(JobType)
    BY JobTyped DEF TypeInv, Crawling
<1>2. result.merged \in SUBSET Titles
    BY DEF CrawlType
<1>3. CrawlTyped(crawl')
    BY NoCrawlTyped DEF CrawlOk
<1>4. CASE job.mine
    <2>1. listGen + 1 \in Nat
        BY DEF TypeInv, ScreenType
    <2>2. Populate(result.merged, listGen + 1, Tail(queue)) /\ list' = result.merged
        BY <1>4 DEF CrawlOk
    <2>3. /\ listGen' \in Nat /\ view' \in Seq(list')
          /\ covers' \in Seq(Titles \cup {None}) /\ Len(covers') = Len(view')
          /\ QueueType'
        BY <1>1, <1>2, <2>1, <2>2, PopulateTyped DEF QueueType
    <2>4. ScreenType'
        BY <1>2, <1>4, <2>2, <2>3 DEF CrawlOk, TypeInv, ScreenType
    <2>5. CardType'
        BY <1>2, <1>4 DEF CrawlOk, TypeInv, CardType, Whole, Torn, coverart
    <2> QED BY <1>3, <2>3, <2>4, <2>5 DEF TypeInv
<1>5. CASE ~job.mine
    <2>1. ScreenType' /\ QueueType' /\ CardType'
        BY <1>1, <1>5 DEF CrawlOk, TypeInv, ScreenType, QueueType, CardType, coverart
    <2> QED BY <1>3, <2>1 DEF TypeInv
<1> QED BY <1>4, <1>5

LEMMA CrawlFailTyped ==
    ASSUME TypeInv, Crawling, CrawlFail
    PROVE  TypeInv'
<1>1. job \in JobType /\ Tail(queue) \in Seq(JobType)
    BY JobTyped DEF TypeInv, Crawling
<1>2. CrawlTyped(crawl')
    BY NoCrawlTyped DEF CrawlFail
<1>3. ScreenType' /\ QueueType' /\ CardType'
    BY <1>1 DEF CrawlFail, TypeInv, ScreenType, QueueType, CardType, coverart
<1> QED BY <1>2, <1>3 DEF TypeInv

\* A step that touches only the crawl.
LEMMA CrawlOnlyTyped ==
    ASSUME TypeInv, CrawlTyped(crawl'), UNCHANGED <<site, cached, screen, queue, coverart>>
    PROVE  TypeInv'
BY DEF TypeInv, ScreenType, QueueType, CardType, screen, coverart

\* The crawls that the steps of fetch_index go on with.
LEMMA TruncatedTyped ==
    ASSUME NEW c, CrawlTyped(c)
    PROVE  /\ CrawlTyped([c EXCEPT !.truncated = TRUE])
           /\ LET d == [c EXCEPT !.truncated = TRUE] IN
              /\ d.merged = c.merged /\ d.truncated /\ d.todo = c.todo
              /\ d.visited = c.visited /\ d.running = c.running
BY DEF CrawlTyped, CrawlType

LEMMA PoppedTyped ==
    ASSUME CrawlTyped(crawl), MayPop
    PROVE  /\ CrawlTyped(Popped) /\ Turn \in Pages
           /\ Elems(crawl.todo) = {Turn} \cup Elems(Popped.todo)
           /\ Popped.visited = crawl.visited /\ Popped.merged = crawl.merged
           /\ Popped.truncated = crawl.truncated /\ Popped.running = crawl.running
<1>1. crawl \in CrawlType /\ crawl.todo # <<>>
    BY DEF CrawlTyped, MayPop, Busy
<1>2. crawl.todo \in Seq(Pages)
    BY <1>1 DEF CrawlType
<1>3. /\ Turn \in Pages /\ Tail(crawl.todo) \in Seq(Pages)
      /\ Elems(crawl.todo) = {Turn} \cup Elems(Tail(crawl.todo))
    BY <1>1, <1>2, TailElems DEF Turn
<1>4. Popped = WithTodo(crawl, Tail(crawl.todo))
    BY DEF Popped, WithTodo
<1> QED BY <1>1, <1>3, <1>4, PoppedFields DEF CrawlTyped

Started(c) == [c EXCEPT !.todo = <<Root>>, !.running = TRUE]

LEMMA StartTyped ==
    LET d == [NoCrawl EXCEPT !.todo = <<Root>>, !.running = TRUE] IN
    /\ CrawlTyped(d)
    /\ d.todo = <<Root>> /\ d.visited = {} /\ d.merged = {} /\ d.running
<1>1. <<Root>> \in Seq(Pages)
    BY CatalogAssumption
<1>2. ASSUME NEW c \in CrawlType
      PROVE  LET d == Started(c) IN
             /\ d \in CrawlType /\ d.todo = <<Root>> /\ d.visited = c.visited
             /\ d.requests = c.requests /\ d.merged = c.merged /\ d.running
    BY <1>1 DEF CrawlType, Started
<1>3. CrawlTyped(NoCrawl)
    BY NoCrawlTyped
<1>4. NoCrawl.visited = {} /\ NoCrawl.merged = {}
    BY DEF NoCrawl
<1>5. [NoCrawl EXCEPT !.todo = <<Root>>, !.running = TRUE] = Started(NoCrawl)
    BY DEF Started
<1>6. LET d == Started(NoCrawl) IN
      /\ CrawlTyped(d)
      /\ d.todo = <<Root>> /\ d.visited = {} /\ d.merged = {} /\ d.running
    BY <1>2, <1>3, <1>4 DEF CrawlTyped
<1> QED BY <1>5, <1>6

-------------------------------------------------------------------------------
(* Steps of the screen and of the covers *)

LEMMA OpenTyped ==
    ASSUME TypeInv, Open
    PROVE  /\ TypeInv'
           /\ covers' = [c \in DOMAIN view' |-> None]
           /\ Elems(queue') \subseteq Elems(queue) \cup {CrawlJob}
                  \cup {Job("cover", view'[c], c, listGen') : c \in DOMAIN view'}
<1>1. queue \in Seq(JobType) /\ <<CrawlJob>> \in Seq(JobType) /\ Elems(<<CrawlJob>>) = {CrawlJob}
    BY CrawlJobTyped, OneElem DEF TypeInv, QueueType
<1>2. crawl' = crawl /\ CardType'
    BY DEF Open, TypeInv, CardType, coverart
<1>3. CrawlTyped(crawl')
    BY <1>2 DEF TypeInv
<1>4. CASE cached # NoIndex
    <2>1. list' \in SUBSET Titles
        BY <1>4 DEF Open, TypeInv, CardType
    <2>2. PICK v \in Arrangements(list') :
              /\ view' = v /\ listGen' = 1 /\ covers' = [c \in DOMAIN v |-> None]
              /\ queue' = queue \o CoverJobs(v, 1) \o <<CrawlJob>>
        BY <1>4 DEF Open
    <2>3. /\ v \in Seq(list')
          /\ [c \in DOMAIN v |-> None] \in Seq(Titles \cup {None})
          /\ Len([c \in DOMAIN v |-> None]) = Len(v)
          /\ CoverJobs(v, 1) \in Seq(JobType)
          /\ Elems(CoverJobs(v, 1)) = {Job("cover", v[c], c, 1) : c \in DOMAIN v}
        BY <2>1, CellsTyped
    <2>4. /\ queue \o CoverJobs(v, 1) \in Seq(JobType)
          /\ Elems(queue \o CoverJobs(v, 1)) = Elems(queue) \cup Elems(CoverJobs(v, 1))
        BY <1>1, <2>3, CatElems
    <2>5. /\ queue' \in Seq(JobType)
          /\ Elems(queue') = Elems(queue \o CoverJobs(v, 1)) \cup {CrawlJob}
        <3> DEFINE jobs == queue \o CoverJobs(v, 1)
        <3>1. jobs \in Seq(JobType) /\ queue' = jobs \o <<CrawlJob>>
            BY <2>2, <2>4
        <3> HIDE DEF jobs
        <3>2. /\ jobs \o <<CrawlJob>> \in Seq(JobType)
              /\ Elems(jobs \o <<CrawlJob>>) = Elems(jobs) \cup Elems(<<CrawlJob>>)
            BY <1>1, <3>1, CatElems
        <3>3. queue' \in Seq(JobType) /\ Elems(queue') = Elems(jobs) \cup {CrawlJob}
            BY <1>1, <3>1, <3>2
        <3> QED BY <3>3 DEF jobs
    <2>6. ScreenType'
        BY <1>4, <2>1, <2>2, <2>3 DEF Open, ScreenType, TypeInv
    <2> QED BY <1>2, <1>3, <2>2, <2>3, <2>4, <2>5, <2>6 DEF TypeInv, QueueType
<1>5. CASE cached = NoIndex
    <2>1. /\ list' = {} /\ view' = <<>> /\ covers' = <<>> /\ listGen' = 0
          /\ queue' = Append(queue, CrawlJob)
        BY <1>5 DEF Open
    <2>2. Append(queue, CrawlJob) = queue \o <<CrawlJob>>
        BY <1>1
    <2>3. queue' \in Seq(JobType) /\ Elems(queue') = Elems(queue) \cup {CrawlJob}
        <3>1. /\ queue \o <<CrawlJob>> \in Seq(JobType)
              /\ Elems(queue \o <<CrawlJob>>) = Elems(queue) \cup Elems(<<CrawlJob>>)
            BY <1>1, CatElems
        <3> QED BY <1>1, <2>1, <2>2, <3>1
    <2>4. ScreenType'
        BY <1>5, <2>1 DEF Open, ScreenType, TypeInv
    <2>5. covers' = [c \in DOMAIN view' |-> None]
        BY <2>1
    <2> QED BY <1>2, <1>3, <2>3, <2>4, <2>5 DEF TypeInv, QueueType
<1> QED BY <1>4, <1>5

LEMMA RearrangeTyped ==
    ASSUME TypeInv, Rearrange
    PROVE  TypeInv'
<1>1. Populate(list, listGen + 1, queue) /\ listGen + 1 \in Nat /\ list \in SUBSET Titles
      /\ queue \in Seq(JobType)
    BY DEF Rearrange, TypeInv, ScreenType, QueueType
<1>2. /\ listGen' \in Nat /\ view' \in Seq(list)
      /\ covers' \in Seq(Titles \cup {None}) /\ Len(covers') = Len(view')
      /\ QueueType'
    BY <1>1, PopulateTyped DEF QueueType
<1>3. ScreenType' /\ CardType' /\ CrawlTyped(crawl')
    BY <1>2 DEF Rearrange, TypeInv, ScreenType, CardType, coverart
<1> QED BY <1>2, <1>3 DEF TypeInv

\* A screen before it shows anything.
LEMMA BlankTyped ==
    ASSUME here' = FALSE, list' = {}, view' = <<>>, covers' = <<>>, listGen' = 0,
           loading' = FALSE, note' = "none", outcome' = "pending"
    PROVE  ScreenType'
<1>1. <<>> \in Seq(list') /\ list' \in SUBSET Titles
    OBVIOUS
<1>2. <<>> \in Seq(Titles \cup {None})
    OBVIOUS
<1>3. Len(covers') = Len(view')
    OBVIOUS
<1>4. here' \in BOOLEAN /\ loading' \in BOOLEAN /\ listGen' \in Nat
    OBVIOUS
<1>5. view' \in Seq(list') /\ covers' \in Seq(Titles \cup {None})
    BY <1>1, <1>2
<1>6. note' \in {"none", "offline", "truncated"} /\ outcome' \in {"pending", "ok", "error"}
    OBVIOUS
<1> QED BY <1>1, <1>3, <1>4, <1>5, <1>6 DEF ScreenType

\* A screen that is left disowns its jobs.
Disowned(j) == [j EXCEPT !.mine = FALSE]

LEMMA DisownedTyped ==
    ASSUME NEW j \in JobType
    PROVE  Disowned(j) \in JobType /\ ~Disowned(j).mine
<1>1. CASE j \in [kind : {"crawl"}, title : {None}, cell : {0}, gen : {0}, mine : BOOLEAN]
    BY <1>1 DEF JobType, Disowned
<1>2. CASE j \in [kind : {"cover"}, title : Titles, cell : Nat, gen : Nat, mine : BOOLEAN]
    BY <1>2 DEF JobType, Disowned
<1> QED BY <1>1, <1>2 DEF JobType

LEMMA LeaveTyped ==
    ASSUME TypeInv, Leave
    PROVE  TypeInv' /\ \A j \in Elems(queue') : ~j.mine
<1>1. queue \in Seq(JobType)
    BY DEF TypeInv, QueueType
<1>2. ASSUME NEW n \in DOMAIN queue
      PROVE  Disowned(queue[n]) \in JobType /\ ~Disowned(queue[n]).mine
    BY <1>1, DisownedTyped
<1>3. queue' = [n \in DOMAIN queue |-> Disowned(queue[n])]
    BY DEF Leave, Disowned
<1>4. queue' \in Seq(JobType) /\ \A j \in Elems(queue') : ~j.mine
    BY <1>1, <1>2, <1>3 DEF Elems
<1>5. ScreenType'
    BY BlankTyped DEF Leave
<1>6. CardType' /\ CrawlTyped(crawl')
    BY DEF Leave, TypeInv, CardType, coverart
<1> QED BY <1>4, <1>5, <1>6 DEF TypeInv, QueueType

LEMMA RestartTyped == TypeInv /\ Restart => TypeInv'
<1> SUFFICES ASSUME TypeInv, Restart PROVE TypeInv'
    OBVIOUS
<1>1. CrawlTyped(crawl')
    BY NoCrawlTyped DEF Restart
<1>2. ScreenType'
    BY BlankTyped DEF Restart
<1>3. CardType' /\ QueueType'
    BY DEF Restart, TypeInv, CardType, QueueType
<1> QED BY <1>1, <1>2, <1>3 DEF TypeInv

\* A cover goes to a cell of the list that asked for it.
LEMMA CoverTyped ==
    ASSUME TypeInv, Cover
    PROVE  /\ TypeInv'
           /\ covers' = covers \/ /\ job.mine /\ job.gen = listGen
                                  /\ covers' = [covers EXCEPT ![job.cell] = job.title]
<1>1. /\ job \in JobType /\ Tail(queue) \in Seq(JobType) /\ queue' = Tail(queue)
      /\ job.title \in Titles
    BY JobTyped DEF TypeInv, Cover, JobType
<1>2. PICK found \in BOOLEAN :
          /\ Resolved(job.title, found)
          /\ covers' = IF job.mine /\ Current(job) /\ found
                       THEN [covers EXCEPT ![job.cell] = job.title] ELSE covers
    BY DEF Cover
<1>3. covers' = covers \/ /\ job.mine /\ job.gen = listGen
                          /\ covers' = [covers EXCEPT ![job.cell] = job.title]
    BY <1>2 DEF Current
<1>4. covers' \in Seq(Titles \cup {None}) /\ Len(covers') = Len(covers)
    <2>1. covers \in Seq(Titles \cup {None})
        BY DEF TypeInv, ScreenType
    <2>2. ASSUME NEW s \in Seq(Titles \cup {None}), NEW c, NEW t \in Titles
          PROVE  LET s2 == [s EXCEPT ![c] = t] IN
                 s2 \in Seq(Titles \cup {None}) /\ Len(s2) = Len(s)
        <3>1. Len(s) \in Nat /\ s \in [1 .. Len(s) -> Titles \cup {None}]
            OBVIOUS
        <3>2. [s EXCEPT ![c] = t] \in [1 .. Len(s) -> Titles \cup {None}]
            BY <3>1
        <3> QED BY <3>1, <3>2
    <2>3. CASE covers' = covers
        BY <2>1, <2>3
    <2>4. CASE covers' = [covers EXCEPT ![job.cell] = job.title]
        BY <1>1, <2>1, <2>2, <2>4
    <2> QED BY <1>3, <2>3, <2>4
<1>5. CardType'
    <2>1. index \in {"unloaded", "loaded", "failed"} /\ art \in SUBSET Titles
        BY DEF TypeInv, CardType
    <2>2. index' \in {"unloaded", "loaded", "failed"} /\ art' \in SUBSET Titles
        BY <1>1, <1>2, <2>1 DEF Resolved, Index, coverart
    <2> QED BY <2>2 DEF Cover, TypeInv, CardType
<1>6. ScreenType' /\ QueueType' /\ CrawlTyped(crawl')
    BY <1>1, <1>4 DEF Cover, TypeInv, ScreenType, QueueType
<1> QED BY <1>3, <1>5, <1>6 DEF TypeInv

-------------------------------------------------------------------------------
(* The invariant of types *)

LEMMA InitTyped == Init => TypeInv
<1> SUFFICES ASSUME Init PROVE TypeInv
    OBVIOUS
<1>1. <<>> \in Seq(list) /\ <<>> \in Seq(Titles \cup {None}) /\ <<>> \in Seq(JobType)
    OBVIOUS
<1>2. ScreenType
    BY <1>1 DEF Init, ScreenType
<1>3. CardType
    BY DEF Init, CardType, NoIndex
<1>4. QueueType /\ CrawlTyped(crawl)
    BY <1>1, NoCrawlTyped DEF Init, QueueType
<1> QED BY <1>2, <1>3, <1>4 DEF TypeInv

\* The crawl that ended a step was well typed.
LEMMA EndedTyped ==
    /\ TypeInv /\ Finished => crawl \in CrawlType /\ CrawlOk(crawl) /\ Crawling
    /\ TypeInv /\ OutOfRequests =>
           LET c == [crawl EXCEPT !.truncated = TRUE] IN
           c \in CrawlType /\ CrawlOk(c) /\ Crawling
    /\ TypeInv /\ TooManyEntries =>
           LET c == [Merged EXCEPT !.truncated = TRUE] IN
           c \in CrawlType /\ CrawlOk(c) /\ Crawling
<1>1. TypeInv => CrawlTyped(crawl) /\ CardType
    BY DEF TypeInv
<1>2. ASSUME TypeInv, Finished PROVE crawl \in CrawlType /\ CrawlOk(crawl) /\ Crawling
    BY <1>1, <1>2 DEF CrawlTyped, Finished, Running
<1>3. ASSUME TypeInv, OutOfRequests
      PROVE  LET c == [crawl EXCEPT !.truncated = TRUE] IN
             c \in CrawlType /\ CrawlOk(c) /\ Crawling
    <2>1. CrawlTyped([crawl EXCEPT !.truncated = TRUE])
        BY <1>1, <1>3, TruncatedTyped
    <2> QED BY <1>3, <2>1 DEF CrawlTyped, OutOfRequests, Busy, Running
<1>4. ASSUME TypeInv, TooManyEntries
      PROVE  LET c == [Merged EXCEPT !.truncated = TRUE] IN
             c \in CrawlType /\ CrawlOk(c) /\ Crawling
    <2>1. CrawlTyped(Merged)
        BY <1>1, <1>4, MergedTyped DEF TooManyEntries
    <2>2. CrawlTyped([Merged EXCEPT !.truncated = TRUE])
        BY <2>1, TruncatedTyped
    <2> QED BY <1>4, <2>2 DEF CrawlTyped, TooManyEntries, Request, MayPop, Busy, Running
<1> QED BY <1>2, <1>3, <1>4

LEMMA TypeStep == TypeInv /\ [Next]_vars => TypeInv'
<1> SUFFICES ASSUME TypeInv, [Next]_vars PROVE TypeInv'
    OBVIOUS
<1>0. CrawlTyped(crawl) /\ CardType
    BY DEF TypeInv
<1>1. CASE CrawlStart
    BY <1>1, StartTyped, CrawlOnlyTyped DEF CrawlStart
<1>2. CASE Finished
    BY <1>2, EndedTyped, CrawlOkTyped
<1>3. CASE OutOfRequests
    <2>1. PICK c \in CrawlType : CrawlOk(c) /\ Crawling
        BY <1>3, EndedTyped
    <2> QED BY <2>1, CrawlOkTyped
<1>4. CASE TooManyEntries
    <2>1. PICK c \in CrawlType : CrawlOk(c) /\ Crawling
        BY <1>4, EndedTyped
    <2> QED BY <2>1, CrawlOkTyped
<1>5. CASE Cancelled
    BY <1>5, CrawlFailTyped DEF Cancelled, Busy, Running
<1>6. CASE RootFails
    BY <1>6, CrawlFailTyped DEF RootFails, Request, MayPop, Busy, Running
<1>7. CASE Skip
    BY <1>0, <1>7, PoppedTyped, CrawlOnlyTyped DEF Skip
<1>8. CASE PageFails
    <2>1. CrawlTyped(Asked)
        BY <1>0, <1>8, AskedTyped DEF PageFails
    <2>2. CrawlTyped(Missed(Asked))
        BY <2>1, TruncatedTyped DEF Missed
    <2> QED BY <1>8, <2>2, CrawlOnlyTyped DEF PageFails
<1>9. CASE PageMerged
    <2>1. CrawlTyped(crawl')
        BY <1>0, <1>9, PageMergedTo
    <2> QED BY <1>9, <2>1, CrawlOnlyTyped DEF PageMerged
<1>10. CASE Cover
    BY <1>10, CoverTyped
<1>11. CASE Open
    BY <1>11, OpenTyped
<1>12. CASE Rearrange
    BY <1>12, RearrangeTyped
<1>13. CASE Leave
    BY <1>13, LeaveTyped
<1>14. CASE Restart
    BY <1>14, RestartTyped
<1>15. CASE UNCHANGED vars
    BY <1>15 DEF vars, screen, coverart, TypeInv, ScreenType, QueueType, CrawlTyped, CardType
<1> QED
    BY <1>1, <1>2, <1>3, <1>4, <1>5, <1>6, <1>7, <1>8, <1>9, <1>10, <1>11, <1>12, <1>13,
       <1>14, <1>15 DEF Next, Worker, User

\* A crawl asks for each page once and for at most maxRequests, and the cells
\* are a sequence of the list's titles with a place for a cover each, whatever
\* the sites and the bounds are.
THEOREM CatalogTyped == Spec => []TypeOK
<1>1. Spec => []TypeInv
    BY InitTyped, TypeStep, PTL DEF Spec
<1> QED BY <1>1, TypeInvImplies, PTL

-------------------------------------------------------------------------------
(* Covers.  A job of an open screen carries the generation of the list it  *)
(* was made for; only with the present one does its cell hold its title.   *)

JobOk(j) ==
    j.mine =>
        /\ here
        /\ j.kind = "cover" =>
               /\ j.gen <= listGen
               /\ j.gen = listGen => j.cell \in DOMAIN view /\ view[j.cell] = j.title

CoverInv == /\ \A j \in Elems(queue) : JobOk(j)
            /\ DOMAIN covers = DOMAIN view
            /\ CoverOfItsTitle

\* New cells have no cover yet, and their jobs name the title in the cell;
\* jobs of lists before are older.
LEMMA FreshCovers ==
    ASSUME TypeInv', here', covers' = [c \in DOMAIN view' |-> None],
           NEW old,
           Elems(queue') \subseteq old
               \cup {Job("cover", view'[c], c, listGen') : c \in DOMAIN view'},
           \A j \in old : j.mine /\ j.kind = "cover" => j.gen < listGen',
           \A j \in old : j \in JobType
    PROVE  CoverInv'
<1>1. ASSUME NEW j \in Elems(queue') PROVE JobOk(j)'
    <2>1. CASE j \in old
        <3>1. j.gen \in Nat /\ listGen' \in Nat
            BY <2>1 DEF JobType, TypeInv, ScreenType
        <3> QED BY <2>1, <3>1 DEF JobOk
    <2>2. CASE j \notin old
        <3>1. PICK c \in DOMAIN view' : j = Job("cover", view'[c], c, listGen')
            BY <1>1, <2>2
        <3>2. j.gen = listGen' /\ j.cell = c /\ j.title = view'[c]
            BY <3>1 DEF Job
        <3>3. listGen' \in Nat
            BY DEF TypeInv, ScreenType
        <3> QED BY <3>1, <3>2, <3>3 DEF JobOk
    <2> QED BY <2>1, <2>2
<1>2. DOMAIN covers' = DOMAIN view' /\ CoverOfItsTitle'
    BY DEF CoverOfItsTitle
<1> QED BY <1>1, <1>2 DEF CoverInv

\* A step that leaves the list and only takes jobs away.
LEMMA SameCovers ==
    ASSUME CoverInv, UNCHANGED <<here, view, covers, listGen>>,
           Elems(queue') \subseteq Elems(queue)
    PROVE  CoverInv'
BY DEF CoverInv, JobOk, CoverOfItsTitle

\* A screen that shows nothing, with jobs that are nobody's.
LEMMA NoCovers ==
    ASSUME view' = <<>>, covers' = <<>>, \A j \in Elems(queue') : ~j.mine
    PROVE  CoverInv'
BY DEF CoverInv, JobOk, CoverOfItsTitle

\* The jobs of a queue are jobs, and older than the next list.
LEMMA OldJobs ==
    ASSUME TypeInv, CoverInv
    PROVE  \A j \in Elems(queue) :
               /\ j \in JobType
               /\ j.mine => here
               /\ j.mine /\ j.kind = "cover" => j.gen < listGen + 1
<1>1. queue \in Seq(JobType) /\ listGen \in Nat
    BY DEF TypeInv, QueueType, ScreenType
<1>2. Elems(queue) \subseteq JobType
    BY <1>1, ElemAt
<1> SUFFICES ASSUME NEW j \in Elems(queue)
             PROVE  /\ j \in JobType
                    /\ j.mine => here
                    /\ j.mine /\ j.kind = "cover" => j.gen < listGen + 1
    OBVIOUS
<1>3. j \in JobType /\ JobOk(j)
    BY <1>2 DEF CoverInv
<1>4. j.gen \in Nat
    BY <1>3 DEF JobType
<1> QED BY <1>1, <1>3, <1>4 DEF JobOk

LEMMA CrawlOkCovers ==
    ASSUME TypeInv, TypeInv', CoverInv, Crawling, NEW result \in CrawlType, CrawlOk(result)
    PROVE  CoverInv'
<1>1. /\ job \in Elems(queue) /\ Tail(queue) \in Seq(JobType)
      /\ Elems(Tail(queue)) \subseteq Elems(queue)
    BY JobTyped DEF TypeInv, Crawling
<1>2. CASE job.mine
    <2>1. Populate(result.merged, listGen + 1, Tail(queue)) /\ here' = here
        BY <1>2 DEF CrawlOk
    <2>2. result.merged \in SUBSET Titles /\ listGen + 1 \in Nat
        BY DEF CrawlType, TypeInv, ScreenType
    <2>3. /\ listGen' = listGen + 1
          /\ covers' = [c \in DOMAIN view' |-> None]
          /\ Elems(queue') \subseteq Elems(Tail(queue))
                 \cup {Job("cover", view'[c], c, listGen + 1) : c \in DOMAIN view'}
        BY <1>1, <2>1, <2>2, PopulateTyped
    <2>4. here'
        BY <1>1, <1>2, <2>1, OldJobs
    <2>5. \A j \in Elems(Tail(queue)) :
              j \in JobType /\ (j.mine /\ j.kind = "cover" => j.gen < listGen')
        BY <1>1, <2>3, OldJobs
    <2> QED BY <2>3, <2>4, <2>5, FreshCovers
<1>3. CASE ~job.mine
    BY <1>1, <1>3, SameCovers DEF CrawlOk
<1> QED BY <1>2, <1>3

LEMMA CrawlFailCovers ==
    ASSUME TypeInv, CoverInv, Crawling, CrawlFail
    PROVE  CoverInv'
<1>1. Elems(Tail(queue)) \subseteq Elems(queue)
    BY JobTyped DEF TypeInv, Crawling
<1> QED BY <1>1, SameCovers DEF CrawlFail

LEMMA CoverCovers ==
    ASSUME TypeInv, CoverInv, Cover
    PROVE  CoverInv'
<1>1. /\ job \in JobType /\ job \in Elems(queue) /\ queue' = Tail(queue)
      /\ Elems(Tail(queue)) \subseteq Elems(queue)
    BY JobTyped DEF TypeInv, Cover
<1>2. UNCHANGED <<here, view, listGen>>
    BY DEF Cover
<1>3. CASE covers' = covers
    BY <1>1, <1>2, <1>3, SameCovers
<1>4. CASE /\ job.mine /\ job.gen = listGen
           /\ covers' = [covers EXCEPT ![job.cell] = job.title]
    <2>1. job.cell \in DOMAIN view /\ view[job.cell] = job.title
        BY <1>1, <1>4 DEF CoverInv, JobOk, Cover
    <2>2. DOMAIN covers' = DOMAIN view' /\ CoverOfItsTitle'
        BY <1>2, <1>4, <2>1 DEF CoverInv, CoverOfItsTitle
    <2>3. \A j \in Elems(queue') : JobOk(j)'
        BY <1>1, <1>2 DEF CoverInv, JobOk
    <2> QED BY <2>2, <2>3 DEF CoverInv
<1> QED BY <1>3, <1>4, CoverTyped

LEMMA OpenCovers ==
    ASSUME TypeInv, TypeInv', CoverInv, Open
    PROVE  CoverInv'
<1> DEFINE old == Elems(queue) \cup {CrawlJob}
<1>1. /\ covers' = [c \in DOMAIN view' |-> None]
      /\ Elems(queue') \subseteq
             old \cup {Job("cover", view'[c], c, listGen') : c \in DOMAIN view'}
    BY OpenTyped
<1>2. here' /\ ~here
    BY DEF Open
<1>3. CrawlJob \in JobType /\ CrawlJob.kind = "crawl"
    BY CrawlJobTyped DEF CrawlJob, Job
<1>4. \A j \in old : j \in JobType /\ (j.mine /\ j.kind = "cover" => j.gen < listGen')
    BY <1>2, <1>3, OldJobs
<1> HIDE DEF old
<1> QED BY <1>1, <1>2, <1>4, FreshCovers

LEMMA RearrangeCovers ==
    ASSUME TypeInv, TypeInv', CoverInv, Rearrange
    PROVE  CoverInv'
<1>1. /\ Populate(list, listGen + 1, queue) /\ listGen + 1 \in Nat /\ list \in SUBSET Titles
      /\ queue \in Seq(JobType) /\ here'
    BY DEF Rearrange, TypeInv, ScreenType, QueueType
<1>2. /\ listGen' = listGen + 1
      /\ covers' = [c \in DOMAIN view' |-> None]
      /\ Elems(queue') \subseteq Elems(queue)
             \cup {Job("cover", view'[c], c, listGen + 1) : c \in DOMAIN view'}
    BY <1>1, PopulateTyped
<1>3. \A j \in Elems(queue) : j \in JobType /\ (j.mine /\ j.kind = "cover" => j.gen < listGen')
    BY <1>2, OldJobs
<1> QED BY <1>1, <1>2, <1>3, FreshCovers

LEMMA CoverStep == TypeInv /\ TypeInv' /\ CoverInv /\ [Next]_vars => CoverInv'
<1> SUFFICES ASSUME TypeInv, TypeInv', CoverInv, [Next]_vars PROVE CoverInv'
    OBVIOUS
<1>1. CASE UNCHANGED <<screen, queue>>
    BY <1>1 DEF screen, CoverInv, JobOk, CoverOfItsTitle
<1>2. CASE Finished
    BY <1>2, EndedTyped, CrawlOkCovers
<1>3. CASE OutOfRequests
    <2>1. PICK c \in CrawlType : CrawlOk(c) /\ Crawling
        BY <1>3, EndedTyped
    <2> QED BY <2>1, CrawlOkCovers
<1>4. CASE TooManyEntries
    <2>1. PICK c \in CrawlType : CrawlOk(c) /\ Crawling
        BY <1>4, EndedTyped
    <2> QED BY <2>1, CrawlOkCovers
<1>5. CASE Cancelled
    BY <1>5, CrawlFailCovers DEF Cancelled, Busy, Running
<1>6. CASE RootFails
    BY <1>6, CrawlFailCovers DEF RootFails, Request, MayPop, Busy, Running
<1>7. CASE Cover
    BY <1>7, CoverCovers
<1>8. CASE Open
    BY <1>8, OpenCovers
<1>9. CASE Rearrange
    BY <1>9, RearrangeCovers
<1>10. CASE Leave
    <2>1. \A j \in Elems(queue') : ~j.mine
        BY <1>10, LeaveTyped
    <2>2. view' = <<>> /\ covers' = <<>>
        BY <1>10 DEF Leave
    <2> QED BY <2>1, <2>2, NoCovers
<1>11. CASE Restart
    <2>1. Elems(queue') = {}
        BY <1>11, NoElems DEF Restart
    <2>2. view' = <<>> /\ covers' = <<>>
        BY <1>11 DEF Restart
    <2> QED BY <2>1, <2>2, NoCovers
<1>12. CrawlStart \/ Skip \/ PageFails \/ PageMerged \/ UNCHANGED vars
           => UNCHANGED <<screen, queue>>
    BY DEF CrawlStart, Skip, PageFails, PageMerged, vars
<1> QED
    BY <1>1, <1>2, <1>3, <1>4, <1>5, <1>6, <1>7, <1>8, <1>9, <1>10, <1>11, <1>12
    DEF Next, Worker, User

LEMMA InitCovers == Init => CoverInv
BY NoElems DEF Init, CoverInv, CoverOfItsTitle

\* catalog_activity.cpp 333-366: a cell never shows the cover of another
\* title, however often the list was sorted, filtered or replaced while the
\* worker looked for it.
THEOREM CoversInPlace == Spec => []CoverOfItsTitle
<1>1. CoverInv => CoverOfItsTitle
    BY DEF CoverInv
<1>2. TypeInv /\ CoverInv /\ [Next]_vars => TypeInv' /\ CoverInv'
    BY TypeStep, CoverStep
<1>3. Spec => [](TypeInv /\ CoverInv)
    BY <1>2, InitTyped, InitCovers, PTL DEF Spec
<1> QED BY <1>1, <1>3, PTL

-------------------------------------------------------------------------------
(* Completeness.  A crawl that cut nothing has asked for every link of the *)
(* pages it visited, or still will; when nothing is left to ask for, what  *)
(* it visited is closed and so holds everything that can be reached.       *)

CrawlInv ==
    crawl.running =>
        /\ crawl.visited \cup Elems(crawl.todo) \subseteq Reached(site)
        /\ Root \in crawl.visited \cup Elems(crawl.todo)
        /\ crawl.merged \subseteq Offered(site)
        /\ ~crawl.truncated =>
               \A p \in crawl.visited :
                   /\ Links(site, p) \subseteq crawl.visited \cup Elems(crawl.todo)
                   /\ Lists(site, p) \subseteq crawl.merged

LEMMA RootReached == Root \in Reached(site)
BY CatalogAssumption DEF Reached, Closed

LEMMA LinksReached ==
    ASSUME CardType, NEW p \in Reached(site)
    PROVE  Links(site, p) \subseteq Reached(site) /\ Lists(site, p) \subseteq Offered(site)
<1>1. p \in Pages /\ site \in Sites
    BY DEF Reached, CardType
<1>2. Links(site, p) \subseteq Pages
    BY <1>1, SiteTyped
<1>3. ASSUME NEW q \in Links(site, p), NEW ps \in SUBSET Pages, Closed(site, ps)
      PROVE  q \in ps
    BY <1>3 DEF Reached, Closed
<1> QED BY <1>2, <1>3 DEF Reached, Offered

\* A crawl with nothing left to ask for and nothing cut has found all.
LEMMA AllFound ==
    ASSUME TypeInv, CrawlInv, crawl.running, crawl.todo = <<>>, ~crawl.truncated
    PROVE  crawl.merged = Offered(site)
<1>1. Elems(crawl.todo) = {}
    BY NoElems
<1>2. crawl.visited \in SUBSET Pages
    BY DEF TypeInv, CrawlTyped, CrawlType
<1>3. Closed(site, crawl.visited)
    BY <1>1 DEF CrawlInv, Closed
<1>4. Reached(site) \subseteq crawl.visited
    BY <1>2, <1>3 DEF Reached
<1>5. Offered(site) \subseteq crawl.merged
    BY <1>4 DEF CrawlInv, Offered
<1> QED BY <1>5 DEF CrawlInv

LEMMA StartComplete == ASSUME CrawlStart PROVE CrawlInv'
<1>1. /\ crawl'.todo = <<Root>> /\ crawl'.visited = {} /\ crawl'.merged = {}
      /\ site' = site
    BY StartTyped DEF CrawlStart
<1>2. Elems(crawl'.todo) = {Root}
    BY <1>1, OneElem
<1> QED BY <1>1, <1>2, RootReached DEF CrawlInv

LEMMA SkipComplete == ASSUME TypeInv, CrawlInv, Skip PROVE CrawlInv'
<1>1. CrawlTyped(crawl) /\ MayPop /\ crawl.running /\ Turn \in crawl.visited
    BY DEF TypeInv, Skip, MayPop, Busy, Running
<1>2. /\ Elems(crawl.todo) = {Turn} \cup Elems(crawl'.todo)
      /\ crawl'.visited = crawl.visited /\ crawl'.merged = crawl.merged
      /\ crawl'.truncated = crawl.truncated /\ site' = site
    BY <1>1, PoppedTyped DEF Skip
<1>3. crawl'.visited \cup Elems(crawl'.todo) = crawl.visited \cup Elems(crawl.todo)
    BY <1>1, <1>2
<1> QED BY <1>1, <1>2, <1>3 DEF CrawlInv

LEMMA FailComplete == ASSUME TypeInv, CrawlInv, PageFails PROVE CrawlInv'
<1>1. CrawlTyped(crawl) /\ Request /\ site' = site
    BY DEF TypeInv, PageFails
<1>2. /\ CrawlTyped(Asked) /\ Elems(crawl.todo) = {Turn} \cup Elems(Asked.todo)
      /\ Asked.visited = crawl.visited \cup {Turn} /\ Asked.merged = crawl.merged
      /\ crawl.running
    BY <1>1, AskedTyped
<1>3. /\ crawl'.todo = Asked.todo /\ crawl'.visited = Asked.visited
      /\ crawl'.merged = Asked.merged /\ crawl'.truncated
    BY <1>2, TruncatedTyped DEF PageFails, Missed
<1>4. crawl'.visited \cup Elems(crawl'.todo) = crawl.visited \cup Elems(crawl.todo)
    BY <1>2, <1>3
<1> QED BY <1>1, <1>2, <1>3, <1>4 DEF CrawlInv

LEMMA MergeComplete == ASSUME TypeInv, CrawlInv, PageMerged PROVE CrawlInv'
<1>1. CrawlTyped(crawl) /\ CardType /\ Request /\ site' = site
    BY DEF TypeInv, PageMerged
<1>2. Elems(crawl.todo) = {Turn} \cup Elems(Asked.todo) /\ crawl.running
    BY <1>1, AskedTyped
<1>3. /\ crawl'.visited = crawl.visited \cup {Turn}
      /\ crawl'.merged = crawl.merged \cup Lists(site, Turn)
    BY <1>1, PageMergedTo
<1>4. \/ /\ Elems(crawl'.todo) = Elems(Asked.todo) \cup Links(site, Turn)
         /\ crawl'.truncated = crawl.truncated
      \/ /\ Elems(crawl'.todo) = Elems(Asked.todo)
         /\ crawl'.truncated \/ (Links(site, Turn) = {} /\ ~crawl.truncated)
    BY <1>1, PageMergedTo
<1>5. /\ crawl.visited \cup Elems(crawl.todo) \subseteq Reached(site)
      /\ Root \in crawl.visited \cup Elems(crawl.todo)
      /\ crawl.merged \subseteq Offered(site)
    BY <1>2 DEF CrawlInv
<1>6. Turn \in Reached(site)
    BY <1>2, <1>5
<1>7. Links(site, Turn) \subseteq Reached(site) /\ Lists(site, Turn) \subseteq Offered(site)
    BY <1>1, <1>6, LinksReached
<1>8. /\ crawl'.visited \cup Elems(crawl'.todo) \subseteq Reached(site)
      /\ Root \in crawl'.visited \cup Elems(crawl'.todo)
      /\ crawl'.merged \subseteq Offered(site)
    BY <1>2, <1>3, <1>4, <1>5, <1>7
<1>9. ASSUME ~crawl'.truncated, NEW p \in crawl'.visited
      PROVE  /\ Links(site, p) \subseteq crawl'.visited \cup Elems(crawl'.todo)
             /\ Lists(site, p) \subseteq crawl'.merged
    <2>1. ~crawl.truncated
        BY <1>4, <1>9
    <2>2. CASE p = Turn
        BY <1>3, <1>4, <1>9, <2>2
    <2>3. CASE p \in crawl.visited
        <3>1. /\ Links(site, p) \subseteq crawl.visited \cup Elems(crawl.todo)
              /\ Lists(site, p) \subseteq crawl.merged
            BY <1>2, <2>1, <2>3 DEF CrawlInv
        <3> QED BY <1>2, <1>3, <1>4, <3>1
    <2> QED BY <1>3, <1>9, <2>2, <2>3
<1> QED BY <1>1, <1>8, <1>9 DEF CrawlInv

\* A crawl that ended leaves nothing to keep.
LEMMA EndComplete == ASSUME crawl' = NoCrawl PROVE CrawlInv'
BY DEF CrawlInv, NoCrawl

LEMMA CrawlInvStep == TypeInv /\ CrawlInv /\ [Next]_vars => CrawlInv'
<1> SUFFICES ASSUME TypeInv, CrawlInv, [Next]_vars PROVE CrawlInv'
    OBVIOUS
<1>1. CASE UNCHANGED <<crawl, site>>
    BY <1>1 DEF CrawlInv
<1>2. CASE crawl' = NoCrawl
    BY <1>2, EndComplete
<1>3. Finished \/ OutOfRequests \/ TooManyEntries \/ Cancelled \/ RootFails \/ Restart
          => crawl' = NoCrawl
    BY DEF Finished, OutOfRequests, TooManyEntries, Cancelled, RootFails, Restart, CrawlOk,
           CrawlFail
<1>4. Cover \/ (User /\ ~Restart) \/ UNCHANGED vars => UNCHANGED <<crawl, site>>
    BY DEF Cover, User, Open, Rearrange, Leave, vars
<1> QED
    BY <1>1, <1>2, <1>3, <1>4, StartComplete, SkipComplete, FailComplete, MergeComplete
    DEF Next, Worker, User

\* What a crawl hands over, if it was not cut, is what the source offers.
LEMMA OkComplete ==
    ASSUME CompleteUnlessTold, NEW c, CrawlOk(c), c.merged \subseteq Offered(site),
           ~c.truncated => c.merged = Offered(site)
    PROVE  CompleteUnlessTold'
<1>1. site' = site
    BY DEF CrawlOk
<1>2. CASE job.mine
    <2>1. list' = c.merged /\ note' = IF c.truncated THEN "truncated" ELSE "none"
        BY <1>2 DEF CrawlOk
    <2> QED BY <1>1, <2>1 DEF CompleteUnlessTold
<1>3. CASE ~job.mine
    BY <1>1, <1>3 DEF CrawlOk, CompleteUnlessTold
<1> QED BY <1>2, <1>3

LEMMA CompleteStep ==
    TypeInv /\ CrawlInv /\ CompleteUnlessTold /\ [Next]_vars => CompleteUnlessTold'
<1> SUFFICES ASSUME TypeInv, CrawlInv, CompleteUnlessTold, [Next]_vars
             PROVE  CompleteUnlessTold'
    OBVIOUS
<1>0. CrawlTyped(crawl) /\ CardType
    BY DEF TypeInv
<1>1. CASE Finished
    <2>1. CrawlOk(crawl) /\ crawl.running /\ crawl.todo = <<>>
        BY <1>1 DEF Finished, Running
    <2>2. crawl.merged \subseteq Offered(site)
        BY <2>1 DEF CrawlInv
    <2>3. ~crawl.truncated => crawl.merged = Offered(site)
        BY <2>1, AllFound
    <2> QED BY <2>1, <2>2, <2>3, OkComplete
<1>2. CASE OutOfRequests
    <2>1. crawl.running
        BY <1>2 DEF OutOfRequests, Busy, Running
    <2>2. crawl.merged \subseteq Offered(site)
        BY <2>1 DEF CrawlInv
    <2>3. PICK c : /\ CrawlOk(c) /\ c.merged = crawl.merged /\ c.truncated
        BY <1>0, <1>2, TruncatedTyped DEF OutOfRequests
    <2> QED BY <2>2, <2>3, OkComplete
<1>3. CASE TooManyEntries
    <2>1. Request
        BY <1>3 DEF TooManyEntries
    <2>2. CrawlTyped(Merged) /\ Merged.merged = crawl.merged \cup Lists(site, Turn)
        BY <1>0, <2>1, MergedTyped
    <2>3. crawl.running /\ Turn \in Elems(crawl.todo)
        BY <1>0, <2>1, AskedTyped
    <2>4. Turn \in Reached(site) /\ crawl.merged \subseteq Offered(site)
        BY <2>3 DEF CrawlInv
    <2>5. Merged.merged \subseteq Offered(site)
        BY <1>0, <2>2, <2>4, LinksReached
    <2>6. PICK c : /\ CrawlOk(c) /\ c.merged = Merged.merged /\ c.truncated
        BY <1>3, <2>2, TruncatedTyped DEF TooManyEntries
    <2> QED BY <2>5, <2>6, OkComplete
<1>4. CASE Cancelled \/ RootFails
    <2>1. CrawlFail
        BY <1>4 DEF Cancelled, RootFails
    <2>2. site' = site /\ list' = list
        BY <2>1 DEF CrawlFail
    <2>3. outcome' = "error" \/ UNCHANGED <<outcome, note>>
        BY <2>1 DEF CrawlFail
    <2> QED BY <2>2, <2>3 DEF CompleteUnlessTold
<1>5. CASE Open \/ Leave \/ Restart
    <2>1. outcome' = "pending"
        BY <1>5 DEF Open, Leave, Restart
    <2> QED BY <2>1 DEF CompleteUnlessTold
<1>6. CASE UNCHANGED <<site, list, note, outcome>>
    BY <1>6 DEF CompleteUnlessTold
<1>7. CrawlStart \/ Skip \/ PageFails \/ PageMerged \/ Cover \/ Rearrange \/ UNCHANGED vars
          => UNCHANGED <<site, list, note, outcome>>
    BY DEF CrawlStart, Skip, PageFails, PageMerged, Cover, Rearrange, vars, screen
<1> QED BY <1>1, <1>2, <1>3, <1>4, <1>5, <1>6, <1>7 DEF Next, Worker, User

LEMMA InitComplete == Init => CrawlInv /\ CompleteUnlessTold
BY DEF Init, CrawlInv, NoCrawl, CompleteUnlessTold

\* index_fetcher.cpp 175-223: for every site, with any cycles, pages linked
\* twice and pages that fail, and for any bounds, the list after a crawl has
\* only what can be reached from the source, and all of it unless it is told.
THEOREM NothingMissing == Spec => []CompleteUnlessTold
<1>1. TypeInv /\ CrawlInv /\ CompleteUnlessTold /\ [Next]_vars
          => TypeInv' /\ CrawlInv' /\ CompleteUnlessTold'
    BY TypeStep, CrawlInvStep, CompleteStep
<1>2. Spec => [](TypeInv /\ CrawlInv /\ CompleteUnlessTold)
    BY <1>1, InitTyped, InitComplete, PTL DEF Spec
<1> QED BY <1>2, PTL
===============================================================================
