------------------------------- MODULE Catalog --------------------------------
(***************************************************************************)
(* The catalog screen of a content source (catalog_activity.cpp): it shows *)
(* the index kept on the card, crawls the source's nested indexes on the   *)
(* worker (index_fetcher.cpp), replaces the list and the kept index with   *)
(* what it found, and has the worker find a cover for each cell            *)
(* (cover_art.cpp).  A worker job and the half that follows it on the UI   *)
(* thread are one action: nothing the UI does is read by the worker but    *)
(* the cancel flag, and a screen that set it takes no result.              *)
(*                                                                         *)
(* An index is a page; it lists titles and further pages.  Grouping of     *)
(* files to titles, redirects, login headers and wording are left out; the *)
(* order of cells, what the filters leave of the list, and whether it is   *)
(* shown as a grid or as rows, are any.                                    *)
(***************************************************************************)
EXTENDS Naturals, Sequences, FiniteSets

CONSTANTS
    Pages,         \* urls of indexes
    Root,          \* the source's url
    Titles,
    Sites,         \* what the server may hold, one record per site
    Installed,     \* titles whose icon the console has
    maxRequests, maxEntries, maxDepth,  \* RecurseBounds
    MaxGen,        \* bound on the times a screen's list is rearranged
    MaxQueue,      \* bound on the worker's queue when the user acts
    None

Site == [dirs : [Pages -> Seq(Pages)], files : [Pages -> SUBSET Titles], broken : SUBSET Pages]

ASSUME CatalogAssumption ==
    /\ Root \in Pages /\ Sites \subseteq Site
    /\ IsFiniteSet(Titles) /\ Installed \subseteq Titles
    /\ maxRequests \in Nat /\ maxEntries \in Nat /\ maxDepth \in Nat
    /\ MaxGen \in Nat /\ MaxQueue \in Nat
    /\ None \notin Titles

VARIABLES
    site,      \* dirs[p], files[p]: what page p lists; broken: pages that do not parse
    cached,    \* the index on the card: what it is and the titles it lists
    here,      \* is the screen open
    list,      \* allGrouped
    view,      \* the cells, in their order
    covers,    \* covers[c]: the title whose cover cell c shows, or None
    listGen, loading, note,
    outcome,   \* of the screen's crawl: "pending", "ok", "error"
    queue,     \* jobs of the worker, the first one running
    crawl,     \* fetch_index's variables
    art,       \* titles whose cover is kept on the card
    index      \* the icon index: "unloaded", "loaded", "failed"

screen == <<here, list, view, covers, listGen, loading, note, outcome>>
coverart == <<art, index>>
vars == <<site, cached, screen, queue, crawl, coverart>>

NoIndex == [kind |-> "none", titles |-> {}]
Torn == [kind |-> "torn", titles |-> {}]
Whole(titles) == [kind |-> "whole", titles |-> titles]

NoCrawl == [todo |-> <<>>, visited |-> {}, requests |-> 0, entries |-> 0, merged |-> {},
            truncated |-> FALSE, running |-> FALSE]

Init ==
    /\ site \in Sites
    /\ cached = NoIndex
    /\ here = FALSE /\ list = {} /\ view = <<>> /\ covers = <<>> /\ listGen = 0
    /\ loading = FALSE /\ note = "none" /\ outcome = "pending"
    /\ queue = <<>> /\ crawl = NoCrawl
    /\ art = {} /\ index = "unloaded"

-------------------------------------------------------------------------------
(* The screen *)

Job(kind, title, cell, gen) ==
    [kind |-> kind, title |-> title, cell |-> cell, gen |-> gen, mine |-> TRUE]

\* The orders in which some of the titles of a list may be shown.
Arrangements(titles) ==
    {v \in UNION {[1 .. n -> titles] : n \in 0 .. Cardinality(titles)} :
        \A c, d \in DOMAIN v : v[c] = v[d] => c = d}

\* populate: new cells, and in the grid a job for the cover of each.
CoverJobs(v, gen) == [c \in DOMAIN v |-> Job("cover", v[c], c, gen)]
Populate(titles, gen, jobs) ==
    /\ listGen' = gen
    /\ view' \in Arrangements(titles)
    /\ covers' = [c \in DOMAIN view' |-> None]
    /\ \E grid \in BOOLEAN : queue' = jobs \o (IF grid THEN CoverJobs(view', gen) ELSE <<>>)

CrawlJob == Job("crawl", None, 0, 0)

\* onContentAvailable: the kept index first; one that does not parse shows as
\* an empty list.
Open ==
    /\ ~here /\ Len(queue) < MaxQueue
    /\ here' = TRUE /\ outcome' = "pending" /\ note' = "none"
    /\ IF cached # NoIndex
       THEN /\ list' = cached.titles
            /\ loading' = FALSE
            /\ listGen' = 1
            /\ view' \in Arrangements(list')
            /\ covers' = [c \in DOMAIN view' |-> None]
            /\ queue' = queue \o CoverJobs(view', 1) \o <<CrawlJob>>
       ELSE /\ list' = {} /\ view' = <<>> /\ covers' = <<>> /\ listGen' = 0
            /\ loading' = TRUE
            /\ queue' = Append(queue, CrawlJob)
    /\ UNCHANGED <<site, cached, crawl, coverart>>

\* A chip is tapped or a search entered.
Rearrange ==
    /\ here /\ listGen < MaxGen /\ Len(queue) < MaxQueue
    /\ Populate(list, listGen + 1, queue)
    /\ UNCHANGED <<site, cached, here, list, loading, note, outcome, crawl, coverart>>

Leave ==
    /\ here /\ here' = FALSE
    /\ list' = {} /\ view' = <<>> /\ covers' = <<>> /\ listGen' = 0
    /\ loading' = FALSE /\ note' = "none" /\ outcome' = "pending"
    /\ queue' = [n \in DOMAIN queue |-> [queue[n] EXCEPT !.mine = FALSE]]
    /\ UNCHANGED <<site, cached, crawl, coverart>>

\* The program ends and is started again.
Restart ==
    /\ here' = FALSE
    /\ list' = {} /\ view' = <<>> /\ covers' = <<>> /\ listGen' = 0
    /\ loading' = FALSE /\ note' = "none" /\ outcome' = "pending"
    /\ queue' = <<>> /\ crawl' = NoCrawl /\ index' = "unloaded"
    /\ UNCHANGED <<site, cached, art>>

-------------------------------------------------------------------------------
(* fetch_index *)

job == Head(queue)
Crawling == queue # <<>> /\ job.kind = "crawl"

CrawlStart ==
    /\ Crawling /\ ~crawl.running
    /\ crawl' = [NoCrawl EXCEPT !.todo = <<Root>>, !.running = TRUE]
    /\ UNCHANGED <<site, cached, screen, queue, coverart>>

\* UI half: a failure leaves the list as it is; what was found replaces the
\* list and, if the card takes it, the kept index.
CrawlFail ==
    /\ queue' = Tail(queue) /\ crawl' = NoCrawl
    /\ IF job.mine
       THEN /\ outcome' = "error" /\ loading' = FALSE
            /\ note' = IF loading THEN "none" ELSE "offline"
       ELSE UNCHANGED <<outcome, loading, note>>
    /\ UNCHANGED <<site, cached, here, list, view, covers, listGen, coverart>>

CrawlOk(result) ==
    /\ crawl' = NoCrawl
    /\ IF job.mine
       THEN /\ outcome' = "ok" /\ loading' = FALSE
            /\ note' = IF result.truncated THEN "truncated" ELSE "none"
            /\ list' = result.merged
            /\ cached' \in {Whole(result.merged), Torn, cached}
            /\ Populate(result.merged, listGen + 1, Tail(queue))
       ELSE /\ queue' = Tail(queue)
            /\ UNCHANGED <<cached, list, view, covers, listGen, loading, note, outcome>>
    /\ UNCHANGED <<site, here, coverart>>

Running == Crawling /\ crawl.running
Busy == Running /\ crawl.todo # <<>>

Finished == Running /\ crawl.todo = <<>> /\ CrawlOk(crawl)
Cancelled == Busy /\ ~job.mine /\ CrawlFail
OutOfRequests ==
    /\ Busy /\ job.mine /\ crawl.requests >= maxRequests
    /\ CrawlOk([crawl EXCEPT !.truncated = TRUE])

Turn == Head(crawl.todo)
MayPop == Busy /\ job.mine /\ crawl.requests < maxRequests
PutBack == crawl                                       \* mutant: the page stays in the queue
Popped == [crawl EXCEPT !.todo = Tail(@)]

Skip ==
    /\ MayPop /\ Turn \in crawl.visited
    /\ crawl' = Popped
    /\ UNCHANGED <<site, cached, screen, queue, coverart>>

\* A page is asked for the first time.
Request == MayPop /\ Turn \notin crawl.visited
AskedAnew == [Popped EXCEPT !.requests = @ + 1]        \* mutant: visited is not kept
Asked == [Popped EXCEPT !.visited = @ \cup {Turn}, !.requests = @ + 1]

RootFails == Request /\ Turn = Root /\ CrawlFail

MissedSilently(c) == c                                 \* mutant: a missing page is not told
Missed(c) == [c EXCEPT !.truncated = TRUE]
PageFails ==
    /\ Request /\ Turn # Root
    /\ crawl' = Missed(Asked)
    /\ UNCHANGED <<site, cached, screen, queue, coverart>>

may_descend(depth, entries, requests) ==
    depth < maxDepth /\ entries < maxEntries /\ requests < maxRequests

\* RecurseState.depth, which no statement changes: a child's is always one.
depth == 0

Parses == Turn \notin site.broken
Merged ==
    [Asked EXCEPT !.merged = @ \cup (IF Parses THEN site.files[Turn] ELSE {}),
                  !.entries = @ + (IF Parses THEN Cardinality(site.files[Turn]) ELSE 0)]
Children == IF Parses THEN site.dirs[Turn] ELSE <<>>

RootParses == Turn = Root => Parses

\* A child that does not parse counts as a page that lists nothing.
PageMerged ==
    /\ Request /\ RootParses
    /\ Merged.entries < maxEntries
    /\ crawl' = IF may_descend(depth + 1, Merged.entries, Merged.requests)
                THEN [Merged EXCEPT !.todo = @ \o Children]
                ELSE [Merged EXCEPT !.truncated = @ \/ Children # <<>>]
    /\ UNCHANGED <<site, cached, screen, queue, coverart>>

TooManyEntries ==
    /\ Request /\ RootParses
    /\ Merged.entries >= maxEntries
    /\ CrawlOk([Merged EXCEPT !.truncated = TRUE])

-------------------------------------------------------------------------------
(* Covers *)

\* ensure_icon_index_loaded: tried once in a run of the program.
Index == IF index = "unloaded" THEN {"loaded", "failed"} ELSE {index}

\* resolve_cover: from the card, from the net, from the console, or none.
Resolved(title, found) ==
    \/ title \in art /\ found /\ UNCHANGED coverart
    \/ /\ title \notin art
       /\ index' \in Index
       /\ \/ index' = "loaded" /\ found /\ art' \in {art, art \cup {title}}
          \/ found = (title \in Installed) /\ UNCHANGED art

\* UI half: cells that were replaced since take no cover.
CurrentAlways(j) == j.cell \in DOMAIN view             \* mutant: listGen is not compared
Current(j) == j.gen = listGen

Cover ==
    /\ queue # <<>> /\ job.kind = "cover"
    /\ queue' = Tail(queue)
    /\ \E found \in BOOLEAN :
           /\ Resolved(job.title, found)
           /\ covers' = IF job.mine /\ Current(job) /\ found
                        THEN [covers EXCEPT ![job.cell] = job.title] ELSE covers
    /\ UNCHANGED <<site, cached, here, list, view, listGen, loading, note, outcome, crawl>>

-------------------------------------------------------------------------------

Worker ==
    \/ CrawlStart \/ Finished \/ Cancelled \/ OutOfRequests
    \/ Skip \/ RootFails \/ PageFails \/ PageMerged \/ TooManyEntries
    \/ Cover

User == Open \/ Rearrange \/ Leave \/ Restart

Next == Worker \/ User

Spec == Init /\ [][Next]_vars

\* The worker's thread runs: a request is answered or times out.
FairSpec == Spec /\ WF_vars(Worker)

-------------------------------------------------------------------------------
(* Properties *)

JobType ==
    [kind : {"crawl"}, title : {None}, cell : {0}, gen : {0}, mine : BOOLEAN]
        \cup [kind : {"cover"}, title : Titles, cell : Nat, gen : Nat, mine : BOOLEAN]
CrawlType == [todo : Seq(Pages), visited : SUBSET Pages, requests : Nat, entries : Nat,
              merged : SUBSET Titles, truncated : BOOLEAN, running : BOOLEAN]

\* The range of every variable; a crawl asks for each page once and never for
\* more than maxRequests; cells show titles of the list.
TypeOK ==
    /\ site \in Sites
    /\ cached \in [kind : {"none", "torn", "whole"}, titles : SUBSET Titles]
    /\ here \in BOOLEAN /\ loading \in BOOLEAN /\ listGen \in Nat
    /\ list \in SUBSET Titles /\ view \in Seq(list)
    /\ covers \in Seq(Titles \cup {None}) /\ Len(covers) = Len(view)
    /\ note \in {"none", "offline", "truncated"} /\ outcome \in {"pending", "ok", "error"}
    /\ queue \in Seq(JobType)
    /\ crawl \in CrawlType
    /\ crawl.requests = Cardinality(crawl.visited) /\ crawl.requests <= maxRequests
    /\ art \in SUBSET Titles /\ index \in {"unloaded", "loaded", "failed"}

\* What there is to find: the pages every set has that has the root and,
\* with a page that parses, the pages it links.
Links(s, p) == IF p \in s.broken THEN {} ELSE {s.dirs[p][n] : n \in DOMAIN s.dirs[p]}
Closed(s, ps) == Root \in ps /\ \A p \in ps : Links(s, p) \subseteq ps
Reached(s) == {p \in Pages : \A ps \in SUBSET Pages : Closed(s, ps) => p \in ps}
Lists(s, p) == IF p \in s.broken THEN {} ELSE s.files[p]
Offered(s) == UNION {Lists(s, p) : p \in Reached(s)}

\* index_fetcher.cpp 175-223: after a crawl the list holds nothing the source
\* does not offer, and lacks nothing of it, behind whatever cycle or page
\* linked twice, unless the note says that it was cut.
CompleteUnlessTold ==
    outcome = "ok" =>
        /\ list \subseteq Offered(site)
        /\ note # "truncated" => list = Offered(site)

\* catalog_activity.cpp 333-366: covers arrive when the list may have been
\* sorted, filtered or replaced; a cell shows the cover of its own title.
CoverOfItsTitle == \A c \in DOMAIN covers : covers[c] \in {None, view[c]}

\* A screen that waits for its first list does not wait for ever, whatever
\* cycles the indexes have.
LoadingEnds == loading ~> ~loading
===============================================================================
