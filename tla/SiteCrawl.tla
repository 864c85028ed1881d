------------------------------ MODULE SiteCrawl ------------------------------
(* The crawls of one site: webapp/sites/SiteWeb.java, SiteManager.java and    *)
(* SiteProcessor.java.  A thread of its own writes the pages of a crawl, one  *)
(* transaction each, while requests index the crawl, remove it or remove the  *)
(* site.  Transactions take the write lock of the store; the job that indexes *)
(* a crawl reads its pages without it, and so sees a page while it is put.    *)
(* Indexers are removed and created meanwhile; the documents of one that is   *)
(* removed stay in its directory.  Whatever a job throws ends in              *)
(* SearchController.index, and its request goes on as if it had returned.     *)
EXTENDS SearchIndex

CONSTANTS
  Crawls,     \* crawl ids; each is given out once
  MaxPages,   \* bound: CrawlOption.maxPage
  Unit,       \* commits of an indexing job, in pages (100 in the code)
  MaxStarts,  \* bound: how often the process dies
  MaxAsks,    \* bound: how many requests are made
  Absent,     \* no crawl node
  Unmarked,   \* a crawl node without the properties indexed and iid
  Idle        \* a request thread without a request

ASSUME PagesAndUnit == MaxPages \in Nat /\ Unit \in Nat \ {0}

Pages == 1 .. MaxPages

(* A page in the store: no node; a name, or "{}"; its properties; with all    *)
(* its links; or a page that is not to be indexed (not .html, or not 200).    *)
PageStates == {"none", "named", "bare", "full", "other"}

(* A page in an index: without, or with, the anchors of its links. *)
Content == [Crawls -> [Pages -> {"none", "thin", "whole"}]]

NoContent == [c \in Crawls |-> [p \in Pages |-> "none"]]

Request == [kind : {"index", "remove"}, crawl : Crawls, on : Indexes \cup {None},
            at : {"wait", "work", "closed", "mark", "drop"}, returned : BOOLEAN,
            todo : SUBSET Pages, read : Nat]

ASSUME IdleIsNoRequest == Idle \notin Request
ASSUME NodesDistinct   == {Absent, Unmarked, None} \cap Indexes = {} /\ Absent # Unmarked

VARIABLES
  node,       \* /sites/{sid}/{crawlId}: Absent, Unmarked, or the iid of its mark
  page,       \* the pages below it
  crawler,    \* the crawler thread of each crawl
  next,       \* the number of its next page
  known,      \* IndexManager.indexes: the indexers that are registered
  request,    \* the requests under way
  starts,     \* how often the process has died
  asks,       \* how many requests were made
  mixed,      \* history: crawls of which two things were under way at once
  strayed,    \* history: for a crawl, the indexes that may hold documents of it
              \* and that its mark does not name
  finished    \* history: for a crawl, the indexes in which a job that indexes it
              \* returned, and none that removes it since

store == <<node, page, crawler, next>>
history == <<mixed, strayed, finished>>
counts == <<starts, asks>>
vars == <<ixvars, store, known, request, counts, history>>

TypeOK ==
  /\ IndexTypes(Content)
  /\ node \in [Crawls -> Indexes \cup {Absent, Unmarked}]
  /\ page \in [Crawls -> [Pages -> PageStates]]
  /\ crawler \in [Crawls -> {"none", "start", "crawl", "done"}]
  /\ next \in [Crawls -> 1 .. MaxPages + 1]
  /\ known \subseteq Indexes
  /\ request \in [Requests -> Request \cup {Idle}]
  /\ starts \in Nat /\ asks \in Nat
  /\ mixed \subseteq Crawls
  /\ strayed \in [Crawls -> SUBSET Indexes]
  /\ finished \in [Crawls -> SUBSET Indexes]

NoPages == [p \in Pages |-> "none"]

Init ==
  /\ IndexInit(NoContent)
  /\ node = [c \in Crawls |-> Absent]
  /\ page = [c \in Crawls |-> NoPages]
  /\ crawler = [c \in Crawls |-> "none"]
  /\ next = [c \in Crawls |-> 1]
  /\ known = Indexes
  /\ request = [r \in Requests |-> Idle]
  /\ starts = 0 /\ asks = 0
  /\ mixed = {}
  /\ strayed = [c \in Crawls |-> {}]
  /\ finished = [c \in Crawls |-> {}]

(* A page that is being put holds the write lock of the store. *)
InPut(c, p) == page[c][p] \in {"named", "bare"}
StoreFree   == \A c \in Crawls, p \in Pages : ~InPut(c, p)

(* merge of a node, or of one below it. *)
Merged(c) == IF node[c] = Absent THEN Unmarked ELSE node[c]

Asks(kind, r, c) == request[r] # Idle /\ request[r].kind = kind /\ request[r].crawl = c
Busy(c)     == \E r \in Requests, kind \in {"index", "remove"} : Asks(kind, r, c)
Crawling(c) == crawler[c] \in {"start", "crawl"}

Mixes(c, now) == mixed' = IF now THEN mixed \cup {c} ELSE mixed

Asked(k, c, i, stage) == [kind |-> k, crawl |-> c, on |-> i, at |-> stage,
                          returned |-> FALSE, todo |-> {}, read |-> 0]
------------------------------------------------------------------------------
(* POST crawl, and SiteProcessor.create: both merge the node of the crawl.    *)
CrawlSite(c) ==
  /\ crawler[c] = "none" /\ StoreFree
  /\ crawler' = [crawler EXCEPT ![c] = "start"]
  /\ node' = [node EXCEPT ![c] = Merged(c)]
  /\ UNCHANGED <<ixvars, page, next, known, request, counts, history>>

Create(c) ==
  /\ crawler[c] = "start" /\ StoreFree
  /\ crawler' = [crawler EXCEPT ![c] = "crawl"]
  /\ node' = [node EXCEPT ![c] = Merged(c)]
  /\ UNCHANGED <<ixvars, page, next, known, request, counts, history>>

(* Variant: one page more than maxPage. *)
PutNameOver(c) ==
  /\ crawler[c] = "crawl" /\ next[c] \in 1 .. MaxPages + 1 /\ StoreFree
  /\ page' = [page EXCEPT ![c][next[c]] = "named"]
  /\ next' = [next EXCEPT ![c] = @ + 1]
  /\ UNCHANGED <<ixvars, node, crawler, known, request, counts, history>>

(* process: the page is first a name among the children of the crawl ...      *)
PutName(c) ==
  /\ crawler[c] = "crawl" /\ next[c] \in Pages /\ StoreFree
  /\ page' = [page EXCEPT ![c][next[c]] = "named"]
  /\ next' = [next EXCEPT ![c] = @ + 1]
  /\ UNCHANGED <<ixvars, node, crawler, known, request, counts, history>>

(* ... then has its properties, ...                                           *)
PutPage(c) ==
  /\ \E p \in Pages : page[c][p] = "named" /\ page' = [page EXCEPT ![c][p] = "bare"]
  /\ UNCHANGED <<ixvars, node, crawler, next, known, request, counts, history>>

(* ... and then its links.  This commits, also the node of the crawl if it    *)
(* was removed in between.                                                    *)
CommitPage(c) ==
  /\ \E p \in Pages, s \in {"full", "other"} :
       /\ page[c][p] = IF s = "full" THEN "bare" ELSE "named"
       /\ page' = [page EXCEPT ![c][p] = s]
  /\ node' = [node EXCEPT ![c] = Merged(c)]
  /\ UNCHANGED <<ixvars, crawler, next, known, request, counts, history>>

(* The scheduler of the spider is empty, or at its limit. *)
CrawlEnds(c) ==
  /\ crawler[c] = "crawl" /\ \A p \in Pages : ~InPut(c, p)
  /\ crawler' = [crawler EXCEPT ![c] = "done"]
  /\ UNCHANGED <<ixvars, node, page, next, known, request, counts, history>>
------------------------------------------------------------------------------
Counted == asks < MaxAsks /\ asks' = asks + 1

(* POST index: of any crawl id that was ever given out.  The index of an       *)
(* indexer that is not registered is null, and the request fails at once.     *)
AskIndex(r, c, i) ==
  /\ request[r] = Idle /\ crawler[c] # "none" /\ i \in known /\ Counted
  /\ request' = [request EXCEPT ![r] = Asked("index", c, i, "wait")]
  /\ Mixes(c, Busy(c) \/ Crawling(c))
  /\ UNCHANGED <<ixvars, store, known, starts, strayed, finished>>

(* POST crawllist: reads indexed and iid now, and asks hasIndex(iid).         *)
AskRemove(r, c, with) ==
  /\ request[r] = Idle /\ crawler[c] # "none" /\ Counted
  /\ request' = [request EXCEPT ![r] =
       IF with /\ node[c] \in known THEN Asked("remove", c, node[c], "wait")
       ELSE Asked("remove", c, None, "drop")]
  /\ Mixes(c, Busy(c) \/ Crawling(c))
  /\ UNCHANGED <<ixvars, store, known, starts, strayed, finished>>

At(r, stage) == request[r] # Idle /\ request[r].at = stage
Indexing(r)  == At(r, "work") /\ request[r].kind = "index"
Removing(r)  == At(r, "work") /\ request[r].kind = "remove"
On(r)        == request[r].on
Of(r)        == request[r].crawl

(* The job begins: with the lock, or, after ten seconds, without.             *)
Enter(r) ==
  /\ At(r, "wait")
  /\ TakeLock(r, On(r)) \/ GiveUpLock(r, On(r))
  /\ request' = [request EXCEPT ![r] =
       [@ EXCEPT !.at = "work", !.todo = {p \in Pages : page[Of(r)][p] # "none"}]]
  /\ UNCHANGED <<store, known, counts, history>>

(* Variant: the anchors are left out. *)
DocThin(r, p) == "thin"

Doc(r, p) == IF page[Of(r)][p] = "full" THEN "whole" ELSE "thin"

WithPage(r, p) == [Session(r, On(r)) EXCEPT ![Of(r)][p] = Doc(r, p)]

UnitEnds(r) == (request[r].read + 1) % Unit = 0

(* One page of the job; a page that is not to be indexed only passes.         *)
IndexPage(r) ==
  /\ Indexing(r)
  /\ \E p \in request[r].todo :
       \/ /\ page[Of(r)][p] = "other"
          /\ request' = [request EXCEPT ![r].todo = @ \ {p}]
          /\ UNCHANGED ixvars
       \/ /\ page[Of(r)][p] \in {"bare", "full"}
          /\ IF UnitEnds(r) THEN ChangeAndCommit(r, On(r), WithPage(r, p))
                           ELSE Change(r, On(r), WithPage(r, p))
          /\ request' = [request EXCEPT ![r].todo = @ \ {p}, ![r].read = @ + 1]
  /\ UNCHANGED <<store, known, counts, history>>

(* After the job, whether it returned or not: its request goes on, or fails   *)
(* when the unlock throws, and then a crawl that was indexed gets no mark.    *)
Continue(r, stage, ok) ==
  request' = [request EXCEPT ![r] =
    IF Owns(r, On(r)) THEN [request[r] EXCEPT !.at = stage, !.returned = ok, !.todo = {}, !.read = 0]
    ELSE Idle]

Unmarks(r) == [strayed EXCEPT ![Of(r)] = @ \cup {On(r)}]

AfterIndex(r, ok) ==
  /\ Continue(r, "mark", ok)
  /\ strayed' = IF Owns(r, On(r)) THEN strayed ELSE Unmarks(r)
  /\ UNCHANGED <<store, known, counts, mixed>>

Finish(r) == finished' = [finished EXCEPT ![Of(r)] = @ \cup {On(r)}]

(* Variant: no commit after the last unit. *)
IndexReturnsUncommitted(r) ==
  /\ Indexing(r) /\ request[r].todo = {}
  /\ AbortSession(r, On(r))
  /\ AfterIndex(r, TRUE)
  /\ Finish(r)

IndexReturns(r) ==
  /\ Indexing(r) /\ request[r].todo = {}
  /\ CloseSession(r, On(r), Session(r, On(r)))
  /\ AfterIndex(r, TRUE)
  /\ Finish(r)

(* A page without url, an IndexWriter that cannot be opened, or, at any page  *)
(* or commit, an IOException, which becomes an IllegalStateException: it ends *)
(* in SearchController.index, and the request goes on to the mark.            *)
IndexThrows(r) ==
  /\ Indexing(r)
  /\ AbortSession(r, On(r))
  /\ AfterIndex(r, FALSE)
  /\ UNCHANGED finished

(* The mark names one index: that of an earlier mark is forgotten.            *)
Mark(r) ==
  /\ At(r, "mark") /\ StoreFree
  /\ node' = [node EXCEPT ![Of(r)] = On(r)]
  /\ strayed' = [strayed EXCEPT ![Of(r)] = @ \cup ({node[Of(r)]} \cap (Indexes \ {On(r)}))]
  /\ request' = [request EXCEPT ![r] = Idle]
  /\ UNCHANGED <<ixvars, page, crawler, next, known, counts, mixed, finished>>
------------------------------------------------------------------------------
(* indexRemove: deleteTerm(crawlid).                                          *)
Unindexed(r) == [Session(r, On(r)) EXCEPT ![Of(r)] = NoPages]

AfterUnindex(r, ok) ==
  /\ Continue(r, "drop", ok)
  /\ UNCHANGED <<store, known, counts, mixed, strayed>>

Unfinish(r) == finished' = [finished EXCEPT ![Of(r)] = @ \ {On(r)}]

(* Variant: the session of the removal is not committed. *)
UnindexUncommitted(r) ==
  /\ Removing(r)
  /\ AbortSession(r, On(r))
  /\ AfterUnindex(r, TRUE)
  /\ Unfinish(r)

Unindex(r) ==
  /\ Removing(r)
  /\ CloseSession(r, On(r), Unindexed(r))
  /\ AfterUnindex(r, TRUE)
  /\ Unfinish(r)

(* deleteTerm or the commit throws: the crawl is removed all the same.        *)
UnindexThrows(r) ==
  /\ Removing(r)
  /\ AbortSession(r, On(r))
  /\ AfterUnindex(r, FALSE)
  /\ UNCHANGED finished

(* removeSelf of the crawl. What other requests and the crawler have under way *)
(* goes on. *)
Drop(r) ==
  /\ At(r, "drop") /\ StoreFree
  /\ LET c == Of(r) IN
       /\ node' = [node EXCEPT ![c] = Absent]
       /\ page' = [page EXCEPT ![c] = NoPages]
       /\ strayed' = [strayed EXCEPT ![c] =
            IF request[r].returned THEN @ ELSE @ \cup ({node[c]} \cap Indexes)]
  /\ request' = [request EXCEPT ![r] = Idle]
  /\ UNCHANGED <<ixvars, crawler, next, known, counts, mixed, finished>>

(* DELETE of the site: all its crawls, and no document. *)
RemoveSite ==
  /\ StoreFree /\ \E c \in Crawls : node[c] # Absent
  /\ node' = [c \in Crawls |-> Absent]
  /\ page' = [c \in Crawls |-> NoPages]
  /\ strayed' = [c \in Crawls |-> strayed[c] \cup ({node[c]} \cap Indexes)]
  /\ mixed' = mixed \cup {c \in Crawls : Busy(c) \/ Crawling(c)}
  /\ UNCHANGED <<ixvars, crawler, next, known, request, counts, finished>>
------------------------------------------------------------------------------
(* removeIndex closes the controller and leaves the files. A job on it, or    *)
(* one that waits for it, has a closed directory from now on.                 *)
Interrupted(r, i) == (At(r, "wait") \/ At(r, "work")) /\ On(r) = i

RemoveIndexer(i) ==
  /\ i \in known /\ StoreFree /\ Counted
  /\ known' = known \ {i}
  /\ CloseController(i)
  /\ request' = [r \in Requests |->
       IF Interrupted(r, i) THEN [request[r] EXCEPT !.at = "closed"] ELSE request[r]]
  /\ UNCHANGED <<store, starts, history>>

(* createIndexerCentral opens the directory with what is in it. *)
CreateIndexer(i) ==
  /\ i \notin known /\ StoreFree
  /\ known' = known \cup {i}
  /\ UNCHANGED <<ixvars, store, request, counts, history>>

(* A job on a closed directory throws at its next commit; the request goes on, *)
(* or fails when the rollback throws as well.                                 *)
EndsClosed(r) ==
  /\ At(r, "closed")
  /\ \/ /\ request' = [request EXCEPT ![r].at = IF request[r].kind = "index" THEN "mark" ELSE "drop"]
        /\ UNCHANGED strayed
     \/ /\ request' = [request EXCEPT ![r] = Idle]
        /\ strayed' = IF request[r].kind = "index" THEN Unmarks(r) ELSE strayed
  /\ UNCHANGED <<ixvars, store, known, counts, mixed, finished>>

(* The process dies: an open transaction is rolled back. *)
Crash ==
  /\ starts < MaxStarts /\ starts' = starts + 1
  /\ IndexCrash
  /\ page' = [c \in Crawls |-> [p \in Pages |-> IF InPut(c, p) THEN "none" ELSE page[c][p]]]
  /\ crawler' = [c \in Crawls |-> IF Crawling(c) THEN "done" ELSE crawler[c]]
  /\ strayed' = [c \in Crawls |->
       strayed[c] \cup {On(r) : r \in {q \in Requests : Asks("index", q, c)}}]
  /\ request' = [r \in Requests |-> Idle]
  /\ UNCHANGED <<node, next, known, asks, mixed, finished>>

Step(r) == Enter(r) \/ IndexPage(r) \/ IndexReturns(r) \/ IndexThrows(r) \/ Mark(r)
           \/ Unindex(r) \/ UnindexThrows(r) \/ Drop(r) \/ EndsClosed(r)

CrawlStep(c) == Create(c) \/ PutName(c) \/ PutPage(c) \/ CommitPage(c) \/ CrawlEnds(c)

Next ==
  \/ \E c \in Crawls : CrawlSite(c) \/ CrawlStep(c)
  \/ \E r \in Requests, c \in Crawls :
       \/ \E i \in Indexes : AskIndex(r, c, i)
       \/ \E with \in BOOLEAN : AskRemove(r, c, with)
  \/ \E r \in Requests : Step(r)
  \/ \E i \in Indexes : RemoveIndexer(i) \/ CreateIndexer(i)
  \/ RemoveSite
  \/ Crash

Spec == Init /\ [][Next]_vars
------------------------------------------------------------------------------
Quiet(c) == ~Busy(c) /\ ~Crawling(c)

(* SiteManager.java:79-116: once a job that indexes a crawl has returned, each *)
(* page of the crawl is in that index with its anchors until a removal takes  *)
(* them out, and an index has nothing else of the crawl unless it strayed:    *)
(* whatever throws, gives up the lock, loses its controller or dies before or *)
(* after.  Not said: that a job returned because the crawl is marked; the     *)
(* mark is set also when every job threw (SiteWeb.java:175-179).  Except when *)
(* something else was under way with the crawl.                               *)
IndexedMeansWhole ==
  \A c \in Crawls, i \in Indexes, p \in Pages :
    c \notin mixed =>
      IF page[c][p] = "full" THEN i \in finished[c] => index[i][c][p] = "whole"
      ELSE i \in strayed[c] \/ index[i][c][p] = "none"

(* SiteWeb.java:273-282: the documents of a crawl that is gone stay in an     *)
(* index only in these ways: a second index took the mark; the request that   *)
(* indexed them died or failed before the mark; the crawl, or its site, was   *)
(* removed without a removal of the documents having returned: not asked for, *)
(* of an indexer that was not registered, or one that threw.  Except when     *)
(* something else was under way with the crawl.                               *)
NoStrayDocuments ==
  \A c \in Crawls, i \in Indexes :
    Quiet(c) /\ node[c] = Absent /\ c \notin mixed /\ i \notin strayed[c]
      => index[i][c] = NoPages

(* SiteManager.java:99-103, SiteProcessor.java:54-83: a document without the  *)
(* anchors of its page is only of a crawl of which two things were under way  *)
(* at once.                                                                   *)
ThinOnlyIfMixed ==
  \A c \in Crawls, i \in Indexes, p \in Pages : index[i][c][p] = "thin" => c \in mixed
==============================================================================
