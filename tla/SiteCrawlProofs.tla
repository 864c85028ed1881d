--------------------------- MODULE SiteCrawlProofs ---------------------------
(* Theorems about SiteCrawl, for any crawls, indexes, requests and pages.     *)
EXTENDS SiteCrawl, TLAPS

Alive(r)   == request[r] # Idle
Asking(r)  == Alive(r) /\ request[r].kind = "index"
Dropping(r) == Alive(r) /\ request[r].kind = "remove"

(* A request that reads or writes an index knows which.                       *)
PlacedAt(r) ==
  Alive(r) => /\ request[r].kind = "index" \/ request[r].at # "drop" => On(r) \in Indexes
              /\ request[r].kind = "index" => request[r].at # "drop"
              /\ request[r].kind = "remove" => request[r].at # "mark"
              /\ request[r].returned => On(r) \in Indexes /\ request[r].at \in {"mark", "drop"}
Placed == \A r \in Requests : PlacedAt(r)

(* Who has the directory of an index between two steps is in an indexing job. *)
WriterIndexesOn(i) ==
  writer[i] # None => Indexing(writer[i]) /\ On(writer[i]) = i /\ draft[i] \in Content
WriterIndexes == \A i \in Indexes : WriterIndexesOn(i)

TInv == TypeOK /\ Placed /\ WriterIndexes

(* What the next commit of an index would hold.                               *)
Current(i) == IF writer[i] = None THEN index[i] ELSE draft[i]
------------------------------------------------------------------------------
(* Who is at work: two requests of one crawl mix it; a crawl that is or was   *)
(* indexed, and is not mixed, is complete; a job has pages to come that are   *)
(* complete; a crawl that is being removed with its documents keeps its mark. *)
AloneOf(r, q) == r # q /\ Alive(r) /\ Alive(q) /\ Of(r) = Of(q) => Of(r) \in mixed
Alone == \A r, q \in Requests : AloneOf(r, q)

Touched(c) == \/ node[c] \in Indexes \/ finished[c] # {}
              \/ \E r \in Requests : Alive(r) /\ Of(r) = c
CrawledOf(c) == Touched(c) => \/ crawler[c] = "done"
                              \/ c \in mixed /\ crawler[c] # "none"
CrawledFirst == \A c \in Crawls : CrawledOf(c)

PutWhileCrawling == \A c \in Crawls, p \in Pages : InPut(c, p) => crawler[c] = "crawl"

TodoOf(r) == Indexing(r) /\ Of(r) \notin mixed =>
               \A p \in request[r].todo : page[Of(r)][p] \in {"full", "other"}
TodoIsThere == \A r \in Requests : TodoOf(r)

MarkedFor(r) == Dropping(r) /\ On(r) \in Indexes /\ Of(r) \notin mixed => node[Of(r)] = On(r)
RemovesMarked == \A r \in Requests : MarkedFor(r)

WhoInv == Alone /\ CrawledFirst /\ PutWhileCrawling /\ TodoIsThere /\ RemovesMarked

(* A draft differs from its index in the crawl of the job only.               *)
OthersKeptOn(i) == writer[i] # None =>
                     \A c \in Crawls : c # Of(writer[i]) => draft[i][c] = index[i][c]
OthersKept == \A i \in Indexes : OthersKeptOn(i)
------------------------------------------------------------------------------
NoneOf(x, c)  == \A p \in Pages : x[c][p] = "none"
AllOf(x, c)   == \A p \in Pages : page[c][p] = "full" => x[c][p] = "whole"

(* An index that neither the mark of a crawl nor a job names has nothing of it *)
IsNamed(c, i) == node[c] = i \/ \E r \in Requests : Asking(r) /\ Of(r) = c /\ On(r) = i
UnnamedOf(c, i) == c \notin mixed /\ i \notin strayed[c] /\ ~IsNamed(c, i) => NoneOf(index[i], c)
Unnamed == \A c \in Crawls, i \in Indexes : UnnamedOf(c, i)

(* ... and no index has a page that is not complete.                          *)
OnlyFullOf(c, i) ==
  c \notin mixed /\ i \notin strayed[c] =>
    \A p \in Pages : page[c][p] # "full" => index[i][c][p] = "none" /\ Current(i)[c][p] = "none"
OnlyFull == \A c \in Crawls, i \in Indexes : OnlyFullOf(c, i)

(* Nothing is left of a crawl when its removal comes to drop it.              *)
ClearedOf(r) == Dropping(r) /\ request[r].returned /\ Of(r) \notin mixed => NoneOf(index[On(r)], Of(r))
Cleared == \A r \in Requests : ClearedOf(r)

(* The pages of a crawl are in an index in which a job returned and, as far   *)
(* as a job has come, in what its next commit would hold.                     *)
FinishedOf(c, i) == c \notin mixed /\ i \in finished[c] => AllOf(index[i], c) /\ AllOf(Current(i), c)
Finished == \A c \in Crawls, i \in Indexes : FinishedOf(c, i)

SoFarOf(r) ==
  Indexing(r) /\ Of(r) \notin mixed =>
    \A p \in Pages \ request[r].todo :
       page[Of(r)][p] = "full" => Current(On(r))[Of(r)][p] = "whole"
SoFar == \A r \in Requests : SoFarOf(r)

(* Anchors are missing only where a page was read while it was put.           *)
ThinOf(c, i) == \A p \in Pages :
                  index[i][c][p] = "thin" \/ Current(i)[c][p] = "thin" => c \in mixed
ThinMixed == \A c \in Crawls, i \in Indexes : ThinOf(c, i)

ContentInv == Unnamed /\ OnlyFull /\ Cleared /\ Finished /\ SoFar /\ ThinMixed
------------------------------------------------------------------------------
LEMMA RequestFields ==
  ASSUME NEW q \in Request
  PROVE  /\ q.kind \in {"index", "remove"} /\ q.crawl \in Crawls /\ q.on \in Indexes \cup {None}
         /\ q.at \in {"wait", "work", "closed", "mark", "drop"} /\ q.returned \in BOOLEAN
         /\ q.todo \in SUBSET Pages /\ q.read \in Nat
BY DEF Request

LEMMA AliveFields ==
  ASSUME TypeOK, NEW r \in Requests, Alive(r)
  PROVE  /\ request[r] \in Request
         /\ request[r].kind \in {"index", "remove"} /\ Of(r) \in Crawls
         /\ request[r].at \in {"wait", "work", "closed", "mark", "drop"} /\ request[r].returned \in BOOLEAN
         /\ request[r].todo \in SUBSET Pages /\ request[r].read \in Nat
BY RequestFields DEF TypeOK, Alive, Of

LEMMA Where ==
  ASSUME TypeOK, NEW r \in Requests, PlacedAt(r), Alive(r), request[r].at # "drop"
  PROVE  On(r) \in Indexes
BY DEF PlacedAt

(* How a request is changed: by a step of its own. *)
Becomes(r, q) == request' = [request EXCEPT ![r] = q]

LEMMA BecomesIs ==
  ASSUME TypeOK, NEW r \in Requests, NEW q, Becomes(r, q)
  PROVE  /\ request'[r] = q /\ \A s \in Requests : s # r => request'[s] = request[s]
         /\ q \in Request \cup {Idle} => request' \in [Requests -> Request \cup {Idle}]
BY DEF TypeOK, Becomes

(* What the steps of a request make of it.                                    *)
Entered(r) == [request[r] EXCEPT !.at = "work", !.todo = {p \in Pages : page[Of(r)][p] # "none"}]
Passed(r, p) == [request[r] EXCEPT !.todo = request[r].todo \ {p}]
Put(r, p) == [request[r] EXCEPT !.todo = request[r].todo \ {p}, !.read = request[r].read + 1]
Over(r, stage, ok) ==
  IF Owns(r, On(r)) THEN [request[r] EXCEPT !.at = stage, !.returned = ok, !.todo = {}, !.read = 0]
  ELSE Idle

LEMMA ChangedIs ==
  ASSUME TypeOK, NEW r \in Requests, Alive(r)
  PROVE  /\ Entered(r) \in Request /\ Entered(r).kind = request[r].kind
         /\ Entered(r).crawl = request[r].crawl /\ Entered(r).on = request[r].on
         /\ Entered(r).at = "work" /\ Entered(r).returned = request[r].returned
         /\ Entered(r).todo = {p \in Pages : page[Of(r)][p] # "none"}
         /\ \A p \in Pages : \A q \in {Passed(r, p), Put(r, p)} :
              /\ q \in Request /\ q.kind = request[r].kind /\ q.crawl = request[r].crawl
              /\ q.on = request[r].on /\ q.at = request[r].at /\ q.returned = request[r].returned
              /\ q.todo = request[r].todo \ {p}
         /\ \A stage \in {"mark", "drop"}, ok \in BOOLEAN : \A q : q = Over(r, stage, ok) =>
              \/ ~Owns(r, On(r)) /\ q = Idle
              \/ /\ Owns(r, On(r)) /\ q \in Request /\ q.kind = request[r].kind
                 /\ q.crawl = request[r].crawl /\ q.on = request[r].on /\ q.at = stage /\ q.returned = ok
<1>1. request[r] \in Request
  BY AliveFields
<1>2. /\ Entered(r) \in Request /\ Entered(r).kind = request[r].kind
      /\ Entered(r).crawl = request[r].crawl /\ Entered(r).on = request[r].on
      /\ Entered(r).at = "work" /\ Entered(r).returned = request[r].returned
      /\ Entered(r).todo = {p \in Pages : page[Of(r)][p] # "none"}
  BY <1>1 DEF Entered, Request
<1>3. ASSUME NEW p \in Pages, NEW q \in {Passed(r, p), Put(r, p)}
      PROVE  /\ q \in Request /\ q.kind = request[r].kind /\ q.crawl = request[r].crawl
             /\ q.on = request[r].on /\ q.at = request[r].at /\ q.returned = request[r].returned
             /\ q.todo = request[r].todo \ {p}
  <2>1. request[r].todo \ {p} \in SUBSET Pages /\ request[r].read + 1 \in Nat
    BY AliveFields
  <2>2. CASE q = Passed(r, p)
    BY <1>1, <2>1, <2>2 DEF Passed, Request
  <2>3. CASE q = Put(r, p)
    BY <1>1, <2>1, <2>3 DEF Put, Request
  <2> QED BY <1>3, <2>2, <2>3
<1>4. ASSUME NEW stage \in {"mark", "drop"}, NEW ok \in BOOLEAN, NEW q, q = Over(r, stage, ok)
      PROVE  \/ ~Owns(r, On(r)) /\ q = Idle
             \/ /\ Owns(r, On(r)) /\ q \in Request /\ q.kind = request[r].kind
                /\ q.crawl = request[r].crawl /\ q.on = request[r].on /\ q.at = stage /\ q.returned = ok
  BY <1>1, <1>4 DEF Over, Request
<1> QED BY <1>2, <1>3, <1>4

LEMMA StepBecomes ==
  ASSUME TypeOK, NEW r \in Requests
  PROVE  /\ Enter(r) => Alive(r) /\ Becomes(r, Entered(r))
         /\ IndexPage(r) => Alive(r) /\ \E p \in request[r].todo :
                              Becomes(r, Passed(r, p)) \/ Becomes(r, Put(r, p))
         /\ IndexReturns(r) => Alive(r) /\ Becomes(r, Over(r, "mark", TRUE))
         /\ IndexThrows(r) => Alive(r) /\ Becomes(r, Over(r, "mark", FALSE))
         /\ Unindex(r) => Alive(r) /\ Becomes(r, Over(r, "drop", TRUE))
         /\ UnindexThrows(r) => Alive(r) /\ Becomes(r, Over(r, "drop", FALSE))
         /\ Mark(r) \/ Drop(r) => Alive(r) /\ Becomes(r, Idle)
<1>1. Enter(r) => Alive(r) /\ Becomes(r, Entered(r))
  BY DEF Enter, At, Alive, Becomes, Entered, TypeOK
<1>2. IndexPage(r) => Alive(r) /\ \E p \in request[r].todo :
                              Becomes(r, Passed(r, p)) \/ Becomes(r, Put(r, p))
  BY DEF IndexPage, Indexing, At, Alive, Becomes, Passed, Put, TypeOK
<1>3. /\ IndexReturns(r) => Alive(r) /\ Becomes(r, Over(r, "mark", TRUE))
      /\ IndexThrows(r) => Alive(r) /\ Becomes(r, Over(r, "mark", FALSE))
  BY DEF IndexReturns, IndexThrows, Indexing, At, Alive, Becomes, Over, AfterIndex, Continue
<1>4. /\ Unindex(r) => Alive(r) /\ Becomes(r, Over(r, "drop", TRUE))
      /\ UnindexThrows(r) => Alive(r) /\ Becomes(r, Over(r, "drop", FALSE))
  BY DEF Unindex, UnindexThrows, Removing, At, Alive, Becomes, Over, AfterUnindex, Continue
<1>5. Mark(r) \/ Drop(r) => Alive(r) /\ Becomes(r, Idle)
  BY DEF Mark, Drop, At, Alive, Becomes
<1> QED BY <1>1, <1>2, <1>3, <1>4, <1>5
------------------------------------------------------------------------------
(* What a step does to the index it is for, and that it leaves the others.    *)
OthersSame(i) == \A j \in Indexes : j # i =>
  index'[j] = index[j] /\ lock'[j] = lock[j] /\ writer'[j] = writer[j] /\ draft'[j] = draft[j]

LEMMA ChangeIs ==
  ASSUME IndexTypes(Content), NEW r \in Requests, NEW i \in Indexes, NEW x \in Content,
         Change(r, i, x) \/ ChangeAndCommit(r, i, x)
  PROVE  /\ IndexTypes(Content)' /\ CanWrite(r, i) /\ OthersSame(i)
         /\ lock'[i] = lock[i] /\ writer'[i] = r /\ draft'[i] = x /\ index'[i] \in {index[i], x}
BY DEF IndexTypes, Change, ChangeAndCommit, OthersSame

LEMMA LetGoIs ==
  ASSUME IndexTypes(Content), NEW r \in Requests, NEW i \in Indexes, LetGo(r, i)
  PROVE  /\ lock' \in [Indexes -> Requests \cup {None}]
         /\ writer' \in [Indexes -> Requests \cup {None}] /\ draft' \in [Indexes -> Content \cup {None}]
         /\ lock'[i] = IF lock[i] = r THEN None ELSE lock[i]
         /\ writer'[i] = IF writer[i] = r THEN None ELSE writer[i]
         /\ draft'[i] = IF writer[i] = r THEN None ELSE draft[i]
         /\ \A j \in Indexes : j # i =>
              lock'[j] = lock[j] /\ writer'[j] = writer[j] /\ draft'[j] = draft[j]
BY DEF IndexTypes, LetGo

LEMMA CloseIs ==
  ASSUME IndexTypes(Content), NEW r \in Requests, NEW i \in Indexes, NEW x \in Content,
         CloseSession(r, i, x)
  PROVE  /\ IndexTypes(Content)' /\ CanWrite(r, i) /\ OthersSame(i) /\ LetGo(r, i)
         /\ index'[i] = x /\ writer'[i] = None
<1>1. LetGo(r, i) /\ CanWrite(r, i) /\ index' = [index EXCEPT ![i] = x]
  BY DEF CloseSession
<1>2. index' \in [Indexes -> Content] /\ index'[i] = x /\ \A j \in Indexes : j # i => index'[j] = index[j]
  BY <1>1 DEF IndexTypes
<1> QED BY <1>1, <1>2, LetGoIs DEF IndexTypes, OthersSame, CanWrite

LEMMA AbortIs ==
  ASSUME IndexTypes(Content), NEW r \in Requests, NEW i \in Indexes, AbortSession(r, i)
  PROVE  /\ IndexTypes(Content)' /\ OthersSame(i) /\ LetGo(r, i) /\ index' = index
<1>1. LetGo(r, i) /\ index' = index
  BY DEF AbortSession
<1> QED BY <1>1, LetGoIs DEF IndexTypes, OthersSame

LEMMA SessionIs ==
  ASSUME TInv, NEW r \in Requests, NEW i \in Indexes
  PROVE  /\ Session(r, i) \in Content
         /\ CanWrite(r, i) => Session(r, i) = Current(i)
         /\ Current(i) \in Content
<1>1. writer[i] # None => draft[i] \in Content
  BY DEF TInv, WriterIndexes, WriterIndexesOn
<1>2. index[i] \in Content /\ r # None
  BY NoneIsNoThread DEF TInv, TypeOK, IndexTypes
<1> QED BY <1>1, <1>2 DEF Session, Current, CanWrite

LEMMA WithPageIs ==
  ASSUME TInv, NEW r \in Requests, Alive(r), On(r) \in Indexes, NEW p \in Pages
  PROVE  /\ WithPage(r, p) \in Content
         /\ \A c \in Crawls : c # Of(r) => WithPage(r, p)[c] = Session(r, On(r))[c]
         /\ WithPage(r, p)[Of(r)][p] = Doc(r, p)
         /\ \A q \in Pages : q # p => WithPage(r, p)[Of(r)][q] = Session(r, On(r))[Of(r)][q]
<1>1. Session(r, On(r)) \in Content /\ Of(r) \in Crawls
  BY SessionIs, AliveFields DEF TInv
<1>2. Doc(r, p) \in {"none", "thin", "whole"}
  BY DEF Doc
<1> QED BY <1>1, <1>2 DEF WithPage, Content

LEMMA UnindexedIs ==
  ASSUME TInv, NEW r \in Requests, Alive(r), On(r) \in Indexes
  PROVE  /\ Unindexed(r) \in Content
         /\ \A c \in Crawls : c # Of(r) => Unindexed(r)[c] = Session(r, On(r))[c]
         /\ \A p \in Pages : Unindexed(r)[Of(r)][p] = "none"
<1>1. Session(r, On(r)) \in Content /\ Of(r) \in Crawls
  BY SessionIs, AliveFields DEF TInv
<1> QED BY <1>1 DEF Unindexed, NoPages, Content

(* The steps of a job, each with what it does to its index and its request.   *)
Passes(r) == /\ \E p \in request[r].todo : page[Of(r)][p] = "other" /\ Becomes(r, Passed(r, p))
             /\ UNCHANGED <<ixvars, strayed, finished>>
Puts(r)   == /\ \E p \in request[r].todo :
                  /\ page[Of(r)][p] \in {"bare", "full"} /\ Becomes(r, Put(r, p))
                  /\ \/ Change(r, On(r), WithPage(r, p))
                     \/ ChangeAndCommit(r, On(r), WithPage(r, p))
             /\ UNCHANGED <<strayed, finished>>
MayUnmark(r) == strayed' = IF Owns(r, On(r)) THEN strayed ELSE Unmarks(r)
Returns(r) == /\ request[r].todo = {} /\ CloseSession(r, On(r), Session(r, On(r)))
              /\ Becomes(r, Over(r, "mark", TRUE)) /\ MayUnmark(r) /\ Finish(r)
Throws(r)  == /\ AbortSession(r, On(r)) /\ Becomes(r, Over(r, "mark", FALSE))
              /\ MayUnmark(r) /\ UNCHANGED finished
Removes(r) == /\ CloseSession(r, On(r), Unindexed(r)) /\ Becomes(r, Over(r, "drop", TRUE))
              /\ Unfinish(r) /\ UNCHANGED strayed
Fails(r)   == /\ AbortSession(r, On(r)) /\ Becomes(r, Over(r, "drop", FALSE))
              /\ UNCHANGED <<strayed, finished>>

JobStep(r) ==
  /\ Alive(r) /\ request[r].at = "work"
  /\ \/ request[r].kind = "index" /\ (Passes(r) \/ Puts(r) \/ Returns(r) \/ Throws(r))
     \/ request[r].kind = "remove" /\ (Removes(r) \/ Fails(r))
  /\ UNCHANGED <<store, known, counts, mixed>>

LEMMA JobSteps ==
  ASSUME TypeOK, NEW r \in Requests,
         IndexPage(r) \/ IndexReturns(r) \/ IndexThrows(r) \/ Unindex(r) \/ UnindexThrows(r)
  PROVE  JobStep(r)
<1>1. CASE IndexPage(r)
  <2>1. /\ Alive(r) /\ request[r].at = "work" /\ request[r].kind = "index"
        /\ UNCHANGED <<store, known, counts, mixed>> /\ UNCHANGED <<strayed, finished>>
    BY <1>1 DEF IndexPage, Indexing, At, Alive, history
  <2>2. Passes(r) \/ Puts(r)
    BY <1>1, <2>1 DEF IndexPage, Passes, Puts, Becomes, Passed, Put, TypeOK
  <2> QED BY <2>1, <2>2 DEF JobStep
<1>2. CASE IndexReturns(r)
  <2>1. /\ Alive(r) /\ request[r].at = "work" /\ request[r].kind = "index"
        /\ UNCHANGED <<store, known, counts, mixed>>
    BY <1>2 DEF IndexReturns, AfterIndex, Indexing, At, Alive
  <2>2. Returns(r)
    BY <1>2, StepBecomes DEF IndexReturns, AfterIndex, Returns, MayUnmark
  <2> QED BY <2>1, <2>2 DEF JobStep
<1>3. CASE IndexThrows(r)
  <2>1. /\ Alive(r) /\ request[r].at = "work" /\ request[r].kind = "index"
        /\ UNCHANGED <<store, known, counts, mixed>>
    BY <1>3 DEF IndexThrows, AfterIndex, Indexing, At, Alive
  <2>2. Throws(r)
    BY <1>3, StepBecomes DEF IndexThrows, AfterIndex, Throws, MayUnmark
  <2> QED BY <2>1, <2>2 DEF JobStep
<1>4. CASE Unindex(r)
  <2>1. /\ Alive(r) /\ request[r].at = "work" /\ request[r].kind = "remove"
        /\ UNCHANGED <<store, known, counts, mixed>> /\ UNCHANGED strayed
    BY <1>4 DEF Unindex, AfterUnindex, Removing, At, Alive
  <2>2. Removes(r)
    BY <1>4, <2>1, StepBecomes DEF Unindex, Removes
  <2> QED BY <2>1, <2>2 DEF JobStep
<1>5. CASE UnindexThrows(r)
  <2>1. /\ Alive(r) /\ request[r].at = "work" /\ request[r].kind = "remove"
        /\ UNCHANGED <<store, known, counts, mixed>> /\ UNCHANGED strayed
    BY <1>5 DEF UnindexThrows, AfterUnindex, Removing, At, Alive
  <2>2. Fails(r)
    BY <1>5, <2>1, StepBecomes DEF UnindexThrows, Fails
  <2> QED BY <2>1, <2>2 DEF JobStep
<1> QED BY <1>1, <1>2, <1>3, <1>4, <1>5
------------------------------------------------------------------------------
LEMMA TypeInit == Init => TInv
<1> SUFFICES ASSUME Init PROVE TInv
  OBVIOUS
<1>1. IndexTypes(Content)
  BY DEF Init, IndexInit, NoContent, IndexTypes, Content
<1>2. 1 \in 1 .. MaxPages + 1
  BY PagesAndUnit
<1>3. TypeOK
  BY <1>1, <1>2 DEF Init, NoPages, TypeOK, PageStates
<1>4. Placed /\ WriterIndexes
  BY DEF Init, IndexInit, Placed, PlacedAt, Alive, WriterIndexes, WriterIndexesOn
<1> QED BY <1>3, <1>4 DEF TInv

LEMMA PlacedKept ==
  ASSUME Placed, NEW r \in Requests, \A s \in Requests : s # r => request'[s] = request[s],
         PlacedAt(r)'
  PROVE  Placed'
BY DEF Placed, PlacedAt, Alive, On

LEMMA WritersKept ==
  ASSUME TInv, NEW r \in Requests, \A s \in Requests : s # r => request'[s] = request[s],
         UNCHANGED <<writer, draft>>, ~ (Alive(r) /\ request[r].at = "work")
  PROVE  WriterIndexes'
<1> SUFFICES ASSUME NEW i \in Indexes, writer[i] # None PROVE WriterIndexesOn(i)'
  BY DEF WriterIndexes, WriterIndexesOn
<1>1. Indexing(writer[i]) /\ On(writer[i]) = i /\ draft[i] \in Content /\ writer[i] \in Requests
  BY DEF TInv, WriterIndexes, WriterIndexesOn, TypeOK, IndexTypes
<1>2. writer[i] # r
  BY <1>1 DEF Indexing, At, Alive
<1> QED BY <1>1, <1>2 DEF WriterIndexesOn, Indexing, At, On

LEMMA StoreTypeStep ==
  ASSUME TInv, NEW c \in Crawls, CrawlSite(c) \/ CrawlStep(c)
  PROVE  TInv'
<1>0. TypeOK /\ UNCHANGED <<ixvars, known, request, counts, history>>
  BY DEF TInv, CrawlSite, CrawlStep, Create, PutName, PutPage, CommitPage, CrawlEnds
<1>1. Merged(c) \in Indexes \cup {Absent, Unmarked}
  BY <1>0 DEF TypeOK, Merged
<1>2. \A p \in Pages : p + 1 \in 1 .. MaxPages + 1
  BY PagesAndUnit DEF Pages
<1>3. node' \in [Crawls -> Indexes \cup {Absent, Unmarked}]
  BY <1>0, <1>1 DEF TypeOK, CrawlSite, CrawlStep, Create, PutName, PutPage, CommitPage, CrawlEnds
<1>4. page' \in [Crawls -> [Pages -> PageStates]]
  <2>1. ASSUME NEW p \in Pages, NEW s \in PageStates, page' = [page EXCEPT ![c][p] = s]
        PROVE  page' \in [Crawls -> [Pages -> PageStates]]
    BY <1>0, <2>1 DEF TypeOK
  <2>2. {"named", "bare", "full", "other"} \subseteq PageStates
    BY DEF PageStates
  <2>3. CASE PutName(c)
    BY <2>1, <2>2, <2>3 DEF PutName
  <2>4. CASE PutPage(c)
    BY <2>1, <2>2, <2>4 DEF PutPage
  <2>5. CASE CommitPage(c)
    BY <2>1, <2>2, <2>5 DEF CommitPage
  <2>6. CASE CrawlSite(c) \/ Create(c) \/ CrawlEnds(c)
    BY <1>0, <2>6 DEF TypeOK, CrawlSite, Create, CrawlEnds
  <2> QED BY <2>3, <2>4, <2>5, <2>6 DEF CrawlStep
<1>5. crawler' \in [Crawls -> {"none", "start", "crawl", "done"}]
  BY <1>0 DEF TypeOK, CrawlSite, CrawlStep, Create, PutName, PutPage, CommitPage, CrawlEnds
<1>6. next' \in [Crawls -> 1 .. MaxPages + 1]
  BY <1>0, <1>2 DEF TypeOK, CrawlSite, CrawlStep, Create, PutName, PutPage, CommitPage, CrawlEnds
<1>7. TypeOK'
  BY <1>0, <1>3, <1>4, <1>5, <1>6 DEF TypeOK, IndexTypes, ixvars, counts, history
<1>8. Placed' /\ WriterIndexes'
  BY <1>0 DEF TInv, Placed, PlacedAt, Alive, On, WriterIndexes, WriterIndexesOn, Indexing, At, ixvars
<1> QED BY <1>7, <1>8 DEF TInv

IsAskOf(q, c) ==
  /\ q # Idle /\ q.crawl = c /\ ~q.returned
  /\ \/ /\ q.at = "wait" /\ q.on \in Indexes
        /\ q.kind = "remove" => node[c] = q.on
     \/ q.at = "drop" /\ q.kind = "remove" /\ q.on = None

LEMMA AskSteps ==
  ASSUME TInv, NEW r \in Requests, NEW c \in Crawls,
         (\E i \in Indexes : AskIndex(r, c, i)) \/ (\E with \in BOOLEAN : AskRemove(r, c, with))
  PROVE  /\ \E q \in Request : Becomes(r, q) /\ IsAskOf(q, c)
         /\ request[r] = Idle /\ crawler[c] # "none" /\ Counted /\ Mixes(c, Busy(c) \/ Crawling(c))
         /\ UNCHANGED <<ixvars, store, known, starts, strayed, finished>>
<1>1. CASE \E i \in Indexes : AskIndex(r, c, i)
  <2>1. PICK i \in Indexes : AskIndex(r, c, i)
    BY <1>1
  <2>2. PICK q : q = Asked("index", c, i, "wait")
    OBVIOUS
  <2>3. /\ q \in Request /\ q # Idle /\ q.kind = "index" /\ q.crawl = c /\ q.on = i /\ q.at = "wait"
        /\ q.returned = FALSE
    <3>1. q \in Request
      BY <2>2 DEF Asked, Request
    <3> QED BY <3>1, <2>2, IdleIsNoRequest DEF Asked
  <2>4. Becomes(r, q)
    BY <2>1, <2>2 DEF AskIndex, Becomes
  <2>5. /\ request[r] = Idle /\ crawler[c] # "none" /\ Counted /\ Mixes(c, Busy(c) \/ Crawling(c))
        /\ UNCHANGED <<ixvars, store, known, starts, strayed, finished>>
    BY <2>1 DEF AskIndex
  <2>6. IsAskOf(q, c)
    BY <2>3 DEF IsAskOf
  <2> QED BY <2>3, <2>4, <2>5, <2>6
<1>2. CASE \E with \in BOOLEAN : AskRemove(r, c, with)
  <2>1. PICK with \in BOOLEAN : AskRemove(r, c, with)
    BY <1>2
  <2>2. /\ request[r] = Idle /\ crawler[c] # "none" /\ Counted /\ Mixes(c, Busy(c) \/ Crawling(c))
        /\ UNCHANGED <<ixvars, store, known, starts, strayed, finished>>
    BY <2>1 DEF AskRemove
  <2>3. CASE with /\ node[c] \in known
    <3>0. node[c] \in Indexes
      BY <2>3 DEF TInv, TypeOK
    <3>1. PICK q : q = Asked("remove", c, node[c], "wait")
      OBVIOUS
    <3>2. /\ q \in Request /\ q # Idle /\ q.kind = "remove" /\ q.crawl = c /\ q.on = node[c] /\ q.at = "wait"
          /\ q.returned = FALSE
      <4>1. q \in Request
        BY <3>0, <3>1 DEF Asked, Request
      <4> QED BY <4>1, <3>1, IdleIsNoRequest DEF Asked
    <3>3. Becomes(r, q)
      BY <2>1, <2>3, <3>1 DEF AskRemove, Becomes
    <3>4. IsAskOf(q, c)
      BY <3>0, <3>2 DEF IsAskOf
    <3> QED BY <2>2, <3>2, <3>3, <3>4
  <2>4. CASE ~(with /\ node[c] \in known)
    <3>1. PICK q : q = Asked("remove", c, None, "drop")
      OBVIOUS
    <3>2. /\ q \in Request /\ q # Idle /\ q.kind = "remove" /\ q.crawl = c /\ q.on = None /\ q.at = "drop"
          /\ q.returned = FALSE
      <4>1. q \in Request
        BY <3>1 DEF Asked, Request
      <4> QED BY <4>1, <3>1, IdleIsNoRequest DEF Asked
    <3>3. Becomes(r, q)
      BY <2>1, <2>4, <3>1 DEF AskRemove, Becomes
    <3>4. IsAskOf(q, c)
      BY <3>2 DEF IsAskOf
    <3> QED BY <2>2, <3>2, <3>3, <3>4
  <2> QED BY <2>3, <2>4
<1> QED BY <1>1, <1>2

LEMMA AskTypeStep ==
  ASSUME TInv, NEW r \in Requests, NEW c \in Crawls,
         (\E i \in Indexes : AskIndex(r, c, i)) \/ (\E with \in BOOLEAN : AskRemove(r, c, with))
  PROVE  TInv'
<1>0. TypeOK
  BY DEF TInv
<1>1. PICK q \in Request : Becomes(r, q) /\ IsAskOf(q, c)
  BY AskSteps
<1>2. /\ request[r] = Idle /\ Counted /\ Mixes(c, Busy(c) \/ Crawling(c))
      /\ UNCHANGED <<ixvars, store, known, starts, strayed, finished>>
  BY AskSteps
<1>3. /\ request'[r] = q /\ \A s \in Requests : s # r => request'[s] = request[s]
      /\ request' \in [Requests -> Request \cup {Idle}]
  BY <1>0, <1>1, BecomesIs
<1>4. TypeOK'
  BY <1>0, <1>2, <1>3 DEF TypeOK, IndexTypes, ixvars, store, Counted, Mixes
<1>5. PlacedAt(r)'
  BY <1>1, <1>3 DEF PlacedAt, Alive, On, IsAskOf
<1>6. Placed'
  BY <1>3, <1>5, PlacedKept DEF TInv
<1>7. WriterIndexes'
  BY <1>2, <1>3, WritersKept DEF Alive, ixvars
<1> QED BY <1>4, <1>6, <1>7 DEF TInv

LEMMA EnterIs ==
  ASSUME TInv, NEW r \in Requests, Enter(r)
  PROVE  /\ Alive(r) /\ request[r].at = "wait" /\ On(r) \in Indexes /\ Becomes(r, Entered(r))
         /\ UNCHANGED <<index, writer, draft, store, known, counts, history>>
         /\ lock' = [lock EXCEPT ![On(r)] = r] \/ lock' = lock
<1>1. Alive(r) /\ request[r].at = "wait" /\ Becomes(r, Entered(r))
  BY StepBecomes DEF TInv, Enter, At
<1>2. On(r) \in Indexes
  BY <1>1, Where DEF TInv, Placed
<1> QED BY <1>1, <1>2 DEF Enter, TakeLock, GiveUpLock, ixvars

LEMMA EnterTypeStep ==
  ASSUME TInv, NEW r \in Requests, Enter(r)
  PROVE  TInv'
<1>0. TypeOK
  BY DEF TInv
<1>1. /\ Alive(r) /\ request[r].at = "wait" /\ On(r) \in Indexes /\ Becomes(r, Entered(r))
      /\ UNCHANGED <<index, writer, draft, store, known, counts, history>>
      /\ lock' = [lock EXCEPT ![On(r)] = r] \/ lock' = lock
  BY EnterIs
<1>2. /\ request'[r] = Entered(r) /\ \A s \in Requests : s # r => request'[s] = request[s]
      /\ request' \in [Requests -> Request \cup {Idle}]
  BY <1>0, <1>1, BecomesIs, ChangedIs
<1>3. TypeOK'
  BY <1>0, <1>1, <1>2 DEF TypeOK, IndexTypes, store, counts, history
<1>4. PlacedAt(r)'
  <2>1. PlacedAt(r)
    BY DEF TInv, Placed
  <2>2. ~request[r].returned
    BY <1>1, <2>1 DEF PlacedAt
  <2> QED BY <1>0, <1>1, <1>2, <2>2, ChangedIs DEF PlacedAt, On
<1>5. Placed'
  BY <1>2, <1>4, PlacedKept DEF TInv
<1>6. WriterIndexes'
  BY <1>1, <1>2, WritersKept
<1> QED BY <1>3, <1>5, <1>6 DEF TInv

(* What a step of a job keeps of its request and of the indexes.              *)
LEMMA JobIs ==
  ASSUME TInv, NEW r \in Requests, JobStep(r)
  PROVE  /\ Alive(r) /\ request[r].at = "work" /\ On(r) \in Indexes /\ Of(r) \in Crawls
         /\ UNCHANGED <<store, known, counts, mixed>>
         /\ \A s \in Requests : s # r => request'[s] = request[s]
         /\ request' \in [Requests -> Request \cup {Idle}]
         /\ \/ request'[r] = Idle /\ ~Owns(r, On(r))
            \/ /\ request'[r] # Idle /\ request'[r].kind = request[r].kind
               /\ request'[r].crawl = request[r].crawl /\ request'[r].on = request[r].on
               /\ \/ /\ request'[r].at = "work" /\ ~request'[r].returned
                     /\ request'[r].todo \subseteq request[r].todo
                  \/ /\ request'[r].at = IF request[r].kind = "index" THEN "mark" ELSE "drop"
                     /\ request'[r].returned => ~Throws(r) /\ ~Fails(r)
<1>0. TypeOK /\ Alive(r) /\ request[r].at = "work" /\ UNCHANGED <<store, known, counts, mixed>>
  BY DEF TInv, JobStep
<1>1. On(r) \in Indexes /\ Of(r) \in Crawls
  BY <1>0, Where, AliveFields DEF TInv, Placed
<1>2. ~request[r].returned
  BY <1>0 DEF TInv, Placed, PlacedAt
<1>3. CASE request[r].kind = "index" /\ (Passes(r) \/ Puts(r))
  <2>2. PICK p \in request[r].todo : \E q \in {Passed(r, p), Put(r, p)} : Becomes(r, q)
    BY <1>3 DEF Passes, Puts
  <2>3. PICK q \in {Passed(r, p), Put(r, p)} : Becomes(r, q)
    BY <2>2
  <2>4. p \in Pages
    BY <1>0, AliveFields
  <2>5. /\ q \in Request /\ q.kind = request[r].kind /\ q.crawl = request[r].crawl
        /\ q.on = request[r].on /\ q.at = request[r].at /\ q.returned = request[r].returned
        /\ q.todo \subseteq request[r].todo
    BY <1>0, <2>2, <2>4, ChangedIs
  <2>6. /\ request'[r] = q /\ \A s \in Requests : s # r => request'[s] = request[s]
        /\ request' \in [Requests -> Request \cup {Idle}]
    BY <1>0, <2>3, <2>5, BecomesIs
  <2>7. q # Idle
    BY <2>5, IdleIsNoRequest
  <2> QED BY <1>0, <1>1, <1>2, <2>5, <2>6, <2>7
<1>4. ASSUME NEW stage \in {"mark", "drop"}, NEW ok \in BOOLEAN, Becomes(r, Over(r, stage, ok)),
             stage = IF request[r].kind = "index" THEN "mark" ELSE "drop"
      PROVE  /\ \A s \in Requests : s # r => request'[s] = request[s]
             /\ request' \in [Requests -> Request \cup {Idle}]
             /\ \/ request'[r] = Idle /\ ~Owns(r, On(r))
                \/ /\ request'[r] # Idle /\ request'[r].kind = request[r].kind
                   /\ request'[r].crawl = request[r].crawl /\ request'[r].on = request[r].on
                   /\ request'[r].at = stage /\ request'[r].returned = ok /\ Owns(r, On(r))
  <2>1. PICK q : q = Over(r, stage, ok)
    OBVIOUS
  <2>2. \/ ~Owns(r, On(r)) /\ q = Idle
        \/ /\ Owns(r, On(r)) /\ q \in Request /\ q.kind = request[r].kind
           /\ q.crawl = request[r].crawl /\ q.on = request[r].on /\ q.at = stage /\ q.returned = ok
    BY <1>0, <2>1, ChangedIs
  <2>3. /\ request'[r] = q /\ \A s \in Requests : s # r => request'[s] = request[s]
        /\ request' \in [Requests -> Request \cup {Idle}]
    BY <1>0, <1>4, <2>1, <2>2, BecomesIs
  <2> QED BY <2>2, <2>3, IdleIsNoRequest
<1>5. ASSUME Throws(r) \/ Fails(r), request'[r] # Idle PROVE ~request'[r].returned
  <2>0. PICK ok \in BOOLEAN : ok = FALSE
    OBVIOUS
  <2>1. PICK stage \in {"mark", "drop"} : Becomes(r, Over(r, stage, ok))
    BY <1>5, <2>0 DEF Throws, Fails
  <2>2. PICK q : q = Over(r, stage, ok)
    OBVIOUS
  <2>3. q = Idle \/ (q \in Request /\ q.returned = ok)
    BY <1>0, <2>2, ChangedIs
  <2>4. request'[r] = q
    BY <1>0, <2>1, <2>2, BecomesIs
  <2> QED BY <1>5, <2>0, <2>3, <2>4
<1>6. CASE request[r].kind = "index" /\ (Returns(r) \/ Throws(r))
  <2>1. Becomes(r, Over(r, "mark", TRUE)) \/ Becomes(r, Over(r, "mark", FALSE))
    BY <1>6 DEF Returns, Throws
  <2> QED BY <1>0, <1>1, <1>4, <1>5, <1>6, <2>1
<1>7. CASE request[r].kind = "remove" /\ (Removes(r) \/ Fails(r))
  <2>1. Becomes(r, Over(r, "drop", TRUE)) \/ Becomes(r, Over(r, "drop", FALSE))
    BY <1>7 DEF Removes, Fails
  <2> QED BY <1>0, <1>1, <1>4, <1>5, <1>7, <2>1
<1> QED BY <1>3, <1>6, <1>7 DEF JobStep

(* What a step of a job makes of the history: the index strays when a request *)
(* to index ends there; it is finished when the job returned, and not after a *)
(* removal that returned.                                                     *)
LEMMA JobHistory ==
  ASSUME TInv, NEW r \in Requests, JobStep(r)
  PROVE  /\ strayed' \in [Crawls -> SUBSET Indexes] /\ finished' \in [Crawls -> SUBSET Indexes]
         /\ \A d \in Crawls : strayed[d] \subseteq strayed'[d]
         /\ \A d \in Crawls, i \in Indexes :
              i \in finished'[d] => i \in finished[d] \/ (Returns(r) /\ d = Of(r) /\ i = On(r))
         /\ Removes(r) => On(r) \notin finished'[Of(r)]
         /\ request[r].kind = "index" /\ request'[r] = Idle => On(r) \in strayed'[Of(r)]
<1>0. /\ TypeOK /\ Alive(r) /\ On(r) \in Indexes /\ Of(r) \in Crawls
      /\ request'[r] = Idle => ~Owns(r, On(r))
  BY JobIs DEF TInv
<1>1. /\ Unmarks(r) \in [Crawls -> SUBSET Indexes] /\ On(r) \in Unmarks(r)[Of(r)]
      /\ \A d \in Crawls : strayed[d] \subseteq Unmarks(r)[d]
  BY <1>0 DEF TypeOK, Unmarks
<1>2. Removes(r) => On(r) \notin finished'[Of(r)]
  BY <1>0 DEF Removes, Unfinish, TypeOK
<1>3. CASE Passes(r) \/ Puts(r)
  <2>1. strayed' = strayed /\ finished' = finished
    BY <1>3 DEF Passes, Puts
  <2>2. PICK p \in request[r].todo : Becomes(r, Passed(r, p)) \/ Becomes(r, Put(r, p))
    BY <1>3 DEF Passes, Puts
  <2>3. p \in Pages
    BY <1>0, AliveFields
  <2>4. PICK q \in {Passed(r, p), Put(r, p)} : Becomes(r, q)
    BY <2>2
  <2>5. request'[r] = q /\ q \in Request /\ q.at = request[r].at
    BY <1>0, <2>3, <2>4, BecomesIs, ChangedIs
  <2> QED BY <1>0, <1>2, <2>1, <2>5, IdleIsNoRequest DEF TypeOK
<1>4. CASE Returns(r) /\ request[r].kind = "index"
  BY <1>0, <1>1, <1>4, <1>2 DEF Returns, MayUnmark, Finish, TypeOK
<1>5. CASE Throws(r) /\ request[r].kind = "index"
  BY <1>0, <1>1, <1>5, <1>2 DEF Throws, MayUnmark, TypeOK
<1>6. CASE Removes(r) /\ request[r].kind = "remove"
  BY <1>0, <1>6, <1>2 DEF Removes, Unfinish, TypeOK
<1>7. CASE Fails(r) /\ request[r].kind = "remove"
  BY <1>0, <1>2, <1>7 DEF Fails, TypeOK
<1> QED BY <1>3, <1>4, <1>5, <1>6, <1>7 DEF JobStep

(* The four ways a step of a job leaves the index it is for.                  *)
Drafted(r, x)   == /\ CanWrite(r, On(r)) /\ lock' = lock /\ writer'[On(r)] = r
                   /\ draft'[On(r)] = x /\ index'[On(r)] \in {index[On(r)], x}
Committed(r, x) == CanWrite(r, On(r)) /\ LetGo(r, On(r)) /\ index'[On(r)] = x /\ writer'[On(r)] = None
Undone(r)       == LetGo(r, On(r)) /\ index' = index

KeepsOthers(r, x) == \A d \in Crawls : d # Of(r) => x[d] = Session(r, On(r))[d]

LEMMA JobWrites ==
  ASSUME TInv, NEW r \in Requests, JobStep(r)
  PROVE  /\ IndexTypes(Content)' /\ OthersSame(On(r))
         /\ \/ Passes(r) /\ request[r].kind = "index"
            \/ /\ request[r].kind = "index" /\ Puts(r) /\ request'[r].at = "work" /\ request'[r] # Idle
               /\ \E p \in request[r].todo :
                    /\ page[Of(r)][p] \in {"bare", "full"} /\ Becomes(r, Put(r, p))
                    /\ Drafted(r, WithPage(r, p))
            \/ /\ Returns(r) /\ request[r].kind = "index" /\ Committed(r, Session(r, On(r)))
            \/ /\ Throws(r) /\ request[r].kind = "index" /\ Undone(r)
            \/ /\ Removes(r) /\ request[r].kind = "remove" /\ Committed(r, Unindexed(r))
            \/ /\ Fails(r) /\ request[r].kind = "remove" /\ Undone(r)
<1>0. /\ TypeOK /\ IndexTypes(Content) /\ Alive(r) /\ request[r].at = "work"
      /\ On(r) \in Indexes /\ Of(r) \in Crawls
  BY JobIs DEF TInv, TypeOK
<1>1. CASE Passes(r) /\ request[r].kind = "index"
  BY <1>0, <1>1 DEF Passes, IndexTypes, OthersSame, ixvars
<1>2. CASE Puts(r) /\ request[r].kind = "index"
  <2>1. PICK p \in request[r].todo :
          /\ page[Of(r)][p] \in {"bare", "full"} /\ Becomes(r, Put(r, p))
          /\ Change(r, On(r), WithPage(r, p)) \/ ChangeAndCommit(r, On(r), WithPage(r, p))
    BY <1>2 DEF Puts
  <2>2. p \in Pages
    BY <1>0, AliveFields
  <2>3. WithPage(r, p) \in Content
    BY <1>0, <2>2, WithPageIs
  <2>4. IndexTypes(Content)' /\ OthersSame(On(r)) /\ Drafted(r, WithPage(r, p))
    <3>1. lock' = lock
      BY <2>1 DEF Change, ChangeAndCommit
    <3> QED BY <1>0, <2>1, <2>3, <3>1, ChangeIs DEF Drafted
  <2>5. request'[r].at = "work" /\ request'[r] # Idle
    <3>1. /\ Put(r, p) \in Request /\ Put(r, p).at = request[r].at
      BY <1>0, <2>2, ChangedIs
    <3>2. request'[r] = Put(r, p)
      BY <1>0, <2>1, BecomesIs
    <3> QED BY <1>0, <3>1, <3>2, IdleIsNoRequest
  <2> QED BY <1>2, <2>1, <2>4, <2>5
<1>3. CASE Returns(r) /\ request[r].kind = "index"
  <2>1. Session(r, On(r)) \in Content
    BY <1>0, SessionIs
  <2> QED BY <1>0, <1>3, <2>1, CloseIs DEF Returns, Committed
<1>4. CASE Throws(r) /\ request[r].kind = "index"
  BY <1>0, <1>4, AbortIs DEF Throws, Undone
<1>5. CASE Removes(r) /\ request[r].kind = "remove"
  <2>1. Unindexed(r) \in Content
    BY <1>0, UnindexedIs
  <2> QED BY <1>0, <1>5, <2>1, CloseIs DEF Removes, Committed
<1>6. CASE Fails(r) /\ request[r].kind = "remove"
  BY <1>0, <1>6, AbortIs DEF Fails, Undone
<1> QED BY <1>1, <1>2, <1>3, <1>4, <1>5, <1>6 DEF JobStep

(* Whatever the step is, what it writes is the session except for its crawl.  *)
LEMMA JobClasses ==
  ASSUME TInv, NEW r \in Requests, JobStep(r)
  PROVE  /\ OthersSame(On(r))
         /\ \/ UNCHANGED ixvars
               /\ request'[r] # Idle /\ request'[r].at = "work"
            \/ \E x \in Content :
                 /\ KeepsOthers(r, x) /\ Drafted(r, x)
                 /\ request[r].kind = "index" /\ request'[r] # Idle /\ request'[r].at = "work"
            \/ \E x \in Content : KeepsOthers(r, x) /\ Committed(r, x)
            \/ Undone(r)
<1>0. TypeOK /\ Alive(r) /\ On(r) \in Indexes
  BY JobIs DEF TInv
<1>1. CASE Passes(r) /\ request[r].kind = "index"
  <2>1. PICK p \in request[r].todo : Becomes(r, Passed(r, p)) /\ UNCHANGED ixvars
    BY <1>1 DEF Passes
  <2>2. Passed(r, p) \in Request /\ Passed(r, p).at = request[r].at
    BY <1>0, <2>1, AliveFields, ChangedIs
  <2>3. request'[r] = Passed(r, p)
    BY <1>0, <2>1, BecomesIs
  <2>4. request'[r] # Idle /\ request'[r].at = "work"
    BY <2>2, <2>3, IdleIsNoRequest, JobIs
  <2> QED BY <2>1, <2>4, JobWrites
<1>2. CASE \E p \in request[r].todo : /\ Drafted(r, WithPage(r, p)) /\ request[r].kind = "index"
                                      /\ request'[r] # Idle /\ request'[r].at = "work"
  <2>1. PICK p \in request[r].todo : Drafted(r, WithPage(r, p))
    BY <1>2
  <2>2. p \in Pages
    BY <1>0, AliveFields
  <2>3. KeepsOthers(r, WithPage(r, p)) /\ WithPage(r, p) \in Content
    BY <1>0, <2>2, WithPageIs DEF KeepsOthers
  <2> QED BY <1>2, <2>1, <2>3, JobWrites
<1>3. CASE Committed(r, Session(r, On(r)))
  <2>1. Session(r, On(r)) \in Content /\ KeepsOthers(r, Session(r, On(r)))
    BY <1>0, SessionIs DEF KeepsOthers
  <2> QED BY <1>3, <2>1, JobWrites
<1>4. CASE Committed(r, Unindexed(r))
  <2>1. Unindexed(r) \in Content /\ KeepsOthers(r, Unindexed(r))
    BY <1>0, UnindexedIs DEF KeepsOthers
  <2> QED BY <1>4, <2>1, JobWrites
<1>5. CASE Undone(r)
  BY <1>5, JobWrites
<1> QED BY <1>1, <1>2, <1>3, <1>4, <1>5, JobWrites

LEMMA JobTypeStep ==
  ASSUME TInv, NEW r \in Requests, JobStep(r)
  PROVE  TInv'
<1>0. /\ TypeOK /\ Alive(r) /\ request[r].at = "work" /\ On(r) \in Indexes /\ Of(r) \in Crawls
      /\ UNCHANGED <<store, known, counts, mixed>>
      /\ \A s \in Requests : s # r => request'[s] = request[s]
      /\ request' \in [Requests -> Request \cup {Idle}]
  BY JobIs DEF TInv
<1>1. TypeOK'
  BY <1>0, JobWrites, JobHistory DEF TypeOK, IndexTypes, store, counts
<1>2. PlacedAt(r)'
  <2>1. request[r].kind \in {"index", "remove"}
    BY <1>0, AliveFields
  <2> QED BY <1>0, <2>1, JobIs DEF PlacedAt, Alive, On
<1>3. Placed'
  BY <1>0, <1>2, PlacedKept DEF TInv
<1>4. ASSUME NEW i \in Indexes, i # On(r) PROVE WriterIndexesOn(i)'
  <2>1. writer'[i] = writer[i] /\ draft'[i] = draft[i] /\ WriterIndexesOn(i)
    BY <1>4, JobWrites DEF OthersSame, TInv, WriterIndexes
  <2>2. writer[i] \in Requests \cup {None}
    BY <1>0 DEF TypeOK, IndexTypes
  <2> QED BY <1>0, <1>4, <2>1, <2>2 DEF WriterIndexesOn, Indexing, At, On
<1>5. ASSUME NEW i \in Indexes, i = On(r), writer'[i] # None PROVE WriterIndexesOn(i)'
  <2>0. WriterIndexesOn(i) /\ writer[i] \in Requests \cup {None}
    BY <1>0 DEF TInv, WriterIndexes, TypeOK, IndexTypes
  <2>1. CASE UNCHANGED ixvars /\ request'[r] # Idle /\ request'[r].at = "work"
    BY <1>0, <1>5, <2>0, <2>1, JobIs DEF ixvars, WriterIndexesOn, Indexing, At, On
  <2>2. CASE \E x \in Content : /\ KeepsOthers(r, x) /\ Drafted(r, x)
                                /\ request[r].kind = "index" /\ request'[r] # Idle /\ request'[r].at = "work"
    BY <1>0, <1>5, <2>2, JobIs DEF Drafted, WriterIndexesOn, Indexing, At, On
  <2>3. CASE \E x \in Content : KeepsOthers(r, x) /\ Committed(r, x)
    BY <1>5, <2>3 DEF Committed
  <2>4. CASE Undone(r)
    <3>1. writer'[i] = writer[i] /\ writer[i] # r /\ draft'[i] = draft[i]
      BY <1>0, <1>5, <2>4, LetGoIs DEF Undone, TypeOK
    <3> QED BY <1>0, <2>0, <3>1 DEF WriterIndexesOn, Indexing, At, On
  <2> QED BY <2>1, <2>2, <2>3, <2>4, JobClasses
<1> QED BY <1>1, <1>3, <1>4, <1>5 DEF TInv, WriterIndexes, WriterIndexesOn

LEMMA MarkIs ==
  ASSUME TInv, NEW r \in Requests, Mark(r)
  PROVE  /\ Alive(r) /\ request[r].at = "mark" /\ request[r].kind = "index"
         /\ On(r) \in Indexes /\ Of(r) \in Crawls /\ Becomes(r, Idle)
         /\ request'[r] = Idle /\ \A s \in Requests : s # r => request'[s] = request[s]
         /\ node' = [node EXCEPT ![Of(r)] = On(r)]
         /\ strayed' = [strayed EXCEPT ![Of(r)] = @ \cup ({node[Of(r)]} \cap (Indexes \ {On(r)}))]
         /\ UNCHANGED <<ixvars, page, crawler, next, known, counts, mixed, finished>>
<1>0. TypeOK /\ PlacedAt(r)
  BY DEF TInv, Placed
<1>1. Alive(r) /\ request[r].at = "mark" /\ Becomes(r, Idle)
  BY <1>0, StepBecomes DEF Mark, At
<1>2. On(r) \in Indexes /\ Of(r) \in Crawls /\ request[r].kind = "index"
  BY <1>0, <1>1, Where, AliveFields DEF PlacedAt
<1> QED BY <1>0, <1>1, <1>2, BecomesIs DEF Mark

LEMMA MarkTypeStep ==
  ASSUME TInv, NEW r \in Requests, Mark(r)
  PROVE  TInv'
<1>0. /\ TypeOK /\ Alive(r) /\ request[r].at = "mark"
      /\ On(r) \in Indexes /\ Of(r) \in Crawls /\ Becomes(r, Idle)
      /\ request'[r] = Idle /\ \A s \in Requests : s # r => request'[s] = request[s]
      /\ node' = [node EXCEPT ![Of(r)] = On(r)]
      /\ strayed' = [strayed EXCEPT ![Of(r)] = @ \cup ({node[Of(r)]} \cap (Indexes \ {On(r)}))]
      /\ UNCHANGED <<ixvars, page, crawler, next, known, counts, mixed, finished>>
  BY MarkIs DEF TInv
<1>1. request' \in [Requests -> Request \cup {Idle}]
  BY <1>0, BecomesIs
<1>2. TypeOK'
  BY <1>0, <1>1 DEF TypeOK, IndexTypes, ixvars, counts
<1>3. Placed'
  BY <1>0, PlacedKept DEF TInv, PlacedAt, Alive
<1>4. WriterIndexes'
  BY <1>0, WritersKept DEF ixvars
<1> QED BY <1>2, <1>3, <1>4 DEF TInv

LEMMA DropIs ==
  ASSUME TInv, NEW r \in Requests, Drop(r)
  PROVE  /\ Alive(r) /\ request[r].at = "drop" /\ request[r].kind = "remove" /\ Of(r) \in Crawls
         /\ request' \in [Requests -> Request \cup {Idle}]
         /\ request'[r] = Idle /\ \A s \in Requests : s # r => request'[s] = request[s]
         /\ node' = [node EXCEPT ![Of(r)] = Absent] /\ page' = [page EXCEPT ![Of(r)] = NoPages]
         /\ strayed' = [strayed EXCEPT ![Of(r)] =
              IF request[r].returned THEN @ ELSE @ \cup ({node[Of(r)]} \cap Indexes)]
         /\ UNCHANGED <<ixvars, crawler, next, known, counts, mixed, finished>>
<1>0. TypeOK /\ PlacedAt(r)
  BY DEF TInv, Placed
<1>1. Alive(r) /\ request[r].at = "drop" /\ Becomes(r, Idle)
  BY <1>0, StepBecomes DEF Drop, At
<1>2. Of(r) \in Crawls /\ request[r].kind = "remove"
  BY <1>0, <1>1, AliveFields DEF PlacedAt
<1> QED BY <1>0, <1>1, <1>2, BecomesIs DEF Drop

LEMMA DropTypeStep ==
  ASSUME TInv, NEW r \in Requests, Drop(r)
  PROVE  TInv'
<1>0. /\ TypeOK /\ Alive(r) /\ request[r].at = "drop" /\ Of(r) \in Crawls
      /\ request' \in [Requests -> Request \cup {Idle}]
      /\ request'[r] = Idle /\ \A s \in Requests : s # r => request'[s] = request[s]
      /\ node' = [node EXCEPT ![Of(r)] = Absent] /\ page' = [page EXCEPT ![Of(r)] = NoPages]
      /\ strayed' = [strayed EXCEPT ![Of(r)] =
           IF request[r].returned THEN @ ELSE @ \cup ({node[Of(r)]} \cap Indexes)]
      /\ UNCHANGED <<ixvars, crawler, next, known, counts, mixed, finished>>
  BY DropIs DEF TInv
<1>1. NoPages \in [Pages -> PageStates]
  BY DEF NoPages, PageStates
<1>2. TypeOK'
  BY <1>0, <1>1 DEF TypeOK, IndexTypes, ixvars, counts
<1>3. Placed'
  BY <1>0, PlacedKept DEF TInv, PlacedAt, Alive
<1>4. WriterIndexes'
  BY <1>0, WritersKept DEF ixvars
<1> QED BY <1>2, <1>3, <1>4 DEF TInv

(* A request goes on with its crawl and its index, or ends.                   *)
LEMMA ClosedIs ==
  ASSUME TInv, NEW r \in Requests, EndsClosed(r)
  PROVE  /\ Alive(r) /\ request[r].at = "closed" /\ On(r) \in Indexes /\ Of(r) \in Crawls
         /\ ~request[r].returned
         /\ request' \in [Requests -> Request \cup {Idle}]
         /\ \A s \in Requests : s # r => request'[s] = request[s]
         /\ \/ request'[r] = Idle /\ (request[r].kind = "index" => On(r) \in strayed'[Of(r)])
            \/ /\ request'[r] # Idle /\ request'[r].kind = request[r].kind
               /\ request'[r].crawl = request[r].crawl /\ request'[r].on = request[r].on
               /\ request'[r].at = IF request[r].kind = "index" THEN "mark" ELSE "drop"
               /\ ~request'[r].returned
         /\ strayed' \in [Crawls -> SUBSET Indexes]
         /\ \A d \in Crawls : strayed[d] \subseteq strayed'[d]
         /\ UNCHANGED <<ixvars, store, known, counts, mixed, finished>>
<1>0. /\ TypeOK /\ PlacedAt(r) /\ Alive(r) /\ request[r].at = "closed"
      /\ UNCHANGED <<ixvars, store, known, counts, mixed, finished>>
  BY DEF TInv, Placed, EndsClosed, At, Alive
<1>1. /\ On(r) \in Indexes /\ Of(r) \in Crawls /\ request[r] \in Request
      /\ ~request[r].returned
  BY <1>0, Where, AliveFields DEF PlacedAt
<1>2. CASE /\ request' = [request EXCEPT ![r].at = IF request[r].kind = "index" THEN "mark" ELSE "drop"]
           /\ UNCHANGED strayed
  <2>1. PICK q : q = [request[r] EXCEPT !.at = IF request[r].kind = "index" THEN "mark" ELSE "drop"]
    OBVIOUS
  <2>2. /\ q \in Request /\ q.kind = request[r].kind /\ q.crawl = request[r].crawl
        /\ q.on = request[r].on /\ q.returned = request[r].returned
        /\ q.at = IF request[r].kind = "index" THEN "mark" ELSE "drop"
    BY <1>1, <2>1 DEF Request
  <2>3. Becomes(r, q)
    BY <1>0, <1>2, <2>1 DEF TypeOK, Becomes
  <2>4. /\ request'[r] = q /\ \A s \in Requests : s # r => request'[s] = request[s]
        /\ request' \in [Requests -> Request \cup {Idle}]
    BY <1>0, <2>2, <2>3, BecomesIs
  <2> QED BY <1>0, <1>1, <1>2, <2>2, <2>4, IdleIsNoRequest DEF TypeOK
<1>3. CASE /\ request' = [request EXCEPT ![r] = Idle]
           /\ strayed' = IF request[r].kind = "index" THEN Unmarks(r) ELSE strayed
  <2>1. /\ request'[r] = Idle /\ \A s \in Requests : s # r => request'[s] = request[s]
        /\ request' \in [Requests -> Request \cup {Idle}]
    BY <1>0, <1>3, BecomesIs DEF Becomes
  <2>2. /\ strayed' \in [Crawls -> SUBSET Indexes] /\ \A d \in Crawls : strayed[d] \subseteq strayed'[d]
        /\ request[r].kind = "index" => On(r) \in strayed'[Of(r)]
    BY <1>0, <1>1, <1>3 DEF TypeOK, Unmarks
  <2> QED BY <1>0, <1>1, <2>1, <2>2
<1> QED BY <1>2, <1>3 DEF EndsClosed

LEMMA ClosedTypeStep ==
  ASSUME TInv, NEW r \in Requests, EndsClosed(r)
  PROVE  TInv'
<1>0. /\ TypeOK /\ Alive(r) /\ request[r].at = "closed" /\ On(r) \in Indexes
      /\ request' \in [Requests -> Request \cup {Idle}]
      /\ \A s \in Requests : s # r => request'[s] = request[s]
      /\ \/ request'[r] = Idle
         \/ /\ request'[r] # Idle /\ request'[r].kind = request[r].kind
            /\ request'[r].crawl = request[r].crawl /\ request'[r].on = request[r].on
            /\ request'[r].at = IF request[r].kind = "index" THEN "mark" ELSE "drop"
            /\ ~request'[r].returned
      /\ strayed' \in [Crawls -> SUBSET Indexes]
      /\ UNCHANGED <<ixvars, store, known, counts, mixed, finished>>
  BY ClosedIs DEF TInv
<1>1. TypeOK'
  BY <1>0 DEF TypeOK, IndexTypes, ixvars, store, counts
<1>2. PlacedAt(r)'
  <2>1. request[r].kind \in {"index", "remove"}
    BY <1>0, AliveFields
  <2> QED BY <1>0, <2>1 DEF PlacedAt, Alive, On
<1>3. Placed'
  BY <1>0, <1>2, PlacedKept DEF TInv
<1>4. WriterIndexes'
  BY <1>0, WritersKept DEF ixvars
<1> QED BY <1>1, <1>3, <1>4 DEF TInv

(* The controller of an index closes: nobody has its directory any more, and  *)
(* no job is at work on it.                                                   *)
LEMMA RemovalIs ==
  ASSUME TInv, NEW i \in Indexes, RemoveIndexer(i)
  PROVE  /\ \A s \in Requests :
              \/ ~Interrupted(s, i) /\ request'[s] = request[s]
              \/ /\ Interrupted(s, i) /\ Alive(s) /\ request'[s] \in Request
                 /\ request'[s].kind = request[s].kind /\ request'[s].crawl = request[s].crawl
                 /\ request'[s].on = request[s].on /\ request'[s].at = "closed"
                 /\ request'[s].returned = request[s].returned
         /\ request' \in [Requests -> Request \cup {Idle}]
         /\ index' = index /\ writer'[i] = None
         /\ \A j \in Indexes : j # i => writer'[j] = writer[j] /\ draft'[j] = draft[j]
         /\ IndexTypes(Content)' /\ known' \subseteq known
         /\ UNCHANGED <<store, starts, history>> /\ asks' = asks + 1
<1>0. TypeOK
  BY DEF TInv
<1>1. ASSUME NEW s \in Requests, Interrupted(s, i)
      PROVE  /\ Alive(s) /\ request'[s] \in Request
             /\ request'[s].kind = request[s].kind /\ request'[s].crawl = request[s].crawl
             /\ request'[s].on = request[s].on /\ request'[s].at = "closed"
             /\ request'[s].returned = request[s].returned
  <2>1. request'[s] = [request[s] EXCEPT !.at = "closed"]
    BY <1>1 DEF RemoveIndexer
  <2>2. Alive(s) /\ request[s] \in Request
    BY <1>0, <1>1, AliveFields DEF Interrupted, At, Alive
  <2> QED BY <2>1, <2>2 DEF Request
<1>2. \A s \in Requests : ~Interrupted(s, i) => request'[s] = request[s]
  BY DEF RemoveIndexer
<1>3. request' \in [Requests -> Request \cup {Idle}]
  <2>1. \A s \in Requests : request'[s] \in Request \cup {Idle}
    BY <1>0, <1>1, <1>2 DEF TypeOK
  <2>2. request' = [s \in Requests |-> request'[s]]
    BY DEF RemoveIndexer
  <2> QED BY <2>1, <2>2
<1>4. /\ index' = index /\ writer'[i] = None /\ IndexTypes(Content)'
      /\ \A j \in Indexes : j # i => writer'[j] = writer[j] /\ draft'[j] = draft[j]
  BY <1>0 DEF RemoveIndexer, CloseController, TypeOK, IndexTypes
<1> QED BY <1>1, <1>2, <1>3, <1>4 DEF RemoveIndexer, Counted

LEMMA IndexerTypeStep ==
  ASSUME TInv, NEW i \in Indexes, RemoveIndexer(i) \/ CreateIndexer(i)
  PROVE  TInv'
<1>0. TypeOK /\ Placed /\ WriterIndexes
  BY DEF TInv
<1>1. CASE RemoveIndexer(i)
  <2>1. TypeOK'
    BY <1>0, <1>1, RemovalIs DEF TypeOK, store, history
  <2>2. ASSUME NEW s \in Requests PROVE PlacedAt(s)'
    <3>1. PlacedAt(s)
      BY <1>0 DEF Placed
    <3>2. CASE request'[s] = request[s]
      BY <3>1, <3>2 DEF PlacedAt, Alive, On
    <3>3. CASE Interrupted(s, i) /\ request'[s] # request[s]
      <4>1. /\ Alive(s) /\ request'[s].on = request[s].on /\ request'[s].at = "closed"
            /\ request'[s].returned = request[s].returned
        BY <1>1, <3>3, RemovalIs
      <4>2. request[s].at \in {"wait", "work"} /\ On(s) = i
        BY <3>3 DEF Interrupted, At
      <4> QED BY <3>1, <4>1, <4>2 DEF PlacedAt, On
    <3> QED BY <1>1, <3>2, <3>3, RemovalIs
  <2>3. ASSUME NEW j \in Indexes, writer'[j] # None PROVE WriterIndexesOn(j)'
    <3>1. j # i /\ writer'[j] = writer[j] /\ draft'[j] = draft[j]
      BY <1>1, <2>3, RemovalIs
    <3>2. WriterIndexesOn(j) /\ writer[j] \in Requests
      BY <1>0, <2>3, <3>1 DEF WriterIndexes, TypeOK, IndexTypes
    <3>3. ~Interrupted(writer[j], i)
      BY <2>3, <3>1, <3>2 DEF WriterIndexesOn, Interrupted
    <3>4. request'[writer[j]] = request[writer[j]]
      BY <1>1, <3>2, <3>3, RemovalIs
    <3> QED BY <2>3, <3>1, <3>2, <3>4 DEF WriterIndexesOn, Indexing, At, On
  <2> QED BY <2>1, <2>2, <2>3 DEF TInv, Placed, WriterIndexes, WriterIndexesOn
<1>2. CASE CreateIndexer(i)
  <2>1. TypeOK'
    BY <1>0, <1>2 DEF CreateIndexer, TypeOK, IndexTypes, ixvars, store, counts, history
  <2>2. Placed' /\ WriterIndexes'
    BY <1>0, <1>2 DEF CreateIndexer, Placed, PlacedAt, Alive, On, WriterIndexes, WriterIndexesOn, Indexing, At, ixvars
  <2> QED BY <2>1, <2>2 DEF TInv
<1> QED BY <1>1, <1>2

LEMMA RemoveSiteTypeStep == TInv /\ RemoveSite => TInv'
<1> SUFFICES ASSUME TInv, RemoveSite PROVE TInv'
  OBVIOUS
<1>0. TypeOK
  BY DEF TInv
<1>1. NoPages \in [Pages -> PageStates]
  BY DEF NoPages, PageStates
<1>2. TypeOK'
  BY <1>0, <1>1 DEF RemoveSite, TypeOK, IndexTypes, ixvars, counts
<1>3. Placed' /\ WriterIndexes'
  BY DEF TInv, RemoveSite, Placed, PlacedAt, Alive, On, WriterIndexes, WriterIndexesOn, Indexing, At, ixvars
<1> QED BY <1>2, <1>3 DEF TInv

LEMMA CrashTypeStep == TInv /\ Crash => TInv'
<1> SUFFICES ASSUME TInv, Crash PROVE TInv'
  OBVIOUS
<1>0. TypeOK
  BY DEF TInv
<1>1. page' \in [Crawls -> [Pages -> PageStates]]
  BY <1>0 DEF Crash, TypeOK, PageStates
<1>2. crawler' \in [Crawls -> {"none", "start", "crawl", "done"}]
  BY <1>0 DEF Crash, TypeOK
<1>3. strayed' \in [Crawls -> SUBSET Indexes]
  <2> SUFFICES ASSUME NEW r \in Requests, NEW c \in Crawls, Asks("index", r, c) PROVE On(r) \in Indexes
    BY <1>0 DEF Crash, TypeOK
  <2> QED BY DEF Asks, TInv, Placed, PlacedAt, Alive, On
<1>4. TypeOK'
  BY <1>0, <1>1, <1>2, <1>3 DEF Crash, IndexCrash, TypeOK, IndexTypes
<1>5. Placed' /\ WriterIndexes'
  BY DEF Crash, IndexCrash, Placed, PlacedAt, Alive, WriterIndexes, WriterIndexesOn
<1> QED BY <1>4, <1>5 DEF TInv

LEMMA TypeStep == TInv /\ [Next]_vars => TInv'
<1> SUFFICES ASSUME TInv, [Next]_vars PROVE TInv'
  OBVIOUS
<1>1. CASE \E c \in Crawls : CrawlSite(c) \/ CrawlStep(c)
  BY <1>1, StoreTypeStep
<1>2. CASE \E r \in Requests, c \in Crawls :
             (\E i \in Indexes : AskIndex(r, c, i)) \/ (\E with \in BOOLEAN : AskRemove(r, c, with))
  BY <1>2, AskTypeStep
<1>3. CASE \E r \in Requests : Step(r)
  <2>1. PICK r \in Requests : Step(r)
    BY <1>3
  <2>2. Enter(r) \/ JobStep(r) \/ Mark(r) \/ Drop(r) \/ EndsClosed(r)
    BY <2>1, JobSteps DEF Step, TInv
  <2> QED BY <2>2, EnterTypeStep, JobTypeStep, MarkTypeStep, DropTypeStep, ClosedTypeStep
<1>4. CASE RemoveSite
  BY <1>4, RemoveSiteTypeStep
<1>5. CASE Crash
  BY <1>5, CrashTypeStep
<1>6. CASE UNCHANGED vars
  BY <1>6 DEF vars, ixvars, store, counts, history, TInv, TypeOK, IndexTypes, Placed, PlacedAt, Alive, On,
              WriterIndexes, WriterIndexesOn, Indexing, At
<1>7. CASE \E i \in Indexes : RemoveIndexer(i) \/ CreateIndexer(i)
  BY <1>7, IndexerTypeStep
<1> QED BY <1>1, <1>2, <1>3, <1>4, <1>5, <1>6, <1>7 DEF Next

(* Store, crawls, requests and indexes have their types; only a job that has  *)
(* the write lock of an IndexWriter has a draft.                              *)
THEOREM TypeCorrect == Spec => []TypeOK
<1>1. TInv => TypeOK
  BY DEF TInv
<1> QED BY <1>1, TypeInit, TypeStep, PTL DEF Spec
------------------------------------------------------------------------------
LEMMA BusyIs ==
  ASSUME TypeOK, NEW c \in Crawls
  PROVE  Busy(c) <=> \E r \in Requests : Alive(r) /\ Of(r) = c
BY AliveFields DEF Busy, Asks, Alive, Of

(* A step of the crawler, or the begin of a crawl.                            *)
LEMMA StoreIs ==
  ASSUME TInv, PutWhileCrawling, NEW c \in Crawls, CrawlSite(c) \/ CrawlStep(c)
  PROVE  /\ UNCHANGED <<ixvars, known, request, counts, history>>
         /\ \A d \in Crawls : d # c => page'[d] = page[d] /\ node'[d] = node[d] /\ crawler'[d] = crawler[d]
         /\ node'[c] = node[c] \/ (node[c] = Absent /\ node'[c] = Unmarked)
         /\ crawler[c] # "done" /\ crawler'[c] # "none"
         /\ \A p \in Pages : page'[c][p] \in {"named", "bare"} => crawler'[c] = "crawl"
<1>0. TypeOK /\ UNCHANGED <<ixvars, known, request, counts, history>>
  BY DEF TInv, CrawlSite, CrawlStep, Create, PutName, PutPage, CommitPage, CrawlEnds
<1>1. \A d \in Crawls : d # c => node'[d] = node[d] /\ crawler'[d] = crawler[d]
  <2>1. node' = node \/ node' = [node EXCEPT ![c] = Merged(c)]
    BY DEF CrawlSite, CrawlStep, Create, PutName, PutPage, CommitPage, CrawlEnds
  <2>2. crawler' = crawler \/ \E k \in {"start", "crawl", "done"} : crawler' = [crawler EXCEPT ![c] = k]
    BY DEF CrawlSite, CrawlStep, Create, PutName, PutPage, CommitPage, CrawlEnds
  <2> QED BY <1>0, <2>1, <2>2 DEF TypeOK
<1>2. node'[c] = node[c] \/ (node[c] = Absent /\ node'[c] = Unmarked)
  <2>1. node' = node \/ node' = [node EXCEPT ![c] = Merged(c)]
    BY DEF CrawlSite, CrawlStep, Create, PutName, PutPage, CommitPage, CrawlEnds
  <2> QED BY <1>0, <2>1 DEF TypeOK, Merged
<1>3. CASE CrawlSite(c) \/ Create(c) \/ CrawlEnds(c)
  <2>1. page' = page
    BY <1>3 DEF CrawlSite, Create, CrawlEnds
  <2>2. crawler[c] # "done" /\ crawler'[c] # "none"
    BY <1>0, <1>3 DEF TypeOK, CrawlSite, Create, CrawlEnds
  <2>3. ASSUME NEW p \in Pages, page'[c][p] \in {"named", "bare"} PROVE crawler'[c] = "crawl"
    <3>1. InPut(c, p) /\ crawler[c] = "crawl"
      BY <2>1, <2>3 DEF InPut, PutWhileCrawling
    <3>2. CASE CrawlSite(c) \/ Create(c)
      BY <3>1, <3>2 DEF CrawlSite, Create
    <3>3. CASE CrawlEnds(c)
      BY <3>1, <3>3 DEF CrawlEnds
    <3> QED BY <1>3, <3>2, <3>3
  <2> QED BY <1>0, <1>1, <1>2, <2>1, <2>2, <2>3
<1>4. CASE PutName(c) \/ PutPage(c) \/ CommitPage(c)
  <2>1. crawler' = crawler
    BY <1>4 DEF PutName, PutPage, CommitPage
  <2>2. crawler[c] = "crawl"
    BY <1>4 DEF PutName, PutPage, CommitPage, PutWhileCrawling, InPut
  <2>3. \A d \in Crawls : d # c => page'[d] = page[d]
    BY <1>0, <1>4 DEF PutName, PutPage, CommitPage, TypeOK
  <2> QED BY <1>0, <1>1, <1>2, <2>1, <2>2, <2>3
<1> QED BY <1>3, <1>4 DEF CrawlStep

LEMMA StoreWhoStep ==
  ASSUME TInv, WhoInv, NEW c \in Crawls, CrawlSite(c) \/ CrawlStep(c)
  PROVE  WhoInv'
<1>0. /\ UNCHANGED <<ixvars, known, request, counts, history>>
      /\ \A d \in Crawls : d # c => page'[d] = page[d] /\ node'[d] = node[d] /\ crawler'[d] = crawler[d]
      /\ node'[c] = node[c] \/ (node[c] = Absent /\ node'[c] = Unmarked)
      /\ crawler[c] # "done" /\ crawler'[c] # "none"
      /\ \A p \in Pages : page'[c][p] \in {"named", "bare"} => crawler'[c] = "crawl"
  BY StoreIs DEF WhoInv
<1>1. request' = request /\ mixed' = mixed /\ finished' = finished
  BY <1>0 DEF history
<1>2. Touched(c) => c \in mixed
  BY <1>0 DEF WhoInv, CrawledFirst, CrawledOf
<1>3. \A r \in Requests : Alive(r) => Of(r) \in Crawls /\ (Of(r) = c => c \in mixed)
  BY <1>2, AliveFields DEF Touched, TInv
<1>4. Alone'
  BY <1>1 DEF WhoInv, Alone, AloneOf, Alive, Of
<1>5. CrawledFirst'
  <2> SUFFICES ASSUME NEW d \in Crawls, Touched(d)'
               PROVE  crawler'[d] = "done" \/ (d \in mixed /\ crawler'[d] # "none")
    BY <1>1 DEF CrawledFirst, CrawledOf
  <2>1. Touched(d)
    BY <1>0, <1>1, NodesDistinct DEF Touched, Alive, Of
  <2> QED BY <1>0, <1>2, <2>1 DEF WhoInv, CrawledFirst, CrawledOf
<1>6. PutWhileCrawling'
  <2> SUFFICES ASSUME NEW d \in Crawls, NEW p \in Pages, page'[d][p] \in {"named", "bare"}
               PROVE  crawler'[d] = "crawl"
    BY DEF PutWhileCrawling, InPut
  <2> QED BY <1>0 DEF WhoInv, PutWhileCrawling, InPut
<1>7. TodoIsThere'
  <2> SUFFICES ASSUME NEW r \in Requests, Indexing(r), Of(r) \notin mixed, NEW p \in request[r].todo
               PROVE  page'[Of(r)][p] \in {"full", "other"}
    BY <1>1 DEF TodoIsThere, TodoOf, Indexing, At, Of
  <2>1. Of(r) \in Crawls /\ Of(r) # c
    BY <1>3 DEF Indexing, At, Alive
  <2>2. page[Of(r)][p] \in {"full", "other"}
    BY DEF WhoInv, TodoIsThere, TodoOf
  <2> QED BY <1>0, <2>1, <2>2
<1>8. RemovesMarked'
  <2> SUFFICES ASSUME NEW r \in Requests, Dropping(r), On(r) \in Indexes, Of(r) \notin mixed
               PROVE  node'[Of(r)] = On(r)
    BY <1>1 DEF RemovesMarked, MarkedFor, Dropping, Alive, Of, On
  <2>1. Of(r) \in Crawls /\ Of(r) # c
    BY <1>3 DEF Dropping
  <2> QED BY <1>0, <2>1 DEF WhoInv, RemovesMarked, MarkedFor
<1> QED BY <1>4, <1>5, <1>6, <1>7, <1>8 DEF WhoInv

LEMMA AskWhoStep ==
  ASSUME TInv, WhoInv, NEW r \in Requests, NEW c \in Crawls,
         (\E i \in Indexes : AskIndex(r, c, i)) \/ (\E with \in BOOLEAN : AskRemove(r, c, with))
  PROVE  WhoInv'
<1>0. TypeOK
  BY DEF TInv
<1>1. PICK q \in Request : Becomes(r, q) /\ IsAskOf(q, c)
  BY AskSteps
<1>2. /\ request[r] = Idle /\ crawler[c] # "none" /\ Mixes(c, Busy(c) \/ Crawling(c))
      /\ UNCHANGED <<ixvars, store, known, starts, strayed, finished>>
  BY AskSteps
<1>3. request'[r] = q /\ \A s \in Requests : s # r => request'[s] = request[s]
  BY <1>0, <1>1, BecomesIs
<1>4. node' = node /\ page' = page /\ crawler' = crawler /\ finished' = finished
  BY <1>2 DEF store
<1>5. /\ mixed \subseteq mixed' /\ mixed' \subseteq mixed \cup {c}
      /\ Busy(c) \/ Crawling(c) => c \in mixed'
  BY <1>2 DEF Mixes
<1>6. q # Idle /\ q.crawl = c /\ q.at # "work"
  BY <1>1 DEF IsAskOf
<1>7. Alone'
  <2> SUFFICES ASSUME NEW s \in Requests, NEW t \in Requests, s # t, request'[s] # Idle, request'[t] # Idle,
                      request'[s].crawl = request'[t].crawl
               PROVE  request'[s].crawl \in mixed'
    BY DEF Alone, AloneOf, Alive, Of
  <2>1. ASSUME s # r, t # r PROVE request'[s].crawl \in mixed'
    BY <1>3, <1>5, <2>1 DEF WhoInv, Alone, AloneOf, Alive, Of
  <2>2. ASSUME NEW u \in Requests, u # r, request'[u] # Idle, request'[u].crawl = c PROVE c \in mixed'
    BY <1>0, <1>3, <1>5, <2>2, BusyIs DEF Alive, Of
  <2> QED BY <1>3, <1>6, <2>1, <2>2
<1>8. CrawledFirst'
  <2> SUFFICES ASSUME NEW d \in Crawls, Touched(d)'
               PROVE  crawler[d] = "done" \/ (d \in mixed' /\ crawler[d] # "none")
    BY <1>4 DEF CrawledFirst, CrawledOf
  <2>1. CASE d = c
    BY <1>0, <1>2, <1>5, <2>1 DEF Crawling, TypeOK
  <2>2. CASE d # c
    <3>1. Touched(d)
      BY <1>3, <1>4, <1>6, <2>2 DEF Touched, Alive, Of
    <3> QED BY <1>5, <3>1 DEF WhoInv, CrawledFirst, CrawledOf
  <2> QED BY <2>1, <2>2
<1>9. PutWhileCrawling'
  BY <1>4 DEF WhoInv, PutWhileCrawling, InPut
<1>10. TodoIsThere'
  <2> SUFFICES ASSUME NEW s \in Requests, request'[s] # Idle, request'[s].at = "work",
                      request'[s].kind = "index", request'[s].crawl \notin mixed',
                      NEW p \in request'[s].todo
               PROVE  page[request'[s].crawl][p] \in {"full", "other"}
    BY <1>4 DEF TodoIsThere, TodoOf, Indexing, At, Of
  <2> QED BY <1>3, <1>5, <1>6 DEF WhoInv, TodoIsThere, TodoOf, Indexing, At, Of
<1>11. RemovesMarked'
  <2> SUFFICES ASSUME NEW s \in Requests, request'[s] # Idle, request'[s].kind = "remove",
                      request'[s].on \in Indexes, request'[s].crawl \notin mixed'
               PROVE  node[request'[s].crawl] = request'[s].on
    BY <1>4 DEF RemovesMarked, MarkedFor, Dropping, Alive, Of, On
  <2>1. CASE s = r
    BY <1>1, <1>3, <2>1, NodesDistinct DEF IsAskOf
  <2>2. CASE s # r
    BY <1>3, <1>5, <2>2 DEF WhoInv, RemovesMarked, MarkedFor, Dropping, Alive, Of, On
  <2> QED BY <2>1, <2>2
<1> QED BY <1>7, <1>8, <1>9, <1>10, <1>11 DEF WhoInv

LEMMA EnterWhoStep ==
  ASSUME TInv, WhoInv, NEW r \in Requests, Enter(r)
  PROVE  WhoInv'
<1>0. /\ TypeOK /\ Alive(r) /\ request[r].at = "wait" /\ On(r) \in Indexes /\ Becomes(r, Entered(r))
      /\ UNCHANGED <<store, mixed, finished>>
  BY EnterIs DEF TInv, history
<1>1. /\ request'[r] # Idle /\ request'[r].at = "work" /\ request'[r].kind = request[r].kind
      /\ request'[r].crawl = request[r].crawl /\ request'[r].on = request[r].on
      /\ request'[r].todo = {p \in Pages : page[Of(r)][p] # "none"}
      /\ \A s \in Requests : s # r => request'[s] = request[s]
  BY <1>0, BecomesIs, ChangedIs, IdleIsNoRequest
<1>2. node' = node /\ page' = page /\ crawler' = crawler
  BY <1>0 DEF store
<1>3. \A s \in Requests : /\ request'[s] # Idle <=> request[s] # Idle
                          /\ request[s] # Idle => /\ request'[s].kind = request[s].kind
                                                  /\ request'[s].crawl = request[s].crawl
                                                  /\ request'[s].on = request[s].on
  BY <1>0, <1>1 DEF Alive
<1>4. Alone'
  BY <1>0, <1>3 DEF WhoInv, Alone, AloneOf, Alive, Of
<1>5. CrawledFirst'
  BY <1>0, <1>2, <1>3 DEF WhoInv, CrawledFirst, CrawledOf, Touched, Alive, Of
<1>6. PutWhileCrawling'
  BY <1>2 DEF WhoInv, PutWhileCrawling, InPut
<1>7. RemovesMarked'
  BY <1>0, <1>2, <1>3 DEF WhoInv, RemovesMarked, MarkedFor, Dropping, Alive, Of, On
<1>8. TodoIsThere'
  <2> SUFFICES ASSUME NEW s \in Requests, request'[s] # Idle, request'[s].at = "work",
                      request'[s].kind = "index", request'[s].crawl \notin mixed,
                      NEW p \in request'[s].todo
               PROVE  page[request'[s].crawl][p] \in {"full", "other"}
    BY <1>0, <1>2 DEF TodoIsThere, TodoOf, Indexing, At, Of
  <2>1. CASE s = r
    <3>1. Of(r) \in Crawls /\ Of(r) \notin mixed /\ p \in Pages /\ page[Of(r)][p] # "none"
      BY <1>0, <1>1, <2>1, AliveFields DEF Of
    <3>2. crawler[Of(r)] = "done"
      BY <1>0, <3>1 DEF WhoInv, CrawledFirst, CrawledOf, Touched
    <3>3. ~InPut(Of(r), p)
      BY <3>1, <3>2 DEF WhoInv, PutWhileCrawling
    <3>4. page[Of(r)][p] \in PageStates
      BY <1>0, <3>1 DEF TypeOK
    <3> QED BY <1>1, <2>1, <3>1, <3>3, <3>4 DEF InPut, PageStates, Of
  <2>2. CASE s # r
    BY <1>1, <2>2 DEF WhoInv, TodoIsThere, TodoOf, Indexing, At, Of
  <2> QED BY <2>1, <2>2
<1> QED BY <1>4, <1>5, <1>6, <1>7, <1>8 DEF WhoInv

LEMMA JobWhoStep ==
  ASSUME TInv, WhoInv, NEW r \in Requests, JobStep(r)
  PROVE  WhoInv'
<1>0. /\ TypeOK /\ Alive(r) /\ request[r].at = "work" /\ On(r) \in Indexes /\ Of(r) \in Crawls
      /\ UNCHANGED <<store, mixed>>
      /\ \A s \in Requests : s # r => request'[s] = request[s]
      /\ \/ request'[r] = Idle
         \/ /\ request'[r] # Idle /\ request'[r].kind = request[r].kind
            /\ request'[r].crawl = request[r].crawl /\ request'[r].on = request[r].on
            /\ \/ request'[r].at = "work" /\ request'[r].todo \subseteq request[r].todo
               \/ request'[r].at = IF request[r].kind = "index" THEN "mark" ELSE "drop"
  BY JobIs DEF TInv
<1>1. /\ node' = node /\ page' = page /\ crawler' = crawler /\ mixed' = mixed
      /\ \A d \in Crawls : d # Of(r) /\ finished'[d] # {} => finished[d] # {}
  <2>1. ASSUME NEW d \in Crawls, d # Of(r), finished'[d] # {} PROVE finished[d] # {}
    <3>1. PICK i \in Indexes : i \in finished'[d]
      BY <2>1, JobHistory
    <3> QED BY <2>1, <3>1, JobHistory
  <2> QED BY <1>0, <2>1 DEF store
<1>2. \A s \in Requests : request'[s] # Idle =>
        /\ request[s] # Idle /\ request'[s].kind = request[s].kind
        /\ request'[s].crawl = request[s].crawl /\ request'[s].on = request[s].on
        /\ request'[s].at = "work" => request[s].at = "work" /\ request'[s].todo \subseteq request[s].todo
  BY <1>0 DEF Alive
<1>3. Alone'
  BY <1>1, <1>2 DEF WhoInv, Alone, AloneOf, Alive, Of
<1>4. CrawledFirst'
  <2> SUFFICES ASSUME NEW d \in Crawls, Touched(d)'
               PROVE  crawler[d] = "done" \/ (d \in mixed /\ crawler[d] # "none")
    BY <1>1 DEF CrawledFirst, CrawledOf
  <2>1. Touched(d)
    BY <1>0, <1>1, <1>2 DEF Touched, Alive, Of
  <2> QED BY <2>1 DEF WhoInv, CrawledFirst, CrawledOf
<1>5. PutWhileCrawling'
  BY <1>1 DEF WhoInv, PutWhileCrawling, InPut
<1>6. RemovesMarked'
  BY <1>1, <1>2 DEF WhoInv, RemovesMarked, MarkedFor, Dropping, Alive, Of, On
<1>7. TodoIsThere'
  <2> SUFFICES ASSUME NEW s \in Requests, request'[s] # Idle, request'[s].at = "work",
                      request'[s].kind = "index", request'[s].crawl \notin mixed,
                      NEW p \in request'[s].todo
               PROVE  page[request'[s].crawl][p] \in {"full", "other"}
    BY <1>1 DEF TodoIsThere, TodoOf, Indexing, At, Of
  <2> QED BY <1>2 DEF WhoInv, TodoIsThere, TodoOf, Indexing, At, Of
<1> QED BY <1>3, <1>4, <1>5, <1>6, <1>7 DEF WhoInv

(* A request of a crawl ends; its node, and at most its pages, change.        *)
LEMMA EndWhoStep ==
  ASSUME TInv, WhoInv, NEW r \in Requests, Alive(r), Of(r) \in Crawls,
         request'[r] = Idle, \A s \in Requests : s # r => request'[s] = request[s],
         UNCHANGED <<crawler, mixed, finished>>,
         \A d \in Crawls : d # Of(r) => node'[d] = node[d] /\ page'[d] = page[d],
         page'[Of(r)] = page[Of(r)] \/ page'[Of(r)] = NoPages
  PROVE  WhoInv'
<1>1. crawler' = crawler /\ mixed' = mixed /\ finished' = finished
  OBVIOUS
<1>2. \A s \in Requests : request'[s] # Idle => request'[s] = request[s] /\ s # r /\ request[s] # Idle
  OBVIOUS
<1>3. \A s \in Requests : request'[s] # Idle /\ Of(s) = Of(r) => Of(r) \in mixed
  BY <1>2 DEF WhoInv, Alone, AloneOf, Alive
<1>4. Alone'
  BY <1>1, <1>2 DEF WhoInv, Alone, AloneOf, Alive, Of
<1>5. CrawledFirst'
  <2> SUFFICES ASSUME NEW d \in Crawls, Touched(d)'
               PROVE  crawler[d] = "done" \/ (d \in mixed /\ crawler[d] # "none")
    BY <1>1 DEF CrawledFirst, CrawledOf
  <2>1. Touched(d)
    BY <1>1, <1>2 DEF Touched, Alive, Of
  <2> QED BY <2>1 DEF WhoInv, CrawledFirst, CrawledOf
<1>6. PutWhileCrawling'
  <2> SUFFICES ASSUME NEW d \in Crawls, NEW p \in Pages, page'[d][p] \in {"named", "bare"}
               PROVE  crawler[d] = "crawl"
    BY <1>1 DEF PutWhileCrawling, InPut
  <2>1. page'[d][p] = page[d][p]
    BY DEF NoPages
  <2> QED BY <2>1 DEF WhoInv, PutWhileCrawling, InPut
<1>7. TodoIsThere'
  <2> SUFFICES ASSUME NEW s \in Requests, request'[s] # Idle, Indexing(s), Of(s) \notin mixed,
                      NEW p \in request[s].todo
               PROVE  page'[Of(s)][p] \in {"full", "other"}
    BY <1>1, <1>2 DEF TodoIsThere, TodoOf, Indexing, At, Of
  <2>1. Of(s) \in Crawls /\ Of(s) # Of(r)
    BY <1>2, <1>3, AliveFields DEF TInv, Alive
  <2> QED BY <2>1 DEF WhoInv, TodoIsThere, TodoOf
<1>8. RemovesMarked'
  <2> SUFFICES ASSUME NEW s \in Requests, request'[s] # Idle, Dropping(s), On(s) \in Indexes, Of(s) \notin mixed
               PROVE  node'[Of(s)] = On(s)
    BY <1>1, <1>2 DEF RemovesMarked, MarkedFor, Dropping, Alive, Of, On
  <2>1. Of(s) \in Crawls /\ Of(s) # Of(r)
    BY <1>2, <1>3, AliveFields DEF TInv, Alive
  <2> QED BY <2>1 DEF WhoInv, RemovesMarked, MarkedFor
<1> QED BY <1>4, <1>5, <1>6, <1>7, <1>8 DEF WhoInv

LEMMA MarkDropWhoStep ==
  ASSUME TInv, WhoInv, NEW r \in Requests, Mark(r) \/ Drop(r)
  PROVE  WhoInv'
<1>1. CASE Mark(r)
  <2>1. \A d \in Crawls : d # Of(r) => node'[d] = node[d]
    BY <1>1, MarkIs DEF TInv, TypeOK
  <2> QED BY <1>1, <2>1, MarkIs, EndWhoStep
<1>2. CASE Drop(r)
  <2>1. /\ \A d \in Crawls : d # Of(r) => node'[d] = node[d] /\ page'[d] = page[d]
        /\ page'[Of(r)] = NoPages
    BY <1>2, DropIs DEF TInv, TypeOK
  <2> QED BY <1>2, <2>1, DropIs, EndWhoStep
<1> QED BY <1>1, <1>2

(* Requests keep kind, crawl and index, or end, and none begins a job.        *)
LEMMA SameWhoStep ==
  ASSUME WhoInv, UNCHANGED <<store, mixed, finished>>,
         \A s \in Requests : request'[s] # Idle =>
           /\ Alive(s) /\ request'[s].kind = request[s].kind
           /\ request'[s].crawl = request[s].crawl /\ request'[s].on = request[s].on
           /\ request'[s].at = "work" => request'[s] = request[s]
  PROVE  WhoInv'
<1>1. /\ node' = node /\ page' = page /\ crawler' = crawler /\ mixed' = mixed /\ finished' = finished
  BY DEF store
<1>2. Alone'
  BY <1>1 DEF WhoInv, Alone, AloneOf, Alive, Of
<1>3. CrawledFirst'
  <2> SUFFICES ASSUME NEW d \in Crawls, Touched(d)'
               PROVE  crawler[d] = "done" \/ (d \in mixed /\ crawler[d] # "none")
    BY <1>1 DEF CrawledFirst, CrawledOf
  <2>1. Touched(d)
    BY <1>1 DEF Touched, Alive, Of
  <2> QED BY <2>1 DEF WhoInv, CrawledFirst, CrawledOf
<1>4. PutWhileCrawling'
  BY <1>1 DEF WhoInv, PutWhileCrawling, InPut
<1>5. TodoIsThere'
  BY <1>1 DEF WhoInv, TodoIsThere, TodoOf, Indexing, At, Of
<1>6. RemovesMarked'
  BY <1>1 DEF WhoInv, RemovesMarked, MarkedFor, Dropping, Alive, Of, On
<1> QED BY <1>2, <1>3, <1>4, <1>5, <1>6 DEF WhoInv

LEMMA IndexerWhoStep ==
  ASSUME TInv, WhoInv, NEW i \in Indexes, RemoveIndexer(i) \/ CreateIndexer(i)
  PROVE  WhoInv'
<1>1. CASE RemoveIndexer(i)
  <2>1. \A s \in Requests : request'[s] # Idle =>
          /\ Alive(s) /\ request'[s].kind = request[s].kind
          /\ request'[s].crawl = request[s].crawl /\ request'[s].on = request[s].on
          /\ request'[s].at = "work" => request'[s] = request[s]
    BY <1>1, RemovalIs DEF Alive
  <2> QED BY <1>1, <2>1, SameWhoStep DEF RemoveIndexer, history
<1>2. CASE CreateIndexer(i)
  BY <1>2, SameWhoStep DEF CreateIndexer, history, Alive
<1> QED BY <1>1, <1>2

LEMMA ClosedWhoStep ==
  ASSUME TInv, WhoInv, NEW r \in Requests, EndsClosed(r)
  PROVE  WhoInv'
<1>1. UNCHANGED <<store, mixed, finished>>
  BY ClosedIs
<1>2. \A s \in Requests : request'[s] # Idle =>
        /\ Alive(s) /\ request'[s].kind = request[s].kind
        /\ request'[s].crawl = request[s].crawl /\ request'[s].on = request[s].on
        /\ request'[s].at = "work" => request'[s] = request[s]
  BY ClosedIs DEF Alive
<1> QED BY <1>1, <1>2, SameWhoStep

LEMMA RemoveSiteWhoStep ==
  ASSUME TInv, WhoInv, RemoveSite
  PROVE  WhoInv'
<1>0. /\ request' = request /\ crawler' = crawler /\ finished' = finished
      /\ mixed' = mixed \cup {c \in Crawls : Busy(c) \/ Crawling(c)}
      /\ node' = [c \in Crawls |-> Absent] /\ page' = [c \in Crawls |-> NoPages]
  BY DEF RemoveSite
<1>1. \A s \in Requests : request[s] # Idle => Of(s) \in mixed'
  BY <1>0, BusyIs, AliveFields DEF TInv, Alive
<1>2. Alone' /\ TodoIsThere' /\ RemovesMarked'
  BY <1>0, <1>1 DEF Alone, AloneOf, TodoIsThere, TodoOf, RemovesMarked, MarkedFor, Dropping, Alive, Of,
                    Indexing, At
<1>3. CrawledFirst'
  <2> SUFFICES ASSUME NEW d \in Crawls, Touched(d)'
               PROVE  crawler[d] = "done" \/ (d \in mixed' /\ crawler[d] # "none")
    BY <1>0 DEF CrawledFirst, CrawledOf
  <2>1. Touched(d)
    BY <1>0, NodesDistinct DEF Touched, Alive, Of
  <2> QED BY <1>0, <2>1 DEF WhoInv, CrawledFirst, CrawledOf
<1>4. PutWhileCrawling'
  BY <1>0 DEF PutWhileCrawling, InPut, NoPages
<1> QED BY <1>2, <1>3, <1>4 DEF WhoInv

LEMMA CrashWhoStep ==
  ASSUME TInv, WhoInv, Crash
  PROVE  WhoInv'
<1>0. /\ request' = [r \in Requests |-> Idle] /\ node' = node /\ mixed' = mixed /\ finished' = finished
      /\ crawler' = [c \in Crawls |-> IF Crawling(c) THEN "done" ELSE crawler[c]]
      /\ page' = [c \in Crawls |-> [p \in Pages |-> IF InPut(c, p) THEN "none" ELSE page[c][p]]]
  BY DEF Crash
<1>1. Alone' /\ TodoIsThere' /\ RemovesMarked'
  BY <1>0 DEF Alone, AloneOf, TodoIsThere, TodoOf, RemovesMarked, MarkedFor, Dropping, Alive, Indexing, At
<1>2. CrawledFirst'
  <2> SUFFICES ASSUME NEW d \in Crawls, Touched(d)'
               PROVE  crawler'[d] = "done" \/ (d \in mixed' /\ crawler'[d] # "none")
    BY DEF CrawledFirst, CrawledOf
  <2>1. Touched(d)
    BY <1>0 DEF Touched, Alive
  <2> QED BY <1>0, <2>1 DEF WhoInv, CrawledFirst, CrawledOf
<1>3. PutWhileCrawling'
  <2> SUFFICES ASSUME NEW d \in Crawls, NEW p \in Pages, page'[d][p] \in {"named", "bare"}
               PROVE  FALSE
    BY DEF PutWhileCrawling, InPut
  <2> QED BY <1>0 DEF InPut
<1> QED BY <1>1, <1>2, <1>3 DEF WhoInv

LEMMA WhoInit == Init => WhoInv
BY NodesDistinct DEF Init, IndexInit, NoPages, WhoInv, Alone, AloneOf, CrawledFirst, CrawledOf, Touched,
   PutWhileCrawling, InPut, TodoIsThere, TodoOf, Indexing, RemovesMarked, MarkedFor,
   Dropping, Alive, At
------------------------------------------------------------------------------
LEMMA SessionOthers ==
  ASSUME TInv, OthersKept, NEW r \in Requests, On(r) \in Indexes, CanWrite(r, On(r)),
         NEW d \in Crawls, d # Of(r)
  PROVE  Session(r, On(r))[d] = index[On(r)][d] /\ Current(On(r))[d] = index[On(r)][d]
BY NoneIsNoThread DEF Session, Current, CanWrite, OthersKept, OthersKeptOn

(* A step of a job leaves the other indexes, and in its own the other crawls. *)
LEMMA JobElsewhere ==
  ASSUME TInv, OthersKept, NEW r \in Requests, JobStep(r), NEW i \in Indexes, NEW d \in Crawls,
         i # On(r) \/ d # Of(r)
  PROVE  index'[i][d] = index[i][d] /\ Current(i)'[d] = Current(i)[d]
<1>0. TypeOK /\ On(r) \in Indexes /\ r # None
  BY JobIs, NoneIsNoThread DEF TInv
<1>1. CASE i # On(r)
  BY <1>1, JobWrites DEF OthersSame, Current
<1>2. CASE i = On(r) /\ d # Of(r)
  <2>1. CASE UNCHANGED ixvars
    BY <2>1 DEF ixvars, Current
  <2>2. ASSUME NEW x \in Content, KeepsOthers(r, x), Drafted(r, x)
        PROVE  index'[i][d] = index[i][d] /\ Current(i)'[d] = Current(i)[d]
    <3>1. CanWrite(r, On(r)) /\ writer'[i] = r /\ draft'[i] = x /\ index'[i] \in {index[i], x}
      BY <1>2, <2>2 DEF Drafted
    <3>2. x[d] = index[i][d] /\ Current(i)[d] = index[i][d]
      BY <1>0, <1>2, <2>2, <3>1, SessionOthers DEF KeepsOthers
    <3>3. Current(i)' = x
      BY <1>0, <3>1 DEF Current
    <3> QED BY <3>1, <3>2, <3>3
  <2>3. ASSUME NEW x \in Content, KeepsOthers(r, x), Committed(r, x)
        PROVE  index'[i][d] = index[i][d] /\ Current(i)'[d] = Current(i)[d]
    <3>1. CanWrite(r, On(r)) /\ writer'[i] = None /\ index'[i] = x
      BY <1>2, <2>3 DEF Committed
    <3>2. x[d] = index[i][d] /\ Current(i)[d] = index[i][d]
      BY <1>0, <1>2, <2>3, <3>1, SessionOthers DEF KeepsOthers
    <3>3. Current(i)' = x
      BY <3>1 DEF Current
    <3> QED BY <3>1, <3>2, <3>3
  <2>4. CASE Undone(r)
    <3>1. /\ index' = index
          /\ writer'[i] = IF writer[i] = r THEN None ELSE writer[i]
          /\ draft'[i] = IF writer[i] = r THEN None ELSE draft[i]
      BY <1>0, <1>2, <2>4, LetGoIs DEF Undone, TypeOK
    <3>2. CASE writer[i] = r
      <4>1. Current(i)' = index[i]
        BY <3>1, <3>2 DEF Current
      <4>2. Current(i)[d] = index[i][d]
        BY <1>0, <1>2, <3>2, SessionOthers DEF CanWrite
      <4> QED BY <3>1, <4>1, <4>2
    <3>3. CASE writer[i] # r
      BY <3>1, <3>3 DEF Current
    <3> QED BY <3>2, <3>3
  <2> QED BY <1>2, <2>1, <2>2, <2>3, <2>4, JobClasses
<1> QED BY <1>1, <1>2

LEMMA KeptJobStep ==
  ASSUME TInv, OthersKept, NEW r \in Requests, JobStep(r)
  PROVE  OthersKept'
<1> SUFFICES ASSUME NEW i \in Indexes, writer'[i] # None, NEW d \in Crawls, d # request'[writer'[i]].crawl
             PROVE  draft'[i][d] = index'[i][d]
  BY DEF OthersKept, OthersKeptOn, Of
<1>0. /\ TypeOK /\ On(r) \in Indexes /\ r # None
      /\ \A s \in Requests : s # r => request'[s] = request[s]
  BY JobIs, NoneIsNoThread DEF TInv
<1>1. WriterIndexesOn(i)' /\ writer'[i] \in Requests \cup {None}
  BY JobTypeStep DEF TInv, WriterIndexes, TypeOK, IndexTypes
<1>2. request'[writer'[i]] # Idle /\ request'[writer'[i]].on = i /\ writer'[i] \in Requests
  BY <1>1 DEF WriterIndexesOn, Indexing, At, On
<1>3. \A s \in Requests : request'[s] # Idle => request'[s].crawl = request[s].crawl /\ request'[s].on = request[s].on
  BY <1>0, JobIs
<1>4. Current(i)' = draft'[i]
  BY DEF Current
<1>5. CASE writer[i] # None /\ Of(writer[i]) = request'[writer'[i]].crawl
  <2>1. Current(i)[d] = index[i][d]
    BY <1>5 DEF OthersKept, OthersKeptOn, Current
  <2>2. CASE i = On(r) /\ d = Of(r)
    <3>1. writer'[i] # r
      BY <1>2, <1>3, <2>2 DEF Of
    <3>2. writer'[i] = writer[i] /\ draft'[i] = draft[i] /\ index'[i] = index[i]
      BY <1>0, <2>2, <3>1, JobClasses, LetGoIs DEF Drafted, Committed, Undone, TypeOK, ixvars
    <3> QED BY <1>5, <2>1, <3>2 DEF Current
  <2> QED BY <1>4, <2>1, <2>2, JobElsewhere
<1>6. CASE writer[i] = None \/ Of(writer[i]) # request'[writer'[i]].crawl
  <2>1. writer'[i] # writer[i]
    BY <1>2, <1>3, <1>6 DEF Of
  <2>2. i = On(r)
    BY <2>1, JobWrites DEF OthersSame
  <2>3. writer'[i] = r /\ CanWrite(r, On(r))
    BY <1>0, <2>1, <2>2, JobClasses, LetGoIs DEF Drafted, Committed, Undone, TypeOK, ixvars
  <2>4. d # Of(r)
    BY <1>2, <1>3, <2>3 DEF Of
  <2>5. Current(i)[d] = index[i][d]
    BY <1>0, <2>2, <2>3, <2>4, SessionOthers
  <2> QED BY <1>4, <2>4, <2>5, JobElsewhere
<1> QED BY <1>5, <1>6

(* A step that is not one of a job.                                           *)
LEMMA KeptOtherStep ==
  ASSUME TInv, OthersKept, UNCHANGED <<index, writer, draft>>,
         \A s \in Requests : Indexing(s) => request'[s].crawl = request[s].crawl
  PROVE  OthersKept'
<1> SUFFICES ASSUME NEW i \in Indexes, writer[i] # None, NEW d \in Crawls, d # request'[writer[i]].crawl
             PROVE  draft[i][d] = index[i][d]
  BY DEF OthersKept, OthersKeptOn, Of
<1>1. Indexing(writer[i]) /\ writer[i] \in Requests
  BY DEF TInv, WriterIndexes, WriterIndexesOn, TypeOK, IndexTypes
<1> QED BY <1>1 DEF OthersKept, OthersKeptOn, Of

(* What a job of a crawl that is not mixed does to it in its index, and what  *)
(* becomes of its request.                                                    *)
GoesOn(r) == request'[r] # Idle /\ request'[r].at = "work"
CleanPass(r, i, c) ==
  /\ Asking(r) /\ GoesOn(r)
  /\ index'[i] = index[i] /\ Current(i)' = Current(i)
  /\ \E p \in request[r].todo : page[c][p] = "other" /\ request'[r].todo = request[r].todo \ {p}
CleanPut(r, i, c) ==
  /\ Asking(r) /\ GoesOn(r)
  /\ index'[i] \in {index[i], Current(i)'}
  /\ \E p \in request[r].todo :
       /\ page[c][p] = "full" /\ request'[r].todo = request[r].todo \ {p}
       /\ Current(i)'[c][p] = "whole"
       /\ \A q \in Pages : q # p => Current(i)'[c][q] = Current(i)[c][q]
CleanReturn(r, i) ==
  /\ Asking(r) /\ ~GoesOn(r) /\ request[r].todo = {}
  /\ index'[i] = Current(i) /\ Current(i)' = Current(i)
CleanRemove(r, i, c) ==
  /\ Dropping(r) /\ ~GoesOn(r) /\ i \notin finished'[c]
  /\ \A p \in Pages : index'[i][c][p] = "none" /\ Current(i)'[c][p] = "none"
CleanThrow(r, i) ==
  /\ ~GoesOn(r) /\ (request'[r] # Idle => ~request'[r].returned)
  /\ index'[i] = index[i] /\ Current(i)' \in {index[i], Current(i)}

LEMMA CleanJob ==
  ASSUME TInv, WhoInv, NEW r \in Requests, JobStep(r), NEW i \in Indexes, NEW c \in Crawls,
         i = On(r), c = Of(r), c \notin mixed
  PROVE  /\ \/ CleanPass(r, i, c) \/ CleanPut(r, i, c) \/ CleanReturn(r, i)
            \/ CleanRemove(r, i, c) \/ CleanThrow(r, i)
         /\ ~CleanReturn(r, i) /\ i \in finished'[c] => i \in finished[c]
<1>0. TypeOK /\ Alive(r) /\ request[r].at = "work" /\ r # None
  BY JobIs, NoneIsNoThread DEF TInv
<1>1. ASSUME CanWrite(r, i) PROVE Session(r, i) = Current(i)
  BY <1>1, SessionIs
<1>2. ASSUME request[r].kind = "index", NEW p \in request[r].todo
      PROVE  p \in Pages /\ page[c][p] \in {"full", "other"}
  BY <1>0, <1>2, AliveFields DEF WhoInv, TodoIsThere, TodoOf, Indexing, At, Alive
<1>3. ASSUME NEW stage \in {"mark", "drop"}, NEW ok \in BOOLEAN, Becomes(r, Over(r, stage, ok))
      PROVE  ~GoesOn(r) /\ (request'[r] # Idle => request'[r].returned = ok)
  <2>1. PICK q : q = Over(r, stage, ok)
    OBVIOUS
  <2>2. q = Idle \/ (q \in Request /\ q.at = stage /\ q.returned = ok)
    BY <1>0, <2>1, ChangedIs
  <2>3. request'[r] = q
    BY <1>0, <1>3, <2>1, BecomesIs
  <2> QED BY <2>2, <2>3 DEF GoesOn
<1>4. ASSUME Returns(r), request[r].kind = "index", Committed(r, Session(r, On(r))) PROVE CleanReturn(r, i)
  <2>1. index'[i] = Current(i) /\ writer'[i] = None /\ request[r].todo = {}
    BY <1>1, <1>4 DEF Committed, Returns
  <2>2. Current(i)' = Current(i)
    BY <2>1 DEF Current
  <2>3. ~GoesOn(r)
    BY <1>3, <1>4 DEF Returns
  <2> QED BY <1>0, <1>4, <2>1, <2>2, <2>3 DEF CleanReturn, Asking
<1>5. CASE Passes(r) /\ request[r].kind = "index"
  <2>1. PICK p \in request[r].todo : page[c][p] = "other" /\ Becomes(r, Passed(r, p))
    BY <1>5 DEF Passes
  <2>2. p \in Pages
    BY <1>2, <1>5
  <2>3. /\ Passed(r, p) \in Request /\ Passed(r, p).at = "work"
        /\ Passed(r, p).todo = request[r].todo \ {p}
    BY <1>0, <2>2, ChangedIs
  <2>4. request'[r] = Passed(r, p)
    BY <1>0, <2>1, BecomesIs
  <2>5. index'[i] = index[i] /\ Current(i)' = Current(i) /\ finished' = finished
    BY <1>5 DEF Passes, ixvars, Current
  <2> QED BY <1>0, <1>5, <2>1, <2>3, <2>4, <2>5, IdleIsNoRequest DEF CleanPass, Asking, GoesOn
<1>6. CASE /\ request[r].kind = "index" /\ Puts(r) /\ request'[r] # Idle /\ request'[r].at = "work"
           /\ \E p \in request[r].todo :
                /\ page[Of(r)][p] \in {"bare", "full"} /\ Becomes(r, Put(r, p))
                /\ Drafted(r, WithPage(r, p))
  <2>1. PICK p \in request[r].todo :
          /\ page[c][p] \in {"bare", "full"} /\ Becomes(r, Put(r, p)) /\ Drafted(r, WithPage(r, p))
    BY <1>6
  <2>2. p \in Pages /\ page[c][p] = "full"
    BY <1>2, <1>6, <2>1
  <2>3. request'[r] = Put(r, p) /\ Put(r, p).todo = request[r].todo \ {p}
    BY <1>0, <2>1, <2>2, BecomesIs, ChangedIs
  <2>4. /\ WithPage(r, p)[c][p] = "whole"
        /\ \A q \in Pages : q # p => WithPage(r, p)[c][q] = Current(i)[c][q]
    BY <1>0, <1>1, <2>1, <2>2, WithPageIs DEF Doc, Drafted
  <2>5. Current(i)' = WithPage(r, p) /\ index'[i] \in {index[i], WithPage(r, p)}
    BY <1>0, <2>1 DEF Drafted, Current
  <2>6. finished' = finished
    BY <1>6 DEF Puts
  <2> QED BY <1>0, <1>6, <2>1, <2>2, <2>3, <2>4, <2>5, <2>6 DEF CleanPut, Asking, GoesOn
<1>7. CASE Returns(r) /\ request[r].kind = "index" /\ Committed(r, Session(r, On(r)))
  BY <1>4, <1>7
<1>8. CASE (Throws(r) \/ Fails(r)) /\ Undone(r)
  <2>1. /\ index'[i] = index[i]
        /\ writer'[i] = IF writer[i] = r THEN None ELSE writer[i]
        /\ draft'[i] = IF writer[i] = r THEN None ELSE draft[i]
    BY <1>0, <1>8, LetGoIs DEF Undone, TypeOK
  <2>2. Current(i)' \in {index[i], Current(i)}
    BY <2>1 DEF Current
  <2>3. PICK ok \in BOOLEAN : ok = FALSE
    OBVIOUS
  <2>4. PICK stage \in {"mark", "drop"} : Becomes(r, Over(r, stage, ok))
    BY <1>8, <2>3 DEF Throws, Fails
  <2>5. ~GoesOn(r) /\ (request'[r] # Idle => ~request'[r].returned)
    BY <1>3, <2>3, <2>4
  <2>6. finished' = finished
    BY <1>8 DEF Throws, Fails
  <2> QED BY <2>1, <2>2, <2>5, <2>6 DEF CleanThrow
<1>9. CASE Removes(r) /\ request[r].kind = "remove" /\ Committed(r, Unindexed(r))
  <2>1. index'[i] = Unindexed(r) /\ writer'[i] = None
    BY <1>9 DEF Committed
  <2>2. Current(i)' = Unindexed(r)
    BY <2>1 DEF Current
  <2>3. \A p \in Pages : Unindexed(r)[c][p] = "none"
    BY <1>0, UnindexedIs
  <2>4. ~GoesOn(r)
    BY <1>3, <1>9 DEF Removes
  <2>5. i \notin finished'[c]
    BY <1>9, JobHistory
  <2> QED BY <1>0, <1>9, <2>1, <2>2, <2>3, <2>4, <2>5 DEF CleanRemove, Dropping
<1> QED BY <1>5, <1>6, <1>7, <1>8, <1>9, JobWrites
------------------------------------------------------------------------------
CrawlInv == TInv /\ WhoInv /\ OthersKept /\ ContentInv

LEMMA JobContentStep ==
  ASSUME CrawlInv, NEW r \in Requests, JobStep(r)
  PROVE  Unnamed' /\ OnlyFull' /\ Cleared' /\ Finished' /\ SoFar'
<1>0. /\ TInv /\ WhoInv /\ OthersKept /\ TypeOK
      /\ Unnamed /\ OnlyFull /\ Cleared /\ Finished /\ SoFar
  BY DEF CrawlInv, ContentInv, TInv
<1>1. /\ Alive(r) /\ request[r].at = "work" /\ On(r) \in Indexes /\ Of(r) \in Crawls
      /\ UNCHANGED <<store, mixed>>
      /\ \A s \in Requests : s # r => request'[s] = request[s]
      /\ \/ request'[r] = Idle
         \/ /\ request'[r] # Idle /\ request'[r].kind = request[r].kind
            /\ request'[r].crawl = request[r].crawl /\ request'[r].on = request[r].on
            /\ request'[r].at # "work" \/ ~request'[r].returned
  BY <1>0, JobIs
<1>2. /\ node' = node /\ page' = page /\ mixed' = mixed
      /\ \A d \in Crawls : strayed[d] \subseteq strayed'[d]
      /\ request[r].kind = "index" /\ request'[r] = Idle => On(r) \in strayed'[Of(r)]
  BY <1>0, <1>1, JobHistory DEF store
<1>3. ASSUME NEW i \in Indexes, NEW d \in Crawls, i # On(r) \/ d # Of(r)
      PROVE  /\ index'[i][d] = index[i][d] /\ Current(i)'[d] = Current(i)[d]
             /\ i \in finished'[d] => i \in finished[d]
  BY <1>0, <1>3, JobElsewhere, JobHistory
<1>4. ASSUME NEW i \in Indexes, NEW d \in Crawls, i = On(r), d = Of(r), d \notin mixed
      PROVE  /\ \/ CleanPass(r, i, d) \/ CleanPut(r, i, d) \/ CleanReturn(r, i)
                \/ CleanRemove(r, i, d) \/ CleanThrow(r, i)
             /\ ~CleanReturn(r, i) /\ i \in finished'[d] => i \in finished[d]
  BY <1>0, <1>4, CleanJob
<1>5. request[r].kind \in {"index", "remove"}
  BY <1>0, <1>1, AliveFields
<1>6. \A s \in Requests : Alive(s) /\ s # r /\ Of(s) = Of(r) => Of(r) \in mixed
  BY <1>0, <1>1 DEF WhoInv, Alone, AloneOf
<1>7. Unnamed'
  <2> SUFFICES ASSUME NEW d \in Crawls, NEW i \in Indexes, d \notin mixed, i \notin strayed'[d], ~IsNamed(d, i)',
                      NEW p \in Pages
               PROVE  index'[i][d][p] = "none"
    BY <1>2 DEF Unnamed, UnnamedOf, NoneOf
  <2>0. i \notin strayed[d]
    BY <1>2
  <2>1. CASE i # On(r) \/ d # Of(r)
    <3>1. ~IsNamed(d, i)
      BY <1>1, <1>2, <2>1 DEF IsNamed, Asking, Alive, Of, On
    <3> QED BY <1>0, <1>3, <2>0, <2>1, <3>1 DEF Unnamed, UnnamedOf, NoneOf
  <2>2. CASE i = On(r) /\ d = Of(r)
    <3>1. ~Asking(r)
      BY <1>1, <1>2, <2>2 DEF IsNamed, Asking, Alive, Of, On
    <3>2. CASE CleanRemove(r, i, d)
      BY <3>2 DEF CleanRemove
    <3>3. CASE CleanThrow(r, i)
      <4>1. ~IsNamed(d, i)
        BY <1>1, <1>2, <1>6, <2>2, <3>1 DEF IsNamed, Asking, Alive
      <4>2. index[i][d][p] = "none"
        BY <1>0, <2>0, <4>1 DEF Unnamed, UnnamedOf, NoneOf
      <4> QED BY <3>3, <4>2 DEF CleanThrow
    <3> QED BY <1>4, <2>2, <3>1, <3>2, <3>3 DEF CleanPass, CleanPut, CleanReturn
  <2> QED BY <2>1, <2>2
<1>8. OnlyFull'
  <2> SUFFICES ASSUME NEW d \in Crawls, NEW i \in Indexes, d \notin mixed, i \notin strayed'[d],
                      NEW p \in Pages, page[d][p] # "full"
               PROVE  index'[i][d][p] = "none" /\ Current(i)'[d][p] = "none"
    BY <1>2 DEF OnlyFull, OnlyFullOf
  <2>1. index[i][d][p] = "none" /\ Current(i)[d][p] = "none"
    BY <1>0, <1>2 DEF OnlyFull, OnlyFullOf
  <2>2. CASE i # On(r) \/ d # Of(r)
    BY <1>3, <2>1, <2>2
  <2>3. CASE i = On(r) /\ d = Of(r)
    <3>1. CASE CleanPut(r, i, d)
      <4>1. Current(i)'[d][p] = Current(i)[d][p]
        BY <3>1 DEF CleanPut
      <4> QED BY <2>1, <3>1, <4>1 DEF CleanPut
    <3> QED BY <1>4, <2>1, <2>3, <3>1 DEF CleanPass, CleanReturn, CleanRemove, CleanThrow
  <2> QED BY <2>2, <2>3
<1>9. Cleared'
  <2> SUFFICES ASSUME NEW s \in Requests, request'[s] # Idle, request'[s].kind = "remove", request'[s].returned,
                      request'[s].crawl \notin mixed, NEW p \in Pages
               PROVE  index'[request'[s].on][request'[s].crawl][p] = "none"
    BY <1>2 DEF Cleared, ClearedOf, NoneOf, Dropping, Alive, Of, On
  <2>1. CASE s = r
    <3>1. request'[s].on = On(r) /\ request'[s].crawl = Of(r) /\ request[r].kind = "remove"
      BY <1>1, <2>1 DEF On, Of
    <3>2. CleanRemove(r, On(r), Of(r))
      BY <1>1, <1>4, <2>1, <3>1 DEF CleanPass, CleanPut, CleanReturn, CleanThrow, Asking
    <3> QED BY <3>1, <3>2 DEF CleanRemove
  <2>2. CASE s # r
    <3>1. /\ request'[s].on = On(s) /\ request'[s].crawl = Of(s) /\ Dropping(s) /\ request[s].returned
      BY <1>1, <2>2 DEF On, Of, Dropping, Alive
    <3>2. On(s) \in Indexes /\ Of(s) \in Crawls /\ Of(s) # Of(r)
      BY <1>0, <1>6, <2>2, <3>1, AliveFields DEF TInv, Placed, PlacedAt, Dropping
    <3>3. index[On(s)][Of(s)][p] = "none"
      BY <1>0, <3>1 DEF Cleared, ClearedOf, NoneOf
    <3> QED BY <1>3, <3>1, <3>2, <3>3
  <2> QED BY <2>1, <2>2
<1>10. Finished'
  <2> SUFFICES ASSUME NEW d \in Crawls, NEW i \in Indexes, d \notin mixed, i \in finished'[d],
                      NEW p \in Pages, page[d][p] = "full"
               PROVE  index'[i][d][p] = "whole" /\ Current(i)'[d][p] = "whole"
    BY <1>2 DEF Finished, FinishedOf, AllOf
  <2>1. i \in finished[d] => index[i][d][p] = "whole" /\ Current(i)[d][p] = "whole"
    BY <1>0 DEF Finished, FinishedOf, AllOf
  <2>2. CASE i # On(r) \/ d # Of(r)
    BY <1>3, <2>1, <2>2
  <2>3. CASE i = On(r) /\ d = Of(r) /\ CleanReturn(r, i)
    <3>1. Current(i)[d][p] = "whole"
      BY <1>0, <1>1, <2>3 DEF SoFar, SoFarOf, Indexing, At, Asking, CleanReturn, Alive
    <3> QED BY <2>3, <3>1 DEF CleanReturn
  <2>4. CASE i = On(r) /\ d = Of(r) /\ ~CleanReturn(r, i)
    <3>1. index[i][d][p] = "whole" /\ Current(i)[d][p] = "whole"
      BY <1>4, <2>1, <2>4
    <3>2. CASE CleanPut(r, i, d)
      <4>1. Current(i)'[d][p] = "whole"
        BY <3>1, <3>2 DEF CleanPut
      <4> QED BY <3>1, <3>2, <4>1 DEF CleanPut
    <3> QED BY <1>4, <2>4, <3>1, <3>2 DEF CleanPass, CleanRemove, CleanThrow
  <2> QED BY <2>2, <2>3, <2>4
<1>11. SoFar'
  <2> SUFFICES ASSUME NEW s \in Requests, request'[s] # Idle, request'[s].at = "work", request'[s].kind = "index",
                      NEW i \in Indexes, i = request'[s].on, NEW d \in Crawls, d = request'[s].crawl,
                      d \notin mixed, NEW p \in Pages, p \notin request'[s].todo,
                      page[d][p] = "full"
               PROVE  Current(i)'[d][p] = "whole"
    <3>1. TInv'
      BY <1>0, JobTypeStep
    <3>2. \A s \in Requests : request'[s] # Idle /\ request'[s].at = "work" =>
             request'[s].on \in Indexes /\ request'[s].crawl \in Crawls
      BY <3>1, RequestFields DEF TInv, Placed, PlacedAt, Alive, On, TypeOK
    <3> QED BY <1>2, <3>2 DEF SoFar, SoFarOf, Indexing, At, Of, On, Current
  <2>1. CASE s = r
    <3>1. i = On(r) /\ d = Of(r) /\ request[r].kind = "index" /\ Indexing(r)
      BY <1>1, <2>1 DEF On, Of, Indexing, At, Alive
    <3>2. p \notin request[r].todo => Current(i)[d][p] = "whole"
      BY <1>0, <3>1 DEF SoFar, SoFarOf
    <3>3. CleanPass(r, i, d) \/ CleanPut(r, i, d)
      BY <1>4, <2>1, <3>1 DEF CleanReturn, CleanRemove, CleanThrow, GoesOn
    <3>4. CASE CleanPass(r, i, d)
      BY <2>1, <3>2, <3>4 DEF CleanPass
    <3>5. CASE CleanPut(r, i, d)
      BY <2>1, <3>2, <3>5 DEF CleanPut
    <3> QED BY <3>3, <3>4, <3>5
  <2>2. CASE s # r
    <3>1. i = On(s) /\ d = Of(s) /\ Indexing(s) /\ Alive(s) /\ p \notin request[s].todo
      BY <1>1, <2>2 DEF On, Of, Indexing, At, Alive
    <3>2. d # Of(r)
      BY <1>6, <2>2, <3>1
    <3>3. Current(i)[d][p] = "whole"
      BY <1>0, <3>1 DEF SoFar, SoFarOf
    <3> QED BY <1>3, <3>2, <3>3
  <2> QED BY <2>1, <2>2
<1> QED BY <1>7, <1>8, <1>9, <1>10, <1>11

LEMMA JobThinStep ==
  ASSUME CrawlInv, NEW r \in Requests, JobStep(r)
  PROVE  ThinMixed'
<1>0. TInv /\ WhoInv /\ OthersKept /\ TypeOK /\ ThinMixed
  BY DEF CrawlInv, ContentInv, TInv
<1>1. Alive(r) /\ request[r].at = "work" /\ On(r) \in Indexes /\ Of(r) \in Crawls /\ mixed' = mixed
  BY <1>0, JobIs
<1> SUFFICES ASSUME NEW i \in Indexes, NEW d \in Crawls, d \notin mixed, NEW p \in Pages
             PROVE  index'[i][d][p] # "thin" /\ Current(i)'[d][p] # "thin"
  BY <1>1 DEF ThinMixed, ThinOf
<1>2. index[i][d][p] # "thin" /\ Current(i)[d][p] # "thin"
  BY <1>0 DEF ThinMixed, ThinOf
<1>3. CASE i # On(r) \/ d # Of(r)
  BY <1>0, <1>2, <1>3, JobElsewhere
<1>4. CASE i = On(r) /\ d = Of(r)
  <2>1. CASE UNCHANGED ixvars
    BY <1>2, <2>1 DEF ixvars, Current
  <2>2. CASE Undone(r)
    <3>1. /\ index' = index
          /\ writer'[i] = IF writer[i] = r THEN None ELSE writer[i]
          /\ draft'[i] = IF writer[i] = r THEN None ELSE draft[i]
      BY <1>0, <1>4, <2>2, LetGoIs DEF Undone, TypeOK
    <3>2. Current(i)' \in {index[i], Current(i)}
      BY <3>1 DEF Current
    <3> QED BY <1>2, <3>1, <3>2
  <2>3. ASSUME NEW q \in request[r].todo, page[Of(r)][q] \in {"bare", "full"}, request[r].kind = "index",
               Drafted(r, WithPage(r, q))
        PROVE  index'[i][d][p] # "thin" /\ Current(i)'[d][p] # "thin"
    <3>1. q \in Pages /\ page[Of(r)][q] = "full"
      BY <1>0, <1>1, <1>4, <2>3, AliveFields DEF WhoInv, TodoIsThere, TodoOf, Indexing, At, Alive
    <3>2. Session(r, i) = Current(i)
      BY <1>0, <1>4, <2>3, SessionIs DEF Drafted
    <3>3. WithPage(r, q)[d][p] # "thin"
      <4>1. CASE p = q
        BY <1>0, <1>1, <1>4, <3>1, <4>1, WithPageIs DEF Doc
      <4>2. CASE p # q
        BY <1>0, <1>1, <1>2, <1>4, <3>1, <3>2, <4>2, WithPageIs
      <4> QED BY <4>1, <4>2
    <3>4. Current(i)' = WithPage(r, q) /\ index'[i] \in {index[i], WithPage(r, q)}
      BY <1>4, <2>3, NoneIsNoThread DEF Drafted, Current
    <3> QED BY <1>2, <3>3, <3>4
  <2>4. ASSUME NEW x, Committed(r, x), x[d][p] # "thin"
        PROVE  index'[i][d][p] # "thin" /\ Current(i)'[d][p] # "thin"
    BY <1>4, <2>4 DEF Committed, Current
  <2>5. CASE Committed(r, Session(r, On(r)))
    <3>1. Session(r, i) = Current(i)
      BY <1>0, <1>4, <2>5, SessionIs DEF Committed
    <3> QED BY <1>2, <1>4, <2>4, <2>5, <3>1
  <2>6. CASE Committed(r, Unindexed(r))
    <3>1. Unindexed(r)[d][p] # "thin"
      BY <1>0, <1>1, <1>4, UnindexedIs
    <3> QED BY <2>4, <2>6, <3>1
  <2> QED BY <1>0, <2>1, <2>2, <2>3, <2>5, <2>6, JobWrites DEF Passes
<1> QED BY <1>3, <1>4

(* Where no job of a crawl has the directory, a draft has of it what the      *)
(* index has.                                                                 *)
LEMMA CurrentIsIndex ==
  ASSUME TInv, OthersKept, NEW i \in Indexes, NEW c \in Crawls,
         \A r \in Requests : Indexing(r) => Of(r) # c
  PROVE  Current(i)[c] = index[i][c]
BY DEF TInv, WriterIndexes, WriterIndexesOn, TypeOK, IndexTypes, OthersKept, OthersKeptOn, Current

LEMMA StoreContentStep ==
  ASSUME CrawlInv, NEW c \in Crawls, CrawlSite(c) \/ CrawlStep(c)
  PROVE  ContentInv'
<1>0. /\ TInv /\ WhoInv /\ OthersKept /\ TypeOK
      /\ Unnamed /\ OnlyFull /\ Cleared /\ Finished /\ SoFar /\ ThinMixed
  BY DEF CrawlInv, ContentInv, TInv
<1>1. /\ UNCHANGED <<ixvars, known, request, counts, history>>
      /\ \A d \in Crawls : d # c => page'[d] = page[d] /\ node'[d] = node[d] /\ crawler'[d] = crawler[d]
      /\ node'[c] = node[c] \/ (node[c] = Absent /\ node'[c] = Unmarked)
      /\ crawler[c] # "done"
  BY <1>0, StoreIs DEF WhoInv
<1>2. /\ index' = index /\ request' = request /\ mixed' = mixed /\ strayed' = strayed /\ finished' = finished
      /\ \A i \in Indexes : Current(i)' = Current(i)
  BY <1>1 DEF ixvars, history, Current
<1>3. Touched(c) => c \in mixed
  BY <1>0, <1>1 DEF WhoInv, CrawledFirst, CrawledOf
<1>4. \A r \in Requests : Alive(r) => Of(r) \in Crawls /\ (Of(r) = c => c \in mixed)
  BY <1>0, <1>3, AliveFields DEF Touched
<1>5. \A d \in Crawls, i \in Indexes : node'[d] = i <=> node[d] = i
  BY <1>1, NodesDistinct
<1>6. Unnamed'
  BY <1>0, <1>2, <1>5 DEF Unnamed, UnnamedOf, NoneOf, IsNamed, Asking, Alive, Of, On
<1>7. OnlyFull'
  <2> SUFFICES ASSUME NEW d \in Crawls, NEW i \in Indexes, d \notin mixed, i \notin strayed[d],
                      NEW p \in Pages, page'[d][p] # "full"
               PROVE  index[i][d][p] = "none" /\ Current(i)[d][p] = "none"
    BY <1>2 DEF OnlyFull, OnlyFullOf
  <2>1. CASE d # c
    BY <1>0, <1>1, <2>1 DEF OnlyFull, OnlyFullOf
  <2>2. CASE d = c
    <3>1. \A r \in Requests : Alive(r) => Of(r) # c
      BY <1>4, <2>2
    <3>2. ~IsNamed(c, i)
      BY <1>3, <2>2, <3>1 DEF IsNamed, Asking, Touched
    <3>3. index[i][c][p] = "none"
      BY <1>0, <2>2, <3>2 DEF Unnamed, UnnamedOf, NoneOf
    <3>4. Current(i)[c] = index[i][c]
      BY <1>0, <3>1, CurrentIsIndex DEF Indexing, At, Alive
    <3> QED BY <2>2, <3>3, <3>4
  <2> QED BY <2>1, <2>2
<1>8. Cleared'
  BY <1>0, <1>2 DEF Cleared, ClearedOf, NoneOf, Dropping, Alive, Of, On
<1>9. Finished'
  <2> SUFFICES ASSUME NEW d \in Crawls, NEW i \in Indexes, d \notin mixed, i \in finished[d],
                      NEW p \in Pages, page'[d][p] = "full"
               PROVE  index[i][d][p] = "whole" /\ Current(i)[d][p] = "whole"
    BY <1>2 DEF Finished, FinishedOf, AllOf
  <2>1. d # c
    BY <1>3 DEF Touched
  <2> QED BY <1>0, <1>1, <2>1 DEF Finished, FinishedOf, AllOf
<1>10. SoFar'
  <2> SUFFICES ASSUME NEW s \in Requests, Indexing(s), Of(s) \notin mixed, NEW p \in Pages \ request[s].todo,
                      page'[Of(s)][p] = "full"
               PROVE  Current(On(s))[Of(s)][p] = "whole"
    BY <1>1, <1>2 DEF SoFar, SoFarOf, Indexing, At, Of, On, Current, ixvars
  <2>1. Of(s) \in Crawls /\ Of(s) # c
    BY <1>4 DEF Indexing, At, Alive
  <2> QED BY <1>0, <1>1, <2>1 DEF SoFar, SoFarOf
<1>11. ThinMixed'
  BY <1>0, <1>2 DEF ThinMixed, ThinOf
<1> QED BY <1>6, <1>7, <1>8, <1>9, <1>10, <1>11 DEF ContentInv

LEMMA AskContentStep ==
  ASSUME CrawlInv, NEW r \in Requests, NEW c \in Crawls,
         (\E i \in Indexes : AskIndex(r, c, i)) \/ (\E with \in BOOLEAN : AskRemove(r, c, with))
  PROVE  ContentInv'
<1>0. /\ TInv /\ TypeOK
      /\ Unnamed /\ OnlyFull /\ Cleared /\ Finished /\ SoFar /\ ThinMixed
  BY DEF CrawlInv, ContentInv, TInv
<1>1. PICK q \in Request : Becomes(r, q) /\ IsAskOf(q, c)
  BY <1>0, AskSteps
<1>2. /\ request[r] = Idle /\ Mixes(c, Busy(c) \/ Crawling(c))
      /\ UNCHANGED <<ixvars, store, known, starts, strayed, finished>>
  BY <1>0, AskSteps
<1>3. request'[r] = q /\ \A s \in Requests : s # r => request'[s] = request[s]
  BY <1>0, <1>1, BecomesIs
<1>4. /\ index' = index /\ node' = node /\ page' = page /\ strayed' = strayed /\ finished' = finished
      /\ mixed \subseteq mixed' /\ \A i \in Indexes : Current(i)' = Current(i)
  BY <1>2 DEF ixvars, store, Current, Mixes
<1>5. q # Idle /\ q.at \in {"wait", "drop"} /\ ~q.returned
  BY <1>1 DEF IsAskOf
<1>6. \A s \in Requests : request[s] # Idle => request'[s] = request[s]
  BY <1>2, <1>3
<1>7. Unnamed'
  <2> SUFFICES ASSUME NEW d \in Crawls, NEW i \in Indexes, d \notin mixed', i \notin strayed[d], ~IsNamed(d, i)'
               PROVE  NoneOf(index[i], d)
    BY <1>4 DEF Unnamed, UnnamedOf, NoneOf
  <2>1. ~IsNamed(d, i)
    BY <1>4, <1>6 DEF IsNamed, Asking, Alive, Of, On
  <2> QED BY <1>0, <1>4, <2>1 DEF Unnamed, UnnamedOf
<1>8. OnlyFull'
  BY <1>0, <1>4 DEF OnlyFull, OnlyFullOf
<1>9. Cleared'
  BY <1>0, <1>3, <1>4, <1>5 DEF Cleared, ClearedOf, NoneOf, Dropping, Alive, Of, On
<1>10. Finished'
  BY <1>0, <1>4 DEF Finished, FinishedOf, AllOf
<1>11. SoFar'
  <2> SUFFICES ASSUME NEW s \in Requests, request'[s] # Idle, request'[s].at = "work", request'[s].kind = "index",
                      request'[s].crawl \notin mixed', NEW p \in Pages \ request'[s].todo,
                      page[request'[s].crawl][p] = "full"
               PROVE  Current(request[s].on)[request[s].crawl][p] = "whole"
    BY <1>2, <1>3, <1>4, <1>5 DEF SoFar, SoFarOf, Indexing, At, Of, On, Current, ixvars
  <2>1. Indexing(s) /\ request'[s] = request[s]
    BY <1>3, <1>5 DEF Indexing, At
  <2> QED BY <1>0, <1>4, <2>1 DEF SoFar, SoFarOf, Of, On
<1>12. ThinMixed'
  BY <1>0, <1>4 DEF ThinMixed, ThinOf
<1> QED BY <1>7, <1>8, <1>9, <1>10, <1>11, <1>12 DEF ContentInv

LEMMA EnterContentStep ==
  ASSUME CrawlInv, NEW r \in Requests, Enter(r)
  PROVE  ContentInv'
<1>0. /\ TInv /\ TypeOK
      /\ Unnamed /\ OnlyFull /\ Cleared /\ Finished /\ SoFar /\ ThinMixed
  BY DEF CrawlInv, ContentInv, TInv
<1>1. /\ Alive(r) /\ request[r].at = "wait" /\ Becomes(r, Entered(r))
      /\ UNCHANGED <<index, writer, draft, store, history>>
  BY <1>0, EnterIs
<1>2. /\ request'[r] # Idle /\ request'[r].at = "work" /\ request'[r].kind = request[r].kind
      /\ request'[r].crawl = request[r].crawl /\ request'[r].on = request[r].on
      /\ request'[r].returned = request[r].returned
      /\ request'[r].todo = {p \in Pages : page[Of(r)][p] # "none"}
      /\ \A s \in Requests : s # r => request'[s] = request[s]
  BY <1>0, <1>1, BecomesIs, ChangedIs, IdleIsNoRequest
<1>3. \A s \in Requests : /\ request'[s] # Idle <=> request[s] # Idle
                          /\ request[s] # Idle => /\ request'[s].kind = request[s].kind
                                                  /\ request'[s].crawl = request[s].crawl
                                                  /\ request'[s].on = request[s].on
                                                  /\ request'[s].returned = request[s].returned
  BY <1>1, <1>2 DEF Alive
<1>4. /\ index' = index /\ node' = node /\ page' = page /\ mixed' = mixed /\ strayed' = strayed /\ finished' = finished
      /\ \A i \in Indexes : Current(i)' = Current(i)
  BY <1>1 DEF store, history, Current
<1>5. Unnamed'
  BY <1>0, <1>1, <1>3, <1>4 DEF Unnamed, UnnamedOf, NoneOf, IsNamed, Asking, Alive, Of, On
<1>6. OnlyFull'
  BY <1>0, <1>1, <1>4 DEF OnlyFull, OnlyFullOf
<1>7. Cleared'
  BY <1>0, <1>1, <1>3, <1>4 DEF Cleared, ClearedOf, NoneOf, Dropping, Alive, Of, On
<1>8. Finished'
  BY <1>0, <1>4 DEF Finished, FinishedOf, AllOf
<1>9. SoFar'
  <2> SUFFICES ASSUME NEW s \in Requests, request'[s] # Idle, request'[s].at = "work", request'[s].kind = "index",
                      request[s].crawl \notin mixed, NEW p \in Pages \ request'[s].todo,
                      page[request[s].crawl][p] = "full"
               PROVE  Current(request[s].on)[request[s].crawl][p] = "whole"
    BY <1>1, <1>3, <1>4 DEF SoFar, SoFarOf, Indexing, At, Of, On, Current
  <2>1. s # r
    BY <1>2 DEF Of
  <2>2. Indexing(s) /\ request'[s] = request[s]
    BY <1>2, <2>1 DEF Indexing, At
  <2> QED BY <1>0, <2>2 DEF SoFar, SoFarOf, Of, On
<1>10. ThinMixed'
  BY <1>0, <1>4 DEF ThinMixed, ThinOf
<1> QED BY <1>5, <1>6, <1>7, <1>8, <1>9, <1>10 DEF ContentInv

LEMMA MarkContentStep ==
  ASSUME CrawlInv, NEW r \in Requests, Mark(r)
  PROVE  ContentInv'
<1>0. /\ TInv /\ WhoInv /\ OthersKept /\ TypeOK
      /\ Unnamed /\ OnlyFull /\ Cleared /\ Finished /\ SoFar /\ ThinMixed
  BY DEF CrawlInv, ContentInv, TInv
<1>1. /\ Alive(r) /\ request[r].at = "mark" /\ request[r].kind = "index"
      /\ On(r) \in Indexes /\ Of(r) \in Crawls
      /\ request'[r] = Idle /\ \A s \in Requests : s # r => request'[s] = request[s]
      /\ node' = [node EXCEPT ![Of(r)] = On(r)]
      /\ strayed' = [strayed EXCEPT ![Of(r)] = @ \cup ({node[Of(r)]} \cap (Indexes \ {On(r)}))]
      /\ UNCHANGED <<ixvars, page, crawler, next, known, counts, mixed, finished>>
  BY <1>0, MarkIs
<1>2. /\ index' = index /\ page' = page /\ mixed' = mixed /\ finished' = finished
      /\ \A i \in Indexes : Current(i)' = Current(i)
  BY <1>1 DEF ixvars, Current
<1>3. /\ \A d \in Crawls : d # Of(r) => node'[d] = node[d] /\ strayed'[d] = strayed[d]
      /\ node'[Of(r)] = On(r) /\ \A d \in Crawls : strayed[d] \subseteq strayed'[d]
      /\ \A i \in Indexes : i # On(r) /\ i \notin strayed'[Of(r)] => node[Of(r)] # i
  BY <1>0, <1>1 DEF TypeOK
<1>4. \A s \in Requests : request'[s] # Idle => request'[s] = request[s] /\ s # r /\ request[s] # Idle
  BY <1>1
<1>5. Unnamed'
  <2> SUFFICES ASSUME NEW d \in Crawls, NEW i \in Indexes, d \notin mixed, i \notin strayed'[d], ~IsNamed(d, i)'
               PROVE  NoneOf(index[i], d)
    BY <1>2 DEF Unnamed, UnnamedOf, NoneOf
  <2>1. \A s \in Requests : s # r => ~(Asking(s) /\ Of(s) = d /\ On(s) = i)
    BY <1>1 DEF IsNamed, Asking, Alive, Of, On
  <2>2. ~(Of(r) = d /\ On(r) = i) /\ node[d] # i
    BY <1>3 DEF IsNamed
  <2> QED BY <1>0, <1>3, <2>1, <2>2 DEF Unnamed, UnnamedOf, IsNamed
<1>6. OnlyFull'
  BY <1>0, <1>2, <1>3 DEF OnlyFull, OnlyFullOf
<1>7. Cleared'
  BY <1>0, <1>2, <1>4 DEF Cleared, ClearedOf, NoneOf, Dropping, Alive, Of, On
<1>8. Finished'
  BY <1>0, <1>2 DEF Finished, FinishedOf, AllOf
<1>9. SoFar'
  BY <1>0, <1>1, <1>2, <1>4 DEF SoFar, SoFarOf, Indexing, At, Of, On, Current, ixvars
<1>10. ThinMixed'
  BY <1>0, <1>2 DEF ThinMixed, ThinOf
<1> QED BY <1>5, <1>6, <1>7, <1>8, <1>9, <1>10 DEF ContentInv

LEMMA DropContentStep ==
  ASSUME CrawlInv, NEW r \in Requests, Drop(r)
  PROVE  ContentInv'
<1>0. /\ TInv /\ WhoInv /\ OthersKept /\ TypeOK
      /\ Unnamed /\ OnlyFull /\ Cleared /\ Finished /\ SoFar /\ ThinMixed
  BY DEF CrawlInv, ContentInv, TInv
<1>1. /\ Alive(r) /\ request[r].at = "drop" /\ request[r].kind = "remove" /\ Of(r) \in Crawls
      /\ request'[r] = Idle /\ \A s \in Requests : s # r => request'[s] = request[s]
      /\ node' = [node EXCEPT ![Of(r)] = Absent] /\ page' = [page EXCEPT ![Of(r)] = NoPages]
      /\ strayed' = [strayed EXCEPT ![Of(r)] =
           IF request[r].returned THEN @ ELSE @ \cup ({node[Of(r)]} \cap Indexes)]
      /\ UNCHANGED <<ixvars, crawler, next, known, counts, mixed, finished>>
  BY <1>0, DropIs
<1>2. /\ index' = index /\ mixed' = mixed /\ finished' = finished
      /\ \A i \in Indexes : Current(i)' = Current(i)
  BY <1>1 DEF ixvars, Current
<1>3. /\ \A d \in Crawls : d # Of(r) => node'[d] = node[d] /\ strayed'[d] = strayed[d] /\ page'[d] = page[d]
      /\ node'[Of(r)] \notin Indexes /\ \A d \in Crawls : strayed[d] \subseteq strayed'[d]
      /\ \A p \in Pages : page'[Of(r)][p] # "full"
      /\ ~request[r].returned => \A i \in Indexes : i \notin strayed'[Of(r)] => node[Of(r)] # i
  BY <1>0, <1>1, NodesDistinct DEF TypeOK, NoPages
<1>4. \A s \in Requests : request'[s] # Idle => request'[s] = request[s] /\ s # r /\ request[s] # Idle
  BY <1>1
<1>5. \A s \in Requests : s # r /\ Alive(s) /\ Of(s) = Of(r) => Of(r) \in mixed
  BY <1>0, <1>1 DEF WhoInv, Alone, AloneOf
<1>6. ASSUME NEW i \in Indexes, Of(r) \notin mixed, i \notin strayed'[Of(r)]
      PROVE  NoneOf(index[i], Of(r))
  <2>1. \A s \in Requests : ~(Asking(s) /\ Of(s) = Of(r))
    BY <1>1, <1>5, <1>6 DEF Asking
  <2>2. CASE node[Of(r)] # i
    BY <1>0, <1>1, <1>3, <1>6, <2>1, <2>2 DEF Unnamed, UnnamedOf, IsNamed
  <2>3. CASE node[Of(r)] = i
    <3>1. request[r].returned
      BY <1>3, <1>6, <2>3
    <3>2. On(r) = i
      BY <1>0, <1>1, <1>6, <2>3, <3>1
         DEF TInv, Placed, PlacedAt, WhoInv, RemovesMarked, MarkedFor, Dropping
    <3> QED BY <1>0, <1>1, <1>6, <3>1, <3>2 DEF Cleared, ClearedOf, Dropping
  <2> QED BY <2>2, <2>3
<1>7. Unnamed'
  <2> SUFFICES ASSUME NEW d \in Crawls, NEW i \in Indexes, d \notin mixed, i \notin strayed'[d], ~IsNamed(d, i)'
               PROVE  NoneOf(index[i], d)
    BY <1>2 DEF Unnamed, UnnamedOf, NoneOf
  <2>1. CASE d # Of(r)
    <3>1. ~IsNamed(d, i)
      BY <1>1, <1>3, <2>1 DEF IsNamed, Asking, Alive, Of, On
    <3> QED BY <1>0, <1>3, <2>1, <3>1 DEF Unnamed, UnnamedOf
  <2> QED BY <1>6, <2>1
<1>8. OnlyFull'
  <2> SUFFICES ASSUME NEW d \in Crawls, NEW i \in Indexes, d \notin mixed, i \notin strayed'[d],
                      NEW p \in Pages, page'[d][p] # "full"
               PROVE  index[i][d][p] = "none" /\ Current(i)[d][p] = "none"
    BY <1>2 DEF OnlyFull, OnlyFullOf
  <2>1. CASE d # Of(r)
    BY <1>0, <1>3, <2>1 DEF OnlyFull, OnlyFullOf
  <2>2. CASE d = Of(r)
    <3>1. \A s \in Requests : Indexing(s) => Of(s) # d
      BY <1>1, <1>5, <2>2 DEF Indexing, At, Alive
    <3>2. Current(i)[d] = index[i][d]
      BY <1>0, <3>1, CurrentIsIndex
    <3> QED BY <1>6, <2>2, <3>2 DEF NoneOf
  <2> QED BY <2>1, <2>2
<1>9. Cleared'
  BY <1>0, <1>2, <1>4 DEF Cleared, ClearedOf, NoneOf, Dropping, Alive, Of, On
<1>10. Finished'
  <2> SUFFICES ASSUME NEW d \in Crawls, NEW i \in Indexes, d \notin mixed, i \in finished[d],
                      NEW p \in Pages, page'[d][p] = "full"
               PROVE  index[i][d][p] = "whole" /\ Current(i)[d][p] = "whole"
    BY <1>2 DEF Finished, FinishedOf, AllOf
  <2>1. d # Of(r)
    BY <1>3
  <2> QED BY <1>0, <1>3, <2>1 DEF Finished, FinishedOf, AllOf
<1>11. SoFar'
  <2> SUFFICES ASSUME NEW s \in Requests, request'[s] # Idle, Indexing(s), Of(s) \notin mixed,
                      NEW p \in Pages \ request[s].todo, page'[Of(s)][p] = "full"
               PROVE  Current(On(s))[Of(s)][p] = "whole"
    BY <1>1, <1>2, <1>4 DEF SoFar, SoFarOf, Indexing, At, Of, On, Current, ixvars
  <2>1. Of(s) \in Crawls /\ Of(s) # Of(r)
    BY <1>0, <1>4, <1>5, AliveFields DEF Alive
  <2> QED BY <1>0, <1>3, <2>1 DEF SoFar, SoFarOf
<1>12. ThinMixed'
  BY <1>0, <1>2 DEF ThinMixed, ThinOf
<1> QED BY <1>7, <1>8, <1>9, <1>10, <1>11, <1>12 DEF ContentInv

LEMMA IndexerContentStep ==
  ASSUME CrawlInv, NEW i \in Indexes, RemoveIndexer(i)
  PROVE  ContentInv'
<1>0. /\ TInv /\ TypeOK
      /\ Unnamed /\ OnlyFull /\ Cleared /\ Finished /\ SoFar /\ ThinMixed
  BY DEF CrawlInv, ContentInv, TInv
<1>1. /\ \A s \in Requests :
           \/ ~Interrupted(s, i) /\ request'[s] = request[s]
           \/ /\ Interrupted(s, i) /\ Alive(s) /\ request'[s] \in Request
              /\ request'[s].kind = request[s].kind /\ request'[s].crawl = request[s].crawl
              /\ request'[s].on = request[s].on /\ request'[s].at = "closed"
              /\ request'[s].returned = request[s].returned
      /\ index' = index /\ writer'[i] = None
      /\ \A j \in Indexes : j # i => writer'[j] = writer[j] /\ draft'[j] = draft[j]
      /\ UNCHANGED <<store, history>>
  BY <1>0, RemovalIs
<1>2. /\ node' = node /\ page' = page /\ mixed' = mixed /\ strayed' = strayed /\ finished' = finished
      /\ Current(i)' = index[i] /\ \A j \in Indexes : j # i => Current(j)' = Current(j)
  BY <1>1 DEF store, history, Current
<1>3. \A s \in Requests : /\ request'[s] # Idle <=> request[s] # Idle
                          /\ request[s] # Idle => /\ request'[s].kind = request[s].kind
                                                  /\ request'[s].crawl = request[s].crawl
                                                  /\ request'[s].on = request[s].on
                                                  /\ request'[s].returned = request[s].returned
  BY <1>1, IdleIsNoRequest DEF Alive
<1>4. Unnamed'
  BY <1>1, <1>2, <1>0, <1>3 DEF Unnamed, UnnamedOf, NoneOf, IsNamed, Asking, Alive, Of, On
<1>5. OnlyFull'
  BY <1>0, <1>1, <1>2 DEF OnlyFull, OnlyFullOf
<1>6. Cleared'
  BY <1>0, <1>1, <1>2, <1>3 DEF Cleared, ClearedOf, NoneOf, Dropping, Alive, Of, On
<1>7. Finished'
  BY <1>0, <1>1, <1>2 DEF Finished, FinishedOf, AllOf
<1>8. SoFar'
  <2> SUFFICES ASSUME NEW s \in Requests, request'[s] # Idle, request'[s].at = "work", request'[s].kind = "index",
                      NEW j \in Indexes, j = request'[s].on, request'[s].crawl \notin mixed,
                      NEW p \in Pages \ request'[s].todo, page[request'[s].crawl][p] = "full"
               PROVE  Current(j)'[request'[s].crawl][p] = "whole"
    <3>1. TInv'
      BY <1>0, IndexerTypeStep
    <3>2. \A s \in Requests : request'[s] # Idle /\ request'[s].at = "work" => request'[s].on \in Indexes
      BY <3>1 DEF TInv, Placed, PlacedAt, Alive, On
    <3> QED BY <1>2, <3>2 DEF SoFar, SoFarOf, Indexing, At, Of, On, Current
  <2>1. ~Interrupted(s, i) /\ request'[s] = request[s]
    BY <1>1
  <2>2. j # i /\ Indexing(s) /\ On(s) = j
    BY <2>1 DEF Interrupted, At, Indexing, On
  <2> QED BY <1>0, <1>2, <2>1, <2>2 DEF SoFar, SoFarOf, Of
<1>9. ThinMixed'
  BY <1>0, <1>1, <1>2 DEF ThinMixed, ThinOf
<1> QED BY <1>4, <1>5, <1>6, <1>7, <1>8, <1>9 DEF ContentInv

LEMMA ClosedContentStep ==
  ASSUME CrawlInv, NEW r \in Requests, EndsClosed(r)
  PROVE  ContentInv'
<1>0. /\ TInv /\ TypeOK
      /\ Unnamed /\ OnlyFull /\ Cleared /\ Finished /\ SoFar /\ ThinMixed
  BY DEF CrawlInv, ContentInv, TInv
<1>1. /\ Alive(r) /\ \A s \in Requests : s # r => request'[s] = request[s]
      /\ \/ request'[r] = Idle /\ (request[r].kind = "index" => On(r) \in strayed'[Of(r)])
         \/ /\ request'[r] # Idle /\ request'[r].kind = request[r].kind
            /\ request'[r].crawl = request[r].crawl /\ request'[r].on = request[r].on
            /\ request'[r].at \in {"mark", "drop"} /\ ~request'[r].returned
      /\ \A d \in Crawls : strayed[d] \subseteq strayed'[d]
      /\ UNCHANGED <<ixvars, store, mixed, finished>>
  BY <1>0, ClosedIs
<1>2. /\ index' = index /\ node' = node /\ page' = page /\ mixed' = mixed /\ finished' = finished
      /\ \A i \in Indexes : Current(i)' = Current(i)
  BY <1>1 DEF store, ixvars, Current
<1>3. Unnamed'
  <2> SUFFICES ASSUME NEW d \in Crawls, NEW i \in Indexes, d \notin mixed, i \notin strayed'[d], ~IsNamed(d, i)'
               PROVE  NoneOf(index[i], d)
    BY <1>2 DEF Unnamed, UnnamedOf, NoneOf
  <2>1. ~IsNamed(d, i)
    BY <1>1, <1>2 DEF IsNamed, Asking, Alive, Of, On
  <2> QED BY <1>0, <1>1, <2>1 DEF Unnamed, UnnamedOf
<1>4. OnlyFull'
  BY <1>0, <1>1, <1>2 DEF OnlyFull, OnlyFullOf
<1>5. Cleared'
  BY <1>0, <1>1, <1>2 DEF Cleared, ClearedOf, NoneOf, Dropping, Alive, Of, On
<1>6. Finished'
  BY <1>0, <1>2 DEF Finished, FinishedOf, AllOf
<1>7. SoFar'
  BY <1>0, <1>1, <1>2 DEF SoFar, SoFarOf, Indexing, At, Of, On, Current, ixvars
<1>8. ThinMixed'
  BY <1>0, <1>2 DEF ThinMixed, ThinOf
<1> QED BY <1>3, <1>4, <1>5, <1>6, <1>7, <1>8 DEF ContentInv

LEMMA RemoveSiteContentStep ==
  ASSUME CrawlInv, RemoveSite
  PROVE  ContentInv'
<1>0. /\ TInv /\ WhoInv /\ OthersKept /\ TypeOK
      /\ Unnamed /\ OnlyFull /\ Cleared /\ Finished /\ SoFar /\ ThinMixed
  BY DEF CrawlInv, ContentInv, TInv
<1>1. /\ index' = index /\ request' = request /\ finished' = finished
      /\ mixed' = mixed \cup {c \in Crawls : Busy(c) \/ Crawling(c)}
      /\ node' = [c \in Crawls |-> Absent] /\ page' = [c \in Crawls |-> NoPages]
      /\ strayed' = [c \in Crawls |-> strayed[c] \cup ({node[c]} \cap Indexes)]
      /\ \A i \in Indexes : Current(i)' = Current(i)
  BY DEF RemoveSite, ixvars, Current
<1>2. \A s \in Requests : request[s] # Idle => Of(s) \in mixed'
  BY <1>0, <1>1, BusyIs, AliveFields DEF Alive
<1>3. ASSUME NEW d \in Crawls, NEW i \in Indexes, d \notin mixed', i \notin strayed'[d]
      PROVE  NoneOf(index[i], d) /\ Current(i)[d] = index[i][d]
  <2>1. d \notin mixed /\ i \notin strayed[d] /\ node[d] # i
    BY <1>1, <1>3
  <2>2. \A s \in Requests : Alive(s) => Of(s) # d
    BY <1>2, <1>3 DEF Alive
  <2>3. ~IsNamed(d, i)
    BY <2>1, <2>2 DEF IsNamed, Asking
  <2>4. Current(i)[d] = index[i][d]
    BY <1>0, <2>2, CurrentIsIndex DEF Indexing, At, Alive
  <2> QED BY <1>0, <1>3, <2>1, <2>3, <2>4 DEF Unnamed, UnnamedOf
<1>4. Unnamed'
  BY <1>1, <1>3 DEF Unnamed, UnnamedOf, NoneOf
<1>5. OnlyFull'
  BY <1>1, <1>3 DEF OnlyFull, OnlyFullOf, NoneOf
<1>6. Cleared' /\ SoFar'
  BY <1>1, <1>2 DEF Cleared, ClearedOf, SoFar, SoFarOf, Dropping, Alive, At, Indexing, Of
<1>7. Finished'
  BY <1>1 DEF Finished, FinishedOf, AllOf, NoPages
<1>8. ThinMixed'
  BY <1>0, <1>1 DEF ThinMixed, ThinOf
<1> QED BY <1>4, <1>5, <1>6, <1>7, <1>8 DEF ContentInv

LEMMA CrashContentStep ==
  ASSUME CrawlInv, Crash
  PROVE  ContentInv'
<1>0. /\ TInv /\ TypeOK
      /\ Unnamed /\ OnlyFull /\ Cleared /\ Finished /\ SoFar /\ ThinMixed
  BY DEF CrawlInv, ContentInv, TInv
<1>1. /\ index' = index /\ request' = [r \in Requests |-> Idle] /\ node' = node /\ mixed' = mixed /\ finished' = finished
      /\ writer' = [i \in Indexes |-> None]
      /\ page' = [c \in Crawls |-> [p \in Pages |-> IF InPut(c, p) THEN "none" ELSE page[c][p]]]
      /\ strayed' = [c \in Crawls |-> strayed[c] \cup {On(r) : r \in {q \in Requests : Asks("index", q, c)}}]
  BY DEF Crash, IndexCrash
<1>2. \A i \in Indexes : Current(i)' = index[i]
  BY <1>1 DEF Current
<1>3. \A d \in Crawls : strayed[d] \subseteq strayed'[d]
  BY <1>1
<1>4. Unnamed'
  <2> SUFFICES ASSUME NEW d \in Crawls, NEW i \in Indexes, d \notin mixed, i \notin strayed'[d],
                      node[d] # i
               PROVE  NoneOf(index[i], d)
    BY <1>1 DEF Unnamed, UnnamedOf, NoneOf, IsNamed
  <2>1. \A r \in Requests : ~(Asking(r) /\ Of(r) = d /\ On(r) = i)
    BY <1>1 DEF Asks, Asking, Alive, Of
  <2> QED BY <1>0, <1>3, <2>1 DEF Unnamed, UnnamedOf, IsNamed
<1>5. OnlyFull'
  <2> SUFFICES ASSUME NEW d \in Crawls, NEW i \in Indexes, d \notin mixed, i \notin strayed'[d],
                      NEW p \in Pages, page'[d][p] # "full"
               PROVE  index[i][d][p] = "none"
    BY <1>1, <1>2 DEF OnlyFull, OnlyFullOf
  <2>1. page[d][p] # "full"
    BY <1>1 DEF InPut
  <2> QED BY <1>0, <1>3, <2>1 DEF OnlyFull, OnlyFullOf
<1>6. Cleared' /\ SoFar'
  BY <1>1 DEF Cleared, ClearedOf, SoFar, SoFarOf, Dropping, Alive, At, Indexing
<1>7. Finished'
  <2> SUFFICES ASSUME NEW d \in Crawls, NEW i \in Indexes, d \notin mixed, i \in finished[d],
                      NEW p \in Pages, page'[d][p] = "full"
               PROVE  index[i][d][p] = "whole"
    BY <1>1, <1>2 DEF Finished, FinishedOf, AllOf
  <2>1. page[d][p] = "full"
    BY <1>1 DEF InPut
  <2> QED BY <1>0, <2>1 DEF Finished, FinishedOf, AllOf
<1>8. ThinMixed'
  BY <1>0, <1>1, <1>2 DEF ThinMixed, ThinOf
<1> QED BY <1>4, <1>5, <1>6, <1>7, <1>8 DEF ContentInv
------------------------------------------------------------------------------
LEMMA CrawlInit == Init => CrawlInv
<1> SUFFICES ASSUME Init PROVE CrawlInv
  OBVIOUS
<1>1. TInv /\ WhoInv
  BY TypeInit, WhoInit
<1>2. /\ \A i \in Indexes : index[i] = NoContent /\ writer[i] = None
      /\ \A r \in Requests : request[r] = Idle
      /\ \A c \in Crawls : node[c] = Absent /\ page[c] = NoPages
  BY DEF Init, IndexInit
<1>3. OthersKept
  BY <1>2 DEF OthersKept, OthersKeptOn
<1>4. \A c \in Crawls, i \in Indexes, p \in Pages :
        index[i][c][p] = "none" /\ Current(i)[c][p] = "none" /\ page[c][p] = "none"
  BY <1>2 DEF Current, NoContent, NoPages
<1>5. Unnamed /\ OnlyFull /\ Finished /\ ThinMixed
  BY <1>4 DEF Unnamed, UnnamedOf, NoneOf, OnlyFull, OnlyFullOf, Finished, FinishedOf, AllOf, ThinMixed, ThinOf
<1>6. Cleared /\ SoFar
  BY <1>2 DEF Cleared, ClearedOf, SoFar, SoFarOf, Dropping, Alive, At, Indexing
<1> QED BY <1>1, <1>3, <1>5, <1>6 DEF CrawlInv, ContentInv

LEMMA CrawlSteps == CrawlInv /\ [Next]_vars => CrawlInv'
<1> SUFFICES ASSUME CrawlInv, [Next]_vars PROVE CrawlInv'
  OBVIOUS
<1>0. TInv /\ WhoInv /\ OthersKept /\ ContentInv /\ TypeOK /\ TInv'
  BY TypeStep DEF CrawlInv, TInv
<1>1. ASSUME NEW c \in Crawls, CrawlSite(c) \/ CrawlStep(c) PROVE CrawlInv'
  <2>1. UNCHANGED <<ixvars, known, request, counts, history>>
    BY <1>0, <1>1, StoreIs DEF WhoInv
  <2>2. OthersKept'
    BY <1>0, <2>1, KeptOtherStep DEF ixvars
  <2> QED BY <1>0, <1>1, <2>2, StoreWhoStep, StoreContentStep DEF CrawlInv
<1>2. ASSUME NEW r \in Requests, NEW c \in Crawls,
             (\E i \in Indexes : AskIndex(r, c, i)) \/ (\E with \in BOOLEAN : AskRemove(r, c, with))
      PROVE  CrawlInv'
  <2>1. PICK q \in Request : Becomes(r, q)
    BY <1>0, <1>2, AskSteps
  <2>2. request[r] = Idle /\ UNCHANGED ixvars
    BY <1>0, <1>2, AskSteps
  <2>3. \A s \in Requests : Indexing(s) => request'[s] = request[s]
    BY <1>0, <2>1, <2>2, BecomesIs DEF Indexing, At
  <2>4. OthersKept'
    BY <1>0, <2>2, <2>3, KeptOtherStep DEF ixvars
  <2> QED BY <1>0, <1>2, <2>4, AskWhoStep, AskContentStep DEF CrawlInv
<1>3. ASSUME NEW r \in Requests, Enter(r) PROVE CrawlInv'
  <2>1. request[r].at = "wait" /\ Becomes(r, Entered(r)) /\ UNCHANGED <<index, writer, draft>>
    BY <1>0, <1>3, EnterIs
  <2>2. \A s \in Requests : Indexing(s) => request'[s] = request[s]
    BY <1>0, <2>1, BecomesIs DEF Indexing, At
  <2>3. OthersKept'
    BY <1>0, <2>1, <2>2, KeptOtherStep
  <2> QED BY <1>0, <1>3, <2>3, EnterWhoStep, EnterContentStep DEF CrawlInv
<1>4. ASSUME NEW r \in Requests, JobStep(r) PROVE CrawlInv'
  BY <1>0, <1>4, KeptJobStep, JobWhoStep, JobContentStep, JobThinStep DEF CrawlInv, ContentInv
<1>5. ASSUME NEW r \in Requests, Mark(r) \/ Drop(r) PROVE CrawlInv'
  <2>1. /\ request[r].at # "work" /\ UNCHANGED ixvars
        /\ \A s \in Requests : s # r => request'[s] = request[s]
    BY <1>0, <1>5, MarkIs, DropIs
  <2>2. \A s \in Requests : Indexing(s) => request'[s] = request[s]
    BY <2>1 DEF Indexing, At
  <2>3. OthersKept'
    BY <1>0, <2>1, <2>2, KeptOtherStep DEF ixvars
  <2>4. ContentInv'
    BY <1>5, MarkContentStep, DropContentStep
  <2> QED BY <1>0, <1>5, <2>3, <2>4, MarkDropWhoStep DEF CrawlInv
<1>6. CASE RemoveSite
  <2>1. OthersKept'
    BY <1>0, <1>6, KeptOtherStep DEF RemoveSite, ixvars
  <2> QED BY <1>0, <1>6, <2>1, RemoveSiteWhoStep, RemoveSiteContentStep DEF CrawlInv
<1>7. CASE Crash
  <2>1. OthersKept'
    BY <1>7 DEF Crash, IndexCrash, OthersKept, OthersKeptOn
  <2> QED BY <1>0, <1>7, <2>1, CrashWhoStep, CrashContentStep DEF CrawlInv
<1>8. CASE UNCHANGED <<ixvars, store, request, counts, history>>
  <2>1. /\ UNCHANGED <<index, lock, writer, draft, node, page, crawler, next, request, mixed, strayed, finished>>
        /\ \A i \in Indexes : Current(i)' = Current(i)
    BY <1>8 DEF ixvars, store, history, Current
  <2>2. WhoInv'
    BY <1>0, <2>1 DEF WhoInv, Alone, AloneOf, CrawledFirst, CrawledOf, Touched, PutWhileCrawling, InPut,
          TodoIsThere, TodoOf, Indexing, At, RemovesMarked, MarkedFor, Dropping, Alive, Of, On
  <2>3. OthersKept'
    BY <1>0, <2>1, KeptOtherStep
  <2>4. Unnamed' /\ OnlyFull' /\ Cleared' /\ Finished' /\ ThinMixed'
    BY <1>0, <2>1 DEF ContentInv, Unnamed, UnnamedOf, IsNamed, OnlyFull, OnlyFullOf, Cleared, ClearedOf,
          Finished, FinishedOf, ThinMixed, ThinOf, NoneOf, AllOf, Asking, Dropping, Alive, At, Of, On
  <2>5. SoFar'
    BY <1>0, <2>1 DEF ContentInv, SoFar, SoFarOf, Indexing, At, Of, On, Current
  <2> QED BY <1>0, <2>2, <2>3, <2>4, <2>5 DEF CrawlInv, ContentInv
<1>10. ASSUME NEW r \in Requests, EndsClosed(r) PROVE CrawlInv'
  <2>1. /\ request[r].at = "closed" /\ UNCHANGED ixvars
        /\ \A s \in Requests : s # r => request'[s] = request[s]
    BY <1>0, <1>10, ClosedIs
  <2>2. \A s \in Requests : Indexing(s) => request'[s] = request[s]
    BY <2>1 DEF Indexing, At
  <2>3. OthersKept'
    BY <1>0, <2>1, <2>2, KeptOtherStep DEF ixvars
  <2> QED BY <1>0, <1>10, <2>3, ClosedWhoStep, ClosedContentStep DEF CrawlInv
<1>11. ASSUME NEW i \in Indexes, RemoveIndexer(i) PROVE CrawlInv'
  <2>1. ASSUME NEW j \in Indexes, writer'[j] # None PROVE OthersKeptOn(j)'
    <3>1. j # i /\ writer'[j] = writer[j] /\ draft'[j] = draft[j] /\ index' = index
      BY <1>0, <1>11, <2>1, RemovalIs
    <3>2. /\ writer[j] \in Requests /\ Indexing(writer[j]) /\ On(writer[j]) = j
      BY <1>0, <2>1, <3>1 DEF TInv, WriterIndexes, WriterIndexesOn, TypeOK, IndexTypes
    <3>3. request'[writer[j]] = request[writer[j]]
      BY <1>0, <1>11, <3>1, <3>2, RemovalIs DEF Interrupted
    <3> QED BY <1>0, <2>1, <3>1, <3>3 DEF OthersKept, OthersKeptOn, Of
  <2>2. OthersKept'
    BY <2>1 DEF OthersKept, OthersKeptOn
  <2> QED BY <1>0, <1>11, <2>2, IndexerWhoStep, IndexerContentStep DEF CrawlInv
<1>9. CASE \E r \in Requests : Step(r)
  <2>1. PICK r \in Requests : Step(r)
    BY <1>9
  <2>2. Enter(r) \/ JobStep(r) \/ Mark(r) \/ Drop(r) \/ EndsClosed(r)
    BY <1>0, <2>1, JobSteps DEF Step
  <2> QED BY <2>2, <1>3, <1>4, <1>5, <1>10
<1>12. CASE \E i \in Indexes : RemoveIndexer(i) \/ CreateIndexer(i)
  BY <1>8, <1>11, <1>12 DEF CreateIndexer
<1>13. CASE UNCHANGED vars
  BY <1>8, <1>13 DEF vars
<1> QED BY <1>1, <1>2, <1>6, <1>7, <1>9, <1>12, <1>13 DEF Next

(* Once a job that indexes a crawl has returned, its pages are in the index,  *)
(* whole, until a removal returns, and no index that it did not stray to has  *)
(* anything else of it, if nothing else was under way with the crawl: by      *)
(* Finished and OnlyFull.                                                     *)
THEOREM IndexedIsWhole == Spec => []IndexedMeansWhole
<1>1. ASSUME CrawlInv PROVE IndexedMeansWhole
  <2> SUFFICES ASSUME NEW c \in Crawls, NEW i \in Indexes, NEW p \in Pages, c \notin mixed
               PROVE  IF page[c][p] = "full" THEN i \in finished[c] => index[i][c][p] = "whole"
                      ELSE i \in strayed[c] \/ index[i][c][p] = "none"
    BY DEF IndexedMeansWhole
  <2>1. page[c][p] = "full" /\ i \in finished[c] => index[i][c][p] = "whole"
    BY <1>1 DEF CrawlInv, ContentInv, Finished, FinishedOf, AllOf
  <2>2. page[c][p] # "full" => i \in strayed[c] \/ index[i][c][p] = "none"
    BY <1>1 DEF CrawlInv, ContentInv, OnlyFull, OnlyFullOf
  <2> QED BY <2>1, <2>2
<1> QED BY <1>1, CrawlInit, CrawlSteps, PTL DEF Spec

(* Nothing of a crawl that is gone, and with which nothing else was under     *)
(* way, is left in an index unless a second index took the mark, the request  *)
(* that indexed it died or failed before the mark, or it was removed without  *)
(* a removal of its documents having returned: by Unnamed.                    *)
THEOREM GoneIsGone == Spec => []NoStrayDocuments
<1>1. ASSUME CrawlInv PROVE NoStrayDocuments
  <2> SUFFICES ASSUME NEW c \in Crawls, NEW i \in Indexes, Quiet(c), node[c] = Absent,
                      c \notin mixed, i \notin strayed[c]
               PROVE  index[i][c] = NoPages
    BY DEF NoStrayDocuments
  <2>1. ~IsNamed(c, i)
    BY <1>1, BusyIs, NodesDistinct DEF CrawlInv, TInv, Quiet, IsNamed, Asking
  <2>2. NoneOf(index[i], c)
    BY <1>1, <2>1 DEF CrawlInv, ContentInv, Unnamed, UnnamedOf
  <2>3. index[i][c] \in [Pages -> {"none", "thin", "whole"}]
    BY <1>1 DEF CrawlInv, TInv, TypeOK, IndexTypes, Content
  <2> QED BY <2>2, <2>3 DEF NoneOf, NoPages
<1> QED BY <1>1, CrawlInit, CrawlSteps, PTL DEF Spec

(* A document lacks its anchors only if it is of a crawl of which two things  *)
(* were under way at once: by ThinMixed, and TodoIsThere for a job's pages.   *)
THEOREM ThinByOverlap == Spec => []ThinOnlyIfMixed
<1>1. CrawlInv => ThinOnlyIfMixed
  BY DEF CrawlInv, ContentInv, ThinMixed, ThinOf, ThinOnlyIfMixed
<1> QED BY <1>1, CrawlInit, CrawlSteps, PTL DEF Spec
------------------------------------------------------------------------------
(* Who changes an index: by OthersKept and by the fact that what a job would  *)
(* commit has every page its index has.                                       *)
HasAllOf(y, x) == \A c \in Crawls, p \in Pages : x[c][p] # "none" => y[c][p] # "none"
Grown == \A i \in Indexes : HasAllOf(Current(i), index[i])

ByItsJob ==
  \A i \in Indexes, c \in Crawls : index'[i][c] # index[i][c] =>
    \E r \in Requests :
      /\ At(r, "work") /\ Of(r) = c /\ On(r) = i
      /\ \/ request[r].kind = "remove" /\ \A p \in Pages : index'[i][c][p] = "none"
         \/ request[r].kind = "index" /\ HasAllOf(index'[i], index[i])
JobsWriteTheirCrawl == [][ByItsJob]_vars

LEMMA GrownKept ==
  ASSUME Grown, NEW i \in Indexes, index'[i] = index[i], writer'[i] = writer[i], draft'[i] = draft[i]
  PROVE  HasAllOf(Current(i), index[i])'
BY DEF Grown, Current, HasAllOf

LEMMA JobGrows ==
  ASSUME TInv, Grown, NEW r \in Requests, JobStep(r)
  PROVE  /\ Grown'
         /\ request[r].kind = "index" => HasAllOf(index'[On(r)], index[On(r)])
         /\ request[r].kind = "remove" => \/ index'[On(r)] = index[On(r)]
                                         \/ \A p \in Pages : index'[On(r)][Of(r)][p] = "none"
<1>0. /\ TypeOK /\ Alive(r) /\ On(r) \in Indexes /\ Of(r) \in Crawls /\ r # None
  BY JobIs, NoneIsNoThread DEF TInv
<1>i. PICK i \in Indexes : i = On(r)
  BY <1>0
<1>1. /\ HasAllOf(index[i], index[i])
      /\ CanWrite(r, i) => HasAllOf(Session(r, i), index[i])
  BY <1>0, SessionIs DEF Grown, HasAllOf
<1>2. \A j \in Indexes : j # i => HasAllOf(Current(j), index[j])'
  BY <1>i, JobWrites, GrownKept DEF OthersSame
<1> SUFFICES /\ HasAllOf(Current(i), index[i])'
             /\ request[r].kind = "index" => HasAllOf(index'[i], index[i])
             /\ request[r].kind = "remove" => \/ index'[i] = index[i]
                                             \/ \A p \in Pages : index'[i][Of(r)][p] = "none"
  BY <1>i, <1>2 DEF Grown
<1>3. CASE Passes(r)
  <2>1. index'[i] = index[i] /\ writer'[i] = writer[i] /\ draft'[i] = draft[i]
    BY <1>3 DEF Passes, ixvars
  <2> QED BY <1>1, <2>1, GrownKept
<1>4. ASSUME NEW p \in request[r].todo, page[Of(r)][p] \in {"bare", "full"}, Drafted(r, WithPage(r, p)),
             request[r].kind = "index"
      PROVE  HasAllOf(Current(i), index[i])' /\ HasAllOf(index'[i], index[i])
  <2>1. PICK x : x = WithPage(r, p)
    OBVIOUS
  <2>2. p \in Pages
    BY <1>0, AliveFields
  <2>3. Doc(r, p) # "none"
    BY DEF Doc
  <2>4. /\ CanWrite(r, i) /\ writer'[i] = r /\ draft'[i] = x /\ index'[i] \in {index[i], x}
    BY <1>4, <1>i, <2>1 DEF Drafted
  <2>5. \A c \in Crawls, q \in Pages : x[c][q] = Session(r, i)[c][q] \/ x[c][q] # "none"
    BY <1>0, <1>i, <2>1, <2>2, <2>3, WithPageIs
  <2>6. HasAllOf(x, index[i]) /\ HasAllOf(x, x)
    BY <1>1, <2>4, <2>5 DEF HasAllOf
  <2>7. Current(i)' = x
    BY <1>0, <2>4 DEF Current
  <2> QED BY <1>1, <2>4, <2>6, <2>7 DEF HasAllOf
<1>5. CASE Committed(r, Session(r, On(r))) /\ request[r].kind = "index"
  <2>1. CanWrite(r, i) /\ index'[i] = Session(r, i) /\ writer'[i] = None
    BY <1>5, <1>i DEF Committed
  <2>2. HasAllOf(Current(i), index[i])'
    BY <2>1 DEF HasAllOf, Current
  <2> QED BY <1>1, <2>1, <2>2, <1>5
<1>6. CASE Undone(r)
  <2>1. index'[i] = index[i] /\ (writer'[i] = None \/ (writer'[i] = writer[i] /\ draft'[i] = draft[i]))
    BY <1>0, <1>i, <1>6, LetGoIs DEF Undone, TypeOK
  <2>2. HasAllOf(Current(i), index[i])'
    <3>1. CASE writer'[i] = None
      BY <3>1 DEF HasAllOf, Current
    <3>2. CASE writer'[i] = writer[i] /\ draft'[i] = draft[i]
      BY <2>1, <3>2, GrownKept
    <3> QED BY <2>1, <3>1, <3>2
  <2> QED BY <1>1, <2>1, <2>2
<1>7. CASE Removes(r) /\ request[r].kind = "remove" /\ Committed(r, Unindexed(r))
  <2>1. index'[i] = Unindexed(r) /\ writer'[i] = None
    BY <1>7, <1>i DEF Committed
  <2> QED BY <1>0, <1>7, <2>1, UnindexedIs DEF HasAllOf, Current
<1> QED BY <1>3, <1>4, <1>5, <1>6, <1>7, JobWrites

LEMMA OthersGrow ==
  ASSUME Grown, UNCHANGED <<index, writer, draft>>
  PROVE  Grown' /\ ByItsJob
<1>1. Grown'
  BY GrownKept DEF Grown
<1> QED BY <1>1 DEF ByItsJob

LEMMA WriteStep == CrawlInv /\ Grown /\ [Next]_vars => Grown' /\ [ByItsJob]_vars
<1> SUFFICES ASSUME CrawlInv, Grown, [Next]_vars PROVE Grown' /\ [ByItsJob]_vars
  OBVIOUS
<1>0. TInv /\ WhoInv /\ OthersKept /\ TypeOK
  BY DEF CrawlInv, TInv
<1>1. ASSUME NEW r \in Requests, JobStep(r) PROVE Grown' /\ ByItsJob
  <2>1. Grown'
    BY <1>0, <1>1, JobGrows
  <2>2. ASSUME NEW i \in Indexes, NEW c \in Crawls, index'[i][c] # index[i][c]
        PROVE  /\ At(r, "work") /\ Of(r) = c /\ On(r) = i
               /\ \/ request[r].kind = "remove" /\ \A p \in Pages : index'[i][c][p] = "none"
                  \/ request[r].kind = "index" /\ HasAllOf(index'[i], index[i])
    <3>1. i = On(r) /\ c = Of(r)
      BY <1>0, <1>1, <2>2, JobElsewhere
    <3>2. At(r, "work") /\ request[r].kind \in {"index", "remove"}
      BY <1>1 DEF JobStep, Alive, At
    <3> QED BY <1>0, <1>1, <2>2, <3>1, <3>2, JobGrows
  <2> QED BY <2>1, <2>2 DEF ByItsJob
<1>2. ASSUME NEW c \in Crawls, CrawlSite(c) \/ CrawlStep(c) PROVE UNCHANGED <<index, writer, draft>>
  BY <1>0, <1>2, StoreIs DEF WhoInv, ixvars
<1>3. ASSUME NEW r \in Requests, NEW c \in Crawls,
             (\E i \in Indexes : AskIndex(r, c, i)) \/ (\E with \in BOOLEAN : AskRemove(r, c, with))
      PROVE  UNCHANGED <<index, writer, draft>>
  BY <1>0, <1>3, AskSteps DEF ixvars
<1>4. ASSUME NEW r \in Requests, Enter(r) \/ Mark(r) \/ Drop(r) \/ EndsClosed(r)
      PROVE  UNCHANGED <<index, writer, draft>>
  BY <1>0, <1>4, EnterIs, MarkIs, DropIs, ClosedIs DEF ixvars
<1>5. CASE RemoveSite \/ UNCHANGED vars
  BY <1>5, OthersGrow DEF RemoveSite, ixvars, vars
<1>6. CASE Crash
  <2>1. index' = index /\ \A i \in Indexes : writer'[i] = None
    BY <1>6 DEF Crash, IndexCrash
  <2> QED BY <2>1 DEF Grown, Current, HasAllOf, ByItsJob
<1>7. ASSUME NEW r \in Requests, Step(r) PROVE Grown' /\ ByItsJob
  <2>1. Enter(r) \/ JobStep(r) \/ Mark(r) \/ Drop(r) \/ EndsClosed(r)
    BY <1>0, <1>7, JobSteps DEF Step
  <2> QED BY <1>1, <1>4, <2>1, OthersGrow
<1>8. ASSUME NEW i \in Indexes, RemoveIndexer(i) PROVE Grown' /\ ByItsJob
  <2>1. /\ index' = index /\ writer'[i] = None
        /\ \A j \in Indexes : j # i => writer'[j] = writer[j] /\ draft'[j] = draft[j]
    BY <1>0, <1>8, RemovalIs
  <2>2. HasAllOf(Current(i), index[i])'
    BY <2>1 DEF Current, HasAllOf
  <2>3. \A j \in Indexes : j # i => HasAllOf(Current(j), index[j])'
    BY <2>1, GrownKept
  <2> QED BY <2>1, <2>2, <2>3 DEF Grown, ByItsJob
<1>9. ASSUME NEW i \in Indexes, CreateIndexer(i) PROVE UNCHANGED <<index, writer, draft>>
  BY <1>9 DEF CreateIndexer, ixvars
<1> QED BY <1>2, <1>3, <1>5, <1>6, <1>7, <1>8, <1>9, OthersGrow DEF Next

(* SiteWeb.java:175-179, SiteManager.java:79-116: whichever jobs meet on an   *)
(* index, give up its lock, throw or die, a commit changes there only the     *)
(* crawl of a request at work on it; indexing takes out no page of it, a      *)
(* removal takes out all.                                                     *)
THEOREM CrawlsAreWrittenByTheirJobs == Spec => JobsWriteTheirCrawl
<1>1. Init => CrawlInv /\ Grown
  BY CrawlInit DEF Init, IndexInit, Grown, HasAllOf, Current
<1>2. CrawlInv /\ Grown /\ [Next]_vars => (CrawlInv /\ Grown)'
  BY CrawlSteps, WriteStep
<1>3. CrawlInv /\ Grown /\ [Next]_vars => [ByItsJob]_vars
  BY WriteStep
<1> QED BY <1>1, <1>2, <1>3, PTL DEF Spec, JobsWriteTheirCrawl
==============================================================================
