------------------------------ MODULE Buckets ------------------------------
(***************************************************************************)
(* A bucket is a collection the admin lists, newest first. A query names   *)
(* values of facts; the engine picks one index line, fills the facts of    *)
(* the line nobody asked for, filters what the line does not hold, and     *)
(* gives up at an edge after a budget of rows. The cursor of a page is the *)
(* position it ends at. Tiles and summaries count with plans of their own. *)
(* A summary looks for the combinations of values there are, fact by fact, *)
(* and counts as many of them as it may.                                   *)
(*                                                                         *)
(* The collection changes while a list or a summary is read. A document is *)
(* its time, its id, the values of its facts and its refs. Titles, columns,*)
(* URL keys, the encoding of cursors, the order of texts and the first and *)
(* last times of a summary's entry are left out.                           *)
(***************************************************************************)
EXTENDS SequencesExt

CONSTANTS BucketDefinitions, \* definitions of buckets
          Collections,       \* collections to begin with: functions from ids
          Documents,         \* documents that appear, or that one turns into
          Queries,           \* what is asked
          Null,              \* no value, no position
          SCAN_BUDGET, MAX_SCANS, COUNT_CAP, SUMMARY_COUNT_CAP, MAX_VALUES,
          PageLimit,         \* rows on a page
          MaxChanges         \* bound on changes of the collection

(* What is ever stored. *)
AllDocuments == Documents \cup UNION {Range(c) : c \in Collections}

Position(d) == [t |-> d.t, id |-> d.id]

ASSUME BucketsAssumption ==
    /\ {SCAN_BUDGET, MAX_SCANS, COUNT_CAP, SUMMARY_COUNT_CAP, MAX_VALUES, PageLimit}
         \subseteq Nat \ {0}
    /\ MaxChanges \in Nat
    /\ \A d \in AllDocuments : {d.t, d.id} \subseteq Nat /\ Position(d) # Null
    /\ \A c \in Collections : /\ IsFiniteSet(DOMAIN c) /\ c \in [DOMAIN c -> Range(c)]
                              /\ \A i \in DOMAIN c : c[i].id = i
    /\ \A q \in Queries : DOMAIN q = {"where", "show", "ref", "from", "to"}
    /\ \A b \in BucketDefinitions :
         /\ b.indexes \in Seq(Range(b.indexes)) /\ b.lead \in Seq(Range(b.lead))
         /\ b.top \in Nat \ {0}
         /\ \A f \in DOMAIN b.facts :
              /\ IsFiniteSet(b.facts[f].values)
              /\ b.facts[f].kind # "closed" => b.facts[f].values = {}
              /\ \A v, w \in b.facts[f].values :
                   v.value # Null /\ (v.value = w.value => v.hidden = w.hidden)

VARIABLES bucket,  \* the bucket
          docs,    \* the documents, by their ids
          walk,    \* a list that is being read, page by page
          summary, \* a summary that is being read
          changes  \* changes of the collection

bucketVars == <<bucket, docs, walk, summary, changes>>

----------------------------------------------------------------------------
(* A line of an index is a sequence of facts; the line of refs has none. *)
RefsLine == <<Null>>

FactsOf(b, line) == Range(b.lead) \cup (IF line = RefsLine THEN {} ELSE Range(line))

IsClosed(fact) == fact.kind = "closed"

HasHidden(fact) == IsClosed(fact) /\ \E v \in fact.values : v.hidden

(* fillOf: the values a fact nobody asked for stands for. *)
FillOf(b, f, show) == {v.value : v \in {w \in b.facts[f].values : f \in show \/ ~w.hidden}}

ScansOf(b, line, asked, show) ==
    MapThenFoldSet(LAMBDA x, y : x * y, 1, LAMBDA f : Cardinality(FillOf(b, f, show)) + 1,
                   LAMBDA S : CHOOSE f \in S : TRUE, FactsOf(b, line) \ asked)

IsUsable(b, line, asked, show) ==
    /\ \A f \in FactsOf(b, line) \ asked : IsClosed(b.facts[f])
    /\ ScansOf(b, line, asked, show) <= MAX_SCANS

(* The line with the facts of the summary, less the lead. *)
SummaryFacts(b) == DOMAIN b.among \cup (Range(b.by) \ Range(b.lead))

SummaryLineOf(b) ==
    SetToSeq(DOMAIN b.among) \o SelectSeq(b.by, LAMBDA f : f \notin Range(b.lead))

(* The rules of defineBucket that a read relies on. *)
IsBucket(b) ==
    LET declared == DOMAIN b.facts IN
    /\ \A i \in DOMAIN b.indexes : Range(b.indexes[i]) \subseteq declared
    /\ b.groupings \subseteq declared
    /\ \A f \in b.groupings : b.facts[f].kind # "open"
    /\ \A f \in Range(b.lead) : f \in declared /\ IsClosed(b.facts[f])
    /\ ScansOf(b, <<>>, {}, Range(b.lead)) <= MAX_SCANS
    /\ \A f \in declared : HasHidden(b.facts[f]) => b.facts[f].toggle
    /\ \A f \in declared : b.facts[f].kind = "stored" =>
         \E i \in DOMAIN b.indexes : (b.lead \o b.indexes[i])[1] = f
    /\ Cardinality({<<>>} \cup Range(b.indexes)) = Len(b.indexes) + 1
    /\ b.by # <<>> =>
         /\ Range(b.by) \cup DOMAIN b.among \subseteq declared
         /\ \A f \in DOMAIN b.among : IsClosed(b.facts[f])
         /\ SummaryLineOf(b) \in Range(b.indexes)
         /\ \A f \in declared : HasHidden(b.facts[f]) => f \in Range(b.lead)

----------------------------------------------------------------------------
(* The facts that narrow a list although nobody asked for them. *)
Narrowing(asked, show) ==
    {f \in DOMAIN bucket.facts \ (asked \cup show) : HasHidden(bucket.facts[f])}

(* choosePlan: of the usable lines, the first one of those that hold most  *)
(* of the needed facts and then cost the fewest scans.                     *)
Better(x, y, asked, show, needed) ==
    LET boundX == Cardinality(FactsOf(bucket, x) \cap needed)
        boundY == Cardinality(FactsOf(bucket, y) \cap needed)
    IN  boundX > boundY \/ (boundX = boundY
                            /\ ScansOf(bucket, x, asked, show) < ScansOf(bucket, y, asked, show))

BestLine(asked, show, needed) ==
    LET best[i \in 0 .. Len(bucket.indexes)] ==
          IF i = 0 THEN <<>>
          ELSE IF /\ IsUsable(bucket, bucket.indexes[i], asked, show)
                  /\ Better(bucket.indexes[i], best[i - 1], asked, show, needed)
               THEN bucket.indexes[i] ELSE best[i - 1]
    IN  best[Len(bucket.indexes)]

ChoosePlan(asked, hasRef, show) ==
    LET needed == asked \cup Narrowing(asked, show)
        line == IF hasRef THEN RefsLine ELSE BestLine(asked, show, needed)
    IN  [facts |-> FactsOf(bucket, line), filled |-> FactsOf(bucket, line) \ asked,
         residual |-> needed \ FactsOf(bucket, line)]

IsExact(plan) == plan.residual = {}

----------------------------------------------------------------------------
(* A query is what is asked (where), which facts show their hidden values, *)
(* a ref or none, and the range of times.                                  *)
Asked(q) == DOMAIN q.where

PlanOf(q) == ChoosePlan(Asked(q), q.ref # Null, q.show)

Bound(d, q, plan) == \A f \in plan.facts \cap Asked(q) : d.facts[f] = q.where[f]

Filled(d, q, plan, unset) ==
    \A f \in plan.filled : d.facts[f] \in FillOf(bucket, f, q.show) \cup unset

InRefAndRange(d, q) == (q.ref # Null => q.ref \in d.refs) /\ q.from <= d.t /\ d.t <= q.to

(* residualOf: a hidden value is left out, a missing one is not. *)
Residual(d, q, plan) ==
    \A f \in plan.residual :
        IF f \in Asked(q) THEN d.facts[f] = q.where[f]
        ELSE d.facts[f] \in FillOf(bucket, f, q.show) \cup {Null}

Older(x, y) == x.t < y.t \/ (x.t = y.t /\ x.id < y.id)

Matches(q, plan) ==
    {d \in Range(docs) : Bound(d, q, plan) /\ Filled(d, q, plan, {Null}) /\ InRefAndRange(d, q)}

(* In each place the document with as many newer ones as there are before. *)
NewestFirst(ds) ==
    [i \in 1 .. Cardinality(ds) |->
        CHOOSE d \in ds : Cardinality({e \in ds : Older(d, e)}) = i - 1]

(* readEdge: the last row of the budget, of the rows older than the        *)
(* cursor's time. Rows that lack a filled value are not counted.           *)
Edge(q, plan, cursor) ==
    LET scanned == NewestFirst({d \in Range(docs) :
                      /\ Bound(d, q, plan) /\ Filled(d, q, plan, {}) /\ InRefAndRange(d, q)
                      /\ cursor # Null => d.t < cursor.t})
    IN  IF IsExact(plan) \/ Len(scanned) < SCAN_BUDGET THEN Null
        ELSE Position(scanned[SCAN_BUDGET])

\* Mutant: rows of the time the last page ended in are skipped.
OlderTime(d, cursor) == cursor # Null => d.t < cursor.t

AfterCursor(d, cursor) == cursor # Null => Older(d, cursor)

WithinEdge(d, edge) == edge # Null => ~Older(d, edge)

(* readRows: one row more than the page. *)
RowsFound(q, plan, cursor, edge) ==
    NewestFirst({d \in Matches(q, plan) :
                   AfterCursor(d, cursor) /\ Residual(d, q, plan) /\ WithinEdge(d, edge)})

----------------------------------------------------------------------------
AtMost(n, limit) == IF n > limit THEN limit ELSE n

(* readCount *)
CountUpTo(cap, q, plan) ==
    LET found == Cardinality(Matches(q, plan))
    IN  [count |-> AtMost(found, cap), capped |-> found > cap]

CountOf(q, plan) == CountUpTo(COUNT_CAP, q, plan)

Only(f, value) == [g \in {f} |-> value]

(* What is asked, with these values in place of its own. *)
With(q, values) ==
    [q EXCEPT !.where = [f \in DOMAIN values \cup Asked(q) |->
                           IF f \in DOMAIN values THEN values[f] ELSE q.where[f]]]

Without(q, f) == [q EXCEPT !.where = [g \in Asked(q) \ {f} |-> q.where[g]]]

\* Mutant: a scan stops at as many groups as an answer may hold.
GroupsToHold == MAX_VALUES

(* One group more than an answer may hold tells that there are more. *)
GroupLimit == MAX_VALUES + 1

(* $group, $limit: whichever groups are met first. *)
FirstGroups(groups) ==
    {some \in SUBSET groups : Cardinality(some) = AtMost(Cardinality(groups), GroupLimit)}

(* valuesOf: the listed values, or what a scan says of the stored ones,    *)
(* which is none if there are many. The group without a value is a group.  *)
ValuesOf(f) ==
    IF IsClosed(bucket.facts[f]) THEN {{v.value : v \in bucket.facts[f].values}}
    ELSE {IF Cardinality(some \ {Null}) > MAX_VALUES THEN Null ELSE some \ {Null} :
            some \in FirstGroups({d.facts[f] : d \in Range(docs)})}

(* readGroup: a tile counts the list it leads to, if that list is exact. *)
TileOf(q, f, value) ==
    LET asks == With(q, Only(f, value)) IN
    IF IsExact(PlanOf(asks)) THEN CountOf(asks, PlanOf(asks)) ELSE Null

TotalOf(q, f) ==
    LET asks == Without(q, f) IN
    IF IsExact(PlanOf(asks)) THEN CountOf(asks, PlanOf(asks)) ELSE Null

(* summaryRead: the lead is filled, whatever of it is not in the line. *)
SummaryPlan ==
    [facts |-> Range(bucket.lead) \cup SummaryFacts(bucket),
     filled |-> Range(bucket.lead) \ SummaryFacts(bucket), residual |-> {}]

(* fillsOf: each fact of the fill has a value that is shown, or none. *)
FillsOf(q) ==
    LET Fill(f) == FillOf(bucket, f, q.show) \cup {Null} IN
    {fill \in [SummaryPlan.filled -> UNION {Fill(f) : f \in SummaryPlan.filled}] :
        \A f \in SummaryPlan.filled : fill[f] \in Fill(f)}

(* What is counted by is stepped, unless the fill has it already. *)
Stepped == Range(bucket.by) \ SummaryPlan.filled

Fixed(fill) == [f \in Range(bucket.by) \cap SummaryPlan.filled |-> fill[f]]

IsNext(f, values) ==
    \E i \in DOMAIN bucket.by :
        /\ f = bucket.by[i] /\ f \notin DOMAIN values
        /\ \A j \in 1 .. i - 1 : bucket.by[j] \in DOMAIN values

Widened(values, f, value) ==
    [g \in DOMAIN values \cup {f} |-> IF g = f THEN value ELSE values[g]]

Agrees(d, values) == \A f \in DOMAIN values : d.facts[f] = values[f]

(* stepValues: the rows under what a combination has fixed so far. *)
Under(c, q) ==
    {d \in Range(docs) : /\ Agrees(d, c.fill) /\ Agrees(d, q.where) /\ Agrees(d, c.values)
                         /\ InRefAndRange(d, q)}

(* readEntry *)
EntryOf(q, values) ==
    [values |-> values, counted |-> CountUpTo(SUMMARY_COUNT_CAP, With(q, values), SummaryPlan)]

----------------------------------------------------------------------------
NoWalk == [query |-> Null, phase |-> "none", plan |-> Null, cursor |-> Null,
           edge |-> Null, seen |-> <<>>, kept |-> {}]

(* What is found so far, what is still counted, and the answer; and what   *)
(* is left alone while it is read, and what is there at some time.         *)
NoSummary == [query |-> Null, phase |-> "none", combinations |-> {}, complete |-> FALSE,
              counting |-> {}, entries |-> {}, more |-> FALSE, kept |-> {}, known |-> {}]

BucketsInit ==
    /\ bucket \in BucketDefinitions
    /\ docs \in Collections
    /\ walk = [NoWalk EXCEPT !.phase = "defining"]
    /\ summary = NoSummary
    /\ changes = 0

(* defineBucket: a bucket that breaks a rule stops the service. *)
DefineBucket ==
    /\ walk.phase = "defining"
    /\ walk' = [walk EXCEPT !.phase = IF IsBucket(bucket) THEN "none" ELSE "refused"]
    /\ UNCHANGED <<bucket, docs, summary, changes>>

Parses(q) == Asked(q) \cup q.show \subseteq DOMAIN bucket.facts /\ q.from <= q.to

(* parseQuery: a query is refused before anything is read. *)
StartWalk(q) ==
    /\ walk.phase = "none" /\ summary.phase = "none"
    /\ walk' = IF Parses(q)
               THEN [NoWalk EXCEPT !.phase = "edge", !.query = q, !.plan = PlanOf(q),
                                   !.kept = Range(docs)]
               ELSE [NoWalk EXCEPT !.phase = "refused"]
    /\ UNCHANGED <<bucket, docs, summary, changes>>

ReadEdge ==
    /\ walk.phase = "edge"
    /\ walk' = [walk EXCEPT !.phase = "rows", !.edge = Edge(walk.query, walk.plan, walk.cursor)]
    /\ UNCHANGED <<bucket, docs, summary, changes>>

(* readPage: the next page begins after the last row of this one, or at    *)
(* the edge ("keep looking"), or there is none.                            *)
ReadRows ==
    /\ walk.phase = "rows"
    /\ LET found == RowsFound(walk.query, walk.plan, walk.cursor, walk.edge)
           kept == SubSeq(found, 1, IF Len(found) > PageLimit THEN PageLimit ELSE Len(found))
           after == IF Len(found) > PageLimit THEN Position(kept[PageLimit]) ELSE walk.edge
       IN  walk' = [walk EXCEPT !.seen = @ \o kept, !.cursor = after, !.edge = Null,
                                !.phase = IF after = Null THEN "complete" ELSE "edge"]
    /\ UNCHANGED <<bucket, docs, summary, changes>>

(* A read that times out is asked for again with the same cursor. *)
TimesOut ==
    /\ walk.phase = "rows"
    /\ walk' = [walk EXCEPT !.phase = "edge", !.edge = Null]
    /\ UNCHANGED <<bucket, docs, summary, changes>>

(* runSummary: parseSummary refuses what it cannot read; each fill has a   *)
(* combination to begin with, of what it has itself.                       *)
StartSummary(q) ==
    LET asks == [q EXCEPT !.where = bucket.among, !.ref = Null] IN
    /\ walk.phase = "none" /\ summary.phase = "none" /\ bucket.by # <<>>
    /\ summary' =
         IF Parses(asks)
         THEN [NoSummary EXCEPT !.phase = "values", !.query = asks,
                 !.combinations = {[fill |-> fill, values |-> Fixed(fill)] : fill \in FillsOf(asks)},
                 !.kept = Range(docs), !.known = Range(docs)]
         ELSE [NoSummary EXCEPT !.phase = "refused"]
    /\ UNCHANGED <<bucket, docs, walk, changes>>

(* widen: a combination becomes those with the values the scan found for   *)
(* the next fact, when those before it in its fill have got there too.     *)
StepValues(c, f) ==
    /\ summary.phase = "values" /\ IsNext(f, c.values)
    /\ \A o \in summary.combinations : o.fill = c.fill => DOMAIN c.values \subseteq DOMAIN o.values
    /\ \E groups \in FirstGroups({d.facts[f] : d \in Under(c, summary.query)}) :
         summary' = [summary EXCEPT !.combinations =
                       (@ \ {c}) \cup {[c EXCEPT !.values = Widened(@, f, v)] : v \in groups}]
    /\ UNCHANGED <<bucket, docs, walk, changes>>

(* As many as an answer may hold are counted: the first ones by their text.*)
TakeEntries ==
    LET found == {c.values : c \in summary.combinations} IN
    /\ summary.phase = "values" /\ \A values \in found : DOMAIN values = Range(bucket.by)
    /\ \E taken \in SUBSET found :
         /\ Cardinality(taken) = AtMost(Cardinality(found), MAX_VALUES)
         /\ summary' = [summary EXCEPT !.phase = "counts", !.counting = taken,
                                       !.complete = Cardinality(found) <= MAX_VALUES]
    /\ UNCHANGED <<bucket, docs, walk, changes>>

CountEntry(values) ==
    /\ summary.phase = "counts"
    /\ summary' = [summary EXCEPT !.counting = @ \ {values},
                                  !.entries = @ \cup {EntryOf(summary.query, values)}]
    /\ UNCHANGED <<bucket, docs, walk, changes>>

(* What has gone is left out; the ones that count most are the answer. *)
AnswerSummary ==
    LET there == {e \in summary.entries : e.counted.count > 0} IN
    /\ summary.phase = "counts" /\ summary.counting = {}
    /\ \E best \in SUBSET there :
         /\ Cardinality(best) = AtMost(Cardinality(there), bucket.top)
         /\ \A e \in best, o \in there \ best : e.counted.count >= o.counted.count
         /\ summary' = [summary EXCEPT !.phase = "answered", !.entries = best,
                                       !.more = Cardinality(there) > bucket.top]
    /\ UNCHANGED <<bucket, docs, walk, changes>>

(* A read that times out refuses the summary. *)
SummaryTimesOut ==
    /\ summary.phase \in {"values", "counts"}
    /\ summary' = [NoSummary EXCEPT !.phase = "refused"]
    /\ UNCHANGED <<bucket, docs, walk, changes>>

Untouched(kept, id) == {d \in kept : d.id # id}

IsRead == walk.phase \in {"edge", "rows"} \/ summary.phase \in {"values", "counts"}

(* The collection changes: a document appears, changes or is removed. *)
Store(d) ==
    /\ changes < MaxChanges /\ IsRead
    /\ d.id \in DOMAIN docs => docs[d.id].t = d.t
    /\ docs' = [i \in DOMAIN docs \cup {d.id} |-> IF i = d.id THEN d ELSE docs[i]]
    /\ walk' = [walk EXCEPT !.kept = Untouched(@, d.id)]
    /\ summary' = [summary EXCEPT !.kept = Untouched(@, d.id), !.known = @ \cup {d}]
    /\ changes' = changes + 1
    /\ UNCHANGED bucket

Expire(id) ==
    /\ changes < MaxChanges /\ IsRead
    /\ docs' = [i \in DOMAIN docs \ {id} |-> docs[i]]
    /\ walk' = [walk EXCEPT !.kept = Untouched(@, id)]
    /\ summary' = [summary EXCEPT !.kept = Untouched(@, id)]
    /\ changes' = changes + 1
    /\ UNCHANGED bucket

BucketsNext ==
    \/ DefineBucket
    \/ \E q \in Queries : StartWalk(q)
    \/ ReadEdge \/ ReadRows \/ TimesOut
    \/ \E q \in Queries : StartSummary(q)
    \/ \E c \in summary.combinations, f \in Stepped : StepValues(c, f)
    \/ TakeEntries \/ AnswerSummary \/ SummaryTimesOut
    \/ \E values \in summary.counting : CountEntry(values)
    \/ \E d \in Documents : Store(d)
    \/ \E id \in DOMAIN docs : Expire(id)

BucketsSpec == BucketsInit /\ [][BucketsNext]_bucketVars

----------------------------------------------------------------------------
(* What a query means, whatever index it is read on. *)
Wanted(d, q) ==
    /\ InRefAndRange(d, q)
    /\ \A f \in DOMAIN bucket.facts :
         IF f \in Asked(q) THEN d.facts[f] = q.where[f]
         ELSE \A v \in bucket.facts[f].values :
                v.hidden /\ d.facts[f] = v.value => f \in q.show

(* A document whose closed facts have values that are listed; any other is *)
(* found on some lines and not on others.                                  *)
IsListed(d) ==
    \A f \in DOMAIN bucket.facts : IsClosed(bucket.facts[f]) =>
        \/ d.facts[f] = Null
        \/ \E v \in bucket.facts[f].values : v.value = d.facts[f]

(* Turning the pages of a list to its end shows every document that is     *)
(* wanted and was left alone meanwhile, each once and the newest first,    *)
(* and never one that is not wanted or is hidden: whichever index line was *)
(* chosen, where the budget ran out, how times tie, which reads timed out  *)
(* and what came and went between the pages.                               *)
ListsAreWhole ==
    /\ \A i, j \in DOMAIN walk.seen : i < j => Older(walk.seen[j], walk.seen[i])
    /\ \A i \in DOMAIN walk.seen : Wanted(walk.seen[i], walk.query)
    /\ walk.phase = "complete" =>
         \A d \in walk.kept : IsListed(d) /\ Wanted(d, walk.query) => d \in Range(walk.seen)

(* A tile counts the list it opens and the total is the list without the   *)
(* group's filter. A group that gives fewer values than are stored is one  *)
(* in which a row has none, and there are too many.                        *)
TilesAreLists ==
    walk.phase = "complete" /\ (\A d \in Range(docs) : IsListed(d)) =>
        LET Size(q) == Cardinality({d \in Range(docs) : Wanted(d, q)})
            Is(number, size) == number = Null \/ (IF number.capped THEN number.count < size
                                                  ELSE number.count = size)
        IN  \A f \in bucket.groupings :
              /\ Is(TotalOf(walk.query, f), Size(Without(walk.query, f)))
              /\ \A values \in ValuesOf(f) :
                   \/ values = Null
                   \/ /\ \A v \in values :
                           Is(TileOf(walk.query, f, v), Size(With(walk.query, Only(f, v))))
                      /\ IsClosed(bucket.facts[f])
                         \/ values = {d.facts[f] : d \in Range(docs)} \ {Null}
                         \/ \E d \in Range(docs) : d.facts[f] = Null /\ Cardinality(values) = MAX_VALUES

(* Rows of a summary with these values, and those that were left alone and *)
(* are found on any line.                                                  *)
ByOf(d) == [f \in Range(bucket.by) |-> d.facts[f]]

RowsOf(ds, values) == {d \in ds : Wanted(d, summary.query) /\ ByOf(d) = values}

LeftAlone(values) == {d \in RowsOf(summary.kept, values) : IsListed(d)}

(* An entry counts rows that were there: no fewer than were left alone     *)
(* while the summary was read, and no more than were there at some time.   *)
CountsWhatWasThere(e) ==
    \E n \in Cardinality(LeftAlone(e.values))
               .. Cardinality({d.id : d \in RowsOf(summary.known, e.values)}) :
       e.counted = [count |-> AtMost(n, SUMMARY_COUNT_CAP), capped |-> n > SUMMARY_COUNT_CAP]

(* Left out only if there are more, and none that is shown counts less.    *)
LeftOutForMore(values) ==
    /\ summary.more
    /\ \A e \in summary.entries :
         e.counted.count >= AtMost(Cardinality(LeftAlone(values)), SUMMARY_COUNT_CAP)

OneIsStepped == \A f, g \in Stepped : f = g

(* Found one fact after the other, a combination can vanish between two    *)
(* steps; with one step, or while nothing changes, it cannot.              *)
NoneVanishes == changes = 0 \/ OneIsStepped

(* A summary that is answered counts, for each combination it shows, rows  *)
(* that were there; and one that says it is complete leaves out no row     *)
(* that was left alone without saying that there are more.                 *)
SummariesShareOut ==
    summary.phase = "answered" =>
        /\ \A e \in summary.entries : e.counted.count > 0 /\ CountsWhatWasThere(e)
        /\ \A e, o \in summary.entries : e.values = o.values => e = o
        /\ summary.complete /\ NoneVanishes =>
             \A d \in summary.kept : IsListed(d) /\ Wanted(d, summary.query) =>
                (\E e \in summary.entries : e.values = ByOf(d)) \/ LeftOutForMore(ByOf(d))

(* Every number the admin is shown is the length of a list, or is part of  *)
(* an answer that says what it leaves out.                                 *)
NumbersAreLists == TilesAreLists /\ SummariesShareOut
=============================================================================
