-------------------------------- MODULE Metrics --------------------------------
(***************************************************************************)
(* The metric store, src/metrics.cpp: recorders in any number of threads     *)
(* create the series of a model on first use and add to its counters, one    *)
(* counter at a time, while prometheus_text reads all counters, one at a     *)
(* time.                                                                     *)
(*                                                                         *)
(* A call of record_request and the like is a recording. The three           *)
(* histograms (latency, batch size, queue wait) are alike but for their      *)
(* bounds; here they share Bounds. Observations are integers. The widths of   *)
(* the counters, 64 bits, are left out. The additions, which the code asks    *)
(* for with memory_order_relaxed, are seen by all threads in the order in     *)
(* which they are made.                                                      *)
(***************************************************************************)
EXTENDS Naturals, Sequences, FiniteSets, SequencesExt

CONSTANTS Recordings,  \* calls of the recorders
          Series,      \* the keys of per_model_: a model and a version
          Bounds,      \* the upper bounds of the finite buckets, increasing
          Values,      \* what is observed: durations, batch sizes, waits
          NoSeries     \* what[r].series before r begins

ASSUME BoundsAssumption == Bounds \in Seq(Nat) /\ Values \subseteq Nat

\* The bounds are written in the code in increasing order.
ASSUME BoundsIncrease == \A i, j \in DOMAIN Bounds : i <= j => Bounds[i] <= Bounds[j]

ASSUME NoSeriesAssumption == NoSeries \notin Series

VARIABLES store,     \* per_model_: the counters of the series that exist
          what,      \* per recording: the call
          stage,     \* per recording: where it is
          todo,      \* per recording: the additions left to do
          scraping,  \* prometheus_text holds the lock
          order,     \* the series in the order of the map
          at,        \* the line of the page it is at
          page,      \* what it has rendered
          before     \* the counters when it took the lock (history)

vars == <<store, what, stage, todo, scraping, order, at, page, before>>
scrape == <<scraping, order, at, page, before>>

-------------------------------------------------------------------------------
(* Counters *)

Histograms == {"duration", "batch_size", "queue_wait"}

\* The plain counters, and of each histogram its sum (0) and its buckets, the
\* last of which has no bound.
Cells == ({"success", "error", "timeouts"} \X {0})
           \union (Histograms \X (0 .. Len(Bounds) + 1))

Zero == [c \in Cells |-> 0]

\* Mutant of Bucket: takes a bound for exclusive.
BucketBelow(v) == 1 + Cardinality({i \in DOMAIN Bounds : Bounds[i] <= v})

\* Mutant of Bucket: the bucket without a bound is one too far.
BucketPastEnd(v) ==
  IF \A i \in DOMAIN Bounds : Bounds[i] < v THEN Len(Bounds) + 2
  ELSE 1 + Cardinality({i \in DOMAIN Bounds : Bounds[i] < v})

\* The first bucket whose bound is at least v.
Bucket(v) == 1 + Cardinality({i \in DOMAIN Bounds : Bounds[i] < v})

Plus(cell, by) == [cell |-> cell, by |-> by]

Observe(h, v) == <<Plus(<<h, Bucket(v)>>, 1), Plus(<<h, 0>>, v)>>

Calls == [series : Series, kind : {"success", "error", "flush", "wait"}, value : Values]
           \union [series : Series, kind : {"rejected", "timeout"}, value : {0}]

\* Mutant of Additions: observes the latency before it counts the request.
AdditionsLatencyFirst(c) ==
  CASE c.kind \in {"success", "error"} ->
         Observe("duration", c.value) \o <<Plus(<<c.kind, 0>>, 1)>>
    [] c.kind = "rejected" -> <<Plus(<<"error", 0>>, 1)>>
    [] c.kind = "timeout"  -> <<Plus(<<"timeouts", 0>>, 1)>>
    [] c.kind = "flush"    -> Observe("batch_size", c.value)
    [] c.kind = "wait"     -> Observe("queue_wait", c.value)

\* What a call adds, in the order it does: record_request counts the request
\* and observes its latency, record_rejected counts an error only.
Additions(c) ==
  CASE c.kind \in {"success", "error"} ->
         <<Plus(<<c.kind, 0>>, 1)>> \o Observe("duration", c.value)
    [] c.kind = "rejected" -> <<Plus(<<"error", 0>>, 1)>>
    [] c.kind = "timeout"  -> <<Plus(<<"timeouts", 0>>, 1)>>
    [] c.kind = "flush"    -> Observe("batch_size", c.value)
    [] c.kind = "wait"     -> Observe("queue_wait", c.value)

\* A line of the page: the n-th counter of a family, of the n-th series.
At(f, s, c) == [family |-> f, series |-> s, cell |-> c]

Init ==
  /\ store = <<>>
  /\ what = [r \in Recordings |-> [series |-> NoSeries, kind |-> "none", value |-> 0]]
  /\ stage = [r \in Recordings |-> "new"]
  /\ todo = [r \in Recordings |-> <<>>]
  /\ scraping = FALSE
  /\ order = <<>> /\ at = At(1, 1, 1) /\ page = <<>> /\ before = <<>>

-------------------------------------------------------------------------------
(* Recorders *)

Goes(r, from, to) == stage[r] = from /\ stage' = [stage EXCEPT ![r] = to]

Begin(r, c) ==
  /\ Goes(r, "new", "find")
  /\ what' = [what EXCEPT ![r] = c]
  /\ todo' = [todo EXCEPT ![r] = Additions(c)]
  /\ UNCHANGED <<store, scrape>>

Known(r) == what[r].series \in DOMAIN store

\* get_or_create looks the series up under the shared lock, ...
Find(r) ==
  /\ Goes(r, "find", IF Known(r) THEN "add" ELSE "make")
  /\ UNCHANGED <<store, what, todo, scrape>>

Created(s) == [t \in DOMAIN store \union {s} |-> IF t = s THEN Zero ELSE store[t]]

\* Mutant of Make: does not look again.
MakeAgain(r) ==
  /\ Goes(r, "make", "add")
  /\ ~scraping
  /\ store' = Created(what[r].series)
  /\ UNCHANGED <<what, todo, scrape>>

\* Mutant of Make: creates under the shared lock.
MakeShared(r) ==
  /\ Goes(r, "make", "add")
  /\ store' = IF Known(r) THEN store ELSE Created(what[r].series)
  /\ UNCHANGED <<what, todo, scrape>>

\* ... and if there was none, again under the exclusive lock, to create it if
\* there still is none. A scrape holds the lock shared.
Make(r) ==
  /\ Goes(r, "make", "add")
  /\ ~scraping
  /\ store' = IF Known(r) THEN store ELSE Created(what[r].series)
  /\ UNCHANGED <<what, todo, scrape>>

\* fetch_add, without the lock.
Add(r) ==
  /\ Goes(r, "add", IF Len(todo[r]) = 1 THEN "done" ELSE "add")
  /\ LET a == Head(todo[r])
     IN store' = [store EXCEPT ![what[r].series][a.cell] = @ + a.by]
  /\ todo' = [todo EXCEPT ![r] = Tail(@)]
  /\ UNCHANGED <<what, scrape>>

-------------------------------------------------------------------------------
(* The scrape *)

\* The lines of a histogram: its buckets, then its sum.
Lines(h) == [i \in 1 .. Len(Bounds) + 2 |-> <<h, IF i = Len(Bounds) + 2 THEN 0 ELSE i>>]

\* The families of the page, and the counters of a series in each.
Families == << << <<"success", 0>>, <<"error", 0>> >>, << <<"timeouts", 0>> >>,
               Lines("duration"), Lines("batch_size"), Lines("queue_wait") >>

\* Family by family, in each every series in the order of the map.
More == order # <<>> /\ at.family <= Len(Families)

Onward ==
  IF at.cell < Len(Families[at.family]) THEN At(at.family, at.series, at.cell + 1)
  ELSE IF at.series < Len(order) THEN At(at.family, at.series + 1, 1)
  ELSE At(at.family + 1, 1, 1)

BeginScrape ==
  /\ ~scraping
  /\ scraping' = TRUE
  /\ order' \in SetToSeqs(DOMAIN store)
  /\ page' = <<>>
  /\ before' = store
  /\ UNCHANGED <<store, what, stage, todo, at>>

Rendered(key, value) ==
  [k \in DOMAIN page \union {key} |-> IF k = key THEN value ELSE page[k]]

\* The series and the counter of the line.
Key == <<order[at.series], Families[at.family][at.cell]>>

\* The line above a bucket's.
Above(key) == <<key[1], <<key[2][1], key[2][2] - 1>>>>

\* Mutant of Read: renders a bucket without those below it.
ReadPlain ==
  /\ scraping /\ More
  /\ page' = Rendered(Key, store[Key[1]][Key[2]])
  /\ at' = Onward
  /\ UNCHANGED <<store, what, stage, todo, scraping, order, before>>

\* Reads a counter; the buckets of a histogram are cumulated as they are read.
Read ==
  /\ scraping /\ More
  /\ LET cumsum == IF Key[2][2] > 1 THEN page[Above(Key)] ELSE 0
     IN page' = Rendered(Key, cumsum + store[Key[1]][Key[2]])
  /\ at' = Onward
  /\ UNCHANGED <<store, what, stage, todo, scraping, order, before>>

EndScrape ==
  /\ scraping /\ ~More
  /\ scraping' = FALSE
  /\ order' = <<>> /\ at' = At(1, 1, 1) /\ page' = <<>> /\ before' = <<>>
  /\ UNCHANGED <<store, what, stage, todo>>

-------------------------------------------------------------------------------
Next ==
  \/ \E r \in Recordings : (\E c \in Calls : Begin(r, c)) \/ Find(r) \/ Make(r) \/ Add(r)
  \/ BeginScrape \/ Read \/ EndScrape

Spec == Init /\ [][Next]_vars

-------------------------------------------------------------------------------
(* Type invariant *)

TypeOK ==
  /\ DOMAIN store \subseteq Series /\ store \in [DOMAIN store -> [Cells -> Nat]]
  /\ DOMAIN what = Recordings
  /\ stage \in [Recordings -> {"new", "find", "make", "add", "done"}]
  /\ todo \in [Recordings -> Seq([cell : Cells, by : Nat])]
  /\ scraping \in BOOLEAN
  /\ order \in Seq(Series)
  /\ at \in [family : 1 .. Len(Families) + 1, series : Nat \ {0}, cell : Nat \ {0}]
  /\ DOMAIN page \subseteq Series \X Cells /\ page \in [DOMAIN page -> Nat]
  /\ DOMAIN before \subseteq Series /\ before \in [DOMAIN before -> [Cells -> Nat]]

-------------------------------------------------------------------------------
(* Safety *)

Of(s) == {r \in Recordings : what[r].series = s}

\* What r has added to cell so far.
Added(r, cell) ==
  LET all == Additions(what[r])
      so_far == 1 .. Len(all) - Len(todo[r])
  IN SumFunction([i \in so_far |-> IF all[i].cell = cell THEN all[i].by ELSE 0])

\* Nothing that was recorded is lost and nothing is counted twice, whoever
\* creates the series and whoever adds at the same time.
NothingLost ==
  \A s \in DOMAIN store, cell \in Cells :
    store[s][cell] = SumFunction([r \in Of(s) |-> Added(r, cell)])

\* What a line of the page adds to the bucket's above it.
Own(key) == page[key] - (IF key[2][2] > 1 THEN page[Above(key)] ELSE 0)

\* A line of a page shows a value its counter had between the beginning of the
\* scrape and now, a bucket's one more than the line above it by such a value; so
\* no line goes back from one page to a later one.
PageIsCurrent ==
  \A key \in DOMAIN page :
    /\ before[key[1]][key[2]] <= Own(key)
    /\ Own(key) <= store[key[1]][key[2]]

\* No series appears in one family of a page and not in another, and the page
\* has all that existed when the scrape began.
PageIsComplete ==
  scraping => /\ DOMAIN store = DOMAIN before
              /\ ~More => DOMAIN page = (DOMAIN before) \X Cells

\* What the page shows for a bucket if no counter changes meanwhile.
Shown(s, h, i) == SumFunction([j \in 1 .. i |-> store[s][<<h, j>>]])

\* A bucket of the page counts what was observed at or below its bound.
BucketsMeanAtMost ==
  \A s \in DOMAIN store, i \in DOMAIN Bounds :
    (\A r \in Of(s) : stage[r] = "done") =>
      Shown(s, "duration", i) =
        Cardinality({r \in Of(s) : /\ what[r].kind \in {"success", "error"}
                                   /\ what[r].value <= Bounds[i]})

\* The latency histogram never counts more requests than the request total:
\* rejections are in the total only, and a request is counted before it is
\* observed.
LatencyWithinRequests ==
  \A s \in DOMAIN store :
    Shown(s, "duration", Len(Bounds) + 1)
      <= store[s][<<"success", 0>>] + store[s][<<"error", 0>>]
===============================================================================
