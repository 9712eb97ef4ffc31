------------------------------ MODULE Metrics ------------------------------
(***************************************************************************)
(* The metrics the server program keeps (default/prometheus): a registry   *)
(* of families of metrics, counters that threads increment without a lock, *)
(* and histograms that they observe under one.  The program registers one  *)
(* family and increments one counter; the rest is what it may come to use. *)
(***************************************************************************)
EXTENDS Integers, Sequences, FiniteSets

CONSTANTS
  Threads,
  Types,        \* metric types
  Names,        \* names of families and labels: sequences of kinds of
                \*   characters, "alpha", "digit", "_", ":" and others
  merge,        \* insert_behavior_ is Merge
  bucket_boundaries_,  \* sequence of upper bounds, increasing
  Values,       \* what is observed, and what counters are incremented by
  Operations    \* operations of all threads together

VARIABLES
  families,     \* the registry: sequence of families
  thrown,       \* why the last Add threw, or "no"
  gauge,        \* a counter's value
  incremented,  \* the sum of the increments that were made
  histogram,    \* bucket_counts_, sum_ and the mutex
  observed,     \* the values whose observation is complete
  collected,    \* what the last Collect returned, and what was observed then
  thread,       \* thread -> where it is
  operations

vars == <<families, thrown, gauge, incremented, histogram, observed, collected,
          thread, operations>>

Idle == [at |-> "idle", value |-> 0, current |-> 0]

-----------------------------------------------------------------------------
\* check_names.cpp

nameStartsValid(name) ==
  /\ name # <<>> /\ name[1] # "digit"
  /\ ~(Len(name) >= 2 /\ name[1] = "_" /\ name[2] = "_")

Consists(name, of) == \A i \in 1 .. Len(name) : name[i] \in of

CheckMetricName(name) ==
  nameStartsValid(name) /\ Consists(name, {"alpha", "digit", "_", ":"})

\* "le" is taken by histograms, "quantile" by summaries.
CheckLabelName(name, type) ==
  /\ nameStartsValid(name)
  /\ ~(type = "histogram" /\ name = <<"le">>)
  /\ ~(type = "summary" /\ name = <<"quantile">>)
  /\ Consists(name, {"alpha", "digit", "_"})

-----------------------------------------------------------------------------
\* registry.cpp and family.cpp

NameExistsInOtherType(type, name) ==
  \E i \in DOMAIN families : families[i].name = name /\ families[i].type # type

SameName(type, name) ==
  {i \in DOMAIN families : families[i].name = name /\ families[i].type = type}

\* Registry::Add and the constructor of Family.
AddFamily ==
  /\ operations < Operations
  /\ operations' = operations + 1
  /\ \E type \in Types, name \in Names, labels \in SUBSET Names :
       LET old == SameName(type, name)
           Throw(why) == thrown' = why /\ UNCHANGED families
       IN  /\ Cardinality(labels) <= 1
           /\ IF NameExistsInOtherType(type, name) THEN Throw("other type")
              ELSE IF old # {} /\ ~merge THEN Throw("exists")
              ELSE IF \E i \in old : families[i].constant # labels THEN Throw("labels")
              ELSE IF old # {} THEN thrown' = "no" /\ UNCHANGED families
              ELSE IF ~CheckMetricName(name) THEN Throw("name")
              ELSE IF \E l \in labels : ~CheckLabelName(l, type) THEN Throw("label name")
              ELSE /\ thrown' = "no"
                   /\ families' = Append(families,
                        [type |-> type, name |-> name, constant |-> labels, metrics |-> {}])
  /\ UNCHANGED <<gauge, incremented, histogram, observed, collected, thread>>

\* Family::Add: an insertion that is taken back when the labels are wrong.
AddMetric ==
  /\ operations < Operations
  /\ operations' = operations + 1
  /\ \E i \in DOMAIN families, label \in Names :
       LET f == families[i]
           bad == {label} \notin f.metrics
                    /\ (~CheckLabelName(label, f.type) \/ label \in f.constant)
       IN  /\ thrown' = IF bad THEN "label name" ELSE "no"
           /\ families' =
                IF bad THEN families
                ELSE [families EXCEPT ![i].metrics = @ \cup {{label}}]
  /\ UNCHANGED <<gauge, incremented, histogram, observed, collected, thread>>

\* Family::Remove
RemoveMetric ==
  /\ operations < Operations
  /\ operations' = operations + 1
  /\ \E i \in DOMAIN families : \E m \in families[i].metrics :
       families' = [families EXCEPT ![i].metrics = @ \ {m}]
  /\ UNCHANGED <<thrown, gauge, incremented, histogram, observed, collected, thread>>

\* Registry::Remove, and with it the family's metrics.
RemoveFamily ==
  /\ operations < Operations
  /\ operations' = operations + 1
  /\ \E i \in DOMAIN families :
       families' = SubSeq(families, 1, i - 1) \o SubSeq(families, i + 1, Len(families))
  /\ UNCHANGED <<thrown, gauge, incremented, histogram, observed, collected, thread>>

-----------------------------------------------------------------------------
\* gauge.cpp and counter.cpp: a loop around compare_exchange_weak, which may
\* fail without a reason.

Step(t, at, value, current) ==
  thread' = [thread EXCEPT ![t] = [at |-> at, value |-> value, current |-> current]]

\* Increment drops negative values.
Load(t) ==
  /\ thread[t] = Idle /\ operations < Operations
  /\ operations' = operations + 1
  /\ \E value \in Values :
       IF value < 0 THEN UNCHANGED thread ELSE Step(t, "exchange", value, gauge)
  /\ UNCHANGED <<families, thrown, gauge, incremented, histogram, observed, collected>>

\* Slip: the value is stored without comparing.
MutExchanged(t) == TRUE

Exchanged(t) == gauge = thread[t].current

CompareExchange(t) ==
  /\ thread[t].at = "exchange"
  /\ \/ /\ Exchanged(t)
        /\ gauge' = thread[t].current + thread[t].value
        /\ incremented' = incremented + thread[t].value
        /\ thread' = [thread EXCEPT ![t] = Idle]
     \/ /\ thread[t].current # gauge
        /\ Step(t, "exchange", thread[t].value, gauge)
        /\ UNCHANGED <<gauge, incremented>>
  /\ UNCHANGED <<families, thrown, histogram, observed, collected, operations>>

-----------------------------------------------------------------------------
\* histogram.cpp

Buckets == 1 .. Len(bucket_boundaries_) + 1

\* lower_bound: the first bucket whose upper bound is not below the value.
Bucket(value) ==
  CHOOSE b \in Buckets :
    /\ b \in DOMAIN bucket_boundaries_ => value <= bucket_boundaries_[b]
    /\ \A a \in 1 .. b - 1 : bucket_boundaries_[a] < value

Observe(t) ==
  /\ thread[t] = Idle /\ operations < Operations /\ histogram.mutex = "free"
  /\ operations' = operations + 1
  /\ \E value \in Values :
       /\ Step(t, "observe", value, 0)
       /\ histogram' = [histogram EXCEPT !.mutex = t,
                          !.sum = @ + value]
  /\ UNCHANGED <<families, thrown, gauge, incremented, observed, collected>>

ObserveBucket(t) ==
  /\ thread[t].at = "observe"
  /\ histogram' = [histogram EXCEPT !.mutex = "free",
                     !.counts[Bucket(thread[t].value)] = @ + 1]
  /\ observed' = Append(observed, thread[t].value)
  /\ thread' = [thread EXCEPT ![t] = Idle]
  /\ UNCHANGED <<families, thrown, gauge, incremented, collected, operations>>

\* What was counted elsewhere, here of two values.
ObserveMultiple ==
  /\ operations < Operations /\ histogram.mutex = "free"
  /\ operations' = operations + 1
  /\ \E v, w \in Values :
       LET increments == [b \in Buckets |-> (IF Bucket(v) = b THEN 1 ELSE 0)
                                           + (IF Bucket(w) = b THEN 1 ELSE 0)]
       IN  /\ histogram' = [histogram EXCEPT !.sum = @ + v + w,
                 !.counts = [b \in Buckets |-> @[b] + increments[b]]]
           /\ observed' = observed \o <<v, w>>
  /\ UNCHANGED <<families, thrown, gauge, incremented, collected, thread>>

Reset ==
  /\ operations < Operations /\ histogram.mutex = "free"
  /\ operations' = operations + 1
  /\ histogram' = [histogram EXCEPT !.counts = [b \in Buckets |-> 0], !.sum = 0]
  /\ observed' = <<>>
  /\ UNCHANGED <<families, thrown, gauge, incremented, collected, thread>>

Cumulative(counts) ==
  LET upto[b \in 0 .. Len(counts)] == IF b = 0 THEN 0 ELSE upto[b - 1] + counts[b]
  IN  [b \in 1 .. Len(counts) |-> upto[b]]

Free == histogram.mutex = "free"

Collect ==
  /\ Free
  /\ LET cumulative == Cumulative([b \in Buckets |-> histogram.counts[b]])
     IN  collected' = [bucket |-> cumulative, sample_count |-> cumulative[Len(cumulative)],
                       sample_sum |-> histogram.sum, of |-> observed]
  /\ UNCHANGED <<families, thrown, gauge, incremented, histogram, observed, thread, operations>>

Init ==
  /\ families = <<>> /\ thrown = "no"
  /\ gauge = 0 /\ incremented = 0
  /\ histogram = [counts |-> [b \in Buckets |-> 0], sum |-> 0, mutex |-> "free"]
  /\ observed = <<>>
  /\ collected = [bucket |-> [b \in Buckets |-> 0], sample_count |-> 0,
                  sample_sum |-> 0, of |-> <<>>]
  /\ thread = [t \in Threads |-> Idle]
  /\ operations = 0

Next ==
  \/ AddFamily \/ AddMetric \/ RemoveMetric \/ RemoveFamily
  \/ ObserveMultiple \/ Reset \/ Collect
  \/ \E t \in Threads : Load(t) \/ CompareExchange(t) \/ Observe(t) \/ ObserveBucket(t)

Spec == Init /\ [][Next]_vars

-----------------------------------------------------------------------------
\* Whoever observes has the mutex, and only the families' names that were
\* checked are in the registry.
TypeOK ==
  /\ \A t \in Threads : thread[t].at = "observe" <=> histogram.mutex = t
  /\ \A i \in DOMAIN families :
       CheckMetricName(families[i].name) /\ families[i].type \in Types
  /\ operations \in 0 .. Operations

Below(values, bound) == Cardinality({i \in DOMAIN values : values[i] <= bound})
Total(values) ==
  LET upto[i \in 0 .. Len(values)] ==
        IF i = 0 THEN 0 ELSE upto[i - 1] + values[i]
  IN  upto[Len(values)]

\* What is exported adds up.  No increment is lost however the threads'
\* exchanges fail; the buckets, the count and the sum of a histogram are of the
\* same observations, whole ones; no name is exported with two types, and no
\* metric has one label twice.
MetricsAddUp ==
  /\ gauge = incremented
  /\ \A b \in DOMAIN bucket_boundaries_ :
       collected.bucket[b] = Below(collected.of, bucket_boundaries_[b])
  /\ collected.sample_count = Len(collected.of)
  /\ collected.sample_sum = Total(collected.of)
  /\ \A i, j \in DOMAIN families : families[i].name = families[j].name => i = j
  /\ \A i \in DOMAIN families :
       \A m \in families[i].metrics : m \cap families[i].constant = {}
=============================================================================
