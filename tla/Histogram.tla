------------------------------- MODULE Histogram -------------------------------
(***************************************************************************)
(* lob::Histogram, the latency histogram of the benchmarks.  A value below *)
(* 2 * Sub has a bucket of its own; above that each power of two has Sub   *)
(* buckets.  samples remembers what was recorded, for the properties.      *)
(***************************************************************************)
EXTENDS Integers, FiniteSetsExt, Functions

CONSTANTS
  Mantissa,   \* bits kept of a value below its highest one (5)
  Width,      \* bits of a value (64)
  Buckets,    \* kBuckets (2048)
  Samples,    \* latencies
  Overheads,  \* costs of reading the clock
  Permilles,  \* percentiles asked for, in tenths of a percent
  MaxCount    \* bound: values recorded between two resets

ASSUME WidthAssumption ==
  /\ Mantissa \in Nat /\ Width \in Nat /\ Width > Mantissa
  /\ Buckets \in Nat /\ Buckets > 2 ^ (Mantissa + 1)
  /\ Samples \subseteq 0 .. 2 ^ Width - 1
  /\ Overheads \subseteq 0 .. 2 ^ Width - 1
  /\ Permilles \subseteq 1 .. 1000
  /\ MaxCount \in Nat

VARIABLES hist, samples

vars == <<hist, samples>>

Bucket == 0 .. Buckets - 1
Sub    == 2 ^ Mantissa

(* min_ starts at the largest value there is.                               *)
NewHistogram ==
  [counts |-> [b \in Bucket |-> 0], count |-> 0, sum |-> 0,
   min |-> 2 ^ Width - 1, max |-> 0]

None == [v \in Samples |-> 0]

Init == hist = NewHistogram /\ samples = None
-------------------------------------------------------------------------------
(* Buckets.                                                                 *)

Msb(v) == CHOOSE e \in 0 .. Width - 1 : 2 ^ e <= v /\ v < 2 ^ (e + 1)

(* Mutant of BucketOf: the exponent counts from 5 instead of 6.             *)
BucketOfEarly(v) ==
  IF v < 2 * Sub THEN v
  ELSE LET e == Msb(v)
           m == (v \div 2 ^ (e - Mantissa)) % Sub
       IN Min({2 * Sub + (e - Mantissa) * Sub + m, Buckets - 1})

(* bucket().                                                                *)
BucketOf(v) ==
  IF v < 2 * Sub THEN v
  ELSE LET e == Msb(v)
           m == (v \div 2 ^ (e - Mantissa)) % Sub
       IN Min({2 * Sub + (e - (Mantissa + 1)) * Sub + m, Buckets - 1})

(* value_of(), the smallest value of a bucket.                              *)
ValueOf(b) ==
  IF b < 2 * Sub THEN b
  ELSE LET e == Mantissa + 1 + (b - 2 * Sub) \div Sub
           m == (b - 2 * Sub) % Sub
       IN (Sub + m) * 2 ^ (e - Mantissa)
-------------------------------------------------------------------------------
(* Operations.                                                              *)

(* Unsigned addition.                                                       *)
WordSum(x, y) == (x + y) % 2 ^ Width

Record(v) ==
  /\ hist.count < MaxCount
  /\ hist' = [counts |-> [hist.counts EXCEPT ![BucketOf(v)] = @ + 1],
              count  |-> hist.count + 1,
              sum    |-> WordSum(hist.sum, v),
              min    |-> Min({hist.min, v}),
              max    |-> Max({hist.max, v})]
  /\ samples' = [samples EXCEPT ![v] = @ + 1]

Reset == hist' = NewHistogram /\ samples' = None

(* Mutant of Rank: p per cent of the count is cut off, not rounded.         *)
RankTruncated(count, p) == (p * count) \div 1000

(* p per mille of the count, rounded half up.                               *)
Rank(count, p) == (2 * p * count + 1000) \div 2000

(* percentile(): the first bucket by which that many values were seen.      *)
Percentile(h, p) ==
  IF h.count = 0 THEN 0
  ELSE LET Seen(b)  == SumFunctionOnSet(h.counts, 0 .. b)
           reaching == {b \in Bucket : Seen(b) >= Rank(h.count, p)}
       IN IF reaching = {} THEN h.max ELSE ValueOf(Min(reaching))

(* Mutant of Corrected: a value below the overhead wraps.                   *)
CorrectedWrapping(v, overhead) == (v - overhead) % 2 ^ Width

(* A value less the overhead, and never below 0.                            *)
Corrected(v, overhead) == IF v > overhead THEN v - overhead ELSE 0

(* shifted(): every bucket is recorded anew, as often as it was counted, at *)
(* its smallest value less the overhead.                                    *)
Shifted(overhead) ==
  LET used    == {b \in Bucket : hist.counts[b] > 0}
      To(b)   == Corrected(ValueOf(b), overhead)
      From(c) == {b \in used : BucketOf(To(b)) = c}
  IN [counts |-> [c \in Bucket |-> SumFunctionOnSet(hist.counts, From(c))],
      count  |-> SumFunctionOnSet(hist.counts, used),
      sum    |-> SumFunction([b \in used |-> hist.counts[b] * To(b)]) % 2 ^ Width,
      min    |-> Min({2 ^ Width - 1} \cup {To(b) : b \in used}),
      max    |-> Max({0} \cup {To(b) : b \in used})]

Next == (\E v \in Samples : Record(v)) \/ Reset

Spec == Init /\ [][Next]_vars
-------------------------------------------------------------------------------
(* Correctness.                                                             *)

(* The true order statistic: the value at a rank of the sorted samples.     *)
AtRank(r) ==
  Min({v \in Samples : SumFunctionOnSet(samples, {w \in Samples : w <= v}) >= r})

Floor(v) == ValueOf(BucketOf(v))

(* The nearest rank to p per mille of the samples, a half counted up.       *)
NearestRank(p) ==
  CHOOSE r \in 0 .. hist.count :
    /\ 2000 * r - 1000 <= 2 * p * hist.count
    /\ 2 * p * hist.count < 2000 * r + 1000

(* bucket() and value_of() invert each other at every exponent, and the     *)
(* clamp to the last bucket is never needed: each bucket counts the samples *)
(* from its smallest value up to that of the next.                          *)
BucketsExact ==
  \A b \in 0 .. Buckets - 2 :
    hist.counts[b] = SumFunctionOnSet(samples,
                       {v \in Samples : ValueOf(b) <= v /\ v < ValueOf(b + 1)})

(* percentile() reports the bucket of the true order statistic, within "~3% *)
(* relative precision at every magnitude" (one part in Sub), though sums of *)
(* counts over buckets replace the sorted samples.                          *)
PercentileExact ==
  hist.count > 0 =>
    \A p \in Permilles :
      LET x == AtRank(NearestRank(p))
          r == Percentile(hist, p)
      IN /\ r = Floor(x)
         /\ r <= x /\ (x - r) * Sub <= x

(* shifted() loses no sample, and every corrected percentile is the bucket  *)
(* of the raw one less the overhead.  The two roundings together cost at    *)
(* most two parts in Sub of the raw latency; nothing bounds them by the     *)
(* corrected latency, which the benchmark prints.                           *)
CorrectionExact ==
  \A o \in Overheads :
    LET s == Shifted(o)
    IN /\ s.count = hist.count
       /\ hist.count > 0 =>
            \A p \in Permilles :
              LET x == AtRank(NearestRank(p))
                  r == Percentile(s, p)
              IN /\ r = Floor(Corrected(Floor(x), o))
                 /\ r <= Corrected(x, o)
                 /\ (Corrected(x, o) - r) * Sub <= 2 * x
===============================================================================
