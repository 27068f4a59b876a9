------------------------------ MODULE Histogram ------------------------------
(***************************************************************************)
(* Histogram of statistic.h: values are counted in buckets of one width,   *)
(* and two histograms are merged by counting the low edges of their        *)
(* buckets again.  The user has two, a and b, and what they were merged    *)
(* to.  A double is a fraction <<n, d>>, d > 0, and each operation rounds  *)
(* as the code's does, to a few bits of mantissa where double has 53.      *)
(***************************************************************************)
EXTENDS Integers, FiniteSets

CONSTANTS
  Precision,  \* bits of the mantissa
  Shapes,     \* [nr_buckets, min_value, max_value] of a and b
  Samples,    \* the values that are added
  MaxSamples, \* bound: values added to a histogram
  Percents    \* the percentiles asked for

VARIABLES
  hist,       \* the histograms, by name
  kept,       \* history: the values each has counted, with their number
  outside     \* an index was outside the vector

histvars == <<hist, kept, outside>>

Names == {"a", "b", "merged"}
LessThan(v, w) == v[1] * w[2] < w[1] * v[2]
Hi(v, w) == IF LessThan(w, v) THEN v ELSE w
Lo(v, w) == IF LessThan(w, v) THEN w ELSE v

\* Bound: the exponents that occur.  Nothing overflows or underflows.
Exponents == (-12) .. 12

\* n / d rounded to Precision bits, a tie to the even mantissa.
Fl(n, d) ==
  LET a == IF n >= 0 THEN n ELSE -n
      top(e) == IF e >= 0 THEN a ELSE a * 2^(-e)
      low(e) == IF e >= 0 THEN d * 2^e ELSE d
      e == CHOOSE x \in Exponents : top(x) \div low(x) \in 2^(Precision - 1) .. (2^Precision - 1)
      m == top(e) \div low(e)
      twice == 2 * (top(e) % low(e))
      up == twice > low(e) \/ (twice = low(e) /\ m % 2 = 1)
      mantissa == (IF up THEN m + 1 ELSE m) * (IF n >= 0 THEN 1 ELSE -1)
  IN  IF n = 0 THEN <<0, 1>>
      ELSE IF e >= 0 THEN <<mantissa * 2^e, 1>> ELSE <<mantissa, 2^(-e)>>

Plus(v, w) == Fl(v[1] * w[2] + w[1] * v[2], v[2] * w[2])
Minus(v, w) == Fl(v[1] * w[2] - w[1] * v[2], v[2] * w[2])
Times(v, w) == Fl(v[1] * w[1], v[2] * w[2])
Over(v, w) == Fl(v[1] * w[2], v[2] * w[1])   \* w > 0
Whole(i) == <<i, 1>>                         \* an int that becomes a double

\* The constructor.
New(nr, min, max) ==
  [nr |-> nr, min |-> min, max |-> max, width |-> Over(Minus(max, min), Whole(nr)),
   buckets |-> [i \in 0 .. (nr - 1) |-> 0]]

HistInit ==
  /\ \E s, r \in Shapes :
       hist = [h \in Names |-> IF h = "b" THEN New(r.nr, r.min, r.max)
                                          ELSE New(s.nr, s.min, s.max)]
  /\ kept = [h \in Names |-> <<>>]
  /\ outside = FALSE

\* double to int: towards zero.
Trunc(n, d) == IF n >= 0 THEN n \div d ELSE -((-n) \div d)

get_bucket(h, v) ==
  LET quotient == Over(Minus(v, h.min), h.width) IN Trunc(quotient[1], quotient[2])
get_value(h, i) == Plus(h.min, Times(h.width, Whole(i)))
Inside(h, i) == i \in 0 .. (h.nr - 1)

\* buckets[get_bucket(v)] += n, and v's own count.
Count(h, v, n) ==
  IF Inside(h, get_bucket(h, v)) THEN [h EXCEPT !.buckets[get_bucket(h, v)] = @ + n] ELSE h

Tally(k, v, n) ==
  [w \in DOMAIN k \cup {v} |->
     (IF w \in DOMAIN k THEN k[w] ELSE 0) + (IF w = v THEN n ELSE 0)]

Total(f) ==
  LET sum[S \in SUBSET DOMAIN f] ==
        IF S = {} THEN 0 ELSE LET x == CHOOSE x \in S : TRUE IN f[x] + sum[S \ {x}]
  IN sum[DOMAIN f]

size(h) == Total(h.buckets)
-----------------------------------------------------------------------------
add(name, value) ==
  LET h == hist[name]
  IN /\ name # "merged" /\ Total(kept[name]) < MaxSamples
     /\ ~LessThan(value, h.min) /\ ~LessThan(h.max, value)
     /\ hist' = [hist EXCEPT ![name] = Count(h, value, 1)]
     /\ kept' = [kept EXCEPT ![name] = Tally(@, value, 1)]
     /\ outside' = (outside \/ ~Inside(h, get_bucket(h, value)))

clear(name) ==
  /\ hist' = [hist EXCEPT ![name].buckets = [i \in DOMAIN @ |-> 0]]
  /\ kept' = [kept EXCEPT ![name] = <<>>]
  /\ UNCHANGED outside


\* The loop over the buckets of one of the two.
Recount(new, old) ==
  LET f[i \in 0 .. old.nr] ==
        IF i = 0 THEN new ELSE Count(f[i - 1], get_value(old, i - 1), old.buckets[i - 1])
  IN f[old.nr]

Retally(k, old) ==
  LET f[i \in 0 .. old.nr] ==
        IF i = 0 THEN k ELSE Tally(f[i - 1], get_value(old, i - 1), old.buckets[i - 1])
  IN f[old.nr]

Strays(new, old) == \E i \in 0 .. (old.nr - 1) : ~Inside(new, get_bucket(new, get_value(old, i)))

\* merge: the lower end is the smaller of a's and of b's UPPER end (line 177).
merge ==
  LET a == hist["a"]
      b == hist["b"]
      new == New(IF a.nr > b.nr THEN a.nr ELSE b.nr, Lo(a.min, b.max), Hi(a.max, b.max))
  IN /\ hist' = [hist EXCEPT !["merged"] = Recount(Recount(new, a), b)]
     /\ kept' = [kept EXCEPT !["merged"] = Retally(Retally(<<>>, a), b)]
     /\ outside' = (outside \/ Strays(new, a) \/ Strays(new, b))

\* The caller stops after an index that is outside: anything may happen then.
HistNext ==
  /\ ~outside
  /\ \/ \E name \in Names, value \in Samples : add(name, value)
     \/ \E name \in Names : clear(name)
     \/ merge

HistSpec == HistInit /\ [][HistNext]_histvars
-----------------------------------------------------------------------------
UpTo(h, i) == Total([j \in 0 .. i |-> h.buckets[j]])

\* The first bucket up to which p per cent lie; none in an empty histogram, where
\* the quotient is not a number.
percentile(h, p) ==
  LET share(i) == Times(Over(Whole(UpTo(h, i)), Whole(size(h))), Whole(100))
      reached == {i \in DOMAIN h.buckets :
                    p \in 0 .. 100 /\ size(h) > 0 /\ ~LessThan(share(i), Whole(p))}
  IN IF reached = {} THEN -1 ELSE CHOOSE i \in reached : \A j \in reached : i <= j

\* The values up to which p per cent of those counted lie, and the least of them.
KeptUpTo(k, v) == Total([w \in {w \in DOMAIN k : ~LessThan(v, w)} |-> k[w]])
RankValue(k, p) ==
  LET reached == {v \in DOMAIN k : KeptUpTo(k, v) * 100 >= p * Total(k)}
  IN CHOOSE v \in reached : \A w \in reached : ~LessThan(w, v)


\* What add and merge count at is an index that get_value and get_count would not
\* call invalid (lines 197 and 206).  The code does not keep this.
IndexIsValid == ~outside
=============================================================================
