------------------------------ MODULE RttNumbers ------------------------------
(***************************************************************************)
(* The numbers of an RTT window, from the sequence of its RTTs, the way    *)
(* the README words them: mean, min, max, and jitter as the mean absolute  *)
(* difference between consecutive RTTs.                                    *)
(***************************************************************************)
EXTENDS Integers, Sequences

CONSTANT
  Int64Max    \* INT64_MAX, the initial min_us

\* The fields of the struct RttStats.
Field == {"count", "sum_us", "min_us", "max_us", "last_us", "jitter_sum_us"}

Distance(a, b) == IF a <= b THEN b - a ELSE a - b

Total(w) ==
  LET part[k \in 0..Len(w)] == IF k = 0 THEN 0 ELSE part[k - 1] + w[k]
  IN part[Len(w)]

Differences(w) == [i \in 1..Len(w) |-> IF i = 1 THEN 0 ELSE Distance(w[i], w[i - 1])]

IsLeast(x, S)    == x \in S /\ \A y \in S : x <= y
IsGreatest(x, S) == x \in S /\ \A y \in S : y <= x

\* Field f of a window that took in the RTTs w, last_us aside: no line shows that one.
StatsOf(w, f) ==
  LET Values == {w[i] : i \in 1..Len(w)} IN
  CASE f = "count"         -> Len(w)
    [] f = "sum_us"        -> Total(w)
    [] f = "min_us"        -> CHOOSE x \in Values \cup {Int64Max} : IsLeast(x, Values \cup {Int64Max})
    [] f = "max_us"        -> CHOOSE x \in Values \cup {0} : IsGreatest(x, Values \cup {0})
    [] f = "jitter_sum_us" -> Total(Differences(w))

=============================================================================
