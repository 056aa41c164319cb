-------------------------- MODULE PayoutAllocation --------------------------
(***************************************************************************)
(* What allocate_stroops (src/routes/payouts.rs) returns, in closed form:  *)
(* each proposal's floor of pool * votes / total, plus one stroop for the  *)
(* first `leftover` proposals by decreasing remainder.  AllocateStroops    *)
(* has the loops that compute it.  A vote vector is a function over        *)
(* proposal indices; amounts are unbounded integers here (the widths of    *)
(* the code are in AllocateStroops).                                       *)
(***************************************************************************)
EXTENDS Integers, FiniteSets, Functions

Quota(pool, v, total) == (pool * v) \div total

Remainder(pool, v, total) == (pool * v) % total

\* order.sort_by(|a, b| remainders[b].cmp(&remainders[a])), a stable sort of
\* the indices: decreasing remainder, then increasing index.
Before(rem, i, j) == rem[i] > rem[j] \/ (rem[i] = rem[j] /\ i < j)

Place(rem, i) == Cardinality({j \in DOMAIN rem : Before(rem, j, i)})

\* A mistake: every share that is not whole is rounded up.
AmountsRoundedUp(pool, votes, total) ==
  [i \in DOMAIN votes |->
     IF Remainder(pool, votes[i], total) > 0
       THEN Quota(pool, votes[i], total) + 1
       ELSE Quota(pool, votes[i], total)]

Amounts(pool, votes, total) ==
  LET quota    == [i \in DOMAIN votes |-> Quota(pool, votes[i], total)]
      rem      == [i \in DOMAIN votes |-> Remainder(pool, votes[i], total)]
      leftover == pool - SumFunction(quota)
  IN  [i \in DOMAIN votes |->
         IF Place(rem, i) < leftover THEN quota[i] + 1 ELSE quota[i]]

\* The amount of each proposal; nothing is paid when nobody voted.
AllocatedAmounts(pool, votes) ==
  LET total == SumFunction(votes)
  IN  IF total = 0 THEN [i \in DOMAIN votes |-> 0] ELSE Amounts(pool, votes, total)

\* The whole tally, in basis points.
WholeBps == 10000

\* vote_share_bps: the proposal's share of the tally in basis points.
VoteShareBps(v, total) == IF total = 0 THEN 0 ELSE (v * WholeBps) \div total
=============================================================================
