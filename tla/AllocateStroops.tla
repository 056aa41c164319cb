--------------------------- MODULE AllocateStroops ---------------------------
(***************************************************************************)
(* allocate_stroops (src/routes/payouts.rs): the largest-remainder split   *)
(* of a pool, as the loops that compute it, one iteration a step.          *)
(*                                                                         *)
(* The votes of N proposals are given by their running totals cum, so that *)
(* total_votes, which execute_payouts sums, is cum[N].  u64 values are     *)
(* taken modulo U64; the u128 products of the code cannot overflow, being  *)
(* of a u64 and an i64, and are exact here.                                *)
(***************************************************************************)
EXTENDS PayoutAllocation

CONSTANTS
  N,         \* proposals of the round, at least one
  MaxPool,   \* largest pool: i64::MAX
  MaxTotal,  \* largest number of votes
  U64        \* 2^64

ASSUME SizesAssumption ==
  /\ N \in Nat \ {0}
  /\ MaxPool \in Nat
  /\ MaxTotal \in Nat
  /\ U64 \in Nat
  /\ MaxPool < U64

VARIABLES
  pool, cum,   \* the arguments
  pc,          \* "split", "top-up" or "done"
  i,           \* iterations done, of the loop pc is at
  amounts, remainders, allocated, leftover, order, bps

vars == <<pool, cum, pc, i, amounts, remainders, allocated, leftover, order, bps>>

args == <<pool, cum>>

Entries == 1 .. N

votes == [k \in Entries |-> cum[k] - cum[k - 1]]

total == cum[N]

Zeros == [k \in Entries |-> 0]

Init ==
  /\ pool \in 1 .. MaxPool
  /\ cum \in [0 .. N -> 0 .. MaxTotal]
  /\ cum[0] = 0
  /\ \A a, b \in 0 .. N : a <= b => cum[a] <= cum[b]
  /\ pc = "split"
  /\ i = 0
  /\ amounts = Zeros
  /\ remainders = Zeros
  /\ allocated = 0
  /\ leftover = 0
  /\ order = Zeros
  /\ bps = Zeros

----------------------------------------------------------------------------
(* Mistakes that the properties tell from the code: none is part of Next.  *)

\* One share is amount, by another rounding.
SplitBy(amount) ==
  /\ pc = "split"
  /\ total > 0
  /\ i < N
  /\ amounts' = [amounts EXCEPT ![i + 1] = amount % U64]
  /\ remainders' = [remainders EXCEPT ![i + 1] = Remainder(pool, votes[i + 1], total)]
  /\ allocated' = (allocated + (amount % U64)) % U64
  /\ i' = i + 1
  /\ UNCHANGED <<args, pc, leftover, order, bps>>

SplitRoundedUp == SplitBy((pool * votes[i + 1] + total - 1) \div total)

SplitDividedFirst == SplitBy((pool \div total) * votes[i + 1])

\* The leftover goes out in another order.
SortBy(key) ==
  /\ pc = "split"
  /\ total > 0
  /\ i = N
  /\ leftover' = (pool - allocated) % U64
  /\ order' \in [Entries -> Entries]
  /\ \A a, b \in Entries : a < b => Before(key, order'[a], order'[b])
  /\ pc' = "top-up"
  /\ i' = 0
  /\ UNCHANGED <<args, amounts, remainders, allocated, bps>>

SortAscending == SortBy([k \in Entries |-> -remainders[k]])

SortTiesReversed == SortBy([k \in Entries |-> (N + 1) * remainders[k] + k])

\* The loop does not break when nothing is left over.
TopUpAll ==
  /\ pc = "top-up"
  /\ i < N
  /\ amounts' = [amounts EXCEPT ![order[i + 1]] = (@ + 1) % U64]
  /\ leftover' = leftover - 1
  /\ i' = i + 1
  /\ UNCHANGED <<args, pc, remainders, allocated, order, bps>>

----------------------------------------------------------------------------
(* allocate_stroops.                                                      *)

\* Nobody voted: every entry gets (0, 0).
NobodyVoted ==
  /\ pc = "split"
  /\ total = 0
  /\ pc' = "done"
  /\ UNCHANGED <<args, i, amounts, remainders, allocated, leftover, order, bps>>

\* for &v in votes: the floor of the exact share, and what it leaves over.
Split ==
  LET v      == votes[i + 1]
      amount == Quota(pool, v, total) % U64
  IN
  /\ pc = "split"
  /\ total > 0
  /\ i < N
  /\ amounts' = [amounts EXCEPT ![i + 1] = amount]
  /\ remainders' = [remainders EXCEPT ![i + 1] = Remainder(pool, v, total)]
  /\ allocated' = (allocated + amount) % U64
  /\ i' = i + 1
  /\ UNCHANGED <<args, pc, leftover, order, bps>>

\* leftover = pool - allocated, and the stable sort by decreasing remainder.
SortOrder ==
  /\ pc = "split"
  /\ total > 0
  /\ i = N
  /\ leftover' = (pool - allocated) % U64
  /\ order' \in [Entries -> Entries]
  /\ \A a, b \in Entries : a < b => Before(remainders, order'[a], order'[b])
  /\ pc' = "top-up"
  /\ i' = 0
  /\ UNCHANGED <<args, amounts, remainders, allocated, bps>>

\* for i in order: one stroop each until none is left over.
TopUp ==
  /\ pc = "top-up"
  /\ i < N
  /\ leftover > 0
  /\ amounts' = [amounts EXCEPT ![order[i + 1]] = (@ + 1) % U64]
  /\ leftover' = leftover - 1
  /\ i' = i + 1
  /\ UNCHANGED <<args, pc, remainders, allocated, order, bps>>

\* The loop ends or breaks; each amount is returned with its basis points.
Return ==
  /\ pc = "top-up"
  /\ i = N \/ leftover = 0
  /\ bps' = [k \in Entries |-> VoteShareBps(votes[k], total)]
  /\ pc' = "done"
  /\ UNCHANGED <<args, i, amounts, remainders, allocated, leftover, order>>

Next == NobodyVoted \/ Split \/ SortOrder \/ TopUp \/ Return

Spec == Init /\ [][Next]_vars

----------------------------------------------------------------------------
(* Properties.                                                             *)

\* Every variable is of its type; u64 values are below U64.
TypeOK ==
  /\ pool \in 1 .. MaxPool
  /\ cum \in [0 .. N -> 0 .. MaxTotal]
  /\ pc \in {"split", "top-up", "done"}
  /\ i \in 0 .. N
  /\ amounts \in [Entries -> 0 .. (U64 - 1)]
  /\ remainders \in [Entries -> Nat]
  /\ allocated \in 0 .. (U64 - 1)
  /\ leftover \in 0 .. (U64 - 1)
  /\ order \in [Entries -> 0 .. N]
  /\ bps \in [Entries -> 0 .. WholeBps]

\* The loops compute the largest-remainder allocation: the whole pool, each
\* entry its exact share rounded down or up, nothing for an entry without
\* votes, and never less for more votes (payouts.rs:152-156 and the unit tests).
SplitIsFair ==
  pc = "done" /\ total > 0 =>
    /\ SumFunction(amounts) = pool
    /\ \A k \in Entries :
         /\ amounts[k] - Quota(pool, votes[k], total) \in {0, 1}
         /\ Remainder(pool, votes[k], total) = 0 =>
              amounts[k] = Quota(pool, votes[k], total)
    /\ \A a, b \in Entries : votes[a] < votes[b] => amounts[a] <= amounts[b]

\* What the loops return is what Payouts takes a settlement to pay.
ComputesTheAllocation ==
  pc = "done" => amounts = AllocatedAmounts(pool, votes)

\* The u64 arithmetic never wraps: the first loop never allocates more than the
\* pool, so that pool - allocated does not underflow.
NoWrap ==
  /\ allocated <= pool
  /\ pc = "top-up" => leftover = pool - allocated - i

\* The second loop has an entry for every stroop left over: rounding down loses
\* less than one stroop per entry, so one pass over the order is enough.
LeftoverFits ==
  /\ pc = "top-up" => leftover <= N - i
  /\ pc = "done" => leftover = 0
=============================================================================
