----------------------- MODULE AllocateStroopsProofs -----------------------
(***************************************************************************)
(* Proofs about AllocateStroops, for every number of proposals, every pool *)
(* and every vote vector.                                                  *)
(***************************************************************************)
EXTENDS AllocateStroops, CommonLemmas

LEMMA SmallModulo ==
  ASSUME NEW a \in Nat, a < U64
  PROVE  a % U64 = a
  BY SizesAssumption DEF SizesAssumption

LEMMA ModuloRange ==
  ASSUME NEW a \in Int
  PROVE  a % U64 \in 0 .. (U64 - 1)
  BY SizesAssumption DEF SizesAssumption

\* A quota is the share of the pool, rounded down, and no more than the pool.
LEMMA QuotaBounds ==
  ASSUME NEW p \in Nat, NEW v \in Nat, NEW t \in Nat \ {0}, v <= t
  PROVE  /\ Quota(p, v, t) \in Nat
         /\ Remainder(p, v, t) \in Nat
         /\ Quota(p, v, t) * t <= p * v
         /\ p * v <= Quota(p, v, t) * t + (t - 1)
         /\ Quota(p, v, t) <= p
  <1> DEFINE q == Quota(p, v, t)
             r == Remainder(p, v, t)
  <1>1. q \in Nat /\ r \in 0 .. (t - 1) /\ p * v = q * t + r
    BY QuotaRemainder
  <1>2. p * v <= p * t
    OBVIOUS
  <1>3. q * t <= p * v /\ p * v <= q * t + (t - 1)
    <2> DEFINE x == q * t
    <2>1. x \in Int /\ p * v = x + r
      BY <1>1
    <2> HIDE DEF q, r, x
    <2> QED BY <1>1, <2>1 DEF x
  <1> HIDE DEF q, r
  <1>4. q <= p
    <2> DEFINE x == q * t  y == p * v  z == p * t
    <2>1. x \in Int /\ y \in Int /\ z \in Int /\ x <= y /\ y <= z
      BY <1>1, <1>2, <1>3
    <2>2. x <= z
      <3> HIDE DEF x, y, z
      <3> QED BY <2>1
    <2> QED BY <1>1, <2>2, Cancel
  <1> QED BY <1>1, <1>3, <1>4 DEF q, r

\* vote_share_bps is at most 10000: the quota of a pool of 10000.
LEMMA BpsRange ==
  ASSUME NEW v \in Nat, NEW t \in Nat, v <= t
  PROVE  VoteShareBps(v, t) \in 0 .. WholeBps
  <1>1. WholeBps \in Nat
    BY DEF WholeBps
  <1>2. CASE t = 0
    BY <1>1, <1>2 DEF VoteShareBps
  <1>3. CASE t # 0
    <2>1. t \in Nat \ {0} /\ v * WholeBps = WholeBps * v
      BY <1>1, <1>3
    <2>2. VoteShareBps(v, t) = Quota(WholeBps, v, t)
      BY <1>3, <2>1 DEF VoteShareBps, Quota
    <2>3. Quota(WholeBps, v, t) \in Nat /\ Quota(WholeBps, v, t) <= WholeBps
      BY <1>1, <2>1, QuotaBounds
    <2> QED BY <1>1, <2>2, <2>3
  <1> QED BY <1>2, <1>3

\* One entry more: s stroops have been allocated to votes of c in all.
LEMMA SplitOneMore ==
  ASSUME NEW p \in Nat, NEW t \in Nat \ {0}, NEW n \in Nat, NEW s \in Nat,
         NEW c \in Nat, NEW v \in Nat, c + v <= t,
         s * t <= p * c, p * c <= s * t + n * (t - 1)
  PROVE  LET q == Quota(p, v, t) IN
         /\ (s + q) * t <= p * (c + v)
         /\ p * (c + v) <= (s + q) * t + (n + 1) * (t - 1)
         /\ s + q <= p
  <1> DEFINE q == Quota(p, v, t)
             a1 == s * t
             a2 == q * t
             b1 == p * c
             b2 == p * v
             d == n * (t - 1)
  <1>1. v <= t
    OBVIOUS
  <1>2. q \in Nat /\ a2 <= b2 /\ b2 <= a2 + (t - 1)
    BY <1>1, QuotaBounds
  <1> HIDE DEF q
  <1>3. (s + q) * t = a1 + a2 /\ p * (c + v) = b1 + b2 /\ (n + 1) * (t - 1) = d + (t - 1)
    BY <1>2
  <1>4. a1 \in Int /\ a2 \in Int /\ b1 \in Int /\ b2 \in Int /\ d \in Int
    BY <1>2
  <1>5. a1 + a2 <= b1 + b2 /\ b1 + b2 <= (a1 + a2) + (d + (t - 1))
    <2>1. a1 <= b1 /\ b1 <= a1 + d
      OBVIOUS
    <2> HIDE DEF a1, a2, b1, b2, d
    <2> QED BY <1>2, <1>4, <2>1
  <1>6. p * (c + v) <= p * t
    OBVIOUS
  <1>7. s + q <= p
    <2>1. (s + q) * t <= p * t
      <3> DEFINE x == (s + q) * t  y == p * (c + v)  z == p * t
      <3>1. x \in Int /\ y \in Int /\ z \in Int
        BY <1>2
      <3>2. x <= y
        BY <1>3, <1>5
      <3>3. y <= z
        BY <1>6
      <3> HIDE DEF x, y, z
      <3>4. x <= z
        BY <3>1, <3>2, <3>3
      <3> QED BY <3>4 DEF x, z
    <2> QED BY <1>2, <2>1, Cancel
  <1>8. /\ (s + q) * t <= p * (c + v)
        /\ p * (c + v) <= (s + q) * t + (n + 1) * (t - 1)
    <2> HIDE DEF a1, a2, b1, b2, d
    <2> QED BY <1>3, <1>5
  <1> QED BY <1>7, <1>8 DEF q

\* All n entries together lose less than one stroop each.
LEMMA LostLessThanOneEach ==
  ASSUME NEW p \in Nat, NEW t \in Nat \ {0}, NEW n \in Nat \ {0}, NEW s \in Nat,
         p * t <= s * t + n * (t - 1)
  PROVE  p < s + n
  <1> DEFINE x == p * t  y == s * t + n * (t - 1)
  <1>1. x \in Int /\ y \in Int /\ x <= y
    OBVIOUS
  <1>2. (s + n) * t = y + n
    OBVIOUS
  <1>3. x < y + n
    <2> HIDE DEF x, y
    <2> QED BY <1>1
  <1>4. p * t < (s + n) * t
    BY <1>2, <1>3
  <1> QED BY <1>4, CancelStrict

\* The arguments are as execute_payouts passes them, and stay so.
ArgsInv ==
  /\ pool \in 1 .. MaxPool
  /\ cum \in [0 .. N -> 0 .. MaxTotal]
  /\ cum[0] = 0
  /\ \A a, b \in 0 .. N : a <= b => cum[a] <= cum[b]

\* Vote counts are natural numbers and no larger than their total.
LEMMA VotesType ==
  ASSUME ArgsInv, NEW k \in Entries
  PROVE  /\ cum[k - 1] \in Nat /\ cum[k] \in Nat /\ total \in Nat
         /\ votes[k] \in Nat /\ votes[k] <= total
         /\ cum[k] = cum[k - 1] + votes[k]
  <1>1. k \in 0 .. N /\ k - 1 \in 0 .. N /\ N \in 0 .. N /\ k - 1 <= k /\ k <= N
    BY SizesAssumption DEF SizesAssumption, Entries
  <1>2. cum[k - 1] \in Nat /\ cum[k] \in Nat /\ cum[N] \in Nat
    BY <1>1, SizesAssumption DEF ArgsInv, SizesAssumption
  <1>3. cum[k - 1] <= cum[k] /\ cum[k] <= cum[N]
    BY <1>1 DEF ArgsInv
  <1> QED BY <1>2, <1>3 DEF votes, total

TypeInv == TypeOK /\ ArgsInv

LEMMA InitType == Init => TypeInv
  <1> SUFFICES ASSUME Init PROVE TypeInv OBVIOUS
  <1>1. N \in Nat \ {0} /\ U64 \in Nat \ {0} /\ WholeBps \in Nat
    BY SizesAssumption DEF SizesAssumption, WholeBps
  <1>2. 0 \in 0 .. (U64 - 1) /\ 0 \in 0 .. N /\ 0 \in 0 .. WholeBps /\ 0 \in Nat
    BY <1>1
  <1>3. /\ amounts \in [Entries -> 0 .. (U64 - 1)] /\ remainders \in [Entries -> Nat]
        /\ order \in [Entries -> 0 .. N] /\ bps \in [Entries -> 0 .. WholeBps]
    BY <1>2 DEF Init, Zeros
  <1> QED BY <1>2, <1>3 DEF Init, TypeInv, TypeOK, ArgsInv

LEMMA StepType == TypeInv /\ [Next]_vars => TypeInv'
  <1> SUFFICES ASSUME TypeInv, [Next]_vars PROVE TypeInv' OBVIOUS
  <1> USE SizesAssumption DEF SizesAssumption, TypeInv, TypeOK
  <1>0. ASSUME UNCHANGED args PROVE ArgsInv'
    BY <1>0 DEF ArgsInv, args
  <1>1. CASE NobodyVoted
    BY <1>0, <1>1 DEF NobodyVoted, args
  <1>2. CASE Split
    <2> DEFINE v == votes[i + 1]
               q == Quota(pool, v, total)
               r == Remainder(pool, v, total)
    <2>1. i + 1 \in Entries /\ i + 1 \in 0 .. N
      BY <1>2 DEF Split, Entries
    <2>2. v \in Nat /\ v <= total /\ total \in Nat \ {0} /\ pool \in Nat
      BY <1>2, <2>1, VotesType DEF Split, ArgsInv
    <2>3. q \in Nat /\ r \in Nat
      BY <2>2, QuotaBounds
    <2> HIDE DEF v, q, r
    <2>4. q % U64 \in 0 .. (U64 - 1) /\ (allocated + (q % U64)) % U64 \in 0 .. (U64 - 1)
      BY <2>3
    <2>5. /\ UNCHANGED <<args, pc, leftover, order, bps>>
          /\ i' = i + 1
          /\ amounts' = [amounts EXCEPT ![i + 1] = q % U64]
          /\ remainders' = [remainders EXCEPT ![i + 1] = r]
          /\ allocated' = (allocated + (q % U64)) % U64
      BY <1>2 DEF Split, q, r, v
    <2> QED BY <1>0, <2>1, <2>3, <2>4, <2>5 DEF args
  <1>3. CASE SortOrder
    <2>1. leftover' \in 0 .. (U64 - 1)
      <3>1. pool - allocated \in Int
        BY DEF ArgsInv
      <3>2. (pool - allocated) % U64 \in 0 .. (U64 - 1)
        BY <3>1, ModuloRange
      <3> QED BY <1>3, <3>2 DEF SortOrder
    <2>2. order' \in [Entries -> 0 .. N]
      <3>1. Entries \subseteq 0 .. N
        BY DEF Entries
      <3> QED BY <1>3, <3>1 DEF SortOrder
    <2>3. pc' = "top-up" /\ i' = 0 /\ UNCHANGED <<pool, cum, amounts, remainders, allocated, bps>>
      BY <1>3 DEF SortOrder, args
    <2>4. ArgsInv'
      BY <1>0, <2>3 DEF args
    <2> QED BY <2>1, <2>2, <2>3, <2>4
  <1>4. CASE TopUp
    <2> DEFINE k == order[i + 1]
    <2>1. amounts' = [amounts EXCEPT ![k] = (amounts[k] + 1) % U64]
      BY <1>4 DEF TopUp
    <2> HIDE DEF k
    <2>2. ASSUME k \in Entries PROVE (amounts[k] + 1) % U64 \in 0 .. (U64 - 1)
      <3>1. amounts[k] + 1 \in Int
        BY <2>2
      <3> QED BY <3>1, ModuloRange
    <2>3. amounts' \in [Entries -> 0 .. (U64 - 1)]
      BY <2>1, <2>2
    <2>4. leftover' \in 0 .. (U64 - 1) /\ i' \in 0 .. N
      BY <1>4 DEF TopUp
    <2>5. pc' = pc /\ UNCHANGED <<pool, cum, remainders, allocated, order, bps>>
      BY <1>4 DEF TopUp, args
    <2>6. ArgsInv'
      BY <1>0, <2>5 DEF args
    <2> QED BY <2>3, <2>4, <2>5, <2>6
  <1>5. CASE Return
    <2>1. ASSUME NEW k \in Entries PROVE VoteShareBps(votes[k], total) \in 0 .. WholeBps
      BY VotesType, BpsRange
    <2> QED BY <1>0, <1>5, <2>1 DEF Return, args
  <1>6. CASE UNCHANGED vars
    BY <1>0, <1>6 DEF vars, args
  <1> QED BY <1>1, <1>2, <1>3, <1>4, <1>5, <1>6 DEF Next

\* Types, among them that vote_share_bps passes the CHECK of the payouts table.
THEOREM TypeCorrect == Spec => []TypeOK
  <1>1. Spec => []TypeInv
    BY InitType, StepType, PTL DEF Spec
  <1> QED BY <1>1, PTL DEF TypeInv

----------------------------------------------------------------------------
(* The split never allocates more than the pool, and leaves less than one  *)
(* stroop an entry for the top-up.                                         *)

\* After i entries the amounts fall short of the exact shares by less than one
\* stroop each; in the top-up, entries are left for what is left over.
SumInv ==
  /\ pc = "split" =>
       /\ allocated * total <= pool * cum[i]
       /\ pool * cum[i] <= allocated * total + i * (total - 1)
  /\ allocated <= pool
  /\ pc = "split" => leftover = 0
  /\ pc = "top-up" => leftover = pool - allocated - i /\ pool - allocated <= N
  /\ pc = "done" => leftover = 0

LEMMA InitSum == Init => SumInv
  <1> SUFFICES ASSUME Init PROVE SumInv OBVIOUS
  <1>1. TypeInv
    BY InitType
  <1>2. total \in Nat /\ pool \in Nat
    BY <1>1, SizesAssumption DEF TypeInv, ArgsInv, total, SizesAssumption
  <1> QED BY <1>2 DEF Init, SumInv

\* An iteration of the first loop adds the quota exactly: nothing wraps.
LEMMA SplitIsExact ==
  ASSUME TypeInv, SumInv, Split
  PROVE  LET n == i + 1
             q == Quota(pool, votes[n], total)
         IN  /\ n \in Entries /\ i' = n /\ q \in Nat
             /\ amounts' = [amounts EXCEPT ![n] = q]
             /\ allocated' = allocated + q
             /\ allocated + q <= pool
             /\ (allocated + q) * total <= pool * cum[n]
             /\ pool * cum[n] <= (allocated + q) * total + n * (total - 1)
  <1> USE SizesAssumption DEF SizesAssumption, TypeInv, TypeOK
  <1> DEFINE v == votes[i + 1]
             q == Quota(pool, v, total)
  <1>1. i + 1 \in Entries /\ i + 1 \in 0 .. N /\ i \in Nat /\ pool \in Nat /\ allocated \in Nat
    BY DEF Split, Entries, ArgsInv
  <1>2. /\ v \in Nat /\ v <= total /\ total \in Nat \ {0}
        /\ cum[i] \in Nat /\ cum[i + 1] = cum[i] + v /\ cum[i + 1] <= total
    <2>1. i + 1 - 1 = i
      BY <1>1
    <2>2. cum[i + 1] <= total
      BY <1>1 DEF ArgsInv, total, Entries
    <2>3. total # 0
      BY <1>1, VotesType DEF Split
    <2>4. /\ cum[i + 1 - 1] \in Nat /\ cum[i + 1] \in Nat /\ total \in Nat
          /\ v \in Nat /\ v <= total
          /\ cum[i + 1] = cum[i + 1 - 1] + v
      <3> DEFINE k == i + 1
      <3>1. k \in Entries
        BY <1>1
      <3> HIDE DEF k
      <3>2. /\ cum[k - 1] \in Nat /\ cum[k] \in Nat /\ total \in Nat
            /\ votes[k] \in Nat /\ votes[k] <= total
            /\ cum[k] = cum[k - 1] + votes[k]
        BY <3>1, VotesType DEF TypeInv
      <3> QED BY <3>2 DEF k
    <2> QED BY <2>1, <2>2, <2>3, <2>4
  <1>3. allocated * total <= pool * cum[i] /\ pool * cum[i] <= allocated * total + i * (total - 1)
    BY DEF Split, SumInv
  <1>4. /\ q \in Nat
        /\ (allocated + q) * total <= pool * cum[i + 1]
        /\ pool * cum[i + 1] <= (allocated + q) * total + (i + 1) * (total - 1)
        /\ allocated + q <= pool
    <2> DEFINE t == total  c == cum[i]
    <2> HIDE DEF v, t, c
    <2>1. /\ v \in Nat /\ v <= t /\ t \in Nat \ {0} /\ c \in Nat /\ c + v <= t
          /\ allocated * t <= pool * c /\ pool * c <= allocated * t + i * (t - 1)
      BY <1>2, <1>3 DEF t, c
    <2>2. Quota(pool, v, t) \in Nat
      BY <1>1, <2>1, QuotaBounds
    <2>3. /\ (allocated + Quota(pool, v, t)) * t <= pool * (c + v)
          /\ pool * (c + v) <= (allocated + Quota(pool, v, t)) * t + (i + 1) * (t - 1)
          /\ allocated + Quota(pool, v, t) <= pool
      BY <1>1, <2>1, SplitOneMore
    <2>4. cum[i + 1] = c + v
      BY <1>2 DEF c
    <2> QED BY <2>2, <2>3, <2>4 DEF t
  <1> HIDE DEF v, q
  <1>5. q % U64 = q /\ (allocated + (q % U64)) % U64 = allocated + q
    <2>1. pool < U64
      BY DEF ArgsInv
    <2>2. q < U64 /\ allocated + q < U64 /\ allocated + q \in Nat
      BY <1>1, <1>4, <2>1
    <2>3. q % U64 = q
      BY <1>4, <2>2, SmallModulo
    <2>4. (allocated + q) % U64 = allocated + q
      BY <2>2, SmallModulo
    <2> QED BY <2>3, <2>4
  <1>6. /\ allocated' = allocated + q /\ i' = i + 1
        /\ amounts' = [amounts EXCEPT ![i + 1] = q]
    BY <1>5 DEF Split, q, v
  <1> QED BY <1>1, <1>4, <1>6 DEF q, v

LEMMA StepSum == TypeInv /\ SumInv /\ [Next]_vars => SumInv'
  <1> SUFFICES ASSUME TypeInv, SumInv, [Next]_vars PROVE SumInv' OBVIOUS
  <1> USE SizesAssumption DEF SizesAssumption, TypeInv, TypeOK
  <1>1. CASE NobodyVoted
    BY <1>1 DEF NobodyVoted, SumInv, args
  <1>2. CASE Split
    BY <1>2, SplitIsExact DEF Split, SumInv, args, total
  <1>3. CASE SortOrder
    <2>1. pool \in Nat /\ total \in Nat \ {0} /\ allocated \in Nat /\ N \in Nat \ {0}
      BY <1>3 DEF SortOrder, ArgsInv, total
    <2>2. pool * total <= allocated * total + N * (total - 1)
      BY <1>3 DEF SortOrder, SumInv, total
    <2>3. pool < allocated + N
      BY <2>1, <2>2, LostLessThanOneEach
    <2>4. allocated <= pool /\ (pool - allocated) % U64 = pool - allocated
      <3>1. allocated <= pool /\ pool - allocated \in Nat /\ pool - allocated < U64
        BY <2>1 DEF SumInv, ArgsInv
      <3> QED BY <3>1, SmallModulo
    <2> QED BY <1>3, <2>1, <2>3, <2>4 DEF SortOrder, SumInv, args
  <1>4. CASE TopUp
    BY <1>4 DEF TopUp, SumInv, args, ArgsInv
  <1>5. CASE Return
    BY <1>5 DEF Return, SumInv, args, ArgsInv
  <1>6. CASE UNCHANGED vars
    BY <1>6 DEF vars, SumInv, total
  <1> QED BY <1>1, <1>2, <1>3, <1>4, <1>5, <1>6 DEF Next

\* No u64 operation of the split wraps or underflows, for any pool and votes.
THEOREM ArithmeticIsExact == Spec => []NoWrap
  <1>1. Spec => []TypeInv
    BY InitType, StepType, PTL DEF Spec
  <1>2. Spec => []SumInv
    BY <1>1, InitSum, StepSum, PTL DEF Spec
  <1>3. SumInv => NoWrap
    BY DEF SumInv, NoWrap
  <1> QED BY <1>2, <1>3, PTL

\* Every stroop of the pool is handed out: there are more entries than stroops
\* left over by rounding down, so one pass of the second loop ends with none.
THEOREM PoolIsHandedOut == Spec => []LeftoverFits
  <1>1. Spec => []TypeInv
    BY InitType, StepType, PTL DEF Spec
  <1>2. Spec => []SumInv
    BY <1>1, InitSum, StepSum, PTL DEF Spec
  <1>3. TypeInv /\ SumInv => LeftoverFits
    BY SizesAssumption
    DEF TypeInv, TypeOK, ArgsInv, SumInv, LeftoverFits, SizesAssumption
  <1> QED BY <1>1, <1>2, <1>3, PTL

----------------------------------------------------------------------------
(* The loops compute the allocation that PayoutAllocation defines.         *)

Q == Quotas(pool, votes, total)

R == Remainders(pool, votes, total)

\* The sum that execute_payouts passes is the sum of the votes.
LEMMA VotesAddUp ==
  ASSUME ArgsInv
  PROVE  /\ votes \in [Entries -> Nat]
         /\ total = SumFunction(votes)
         /\ total \in Nat /\ pool \in Nat \ {0}
         /\ Entries \in SUBSET Int /\ IsFiniteSet(Entries)
  <1>1. N \in Nat /\ MaxPool \in Nat /\ MaxTotal \in Nat
    BY SizesAssumption DEF SizesAssumption
  <1>2. votes \in [Entries -> Nat]
    <2>1. \A k \in Entries : votes[k] \in Nat
      BY VotesType
    <2> QED BY <2>1 DEF votes
  <1>3. \A k \in 0 .. N : cum[k] \in Int
    BY <1>1 DEF ArgsInv
  <1>4. \A k \in 1 .. N : votes[k] = cum[k] - cum[k - 1]
    BY DEF votes, Entries
  <1>5. SumFunctionOnSet(votes, 1 .. N) = cum[N] - cum[0]
    BY <1>1, <1>3, <1>4, SumTelescopes
  <1>6. SumFunction(votes) = SumFunctionOnSet(votes, 1 .. N)
    BY <1>2 DEF SumFunction, Entries
  <1>7. total = SumFunction(votes)
    BY <1>1, <1>3, <1>5, <1>6 DEF ArgsInv, total
  <1>8. Entries \in SUBSET Int /\ IsFiniteSet(Entries)
    BY <1>1, FS_Interval DEF Entries
  <1> QED BY <1>1, <1>2, <1>7, <1>8 DEF ArgsInv, total

LEMMA QuotasType ==
  ASSUME ArgsInv, total > 0
  PROVE  /\ Q \in [Entries -> Nat] /\ R \in [Entries -> Int]
         /\ \A k \in Entries : /\ Q[k] = Quota(pool, votes[k], total)
                               /\ R[k] = Remainder(pool, votes[k], total)
                               /\ R[k] \in Nat
  <1>1. votes \in [Entries -> Nat] /\ total \in Nat \ {0} /\ pool \in Nat
    BY VotesAddUp
  <1>2. ASSUME NEW k \in Entries
        PROVE  Quota(pool, votes[k], total) \in Nat /\ Remainder(pool, votes[k], total) \in Nat
    <2> DEFINE v == votes[k]  t == total
    <2>1. v \in Nat /\ t \in Nat \ {0} /\ pool \in Nat
      BY <1>1
    <2> HIDE DEF v, t
    <2>2. Quota(pool, v, t) \in Nat /\ Remainder(pool, v, t) \in 0 .. (t - 1)
      BY <2>1, QuotaRemainder
    <2>3. Remainder(pool, v, t) \in Nat
      BY <2>2
    <2> QED BY <2>2, <2>3 DEF v, t
  <1>3. DOMAIN votes = Entries
    BY <1>1
  <1> QED BY <1>2, <1>3 DEF Q, R, Quotas, Remainders

\* Up to where the first loop is, quotas and remainders; up to where the second
\* is, in the order of the remainders, one stroop more; in the end, what
\* PayoutAllocation says.
LoopsInv ==
  /\ pc = "split" =>
       /\ allocated = SumFunctionOnSet(Q, 1 .. i)
       /\ \A k \in 1 .. i : amounts[k] = Q[k] /\ remainders[k] = R[k]
       /\ total = 0 => i = 0 /\ amounts = Zeros
  /\ pc = "top-up" =>
       /\ total > 0
       /\ allocated = SumFunctionOnSet(Q, Entries)
       /\ order \in [Entries -> Entries]
       /\ \A a \in Entries : Place(R, order[a]) = a - 1
       /\ \A k \in Entries : \E a \in Entries : order[a] = k
       /\ \A a \in Entries :
            amounts[order[a]] = IF a <= i THEN Q[order[a]] + 1 ELSE Q[order[a]]
  /\ pc = "done" => amounts = AllocatedAmounts(pool, votes)

LEMMA InitLoops == Init => LoopsInv
  <1> SUFFICES ASSUME Init PROVE LoopsInv OBVIOUS
  <1>1. 1 .. i = {}
    BY DEF Init
  <1>2. SumFunctionOnSet(Q, 1 .. i) = 0
    BY <1>1, SumEmpty
  <1> QED BY <1>1, <1>2 DEF Init, LoopsInv

\* One more quota of the first loop.
LEMMA SplitKeepsLoops ==
  ASSUME TypeInv, SumInv, LoopsInv, Split
  PROVE  LoopsInv'
  <1> USE SizesAssumption DEF SizesAssumption
  <1> DEFINE n == i + 1
             q == Quota(pool, votes[n], total)
             r == Remainder(pool, votes[n], total)
  <1>1. /\ pc = "split" /\ pc' = "split" /\ total > 0 /\ UNCHANGED <<pool, cum>>
        /\ i \in Nat /\ remainders' = [remainders EXCEPT ![n] = r]
    BY DEF Split, args, TypeInv, TypeOK
  <1>2. /\ n \in Entries /\ i' = n /\ q \in Nat
        /\ amounts' = [amounts EXCEPT ![n] = q]
        /\ allocated' = allocated + q
    BY SplitIsExact
  <1>3. Q \in [Entries -> Nat] /\ Q[n] = q /\ R[n] = r
    BY <1>1, <1>2, QuotasType DEF TypeInv
  <1>4. Q' = Q /\ R' = R /\ total' = total
    BY <1>1 DEF Q, R, votes, total
  <1> HIDE DEF q, r
  <1>5. SumFunctionOnSet(Q, 1 .. n) = q + SumFunctionOnSet(Q, 1 .. i)
    <2> DEFINE S == 1 .. n
    <2>1. IsFiniteSet(S) /\ n \in S /\ S \ {n} = 1 .. i
      <3>1. n \in Int /\ 1 \in Int
        BY <1>1
      <3>2. IsFiniteSet(S)
        BY <3>1, FS_Interval
      <3>3. n \in S /\ S \ {n} = 1 .. i
        BY <1>1
      <3> QED BY <3>2, <3>3
    <2>2. \A k \in S : Q[k] \in Int
      BY <1>2, <1>3 DEF Entries
    <2> HIDE DEF S, n
    <2>3. SumFunctionOnSet(Q, S) = Q[n] + SumFunctionOnSet(Q, S \ {n})
      BY <2>1, <2>2, SumRemove
    <2> QED BY <1>3, <2>1, <2>3 DEF S
  <1>6. allocated' = SumFunctionOnSet(Q, 1 .. n)
    <2>1. allocated = SumFunctionOnSet(Q, 1 .. i)
      BY <1>1 DEF LoopsInv
    <2>2. q \in Nat /\ allocated \in Nat
      <3>1. allocated \in 0 .. (U64 - 1)
        BY DEF TypeInv, TypeOK
      <3> QED BY <1>2, <3>1
    <2> QED BY <1>2, <1>5, <2>1, <2>2
  <1>7. \A k \in 1 .. n : amounts'[k] = Q[k] /\ remainders'[k] = R[k]
    <2> SUFFICES ASSUME NEW k \in 1 .. n PROVE amounts'[k] = Q[k] /\ remainders'[k] = R[k]
      OBVIOUS
    <2>1. amounts \in [Entries -> 0 .. (U64 - 1)] /\ remainders \in [Entries -> Nat]
      BY DEF TypeInv, TypeOK
    <2>2. k = n \/ k \in 1 .. i
      BY <1>1
    <2>3. k \in Entries
      BY <1>1, <1>2 DEF Entries
    <2>4. k \in 1 .. i => amounts[k] = Q[k] /\ remainders[k] = R[k] /\ k # n
      BY <1>1 DEF LoopsInv
    <2> QED BY <1>1, <1>2, <1>3, <2>1, <2>2, <2>3, <2>4
  <1> QED BY <1>1, <1>2, <1>4, <1>6, <1>7 DEF LoopsInv

\* The sort puts the entry of the k-th largest remainder at position k.
LEMMA SortKeepsLoops ==
  ASSUME TypeInv, LoopsInv, SortOrder
  PROVE  LoopsInv'
  <1>1. /\ pc = "split" /\ pc' = "top-up" /\ total > 0 /\ i = N /\ i' = 0
        /\ order' \in [Entries -> Entries]
        /\ \A a, b \in Entries : a < b => Before(remainders, order'[a], order'[b])
        /\ UNCHANGED <<pool, cum, amounts, remainders, allocated>>
    BY DEF SortOrder, args
  <1>2. N \in Nat /\ 1 .. N = Entries
    BY SizesAssumption DEF SizesAssumption, Entries
  <1>3. Q \in [Entries -> Nat] /\ R \in [Entries -> Int]
    BY <1>1, QuotasType DEF TypeInv
  <1>4. remainders = R /\ \A k \in Entries : amounts[k] = Q[k]
    <2>1. \A k \in Entries : amounts[k] = Q[k] /\ remainders[k] = R[k]
      BY <1>1, <1>2 DEF LoopsInv
    <2>2. remainders \in [Entries -> Nat]
      BY DEF TypeInv, TypeOK
    <2> QED BY <1>3, <2>1, <2>2
  <1>5. Q' = Q /\ R' = R /\ total' = total
    BY <1>1 DEF Q, R, votes, total
  <1>6. /\ \A a \in Entries : Place(R, order'[a]) = a - 1
        /\ \A k \in Entries : \E a \in Entries : order'[a] = k
    <2>1. /\ N \in Nat /\ R \in [1 .. N -> Int] /\ order' \in [1 .. N -> 1 .. N]
          /\ \A a, b \in 1 .. N : a < b => Before(R, order'[a], order'[b])
      BY <1>1, <1>2, <1>3, <1>4
    <2> DEFINE o == order'
    <2> HIDE DEF o
    <2>2. /\ N \in Nat /\ R \in [1 .. N -> Int] /\ o \in [1 .. N -> 1 .. N]
          /\ \A a, b \in 1 .. N : a < b => Before(R, o[a], o[b])
      BY <2>1 DEF o
    <2>3. /\ \A a \in 1 .. N : Place(R, o[a]) = a - 1
          /\ \A k \in 1 .. N : \E a \in 1 .. N : o[a] = k
      BY <2>2, SortedPlaces
    <2> QED BY <1>2, <2>3 DEF o
  <1>7. allocated = SumFunctionOnSet(Q, Entries)
    BY <1>1, <1>2 DEF LoopsInv
  <1>8. \A a \in Entries : amounts'[order'[a]] = Q[order'[a]] /\ ~(a <= i')
    BY <1>1, <1>2, <1>4
  <1> QED BY <1>1, <1>5, <1>6, <1>7, <1>8 DEF LoopsInv

\* The second loop gives one stroop more to the entry it is at.
LEMMA TopUpKeepsLoops ==
  ASSUME TypeInv, SumInv, LoopsInv, TopUp
  PROVE  LoopsInv'
  <1> USE SizesAssumption DEF SizesAssumption
  <1> DEFINE n == i + 1
             e == order[n]
  <1>1. /\ pc = "top-up" /\ pc' = "top-up" /\ leftover > 0
        /\ i \in Nat /\ i' = n /\ n \in Entries
        /\ UNCHANGED <<pool, cum, allocated, remainders, order>>
        /\ amounts' = [amounts EXCEPT ![e] = (amounts[e] + 1) % U64]
    BY SizesAssumption DEF TopUp, args, TypeInv, TypeOK, Entries, SizesAssumption
  <1>2. /\ total > 0 /\ order \in [Entries -> Entries]
        /\ allocated = SumFunctionOnSet(Q, Entries)
        /\ \A a \in Entries : Place(R, order[a]) = a - 1
        /\ \A a \in Entries :
             amounts[order[a]] = IF a <= i THEN Q[order[a]] + 1 ELSE Q[order[a]]
    BY <1>1 DEF LoopsInv
  <1>3. Q \in [Entries -> Nat] /\ Q' = Q /\ R' = R /\ total' = total
    BY <1>1, <1>2, QuotasType DEF TypeInv, Q, R, votes, total
  <1>4. e \in Entries /\ amounts[e] = Q[e] /\ Q[e] \in Nat
    BY <1>1, <1>2, <1>3
  <1>5. (amounts[e] + 1) % U64 = Q[e] + 1
    <2>1. Q[e] <= allocated
      <3>1. IsFiniteSet(Entries) /\ \A k \in Entries : Q[k] \in Nat
        BY <1>3, VotesAddUp DEF TypeInv
      <3> HIDE DEF e
      <3>2. Q[e] <= SumFunctionOnSet(Q, Entries)
        BY <1>4, <3>1, SumBoundsTerm
      <3> QED BY <1>2, <3>2
    <2>2. leftover = pool - allocated - i /\ pool \in Nat /\ allocated \in Nat /\ pool < U64
      BY <1>1, SizesAssumption DEF SumInv, TypeInv, TypeOK, ArgsInv, SizesAssumption
    <2> HIDE DEF e
    <2>3. Q[e] + 1 < U64 /\ Q[e] + 1 \in Nat
      BY <1>1, <1>4, <2>1, <2>2
    <2> QED BY <1>4, <2>3, SmallModulo
  <1>6. ASSUME NEW a \in Entries
        PROVE  amounts'[order[a]] = IF a <= n THEN Q[order[a]] + 1 ELSE Q[order[a]]
    <2>1. amounts \in [Entries -> 0 .. (U64 - 1)] /\ order[a] \in Entries
      BY <1>2 DEF TypeInv, TypeOK
    <2>2. CASE a = n
      BY <1>1, <1>5, <2>1, <2>2
    <2>3. CASE a # n
      <3>1. order[a] # e
        <4>1. Place(R, order[a]) = a - 1 /\ Place(R, e) = n - 1
          BY <1>1, <1>2
        <4>2. a - 1 # n - 1
          BY <1>1, <2>3 DEF Entries
        <4> HIDE DEF e, n
        <4> QED BY <4>1, <4>2
      <3>2. amounts'[order[a]] = amounts[order[a]]
        BY <1>1, <2>1, <3>1
      <3>3. a <= n <=> a <= i
        BY <1>1, <2>3 DEF Entries
      <3> QED BY <1>2, <3>2, <3>3
    <2> QED BY <2>2, <2>3
  <1> QED BY <1>1, <1>2, <1>3, <1>6 DEF LoopsInv

\* When the second loop ends, the entries that got one stroop more are those
\* with the largest remainders, as many as there were stroops left over.
LEMMA ReturnKeepsLoops ==
  ASSUME TypeInv, SumInv, LoopsInv, Return
  PROVE  LoopsInv'
  <1>1. /\ pc = "top-up" /\ pc' = "done"
        /\ i = N \/ leftover = 0
        /\ UNCHANGED <<pool, cum, amounts>>
    BY DEF Return, args
  <1>2. /\ total > 0 /\ order \in [Entries -> Entries]
        /\ allocated = SumFunctionOnSet(Q, Entries)
        /\ \A a \in Entries : Place(R, order[a]) = a - 1
        /\ \A k \in Entries : \E a \in Entries : order[a] = k
        /\ \A a \in Entries :
             amounts[order[a]] = IF a <= i THEN Q[order[a]] + 1 ELSE Q[order[a]]
    BY <1>1, Zenon DEF LoopsInv
  <1>3. votes \in [Entries -> Nat] /\ total = SumFunction(votes)
    BY VotesAddUp DEF TypeInv
  <1>4. Q \in [Entries -> Nat]
    BY <1>2, QuotasType DEF TypeInv
  <1> DEFINE L == Leftover(pool, votes, total)
  <1>5. L = pool - allocated
    BY <1>2, <1>4 DEF Leftover, SumFunction, Q
  <1>6. i = L
    <2>1. leftover = pool - allocated - i /\ pool - allocated <= N
      BY <1>1 DEF SumInv
    <2>2. pool \in Int /\ allocated \in Int /\ i \in Int /\ N \in Int /\ leftover >= 0
      BY SizesAssumption DEF TypeInv, TypeOK, ArgsInv, SizesAssumption
    <2> HIDE DEF L
    <2> QED BY <1>1, <1>5, <2>1, <2>2
  <1>7. ASSUME NEW k \in Entries PROVE amounts[k] = Amounts(pool, votes, total)[k]
    <2>1. PICK a \in Entries : order[a] = k
      BY <1>2
    <2>2. amounts[k] = IF a <= i THEN Q[k] + 1 ELSE Q[k]
      BY <1>2, <2>1
    <2>3. Place(R, k) = a - 1
      BY <1>2, <2>1
    <2>4. a <= i <=> Place(R, k) < L
      <3>1. a \in Int /\ i \in Int
        BY DEF Entries, TypeInv, TypeOK
      <3> HIDE DEF L
      <3> QED BY <1>6, <2>3, <3>1
    <2>5. Amounts(pool, votes, total)[k] = IF Place(R, k) < L THEN Q[k] + 1 ELSE Q[k]
      BY <1>3, AmountsForm DEF Q, R
    <2> QED BY <2>2, <2>4, <2>5
  <1>8. amounts = Amounts(pool, votes, total)
    <2>1. DOMAIN Amounts(pool, votes, total) = Entries
      BY <1>3 DEF Amounts
    <2>2. Amounts(pool, votes, total) =
            [k \in DOMAIN Amounts(pool, votes, total) |-> Amounts(pool, votes, total)[k]]
      BY DEF Amounts
    <2>3. amounts = [k \in Entries |-> amounts[k]]
      BY DEF TypeInv, TypeOK
    <2> HIDE DEF L
    <2> QED BY <1>7, <2>1, <2>2, <2>3
  <1>9. AllocatedAmounts(pool, votes) = Amounts(pool, votes, total)
    <2>1. SumFunction(votes) # 0 /\ SumFunction(votes) = total
      BY <1>2, <1>3
    <2> QED BY <2>1 DEF AllocatedAmounts
  <1>10. AllocatedAmounts(pool, votes)' = AllocatedAmounts(pool, votes)
    BY <1>1 DEF votes
  <1> QED BY <1>1, <1>8, <1>9, <1>10 DEF LoopsInv

LEMMA StepLoops == TypeInv /\ SumInv /\ LoopsInv /\ [Next]_vars => LoopsInv'
  <1> SUFFICES ASSUME TypeInv, SumInv, LoopsInv, [Next]_vars PROVE LoopsInv' OBVIOUS
  <1>1. CASE NobodyVoted
    <2>1. /\ pc = "split" /\ total = 0 /\ pc' = "done" /\ amounts = Zeros
          /\ UNCHANGED <<pool, cum, amounts>>
      BY <1>1 DEF NobodyVoted, args, LoopsInv
    <2>2. votes \in [Entries -> Nat] /\ SumFunction(votes) = 0
      BY <2>1, VotesAddUp DEF TypeInv
    <2>3. AllocatedAmounts(pool, votes) = Zeros
      BY <2>2 DEF AllocatedAmounts, Zeros
    <2>4. AllocatedAmounts(pool, votes)' = AllocatedAmounts(pool, votes)
      BY <2>1 DEF votes
    <2> QED BY <2>1, <2>3, <2>4 DEF LoopsInv
  <1>2. CASE UNCHANGED vars
    BY <1>2 DEF vars, LoopsInv, Q, R, votes, total
  <1> QED
    BY <1>1, <1>2, SplitKeepsLoops, SortKeepsLoops, TopUpKeepsLoops, ReturnKeepsLoops
    DEF Next

LEMMA LoopsInvariant == Spec => [](TypeInv /\ LoopsInv)
  <1>1. Spec => []TypeInv
    BY InitType, StepType, PTL DEF Spec
  <1>2. Spec => []SumInv
    BY <1>1, InitSum, StepSum, PTL DEF Spec
  <1>3. Spec => []LoopsInv
    BY <1>1, <1>2, InitLoops, StepLoops, PTL DEF Spec
  <1> QED BY <1>1, <1>3, PTL

\* For any number of proposals, any votes and any pool the code can hold, the
\* two loops of allocate_stroops return the largest-remainder allocation.
THEOREM LoopsComputeTheAllocation == Spec => []ComputesTheAllocation
  <1>1. LoopsInv => ComputesTheAllocation
    BY DEF LoopsInv, ComputesTheAllocation
  <1> QED BY <1>1, LoopsInvariant, PTL

\* That allocation is fair: the whole pool, each share rounded down or up, whole
\* shares exactly, and never less for more votes.
THEOREM AllocationIsFair == Spec => []SplitIsFair
  <1>1. TypeInv /\ LoopsInv => SplitIsFair
    <2> SUFFICES ASSUME TypeInv, LoopsInv, pc = "done", total > 0 PROVE SplitIsFair
      BY DEF SplitIsFair
    <2>1. /\ votes \in [Entries -> Nat] /\ total = SumFunction(votes) /\ total \in Nat \ {0}
          /\ pool \in Nat /\ pool > 0 /\ Entries \in SUBSET Int /\ IsFiniteSet(Entries)
      BY VotesAddUp DEF TypeInv
    <2>2. amounts = Amounts(pool, votes, total)
      <3>1. SumFunction(votes) # 0 /\ SumFunction(votes) = total
        BY <2>1
      <3> QED BY <3>1 DEF LoopsInv, AllocatedAmounts
    <2>3. IsFairSplit(Amounts(pool, votes, total), pool, votes, total)
      BY <2>1, AmountsAreFair
    <2> QED BY <2>1, <2>2, <2>3 DEF SplitIsFair, IsFairSplit
  <1> QED BY <1>1, LoopsInvariant, PTL
=============================================================================
