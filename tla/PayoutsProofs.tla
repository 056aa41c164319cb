---------------------------- MODULE PayoutsProofs ----------------------------
(***************************************************************************)
(* Proofs about Payouts, for every set of requests, every number of        *)
(* proposals and every pool: how far concurrent settlements can go wrong.  *)
(***************************************************************************)
EXTENDS Payouts, CommonLemmas

\* Where the requests are and what they have sent; the amounts do not matter.
CtrlType ==
  /\ call \in [Execs \X Proposals -> CallStatus]
  /\ pc \in [Execs -> PcLabels]
  /\ next \in [Execs -> Proposals]
  /\ outcome \in [Execs -> RowStatus]
  /\ DOMAIN rows = Proposals
  /\ rows = [p \in Proposals |-> rows[p]]
  /\ \A h \in Execs : pc[h] = "recording" => outcome[h] # "none"

LEMMA ProposalsAreNumbers ==
  /\ Proposals \subseteq Nat
  /\ 0 \in Proposals
  /\ \A p \in Proposals, q \in Nat : q < p => q \in Proposals
  BY ContractAssumption DEF ContractAssumption, Proposals, Choices

LEMMA InitCtrl == Init => CtrlType
  BY ProposalsAreNumbers
  DEF Init, CtrlType, CallStatus, PcLabels, RowStatus

\* What the steps of the loop do, with a row written in the last one.
LEMMA RowIsNew ==
  ASSUME CtrlType, NEW h \in Execs, pc[h] = "recording", NEW a
  PROVE  [amount |-> a, status |-> outcome[h]] # NoRow
  <1>1. outcome[h] # "none"
    BY DEF CtrlType
  <1>2. [amount |-> a, status |-> outcome[h]].status # NoRow.status
    BY <1>1 DEF NoRow
  <1> QED BY <1>2

LEMMA RecordStep ==
  ASSUME CtrlType, NEW h \in Execs, Record(h)
  PROVE  /\ pc[h] = "recording"
         /\ UNCHANGED <<chain, call, dbPhase, shares, outcome>>
         /\ \/ /\ Recorded(next[h])
               /\ pc' = [pc EXCEPT ![h] = "failed"]
               /\ UNCHANGED <<rows, next>>
            \/ /\ ~Recorded(next[h])
               /\ rows' = [rows EXCEPT ![next[h]] =
                             [amount |-> shares[h][next[h]], status |-> outcome[h]]]
               /\ \/ /\ next[h] + 1 \in Proposals
                     /\ next' = [next EXCEPT ![h] = next[h] + 1]
                     /\ pc' = [pc EXCEPT ![h] = "settling"]
                  \/ /\ next' = next
                     /\ pc' = [pc EXCEPT ![h] = "done"]
  <1>1. next[h] \in Proposals /\ next[h] \in Nat /\ NumChoices \in Nat
    BY ProposalsAreNumbers, ContractAssumption DEF CtrlType, ContractAssumption
  <1>2. next[h] < NumChoices - 1 => next[h] + 1 \in Proposals
    BY <1>1 DEF Proposals, Choices
  <1> QED BY <1>2 DEF Record, Insert, LoopOn, RowOf, Goto

LEMMA StepCtrl == CtrlType /\ [Next]_vars => CtrlType'
  <1> SUFFICES ASSUME CtrlType, [Next]_vars PROVE CtrlType' OBVIOUS
  <1> USE DEF CtrlType, Goto, PcLabels
  <1>1. ASSUME NEW h \in Execs, \/ CheckRound(h)
                                \/ CheckAlready(h)
                                \/ ReadTally(h)
                                \/ Fail(h)
                                \/ HangUp(h)
        PROVE  CtrlType'
    BY <1>1 DEF CheckRound, CheckAlready, ReadTally, Fail, HangUp
  <1>2. ASSUME NEW h \in Execs, SkipZero(h) PROVE CtrlType'
    BY <1>2 DEF SkipZero, RowStatus
  <1>3. ASSUME NEW h \in Execs, SendPayment(h) PROVE CtrlType'
    BY <1>3 DEF SendPayment, Spawn, CallStatus
  <1>4. ASSUME NEW h \in Execs, NEW p \in Proposals, LandPayment(h, p) PROVE CtrlType'
    BY <1>4 DEF LandPayment, Land, CallStatus
  <1>5. ASSUME NEW h \in Execs, PaymentAnswered(h) PROVE CtrlType'
    BY <1>5 DEF PaymentAnswered, RowStatus
  <1>6. ASSUME NEW h \in Execs, Record(h) PROVE CtrlType'
    BY <1>6, RecordStep
  <1>7. CASE Environment
    BY <1>7 DEF Environment
  <1>8. CASE UNCHANGED vars
    BY <1>8 DEF vars
  <1> QED
    BY <1>1, <1>2, <1>3, <1>4, <1>5, <1>6, <1>7, <1>8 DEF Next, Execute

----------------------------------------------------------------------------
(* One request alone gets past the first proposal.                         *)

\* Behind a request, every proposal has its row; only the request that wrote
\* the first row moves on; and no request pays ahead of where it is.
LoopInv ==
  /\ \A h \in Execs, q \in Proposals : q < next[h] => Recorded(q)
  /\ \A h1, h2 \in Execs : next[h1] > 0 /\ next[h2] > 0 => h1 = h2
  /\ \A h \in Execs, p \in Proposals : call[<<h, p>>] # "none" => p <= next[h]
  /\ RowsArePrefix

LEMMA InitLoop == Init => LoopInv
  BY ProposalsAreNumbers DEF Init, LoopInv, RowsArePrefix, Recorded, NoRow

LEMMA StepLoop == CtrlType /\ LoopInv /\ [Next]_vars => LoopInv'
  <1> SUFFICES ASSUME CtrlType, LoopInv, [Next]_vars PROVE LoopInv' OBVIOUS
  <1>1. ASSUME UNCHANGED <<call, rows, next>> PROVE LoopInv'
    BY <1>1 DEF LoopInv, RowsArePrefix, Recorded
  <1>2. ASSUME NEW h \in Execs, SendPayment(h) PROVE LoopInv'
    <2>1. UNCHANGED <<rows, next>> /\ call' = [call EXCEPT ![<<h, next[h]>>] = "running"]
      BY <1>2 DEF SendPayment, Spawn
    <2>2. \A g \in Execs, p \in Proposals : call'[<<g, p>>] # "none" => p <= next'[g]
      BY <2>1, ProposalsAreNumbers DEF CtrlType, LoopInv
    <2> QED BY <2>1, <2>2 DEF LoopInv, RowsArePrefix, Recorded
  <1>3. ASSUME NEW h \in Execs, NEW p \in Proposals, LandPayment(h, p) PROVE LoopInv'
    <2>1. /\ UNCHANGED <<rows, next>>
          /\ call[<<h, p>>] # "none"
          /\ \A k \in Execs \X Proposals : k # <<h, p>> => call'[k] = call[k]
      BY <1>3 DEF LandPayment, Land, CtrlType
    <2>2. \A g \in Execs, q \in Proposals : call'[<<g, q>>] # "none" => call[<<g, q>>] # "none"
      BY <2>1
    <2> QED BY <2>1, <2>2 DEF LoopInv, RowsArePrefix, Recorded
  <1>4. ASSUME NEW h \in Execs, Record(h), ~Recorded(next[h]) PROVE LoopInv'
    <2> DEFINE n == next[h]
               row == [amount |-> shares[h][n], status |-> outcome[h]]
    <2>1. n \in Proposals /\ n \in Nat
      BY ProposalsAreNumbers DEF CtrlType
    <2>2. rows' = [rows EXCEPT ![n] = row] /\ row # NoRow /\ call' = call
      BY <1>4, RowIsNew, RecordStep
    <2>3. \A q \in Proposals : Recorded(q)' <=> Recorded(q) \/ q = n
      <3> HIDE DEF row
      <3> QED BY <2>1, <2>2 DEF Recorded, CtrlType
    <2>4. \/ next' = next
          \/ n + 1 \in Proposals /\ next' = [next EXCEPT ![h] = n + 1]
      BY <1>4, RecordStep
    <2>5. \A g \in Execs : g # h => next'[g] = next[g]
      BY <2>4 DEF CtrlType
    <2>6. \A g \in Execs : next'[g] > 0 => next[g] > 0 \/ g = h
      BY <2>5
    <2>7. n = 0 => \A g \in Execs : ~(next[g] > 0)
      BY <1>4, ProposalsAreNumbers DEF LoopInv
    <2>8. next'[h] >= n /\ next'[h] <= n + 1 /\ next'[h] \in Nat
      BY <2>1, <2>4 DEF CtrlType
    <2>9. \A g \in Execs, q \in Proposals : q < next'[g] => Recorded(q)'
      <3> SUFFICES ASSUME NEW g \in Execs, NEW q \in Proposals, q < next'[g]
                   PROVE  Recorded(q)'
        OBVIOUS
      <3>1. CASE g = h
        <4>1. q < n \/ q = n
          BY <3>1, <2>1, <2>8, ProposalsAreNumbers
        <4> QED BY <2>3, <4>1 DEF LoopInv
      <3>2. CASE g # h
        BY <2>3, <2>5, <3>2 DEF LoopInv
      <3> QED BY <3>1, <3>2
    <2>10. \A g1, g2 \in Execs : next'[g1] > 0 /\ next'[g2] > 0 => g1 = g2
      <3> SUFFICES ASSUME NEW g1 \in Execs, NEW g2 \in Execs, next'[g1] > 0, next'[g2] > 0
                   PROVE  g1 = g2
        OBVIOUS
      <3>1. CASE n = 0
        BY <3>1, <2>6, <2>7
      <3>2. CASE n > 0
        BY <3>2, <2>6 DEF LoopInv
      <3> QED BY <2>1, <3>1, <3>2
    <2>11. \A g \in Execs, p \in Proposals : call'[<<g, p>>] # "none" => p <= next'[g]
      <3> SUFFICES ASSUME NEW g \in Execs, NEW p \in Proposals, call[<<g, p>>] # "none"
                   PROVE  p <= next'[g]
        BY <2>2
      <3>1. p <= next[g] /\ p \in Nat
        BY ProposalsAreNumbers DEF LoopInv
      <3> QED BY <2>1, <2>5, <2>8, <3>1
    <2>12. RowsArePrefix'
      <3> SUFFICES ASSUME NEW p \in Proposals, NEW q \in Proposals, q < p, Recorded(p)'
                   PROVE  Recorded(q)'
        BY DEF RowsArePrefix
      <3>1. CASE Recorded(p)
        BY <2>3, <3>1 DEF LoopInv, RowsArePrefix
      <3>2. CASE p = n
        BY <2>3, <3>2 DEF LoopInv
      <3> QED BY <2>3, <3>1, <3>2
    <2> QED BY <2>9, <2>10, <2>11, <2>12 DEF LoopInv
  <1>5. ASSUME NEW h \in Execs, Record(h), Recorded(next[h]) PROVE LoopInv'
    BY <1>1, <1>5, RecordStep
  <1>6. ASSUME NEW h \in Execs, \/ CheckRound(h)
                                \/ CheckAlready(h)
                                \/ ReadTally(h)
                                \/ SkipZero(h)
                                \/ PaymentAnswered(h)
                                \/ Fail(h)
                                \/ HangUp(h)
        PROVE  LoopInv'
    BY <1>1, <1>6
    DEF CheckRound, CheckAlready, ReadTally, SkipZero, PaymentAnswered, Fail, HangUp
  <1>7. CASE Environment
    BY <1>1, <1>7 DEF Environment
  <1>8. CASE UNCHANGED vars
    BY <1>1, <1>8 DEF vars
  <1> QED
    BY <1>2, <1>3, <1>4, <1>5, <1>6, <1>7, <1>8 DEF Next, Execute

LEMMA LoopInvariant == Spec => [](CtrlType /\ LoopInv)
  <1>1. Spec => []CtrlType
    BY InitCtrl, StepCtrl, PTL DEF Spec
  <1>2. Spec => []LoopInv
    BY <1>1, InitLoop, StepLoop, PTL DEF Spec
  <1> QED BY <1>1, <1>2, PTL

\* Concurrent and repeated settlements can pay the first proposal more than
\* once, but never a later one.
THEOREM OnlyTheFirstIsPaidTwice == Spec => []LaterProposalsPaidOnce
  <1>1. CtrlType /\ LoopInv => LaterProposalsPaidOnce
    <2> SUFFICES ASSUME CtrlType, LoopInv, NEW p \in Proposals \ {0},
                        NEW h1 \in Execs, NEW h2 \in Execs, Paid(h1, p), Paid(h2, p)
                 PROVE  h1 = h2
      BY DEF LaterProposalsPaidOnce
    <2>1. p <= next[h1] /\ p <= next[h2]
      BY DEF Paid, LoopInv
    <2>2. p \in Nat /\ p > 0 /\ next[h1] \in Nat /\ next[h2] \in Nat
      BY ProposalsAreNumbers DEF CtrlType
    <2>3. next[h1] > 0 /\ next[h2] > 0
      BY <2>1, <2>2
    <2> QED BY <2>3 DEF LoopInv
  <1> QED BY <1>1, LoopInvariant, PTL

\* The payouts table is filled in the order of the proposals, by whichever
\* requests: what is missing after a failure is a tail.
THEOREM SettledPrefix == Spec => []RowsArePrefix
  <1>1. LoopInv => RowsArePrefix
    BY DEF LoopInv
  <1> QED BY <1>1, LoopInvariant, PTL

----------------------------------------------------------------------------
(* All requests pay and record shares of one allocation, that of the final *)
(* tally.                                                                  *)

Final == AllocatedAmounts(Pool, Tally)

\* Behind the first check the round is finalized on the chain, so that the tally
\* a request has read, and what it paid and recorded of it, is the final one.
FinalInv ==
  /\ MirrorInv
  /\ shares = [h \in Execs |-> shares[h]]
  /\ \A h \in Execs : InFlight(h) => chainPhase = "Finalized"
  /\ \A h \in Execs : pc[h] \in {"settling", "paying", "recording"} => shares[h] = Final
  /\ \A h \in Execs, p \in Proposals :
       call[<<h, p>>] # "none" =>
         chainPhase = "Finalized" /\ shares[h] = Final /\ pc[h] # "reading"
  /\ \A h \in Execs : pc[h] \in {"new", "checking"} =>
       \A p \in Proposals : call[<<h, p>>] = "none"
  /\ \A p \in Proposals : Recorded(p) => chainPhase = "Finalized" /\ rows[p].amount = Final[p]

LEMMA InitFinal == Init => FinalInv
  BY MirrorStarts DEF Init, FinalInv, InFlight, Recorded, NoRow

\* No step of a request moves the round or its row.
LEMMA StepMirror == [Next]_vars => [MirrorNext]_<<chain, dbPhase>>
  <1> SUFFICES ASSUME [Next]_vars PROVE [MirrorNext]_<<chain, dbPhase>> OBVIOUS
  <1>1. ASSUME NEW h \in Execs, \/ Execute(h)
                                \/ Fail(h)
                                \/ HangUp(h)
        PROVE  UNCHANGED <<chain, dbPhase>>
    BY <1>1
    DEF Execute, CheckRound, CheckAlready, ReadTally, SkipZero, SendPayment,
        PaymentAnswered, Record, Fail, HangUp
  <1>2. ASSUME NEW h \in Execs, NEW p \in Proposals, LandPayment(h, p)
        PROVE  UNCHANGED <<chain, dbPhase>>
    BY <1>2 DEF LandPayment, Land
  <1>3. CASE Environment
    BY <1>3 DEF Environment, MirrorNext
  <1>4. CASE UNCHANGED vars
    BY <1>4 DEF vars
  <1> QED BY <1>1, <1>2, <1>3, <1>4 DEF Next

LEMMA StepFinal == CtrlType /\ FinalInv /\ [Next]_vars => FinalInv'
  <1> SUFFICES ASSUME CtrlType, FinalInv, [Next]_vars PROVE FinalInv' OBVIOUS
  <1> USE DEF CtrlType, Goto
  <1>1. /\ chainPhase = "Finalized" => chainPhase' = "Finalized" /\ Final' = Final
        /\ MirrorInv'
    <2>1. MirrorInv /\ ChainTypeOK
      BY DEF FinalInv, MirrorInv
    <2>2. MirrorInv'
      BY <2>1, StepMirror, MirrorMoves
    <2>3. chainPhase = "Finalized" => UNCHANGED <<chainPhase, ballots>>
      BY <2>1, StepMirror, RoundGoesForward
    <2>4. ballots' = ballots => Final' = Final
      BY DEF Final, Tally
    <2> QED BY <2>2, <2>3, <2>4
  <1>2. CASE Environment
    <2>1. UNCHANGED <<call, rows, pc, shares>>
      BY <1>2 DEF Environment
    <2> QED BY <1>1, <2>1 DEF FinalInv, InFlight, Recorded
  <1>3. ASSUME NEW h \in Execs, CheckRound(h) PROVE FinalInv'
    BY <1>1, <1>3, RowTellsPhase DEF CheckRound, FinalInv, InFlight, Recorded, chain
  <1>4. ASSUME NEW h \in Execs, CheckAlready(h) PROVE FinalInv'
    BY <1>1, <1>4 DEF CheckAlready, FinalInv, InFlight, Recorded, chain
  <1>5. ASSUME NEW h \in Execs, ReadTally(h) PROVE FinalInv'
    <2>1. UNCHANGED <<chain, call, dbPhase, rows>> /\ pc[h] = "reading"
      BY <1>5 DEF ReadTally
    <2>2. pc' = [pc EXCEPT ![h] = "settling"] /\ shares' = [shares EXCEPT ![h] = Final]
      BY <1>5 DEF ReadTally, Final
    <2>3. \A p \in Proposals : call[<<h, p>>] = "none"
      BY <2>1 DEF FinalInv
    <2> QED BY <1>1, <2>1, <2>2, <2>3 DEF FinalInv, InFlight, Recorded, chain
  <1>6. ASSUME NEW h \in Execs, SkipZero(h) \/ PaymentAnswered(h) PROVE FinalInv'
    BY <1>1, <1>6 DEF SkipZero, PaymentAnswered, FinalInv, InFlight, Recorded, chain
  <1>7. ASSUME NEW h \in Execs, SendPayment(h) PROVE FinalInv'
    <2>1. UNCHANGED <<chain, dbPhase, rows, shares>> /\ pc[h] = "settling"
      BY <1>7 DEF SendPayment
    <2>2. /\ pc' = [pc EXCEPT ![h] = "paying"]
          /\ call' = [call EXCEPT ![<<h, next[h]>>] = "running"]
      BY <1>7 DEF SendPayment, Spawn
    <2>3. \A g \in Execs, p \in Proposals : g # h => call'[<<g, p>>] = call[<<g, p>>]
      BY <2>2
    <2> QED BY <1>1, <2>1, <2>2, <2>3 DEF FinalInv, InFlight, Recorded, chain
  <1>8. ASSUME NEW h \in Execs, NEW p \in Proposals, LandPayment(h, p) PROVE FinalInv'
    <2>1. UNCHANGED <<chain, dbPhase, rows, pc, shares>> /\ call[<<h, p>>] # "none"
      BY <1>8 DEF LandPayment, Land
    <2>2. \A k \in Execs \X Proposals : k # <<h, p>> => call'[k] = call[k]
      BY <1>8 DEF LandPayment, Land
    <2>3. \A g \in Execs, q \in Proposals : call'[<<g, q>>] # "none" => call[<<g, q>>] # "none"
      BY <2>1, <2>2
    <2>4. \A g \in Execs, q \in Proposals : call[<<g, q>>] = "none" => call'[<<g, q>>] = "none"
      BY <2>1, <2>2
    <2> QED BY <1>1, <2>1, <2>3, <2>4 DEF FinalInv, InFlight, Recorded, chain
  <1>9. ASSUME NEW h \in Execs, Record(h) PROVE FinalInv'
    <2>1. UNCHANGED <<chain, call, dbPhase, shares>> /\ pc[h] = "recording"
      BY <1>9, RecordStep
    <2>2. chainPhase = "Finalized" /\ shares[h] = Final
      BY <2>1 DEF FinalInv, InFlight
    <2>3. \A p \in Proposals : rows'[p] = rows[p] \/ rows'[p].amount = Final[p]
      BY <1>9, <2>2, RecordStep
    <2>4. \A p \in Proposals : Recorded(p)' => rows'[p].amount = Final[p]
      BY <2>3 DEF FinalInv, Recorded
    <2>5. \E label \in {"failed", "settling", "done"} : pc' = [pc EXCEPT ![h] = label]
      BY <1>9, RecordStep
    <2> QED BY <1>1, <2>1, <2>2, <2>4, <2>5 DEF FinalInv, InFlight, chain
  <1>10. ASSUME NEW h \in Execs, Fail(h) \/ HangUp(h) PROVE FinalInv'
    BY <1>1, <1>10 DEF Fail, HangUp, FinalInv, InFlight, Recorded, chain
  <1>11. CASE UNCHANGED vars
    BY <1>1, <1>11 DEF vars, FinalInv, InFlight, Recorded, chain
  <1> QED
    BY <1>2, <1>3, <1>4, <1>5, <1>6, <1>7, <1>8, <1>9, <1>10, <1>11 DEF Next, Execute

LEMMA FinalInvariant == Spec => []FinalInv
  <1>1. Spec => []CtrlType
    BY InitCtrl, StepCtrl, PTL DEF Spec
  <1> QED BY <1>1, InitFinal, StepFinal, PTL DEF Spec

\* Whatever mix of concurrent, failed and repeated requests made them, payments
\* and rows are shares of the allocation of the final tally.
THEOREM OneAllocation == Spec => []RecordedSharesAreFinal
  <1>1. FinalInv => RecordedSharesAreFinal
    BY DEF FinalInv, RecordedSharesAreFinal, Final, Paid
  <1> QED BY <1>1, FinalInvariant, PTL

----------------------------------------------------------------------------
(* The amounts are stroops, and the table never promises more than the     *)
(* pool.                                                                   *)

\* What allocate_stroops returns for the tally: a number of stroops for each
\* proposal, which add up to the pool unless nobody voted.
LEMMA FinalType ==
  ASSUME ChainTypeOK
  PROVE  /\ Final \in [Proposals -> Nat]
         /\ SumFunction(Final) \in {0, Pool}
         /\ BallotCount > 0 => SumFunction(Final) = Pool
  <1> DEFINE votes == Tally
  <1>1. votes \in [Choices -> Nat]
    BY TallyType
  <1>2. SumFunction(votes) = BallotCount /\ BallotCount \in Nat
    BY TallyCountsBallots
  <1> HIDE DEF votes
  <1>3. /\ AllocatedAmounts(Pool, votes) \in [Choices -> Nat]
        /\ SumFunction(AllocatedAmounts(Pool, votes)) = IF SumFunction(votes) = 0 THEN 0 ELSE Pool
    BY <1>1, AllocationSum, ChoicesAreFinite, PoolAssumption
  <1>4. Final = AllocatedAmounts(Pool, votes)
    BY DEF Final, votes
  <1> QED BY <1>2, <1>3, <1>4 DEF Proposals

\* The computed shares and the recorded amounts are stroops.
AmountsType ==
  /\ shares \in [Execs -> [Proposals -> Nat]]
  /\ rows \in [Proposals -> [amount : Nat, status : RowStatus]]

LEMMA InitAmounts == Init => AmountsType
  BY DEF Init, AmountsType, NoRow, RowStatus

LEMMA StepAmounts ==
  CtrlType /\ ChainTypeOK /\ AmountsType /\ [Next]_vars => AmountsType'
  <1> SUFFICES ASSUME CtrlType, ChainTypeOK, AmountsType, [Next]_vars PROVE AmountsType'
    OBVIOUS
  <1>1. ASSUME UNCHANGED <<rows, shares>> PROVE AmountsType'
    BY <1>1 DEF AmountsType
  <1>2. ASSUME NEW h \in Execs, ReadTally(h) PROVE AmountsType'
    <2>1. shares' = [shares EXCEPT ![h] = Final] /\ rows' = rows
      BY <1>2 DEF ReadTally, Final
    <2>2. Final \in [Proposals -> Nat]
      BY FinalType
    <2> QED BY <2>1, <2>2 DEF AmountsType
  <1>3. ASSUME NEW h \in Execs, Record(h) PROVE AmountsType'
    <2> DEFINE row == [amount |-> shares[h][next[h]], status |-> outcome[h]]
    <2>1. shares' = shares /\ (rows' = rows \/ rows' = [rows EXCEPT ![next[h]] = row])
      BY <1>3, RecordStep
    <2>2. row \in [amount : Nat, status : RowStatus]
      BY DEF AmountsType, CtrlType
    <2> HIDE DEF row
    <2> QED BY <2>1, <2>2 DEF AmountsType
  <1>4. ASSUME NEW h \in Execs, \/ CheckRound(h)
                                \/ CheckAlready(h)
                                \/ SkipZero(h)
                                \/ SendPayment(h)
                                \/ PaymentAnswered(h)
                                \/ Fail(h)
                                \/ HangUp(h)
        PROVE  AmountsType'
    BY <1>1, <1>4
    DEF CheckRound, CheckAlready, SkipZero, SendPayment, PaymentAnswered, Fail, HangUp
  <1>5. ASSUME NEW h \in Execs, NEW p \in Proposals, LandPayment(h, p) PROVE AmountsType'
    BY <1>1, <1>5 DEF LandPayment
  <1>6. CASE Environment \/ UNCHANGED vars
    BY <1>1, <1>6 DEF Environment, vars
  <1> QED
    BY <1>2, <1>3, <1>4, <1>5, <1>6 DEF Next, Execute

LEMMA AmountsInvariant == Spec => []AmountsType
  <1>1. FinalInv => ChainTypeOK
    BY DEF FinalInv, MirrorInv
  <1> QED
    BY <1>1, LoopInvariant, FinalInvariant, InitAmounts, StepAmounts, PTL DEF Spec

\* Every variable of POST /payouts/execute keeps its type, the loop stays within
\* the proposals, and no computed or recorded amount is negative.
THEOREM AmountsAreStroops == Spec => []TypeOK
  <1>1. CtrlType /\ FinalInv /\ AmountsType => TypeOK
    BY DEF CtrlType, FinalInv, MirrorInv, AmountsType, TypeOK
  <1> QED BY <1>1, LoopInvariant, FinalInvariant, AmountsInvariant, PTL

\* A proposal's recorded amount is its share, or nothing yet.
LEMMA PromisedWithinPool ==
  ASSUME FinalInv, AmountsType
  PROVE  RowsWithinPool
  <1> DEFINE f == [p \in Proposals |-> rows[p].amount]
             S == Proposals
             g == Final
             all == \A p \in Proposals : Recorded(p)
  <1>1. ChainTypeOK
    BY DEF FinalInv, MirrorInv
  <1>2. /\ g \in [Proposals -> Nat]
        /\ SumFunction(g) \in {0, Pool}
        /\ BallotCount > 0 => SumFunction(g) = Pool
    BY <1>1, FinalType
  <1>3. SumFunction(f) = SumFunctionOnSet(f, S)
    BY DEF SumFunction
  <1>4. SumFunction(g) = SumFunctionOnSet(g, S)
    BY <1>2 DEF SumFunction
  <1>5. IsFiniteSet(S)
    BY ChoicesAreFinite DEF Proposals
  <1>6. \A p \in S : f[p] \in Nat
    BY DEF AmountsType
  <1>7. \A p \in S : Recorded(p) => f[p] = g[p]
    BY DEF FinalInv
  <1>8. \A p \in S : ~Recorded(p) => f[p] = 0
    BY DEF Recorded, NoRow
  <1>9. RowsWithinPool <=> SumFunction(f) <= Pool /\ (all /\ BallotCount > 0 => SumFunction(f) = Pool)
    BY DEF RowsWithinPool
  <1> HIDE DEF f, g, S
  <1>10. \A p \in S : f[p] \in Int /\ g[p] \in Int /\ f[p] <= g[p]
    BY <1>2, <1>6, <1>7, <1>8 DEF S
  <1>11. SumFunctionOnSet(f, S) <= SumFunctionOnSet(g, S)
    BY ONLY <1>5, <1>10, SumCompare
  <1>12. ASSUME all PROVE SumFunctionOnSet(f, S) = SumFunctionOnSet(g, S)
    <2>1. \A p \in S : f[p] \in Int /\ f[p] = g[p]
      BY <1>7, <1>10, <1>12 DEF S
    <2> QED BY ONLY <1>5, <2>1, SumSame
  <1>13. SumFunctionOnSet(f, S) \in Int
    BY <1>5, <1>6, SumNat
  <1> HIDE DEF all
  <1> QED
    BY <1>2, <1>3, <1>4, <1>9, <1>11, <1>12, <1>13, PoolAssumption

\* Whatever requests wrote the payouts table, concurrently, again or in part, it
\* never promises more than the round's pool, and when it is complete and someone
\* voted it promises the whole pool, to the stroop.
THEOREM TableWithinPool == Spec => []RowsWithinPool
  BY PromisedWithinPool, FinalInvariant, AmountsInvariant, PTL

----------------------------------------------------------------------------
(* The table tells the truth about the payments, and the requests together *)
(* keep the promise of Settlement.                                         *)

InLoop == {"settling", "paying", "recording"}

\* What a request is about to record is what it knows of its payment.
KnowsItsPayment(h) ==
  /\ outcome[h] = "submitted" => call[<<h, next[h]>>] = "ok"
  /\ outcome[h] = "failed" => call[<<h, next[h]>>] # "none"
  /\ outcome[h] = "confirmed" => Final[next[h]] = 0

RowIsTrue(p) ==
  /\ Recorded(p) => rows[p].status # "none"
  /\ rows[p].status = "submitted" => \E h \in Execs : call[<<h, p>>] = "ok"
  /\ rows[p].status = "confirmed" => Final[p] = 0

\* Only proposals with a share are paid, and the request that is behind the
\* first proposal finds no row where it is.
TruthInv ==
  /\ \A h \in Execs : pc[h] \in {"new", "checking", "reading"} => next[h] = 0
  /\ \A h \in Execs : pc[h] \in InLoop /\ next[h] > 0 => ~Recorded(next[h])
  /\ \A h \in Execs : pc[h] = "paying" => call[<<h, next[h]>>] # "none"
  /\ \A h \in Execs : pc[h] = "recording" => KnowsItsPayment(h)
  /\ \A h \in Execs, p \in Proposals : call[<<h, p>>] # "none" => Final[p] > 0
  /\ \A p \in Proposals : RowIsTrue(p)

AllInv == CtrlType /\ LoopInv /\ FinalInv

LEMMA AllInvariant == Spec => []AllInv
  BY LoopInvariant, FinalInvariant, PTL DEF AllInv

\* The allocation is that of the final tally once there is anything to tell.
LEMMA FinalStays ==
  ASSUME AllInv, [Next]_vars, chainPhase = "Finalized"
  PROVE  Final' = Final
  <1>1. UNCHANGED <<chainPhase, ballots>>
    BY StepMirror, RoundGoesForward DEF AllInv, FinalInv, MirrorInv
  <1> QED BY <1>1 DEF Final, Tally

LEMMA InitTruth == Init => TruthInv
  BY DEF Init, TruthInv, RowIsTrue, Recorded, NoRow, InLoop

\* What the requests may be sure of holds until a row is written.
LEMMA TruthKept ==
  ASSUME AllInv, TruthInv, [Next]_vars, UNCHANGED <<rows, next>>,
         \A k \in Execs \X Proposals :
           /\ call[k] # "none" => call'[k] # "none"
           /\ call[k] = "ok" => call'[k] = "ok",
         \A h \in Execs, p \in Proposals :
           call'[<<h, p>>] # "none" => call[<<h, p>>] # "none" \/ Final'[p] > 0,
         \A h \in Execs :
           /\ pc'[h] \in {"new", "checking", "reading"} => pc[h] \in {"new", "checking", "reading"}
           /\ pc'[h] \in InLoop => pc[h] \in InLoop \/ pc[h] = "reading"
           /\ pc'[h] = "paying" => pc[h] = "paying" \/ call'[<<h, next[h]>>] # "none"
           /\ pc'[h] = "recording" =>
                \/ pc[h] = "recording" /\ outcome'[h] = outcome[h]
                \/ KnowsItsPayment(h)'
  PROVE  TruthInv'
  <1>1. /\ \A h \in Execs : InFlight(h) => Final' = Final
        /\ \A h \in Execs, p \in Proposals : call[<<h, p>>] # "none" => Final' = Final
        /\ \A p \in Proposals : Recorded(p) => Final' = Final
    BY FinalStays DEF AllInv, FinalInv
  <1>2. \A p \in Proposals : Recorded(p)' <=> Recorded(p)
    BY DEF Recorded
  <1>3. \A h \in Execs : next[h] \in Proposals
    BY DEF AllInv, CtrlType
  <1>4. \A p \in Proposals : rows[p].status # "none" => Recorded(p)
    BY DEF Recorded, NoRow
  <1>5. \A p \in Proposals : RowIsTrue(p)'
    BY <1>1, <1>2, <1>4 DEF TruthInv, RowIsTrue
  <1>6. \A h \in Execs : pc'[h] = "recording" => KnowsItsPayment(h)'
    <2> SUFFICES ASSUME NEW h \in Execs, pc[h] = "recording", outcome'[h] = outcome[h]
                 PROVE  KnowsItsPayment(h)'
      OBVIOUS
    <2>1. KnowsItsPayment(h) /\ Final' = Final
      BY <1>1 DEF TruthInv, InFlight
    <2> QED BY <1>3, <2>1 DEF KnowsItsPayment
  <1>7. \A h \in Execs, p \in Proposals : call'[<<h, p>>] # "none" => Final'[p] > 0
    BY <1>1 DEF TruthInv
  <1>8. \A h \in Execs : pc'[h] \in InLoop /\ next[h] > 0 => ~Recorded(next[h])
    <2> SUFFICES ASSUME NEW h \in Execs, pc'[h] \in InLoop, next[h] > 0
                 PROVE  ~Recorded(next[h])
      OBVIOUS
    <2>1. CASE pc[h] \in InLoop
      BY <2>1 DEF TruthInv
    <2>2. CASE pc[h] = "reading"
      <3>1. next[h] = 0
        BY <2>2 DEF TruthInv
      <3> QED BY <3>1
    <2> QED BY <2>1, <2>2
  <1>9. \A h \in Execs : pc'[h] = "paying" => call'[<<h, next[h]>>] # "none"
    BY <1>3 DEF TruthInv
  <1> QED BY <1>2, <1>3, <1>5, <1>6, <1>7, <1>8, <1>9 DEF TruthInv

LEMMA StepTruth == AllInv /\ TruthInv /\ [Next]_vars => TruthInv'
  <1> SUFFICES ASSUME AllInv, TruthInv, [Next]_vars PROVE TruthInv' OBVIOUS
  <1> USE DEF Goto, InLoop
  <1>1. call \in [Execs \X Proposals -> CallStatus] /\ pc \in [Execs -> PcLabels]
        /\ next \in [Execs -> Proposals] /\ outcome \in [Execs -> RowStatus]
    BY DEF AllInv, CtrlType
  <1>2. ASSUME NEW h \in Execs, CheckRound(h) \/ CheckAlready(h) \/ ReadTally(h) \/ Fail(h) \/ HangUp(h)
        PROVE  TruthInv'
    BY <1>1, <1>2, TruthKept DEF CheckRound, CheckAlready, ReadTally, Fail, HangUp
  <1>3. ASSUME NEW h \in Execs, SkipZero(h) PROVE TruthInv'
    <2>1. Final' = Final /\ shares[h] = Final
      BY <1>3, FinalStays DEF SkipZero, AllInv, FinalInv, InFlight
    <2>2. KnowsItsPayment(h)'
      BY <1>1, <1>3, <2>1 DEF SkipZero, KnowsItsPayment
    <2> QED BY <1>1, <1>3, <2>2, TruthKept DEF SkipZero
  <1>4. ASSUME NEW h \in Execs, SendPayment(h) PROVE TruthInv'
    <2>1. Final' = Final /\ shares[h] = Final
      BY <1>4, FinalStays DEF SendPayment, AllInv, FinalInv, InFlight
    <2>2. Final'[next[h]] > 0
      BY <1>4, <2>1 DEF SendPayment
    <2> QED BY <1>1, <1>4, <2>2, TruthKept DEF SendPayment, Spawn
  <1>5. ASSUME NEW h \in Execs, NEW p \in Proposals, LandPayment(h, p) PROVE TruthInv'
    BY <1>1, <1>5, TruthKept DEF LandPayment, Land
  <1>6. ASSUME NEW h \in Execs, PaymentAnswered(h) PROVE TruthInv'
    <2>1. KnowsItsPayment(h)'
      BY <1>1, <1>6 DEF PaymentAnswered, SeesOk, SeesErr, TruthInv, KnowsItsPayment
    <2> QED BY <1>1, <1>6, <2>1, TruthKept DEF PaymentAnswered
  <1>7. ASSUME NEW h \in Execs, Record(h), Recorded(next[h]) PROVE TruthInv'
    BY <1>1, <1>7, RecordStep, TruthKept DEF AllInv
  <1>8. ASSUME NEW h \in Execs, Record(h), ~Recorded(next[h]) PROVE TruthInv'
    <2> DEFINE n == next[h]
               row == [amount |-> shares[h][n], status |-> outcome[h]]
    <2>1. /\ pc[h] = "recording" /\ n \in Proposals /\ n \in Nat
          /\ rows' = [rows EXCEPT ![n] = row] /\ UNCHANGED <<call, outcome>>
          /\ \/ n + 1 \in Proposals /\ next' = [next EXCEPT ![h] = n + 1]
                                     /\ pc' = [pc EXCEPT ![h] = "settling"]
             \/ next' = next /\ pc' = [pc EXCEPT ![h] = "done"]
      BY <1>1, <1>8, RecordStep, ProposalsAreNumbers DEF AllInv
    <2>2. Final' = Final /\ KnowsItsPayment(h)
      BY <2>1, FinalStays DEF AllInv, FinalInv, InFlight, TruthInv
    <2>3. row # NoRow /\ outcome[h] # "none"
      BY <2>1, RowIsNew DEF AllInv, CtrlType
    <2>4. rows'[n] = row /\ \A q \in Proposals : q # n => rows'[q] = rows[q]
      BY <2>1 DEF AllInv, CtrlType
    <2>5. \A q \in Proposals : Recorded(q)' <=> Recorded(q) \/ q = n
      <3> HIDE DEF row
      <3> QED BY <2>3, <2>4 DEF Recorded
    <2>6. \A q \in Proposals : RowIsTrue(q)'
      <3>1. ASSUME NEW q \in Proposals, q # n PROVE RowIsTrue(q)'
        <4> HIDE DEF row
        <4> QED BY <2>1, <2>2, <2>4, <2>5, <3>1 DEF TruthInv, RowIsTrue
      <3>2. ASSUME NEW q \in Proposals, q = n PROVE RowIsTrue(q)'
        <4>1. rows'[q].status = outcome[h]
          BY <2>4, <3>2
        <4> HIDE DEF row
        <4>2. Recorded(q)'
          BY <2>5, <3>2
        <4> QED BY <2>1, <2>2, <2>3, <3>2, <4>1, <4>2 DEF RowIsTrue, KnowsItsPayment
      <3> QED BY <3>1, <3>2
    <2> HIDE DEF row
    <2>7. \A g \in Execs : g # h => next'[g] = next[g] /\ pc'[g] = pc[g]
      BY <1>1, <2>1
    <2>8. ASSUME NEW g \in Execs, pc'[g] \in InLoop, next'[g] > 0
          PROVE  ~Recorded(next[g])'
      <3>1. CASE g = h
        <4>1. next'[g] = n + 1 /\ n + 1 \in Proposals
          BY <1>1, <2>1, <2>8, <3>1
        <4>2. ~Recorded(n + 1)
          BY <1>8, <2>1, <4>1, ProposalsAreNumbers DEF AllInv, LoopInv, RowsArePrefix
        <4> QED BY <2>1, <2>5, <4>1, <4>2
      <3>2. CASE g # h
        <4>1. ~Recorded(next[g]) /\ next'[g] = next[g] /\ next[g] > 0
          BY <2>7, <2>8, <3>2 DEF TruthInv
        <4>2. next[g] # n
          BY <2>1, <3>2, <4>1 DEF AllInv, LoopInv
        <4> QED BY <1>1, <2>5, <4>1, <4>2
      <3> QED BY <3>1, <3>2
    <2>9. \A g \in Execs : pc'[g] = "recording" => KnowsItsPayment(g)'
      BY <1>1, <2>1, <2>2, <2>7 DEF TruthInv, KnowsItsPayment
    <2>10. \A g \in Execs : pc'[g] = "paying" => call'[<<g, next'[g]>>] # "none"
      BY <1>1, <2>1, <2>7 DEF TruthInv
    <2>11. \A g \in Execs : pc'[g] \in {"new", "checking", "reading"} => next'[g] = 0
      BY <1>1, <2>1, <2>7 DEF TruthInv
    <2> QED
      BY <2>1, <2>2, <2>6, <2>8, <2>9, <2>10, <2>11 DEF TruthInv
  <1>9. CASE Environment
    BY <1>1, <1>9, TruthKept DEF Environment
  <1>10. CASE UNCHANGED vars
    BY <1>1, <1>10, TruthKept DEF vars
  <1> QED
    BY <1>2, <1>3, <1>4, <1>5, <1>6, <1>7, <1>8, <1>9, <1>10 DEF Next, Execute

LEMMA TruthInvariant == Spec => [](AllInv /\ TruthInv)
  <1>1. Spec => []TruthInv
    BY AllInvariant, InitTruth, StepTruth, PTL DEF Spec
  <1> QED BY <1>1, AllInvariant, PTL

\* A row that says submitted is of a payment that was made, and there is no
\* payment behind a row that says that none was due, whoever wrote them.
THEOREM RowsAreTrue == Spec => []RowsTellThePayments
  <1>1. AllInv /\ TruthInv => RowsTellThePayments
    <2> SUFFICES ASSUME AllInv, TruthInv, NEW p \in Proposals
                 PROVE  /\ rows[p].status = "submitted" => \E h \in Execs : Paid(h, p)
                        /\ rows[p].status = "confirmed" => \A h \in Execs : ~Paid(h, p)
      BY DEF RowsTellThePayments
    <2>1. \A h \in Execs : Paid(h, p) => Final[p] > 0
      BY DEF TruthInv, Paid
    <2> QED BY <2>1 DEF TruthInv, RowIsTrue, Paid
  <1> QED BY <1>1, TruthInvariant, PTL

Sent == {k \in Execs \X Proposals : call[k] # "none"}
Made == {k \in Execs \X Proposals : call[k] = "ok"}
Table == [p \in Proposals |-> rows[p].status]

LEMMA InitSettlement == Init => Settled!NoSettlement
  BY DEF Init, Settled!NoSettlement, NoRow

\* Each step of a request sends, makes or records one payment as Settlement
\* allows it, or changes none of that.
LEMMA StepSettlement ==
  ASSUME AllInv, TruthInv, [Next]_vars
  PROVE  [Settled!SettlementNext]_<<Sent, Made, Table>>
  <1> USE DEF Goto
  <1>1. call \in [Execs \X Proposals -> CallStatus] /\ next \in [Execs -> Proposals]
    BY DEF AllInv, CtrlType
  <1>2. ASSUME UNCHANGED <<call, rows>> PROVE UNCHANGED <<Sent, Made, Table>>
    BY <1>2 DEF Sent, Made, Table
  <1>3. \A p \in Proposals : Table[p] # "none" <=> Recorded(p)
    BY DEF Table, TruthInv, RowIsTrue, Recorded, NoRow
  <1>4. \A h \in Execs : Settled!Reached(next[h])
    <2>1. \A h \in Execs, q \in Proposals : q < next[h] => Table[q] # "none"
      BY <1>3 DEF AllInv, LoopInv
    <2> QED BY <2>1 DEF Settled!Reached, Table
  <1>5. ASSUME NEW h \in Execs, SendPayment(h), NEW p \in Proposals, p = next[h]
        PROVE  Settled!Send(h, p)
    <2>1. /\ pc[h] = "settling" /\ p \in Nat
          /\ call[<<h, p>>] = "none"
          /\ call' = [call EXCEPT ![<<h, p>>] = "running"]
          /\ UNCHANGED rows
      BY <1>1, <1>5, ProposalsAreNumbers DEF SendPayment, Spawn
    <2>2. Final[p] > 0
      BY <1>5 DEF SendPayment, AllInv, FinalInv
    <2>3. Table[p] # "confirmed"
      BY <2>1, <2>2 DEF TruthInv, RowIsTrue, Table
    <2>4. p # 0 => Table[p] = "none"
      BY <1>3, <1>5, <2>1 DEF TruthInv, InLoop
    <2>5. ASSUME NEW g \in Execs, NEW q \in Proposals \ {0}, call[<<g, q>>] # "none", p # 0
          PROVE  g = h
      <3>1. q <= next[g] /\ q \in Nat /\ q > 0 /\ next[g] \in Nat
        <4>1. q \in Nat /\ next[g] \in Nat
          BY <1>1, ProposalsAreNumbers
        <4>2. q <= next[g]
          BY <2>5 DEF AllInv, LoopInv
        <4> QED BY <4>1, <4>2
      <3>2. next[g] > 0 /\ p > 0
        BY <2>1, <2>5, <3>1
      <3> QED BY <1>5, <3>2 DEF AllInv, LoopInv
    <2>6. Sent' = Sent \cup {<<h, p>>} /\ Made' = Made /\ Table' = Table
      BY <1>1, <2>1 DEF Sent, Made, Table
    <2> QED
      BY <1>4, <1>5, <2>1, <2>3, <2>4, <2>5, <2>6 DEF Settled!Send, Sent, Made, Table
  <1>6. ASSUME NEW h \in Execs, NEW p \in Proposals, LandPayment(h, p)
        PROVE  Settled!Pay(h, p) \/ UNCHANGED <<Sent, Made, Table>>
    <2>1. /\ call[<<h, p>>] = "running" /\ rows' = rows
          /\ \/ call' = [call EXCEPT ![<<h, p>>] = "ok"]
             \/ call' = [call EXCEPT ![<<h, p>>] = "refused"]
      BY <1>6 DEF LandPayment, Land
    <2>2. Sent' = Sent /\ Table' = Table /\ <<h, p>> \in Sent \ Made
      BY <1>1, <2>1 DEF Sent, Made, Table
    <2>3. CASE call' = [call EXCEPT ![<<h, p>>] = "ok"]
      <3>1. Made' = Made \cup {<<h, p>>}
        BY <1>1, <2>1, <2>3 DEF Made
      <3> QED BY <2>2, <3>1 DEF Settled!Pay, Sent, Made, Table
    <2>4. CASE call' = [call EXCEPT ![<<h, p>>] = "refused"]
      <3>1. Made' = Made
        BY <1>1, <2>1, <2>4 DEF Made
      <3> QED BY <2>2, <3>1
    <2> QED BY <2>1, <2>3, <2>4
  <1>7. ASSUME NEW h \in Execs, Record(h), NEW p \in Proposals, p = next[h],
               ~Recorded(p), NEW status, status = outcome[h]
        PROVE  Settled!Record(p, status) /\ status \in {"submitted", "failed", "confirmed"}
    <2> DEFINE row == [amount |-> shares[h][p], status |-> status]
    <2>1. /\ pc[h] = "recording" /\ UNCHANGED call
          /\ rows' = [rows EXCEPT ![p] = row]
      BY <1>1, <1>7, RecordStep DEF AllInv
    <2>2. KnowsItsPayment(h) /\ status \in {"submitted", "failed", "confirmed"}
      BY <1>7, <2>1 DEF TruthInv, AllInv, CtrlType, RowStatus
    <2>3. status = "submitted" => \E g \in Execs : call[<<g, p>>] = "ok"
      BY <1>7, <2>2 DEF KnowsItsPayment
    <2>4. status = "failed" => \E g \in Execs : call[<<g, p>>] # "none"
      BY <1>7, <2>2 DEF KnowsItsPayment
    <2>5. status = "confirmed" => \A g \in Execs : call[<<g, p>>] = "none"
      <3>1. \A g \in Execs : call[<<g, p>>] # "none" => Final[p] > 0
        BY <2>1 DEF TruthInv
      <3> QED BY <1>7, <2>2, <3>1 DEF KnowsItsPayment
    <2>6. Sent' = Sent /\ Made' = Made
      BY <2>1 DEF Sent, Made
    <2>7. Table' = [Table EXCEPT ![p] = status]
      BY <2>1 DEF Table, AllInv, CtrlType
    <2>8. Table[p] = "none"
      BY <1>3, <1>7, <2>1
    <2> QED
      BY <1>4, <1>7, <2>1, <2>2, <2>3, <2>4, <2>5, <2>6, <2>7, <2>8
      DEF Settled!Record, Sent, Made, Table
  <1>8. ASSUME NEW h \in Execs, Record(h), Recorded(next[h]) PROVE UNCHANGED <<call, rows>>
    BY <1>8, RecordStep DEF AllInv
  <1>9. ASSUME NEW h \in Execs, \/ CheckRound(h)
                                \/ CheckAlready(h)
                                \/ ReadTally(h)
                                \/ SkipZero(h)
                                \/ PaymentAnswered(h)
                                \/ Fail(h)
                                \/ HangUp(h)
        PROVE  UNCHANGED <<call, rows>>
    BY <1>9
    DEF CheckRound, CheckAlready, ReadTally, SkipZero, PaymentAnswered, Fail, HangUp
  <1>10. Environment \/ UNCHANGED vars => UNCHANGED <<call, rows>>
    BY DEF Environment, vars
  <1>11. ASSUME NEW h \in Execs, Execute(h) \/ Fail(h) \/ HangUp(h)
         PROVE  Settled!SettlementNext \/ UNCHANGED <<Sent, Made, Table>>
    <2>1. CASE SendPayment(h)
      <3>1. PICK p \in Proposals : p = next[h]
        BY <1>1
      <3>2. Settled!Send(h, p)
        BY <1>5, <2>1, <3>1
      <3> QED BY <3>2, Zenon DEF Settled!SettlementNext
    <2>2. CASE Record(h) /\ ~Recorded(next[h])
      <3>1. PICK p \in Proposals : p = next[h]
        BY <1>1
      <3>2. PICK status : status = outcome[h]
        OBVIOUS
      <3>3. Settled!Record(p, status) /\ status \in {"submitted", "failed", "confirmed"}
        BY <1>7, <2>2, <3>1, <3>2
      <3> QED BY <3>3, Zenon DEF Settled!SettlementNext
    <2> QED BY <1>2, <1>8, <1>9, <1>11, <2>1, <2>2 DEF Execute
  <1>12. ASSUME NEW h \in Execs, NEW p \in Proposals, LandPayment(h, p)
         PROVE  Settled!SettlementNext \/ UNCHANGED <<Sent, Made, Table>>
    BY <1>6, <1>12 DEF Settled!SettlementNext
  <1> QED BY <1>2, <1>10, <1>11, <1>12 DEF Next

\* Any number of concurrent, repeated and interrupted requests settle a round as
\* Settlement allows it.
THEOREM SettlementImplemented == Spec => ImplementsSettlement
  <1>1. AllInv /\ TruthInv /\ [Next]_vars => [Settled!SettlementNext]_<<Sent, Made, Table>>
    BY StepSettlement
  <1> QED
    BY <1>1, InitSettlement, TruthInvariant, PTL
    DEF Spec, ImplementsSettlement, Settled!SettlementSpec, Sent, Made, Table

----------------------------------------------------------------------------
(* Without faults a settlement is carried to its end, and settlements that *)
(* are sent one after the other pay once.                                  *)

LEMMA LoopEnds ==
  ASSUME CtrlType, NEW h \in Execs, Record(h), pc'[h] = "done"
  PROVE  \A p \in Proposals : p <= next[h]
  <1>1. next[h] \in Proposals /\ next[h] \in Nat /\ NumChoices \in Nat
    BY ProposalsAreNumbers, ContractAssumption DEF CtrlType, ContractAssumption
  <1>2. ~(next[h] < NumChoices - 1)
    BY DEF Record, Insert, LoopOn, Goto, CtrlType
  <1> QED BY <1>1, <1>2 DEF Proposals, Choices

LEMMA RowIsWritten ==
  ASSUME CtrlType, NEW h \in Execs, Record(h), ~Recorded(next[h]),
         NEW n \in Proposals, n = next[h]
  PROVE  \A p \in Proposals : Recorded(p)' <=> Recorded(p) \/ p = n
  <1> DEFINE row == [amount |-> shares[h][n], status |-> outcome[h]]
  <1>1. rows' = [rows EXCEPT ![n] = row] /\ row # NoRow
    BY RecordStep, RowIsNew
  <1> HIDE DEF row
  <1> QED BY <1>1 DEF Recorded, CtrlType

LEMMA RecordedStay ==
  ASSUME CtrlType, [Next]_vars, NEW p \in Proposals, Recorded(p)
  PROVE  Recorded(p)'
  <1>1. ASSUME rows' = rows PROVE Recorded(p)'
    BY <1>1 DEF Recorded
  <1>2. ASSUME NEW h \in Execs, Record(h) PROVE Recorded(p)'
    <2> DEFINE row == [amount |-> shares[h][next[h]], status |-> outcome[h]]
    <2>1. \/ rows' = rows
          \/ next[h] # p /\ rows' = [rows EXCEPT ![next[h]] = row]
      BY <1>2, RecordStep
    <2> HIDE DEF row
    <2> QED BY <1>1, <2>1 DEF Recorded, CtrlType
  <1>3. ASSUME NEW h \in Execs, \/ CheckRound(h)
                                \/ CheckAlready(h)
                                \/ ReadTally(h)
                                \/ SkipZero(h)
                                \/ SendPayment(h)
                                \/ PaymentAnswered(h)
                                \/ Fail(h)
                                \/ HangUp(h)
        PROVE  rows' = rows
    BY <1>3
    DEF CheckRound, CheckAlready, ReadTally, SkipZero, SendPayment, PaymentAnswered, Fail, HangUp
  <1>4. ASSUME NEW h \in Execs, NEW q \in Proposals, LandPayment(h, q) PROVE rows' = rows
    BY <1>4 DEF LandPayment
  <1>5. Environment \/ UNCHANGED vars => rows' = rows
    BY DEF Environment, vars
  <1> QED BY <1>1, <1>2, <1>3, <1>4, <1>5 DEF Next, Execute

\* A table that is begun is complete, or carried on by a request that is behind
\* the first proposal; and whoever was told so has seen a table that is begun.
CarriedInv ==
  /\ (\E p \in Proposals : Recorded(p)) =>
       \/ \A p \in Proposals : Recorded(p)
       \/ \E h \in Execs : pc[h] \in InLoop /\ next[h] > 0
  /\ (\E h \in Execs : pc[h] = "already") => \E p \in Proposals : Recorded(p)

LEMMA InitCarried == Init => CarriedInv
  BY DEF Init, CarriedInv, Recorded, NoRow

LEMMA StepCarried ==
  ASSUME Faulty = FALSE, AllInv, TruthInv, CarriedInv, [Next]_vars
  PROVE  CarriedInv'
  <1> USE DEF Goto, InLoop
  <1>1. /\ pc \in [Execs -> PcLabels] /\ next \in [Execs -> Proposals]
        /\ \A h \in Execs : next[h] \in Nat
    BY ProposalsAreNumbers DEF AllInv, CtrlType
  <1>2. ASSUME UNCHANGED <<rows, next>>,
               \A h \in Execs :
                 /\ pc[h] \in InLoop => pc'[h] \in InLoop
                 /\ pc'[h] = "already" => pc[h] = "already" \/ \E p \in Proposals : Recorded(p)
        PROVE  CarriedInv'
    BY <1>2 DEF CarriedInv, Recorded
  <1>3. ASSUME NEW h \in Execs, \/ CheckRound(h)
                                \/ CheckAlready(h)
                                \/ ReadTally(h)
                                \/ SkipZero(h)
                                \/ SendPayment(h)
                                \/ PaymentAnswered(h)
        PROVE  CarriedInv'
    BY <1>1, <1>2, <1>3
    DEF CheckRound, CheckAlready, ReadTally, SkipZero, SendPayment, PaymentAnswered
  <1>4. ASSUME NEW h \in Execs, Record(h) PROVE CarriedInv'
    <2>1. /\ pc[h] = "recording"
          /\ \A g \in Execs : g # h => pc'[g] = pc[g] /\ next'[g] = next[g]
          /\ pc'[h] # "already"
      BY <1>1, <1>4, RecordStep DEF AllInv
    <2>2. CASE Recorded(next[h])
      <3>1. next[h] = 0 /\ UNCHANGED <<rows, next>>
        BY <1>1, <1>4, <2>1, <2>2, RecordStep DEF AllInv, TruthInv
      <3>2. \A g \in Execs : pc[g] \in InLoop /\ next[g] > 0 => g # h
        BY <3>1
      <3>3. (\E g \in Execs : pc'[g] = "already") => \E g \in Execs : pc[g] = "already"
        BY <2>1
      <3>4. (\E g \in Execs : pc[g] \in InLoop /\ next[g] > 0) =>
              \E g \in Execs : pc'[g] \in InLoop /\ next'[g] > 0
        BY <2>1, <3>2
      <3>5. \A p \in Proposals : Recorded(p)' <=> Recorded(p)
        BY <3>1 DEF Recorded
      <3> QED BY <3>3, <3>4, <3>5 DEF CarriedInv
    <2>3. CASE ~Recorded(next[h])
      <3>1. PICK n \in Proposals : n = next[h]
        BY <1>1
      <3>2. \A p \in Proposals : Recorded(p)' <=> Recorded(p) \/ p = n
        BY <1>4, <2>3, <3>1, RowIsWritten DEF AllInv
      <3>3. CASE pc'[h] = "settling"
        <4>1. next'[h] > 0
          BY <1>1, <1>4, <2>3, <3>3, RecordStep DEF AllInv
        <4> QED BY <2>1, <3>1, <3>2, <3>3, <4>1 DEF CarriedInv
      <3>4. CASE pc'[h] = "done"
        <4>1. \A p \in Proposals : p <= n
          BY <1>4, <3>1, <3>4, LoopEnds DEF AllInv
        <4>2. \A p \in Proposals : p < n => Recorded(p)
          BY <3>1 DEF AllInv, LoopInv
        <4>3. \A p \in Proposals : Recorded(p)'
          BY <3>1, <3>2, <4>1, <4>2, ProposalsAreNumbers
        <4> QED BY <3>1, <4>3 DEF CarriedInv
      <3> QED BY <1>1, <1>4, <2>3, <3>3, <3>4, RecordStep DEF AllInv
    <2> QED BY <2>2, <2>3
  <1>5. ASSUME NEW h \in Execs, NEW p \in Proposals, LandPayment(h, p) PROVE CarriedInv'
    BY <1>2, <1>5 DEF LandPayment
  <1>6. CASE Environment
    BY <1>2, <1>6 DEF Environment
  <1>7. CASE UNCHANGED vars
    BY <1>2, <1>7 DEF vars
  <1> QED
    BY <1>3, <1>4, <1>5, <1>6, <1>7 DEF Next, Execute, Fail, HangUp

LEMMA CarriedInvariant == Faulty = FALSE => (Spec => []CarriedInv)
  <1> SUFFICES ASSUME Faulty = FALSE PROVE Spec => []CarriedInv
    OBVIOUS
  <1>1. AllInv /\ TruthInv /\ CarriedInv /\ [Next]_vars => CarriedInv'
    BY StepCarried
  <1> QED BY <1>1, InitCarried, TruthInvariant, PTL DEF Spec

\* Without faults, of any number of concurrent settlements one carries on until
\* every proposal has its row: once none is in flight, "already executed" is true.
THEOREM ExecutedIsComplete == Faulty = FALSE => (Spec => []AlreadyExecutedMeansComplete)
  <1>1. CarriedInv => AlreadyExecutedMeansComplete
    BY DEF CarriedInv, AlreadyExecutedMeansComplete, InFlight, InLoop
  <1> QED BY <1>1, CarriedInvariant, PTL

\* A request that is past the count check is the only one that has sent anything;
\* whoever did and is not in flight any more has left a row.
SerialInv ==
  /\ \A g, h \in Execs : InFlight(g) /\ InFlight(h) => g = h
  /\ \A h \in Execs, p \in Proposals :
       call[<<h, p>>] # "none" /\ ~InFlight(h) => \E q \in Proposals : Recorded(q)
  /\ \A g, h \in Execs, p \in Proposals :
       pc[h] \in {"reading"} \cup InLoop /\ call[<<g, p>>] # "none" => g = h
  /\ \A g, h \in Execs, p, q \in Proposals :
       call[<<g, p>>] # "none" /\ call[<<h, q>>] # "none" => g = h

LEMMA InitSerial == Init => SerialInv
  BY DEF Init, SerialInv, InFlight, InLoop

\* A step that sends nothing keeps the invariant if whoever starts does so
\* alone, whoever passes the check finds no row, and whoever stops leaves one.
LEMMA SerialKept ==
  ASSUME SerialInv, CtrlType, [Next]_vars, NEW h \in Execs,
         \A g \in Execs : g # h => pc'[g] = pc[g],
         \A g \in Execs, p \in Proposals : call'[<<g, p>>] # "none" => call[<<g, p>>] # "none",
         InFlight(h)' => InFlight(h) \/ \A g \in Execs : ~InFlight(g),
         pc'[h] \in {"reading"} \cup InLoop =>
           \/ pc[h] \in {"reading"} \cup InLoop
           \/ InFlight(h) /\ \A q \in Proposals : ~Recorded(q),
         InFlight(h) /\ ~InFlight(h)' =>
           \/ \A p \in Proposals : call[<<h, p>>] = "none"
           \/ \E q \in Proposals : Recorded(q)'
  PROVE  SerialInv'
  <1>1. \A g \in Execs : g # h => (InFlight(g)' <=> InFlight(g))
    BY DEF InFlight
  <1>2. \A f, g \in Execs : InFlight(f)' /\ InFlight(g)' => f = g
    BY <1>1 DEF SerialInv
  <1>3. ASSUME NEW g \in Execs, NEW p \in Proposals, call'[<<g, p>>] # "none", ~InFlight(g)'
        PROVE  \E q \in Proposals : Recorded(q)'
    <2>1. CASE g = h /\ InFlight(h)
      BY <1>3, <2>1
    <2>2. CASE ~InFlight(g)
      <3>1. PICK q \in Proposals : Recorded(q)
        BY <1>3, <2>2 DEF SerialInv
      <3> QED BY <3>1, RecordedStay
    <2> QED BY <1>1, <1>3, <2>1, <2>2
  <1>4. ASSUME NEW f \in Execs, NEW g \in Execs, NEW p \in Proposals,
               pc'[f] \in {"reading"} \cup InLoop, call'[<<g, p>>] # "none"
        PROVE  g = f
    <2>1. CASE pc[f] \in {"reading"} \cup InLoop
      BY <1>4, <2>1 DEF SerialInv
    <2>2. CASE f = h /\ InFlight(h) /\ \A q \in Proposals : ~Recorded(q)
      BY <1>4, <2>2 DEF SerialInv
    <2> QED BY <1>4, <2>1, <2>2
  <1> QED BY <1>2, <1>3, <1>4 DEF SerialInv

LEMMA StepSerial ==
  ASSUME Faulty = FALSE, AllInv, SerialInv, [SerialNext]_vars
  PROVE  SerialInv'
  <1> USE DEF Goto
  <1>1. [Next]_vars /\ CtrlType
    BY DEF SerialNext, AllInv
  <1>2. pc \in [Execs -> PcLabels] /\ call \in [Execs \X Proposals -> CallStatus]
        /\ next \in [Execs -> Proposals]
    BY DEF AllInv, CtrlType
  <1>3. ASSUME NEW h \in Execs, CheckRound(h) PROVE SerialInv'
    <2>1. pc[h] = "new" /\ pc'[h] \in {"checking", "failed"}
      BY <1>2, <1>3 DEF CheckRound
    <2>2. SerialNext
      BY <1>2, <2>1 DEF vars
    <2>3. \A g \in Execs : ~InFlight(g)
      BY <2>1, <2>2 DEF SerialNext, InFlight
    <2> QED
      BY <1>1, <1>2, <1>3, <2>1, <2>3, SerialKept DEF CheckRound, InFlight, InLoop
  <1>4. ASSUME NEW h \in Execs, CheckAlready(h) PROVE SerialInv'
    <2>1. \A p \in Proposals : call[<<h, p>>] = "none"
      BY <1>4 DEF CheckAlready, AllInv, FinalInv
    <2>2. /\ pc[h] = "checking" /\ UNCHANGED call
          /\ \A g \in Execs : g # h => pc'[g] = pc[g]
          /\ \/ pc'[h] = "already"
             \/ pc'[h] = "reading" /\ \A q \in Proposals : ~Recorded(q)
      BY <1>2, <1>4 DEF CheckAlready
    <2> QED
      BY <1>1, <2>1, <2>2, SerialKept DEF InFlight, InLoop
  <1>5. ASSUME NEW h \in Execs, ReadTally(h) \/ SkipZero(h) \/ PaymentAnswered(h)
        PROVE  SerialInv'
    <2>1. /\ pc[h] \in {"reading"} \cup InLoop /\ pc'[h] \in InLoop /\ UNCHANGED call
          /\ \A g \in Execs : g # h => pc'[g] = pc[g]
      BY <1>2, <1>5 DEF ReadTally, SkipZero, PaymentAnswered, InLoop
    <2> QED BY <1>1, <2>1, SerialKept DEF InFlight, InLoop
  <1>6. ASSUME NEW h \in Execs, SendPayment(h) PROVE SerialInv'
    <2>1. /\ pc[h] = "settling" /\ pc' = [pc EXCEPT ![h] = "paying"] /\ UNCHANGED rows
          /\ call' = [call EXCEPT ![<<h, next[h]>>] = "running"]
      BY <1>6 DEF SendPayment, Spawn
    <2>2. \A g \in Execs : InFlight(g)' <=> InFlight(g)
      BY <1>2, <2>1 DEF InFlight
    <2>3. \A g \in Execs, p \in Proposals :
            call'[<<g, p>>] # "none" => call[<<g, p>>] # "none" \/ g = h
      BY <1>2, <2>1
    <2>4. \A g \in Execs, p \in Proposals : call[<<g, p>>] # "none" => g = h
      BY <2>1 DEF SerialInv, InLoop
    <2>5. \A g \in Execs : InFlight(g) => g = h
      BY <2>1 DEF SerialInv, InFlight
    <2>6. \A g \in Execs : pc'[g] \in {"reading"} \cup InLoop => g = h
      BY <1>2, <2>1, <2>5 DEF InFlight, InLoop
    <2>7. InFlight(h)
      BY <2>1 DEF InFlight
    <2> QED BY <2>2, <2>3, <2>4, <2>5, <2>6, <2>7 DEF SerialInv
  <1>7. ASSUME NEW h \in Execs, NEW p \in Proposals, LandPayment(h, p) PROVE SerialInv'
    <2>1. \A g \in Execs, q \in Proposals :
            call'[<<g, q>>] # "none" => call[<<g, q>>] # "none"
      BY <1>2, <1>7 DEF LandPayment, Land
    <2> QED BY <1>1, <1>7, <2>1, SerialKept DEF LandPayment, InFlight
  <1>8. ASSUME NEW h \in Execs, Record(h) PROVE SerialInv'
    <2>1. PICK n \in Proposals : n = next[h]
      BY <1>2
    <2>2. Recorded(n)'
      BY <1>1, <1>8, <2>1, RowIsWritten, RecordedStay
    <2>3. /\ pc[h] = "recording" /\ UNCHANGED call
          /\ \A g \in Execs : g # h => pc'[g] = pc[g]
          /\ pc'[h] \in {"settling", "failed", "done"}
      BY <1>1, <1>2, <1>8, RecordStep
    <2> QED BY <1>1, <2>2, <2>3, SerialKept DEF InFlight, InLoop
  <1>9. CASE UNCHANGED <<call, rows, pc>>
    BY <1>9 DEF SerialInv, InFlight, Recorded
  <1>10. Environment \/ UNCHANGED vars => UNCHANGED <<call, rows, pc>>
    BY DEF Environment, vars
  <1> QED
    BY <1>1, <1>3, <1>4, <1>5, <1>6, <1>7, <1>8, <1>9, <1>10
    DEF Next, Execute, Fail, HangUp

LEMMA SerialIsSpec == SerialSpec => Spec
  <1>1. [SerialNext]_vars => [Next]_vars
    BY DEF SerialNext
  <1> QED BY <1>1, PTL DEF SerialSpec, Spec

\* Without faults, settlements that are sent one after the other pay each proposal
\* at most once, however many there are: the count check is enough for that.
THEOREM SerialPaysOnce == Faulty = FALSE => (SerialSpec => []PaidAtMostOnce)
  <1> SUFFICES ASSUME Faulty = FALSE PROVE SerialSpec => []PaidAtMostOnce
    OBVIOUS
  <1>1. AllInv /\ SerialInv /\ [SerialNext]_vars => SerialInv'
    BY StepSerial
  <1>2. SerialInv => PaidAtMostOnce
    BY DEF SerialInv, PaidAtMostOnce, Paid
  <1> QED BY <1>1, <1>2, InitSerial, SerialIsSpec, AllInvariant, PTL DEF SerialSpec
=============================================================================
