------------------------- MODULE RegistrationProofs -------------------------
(***************************************************************************)
(* Proofs about Registration, for every set of voters and requests: what   *)
(* the leaf list is worth although leaf_index is a best effort.            *)
(***************************************************************************)
EXTENDS Registration, CommonLemmas, FiniteSetTheorems

\* The contract registers a voter once.
LeavesDistinct ==
  \A a, b \in 1 .. Len(leaves) : leaves[a] = leaves[b] => a = b

TypeInv == TypeOK /\ LeavesDistinct

LEMMA InitType == Init => TypeInv
  BY DEF Init, MirrorInit, TypeInv, TypeOK, ChainTypeOK, Phases, DbPhases, CallStatus,
         PcLabels, LeavesDistinct

\* A registration appends one leaf, of a voter who has none.
LEMMA OneLeafMore ==
  ASSUME TypeInv, NEW v \in Voters, MayRegister(v), Register(v)
  PROVE  /\ Len(leaves') = Len(leaves) + 1
         /\ \A a \in 1 .. Len(leaves) : leaves'[a] = leaves[a]
         /\ leaves'[Len(leaves) + 1] = v
         /\ ChainTypeOK'
         /\ LeavesDistinct'
  <1>1. leaves \in Seq(Voters) /\ leaves' = Append(leaves, v)
    BY DEF TypeInv, TypeOK, ChainTypeOK, Register
  <1>2. /\ Len(leaves') = Len(leaves) + 1
        /\ \A a \in 1 .. Len(leaves) : leaves'[a] = leaves[a]
        /\ leaves'[Len(leaves) + 1] = v
    BY <1>1
  <1>3. \A a \in 1 .. Len(leaves) : leaves[a] # v
    BY DEF MayRegister, Registered
  <1>4. LeavesDistinct'
    BY <1>1, <1>2, <1>3 DEF LeavesDistinct, TypeInv
  <1>5. ChainTypeOK'
    BY <1>1 DEF TypeInv, TypeOK, ChainTypeOK, Register
  <1> QED BY <1>2, <1>4, <1>5

LEMMA StepType == TypeInv /\ [Next]_vars => TypeInv'
  <1> SUFFICES ASSUME TypeInv, [Next]_vars PROVE TypeInv' OBVIOUS
  <1> USE DEF Goto, PcLabels, CallStatus
  <1>1. ASSUME UNCHANGED chain PROVE ChainTypeOK' /\ LeavesDistinct'
    BY <1>1 DEF chain, TypeInv, TypeOK, ChainTypeOK, LeavesDistinct
  <1>2. ASSUME NEW h \in RegReqs, CheckPhase(h) \/ LandAgain(h) \/ Fail(h) \/ HangUp(h)
        PROVE  TypeInv'
    BY <1>1, <1>2 DEF CheckPhase, LandAgain, Fail, HangUp, Spawn, TypeInv, TypeOK
  <1>3. ASSUME NEW h \in RegReqs, LandRelay(h) PROVE TypeInv'
    <2>1. ChainTypeOK' /\ LeavesDistinct'
      BY <1>1, <1>3, OneLeafMore DEF LandRelay, Land, TypeInv, TypeOK
    <2> QED BY <1>3, <2>1 DEF LandRelay, Land, TypeInv, TypeOK
  <1>4. ASSUME NEW h \in RegReqs, ReadCount(h) PROVE TypeInv'
    <2>1. RegisteredCount \in Nat
      BY DEF RegisteredCount, TypeInv, TypeOK, ChainTypeOK
    <2> QED BY <1>1, <1>4, <2>1 DEF ReadCount, TypeInv, TypeOK
  <1>5. ASSUME NEW h \in RegReqs, Upsert(h) PROVE TypeInv'
    <2>1. IndexFrom(count[h]) \in Nat
      BY DEF IndexFrom, TypeInv, TypeOK
    <2> HIDE DEF IndexFrom
    <2> QED BY <1>1, <1>5, <2>1 DEF Upsert, TypeInv, TypeOK
  <1>6. CASE Environment
    <2>1. ASSUME NEW v \in Voters, VoterRegisters(v)
          PROVE  ChainTypeOK' /\ LeavesDistinct' /\ dbPhase' = dbPhase
      BY <2>1, OneLeafMore DEF VoterRegisters
    <2>2. ASSUME NEW v \in Voters, NEW mark \in BOOLEAN, AdminMarks(v, mark)
          PROVE  ChainTypeOK' /\ LeavesDistinct' /\ dbPhase' = dbPhase
      BY <2>2 DEF AdminMarks, SetEligible, TypeInv, TypeOK, ChainTypeOK, LeavesDistinct
    <2>3. ASSUME ChainOpens
          PROVE  ChainTypeOK' /\ LeavesDistinct' /\ dbPhase' = dbPhase
      BY <2>3 DEF ChainOpens, OpenVoting, TypeInv, TypeOK, ChainTypeOK, Phases, LeavesDistinct
    <2>4. ASSUME RowAppears \/ RowIsMarked("voting")
          PROVE  ChainTypeOK' /\ LeavesDistinct' /\ dbPhase' \in DbPhases
      BY <1>1, <2>4 DEF RowAppears, RowIsMarked, DbPhases
    <2>5. ChainTypeOK' /\ LeavesDistinct' /\ dbPhase' \in DbPhases
      BY <1>6, <2>1, <2>2, <2>3, <2>4 DEF Environment, TypeInv, TypeOK
    <2> QED BY <1>6, <2>5 DEF Environment, TypeInv, TypeOK
  <1>7. CASE UNCHANGED vars
    BY <1>1, <1>7 DEF vars, TypeInv, TypeOK
  <1> QED
    BY <1>2, <1>3, <1>4, <1>5, <1>6, <1>7 DEF Next, RegisterRequest

\* Every variable keeps its type.
THEOREM TypeCorrect == Spec => []TypeOK
  <1>1. Spec => []TypeInv
    BY InitType, StepType, PTL DEF Spec
  <1> QED BY <1>1, PTL DEF TypeInv

----------------------------------------------------------------------------
(* Bounds on leaf_index.                                                   *)

\* n is a registered_count at which v was registered: not before its leaf, and
\* no more than there are leaves.
CountedAfter(v, n) ==
  \E a \in 1 .. Len(leaves) : leaves[a] = v /\ a <= n /\ n <= Len(leaves)

\* A successful relay registered its voter; counts were read after it; and the
\* table keeps leaf_index unique.
IndexInv ==
  /\ \A h \in RegReqs : call[h] = "ok" => who[h] \in Registered
  /\ \A h \in RegReqs : pc[h] = "inserting" => CountedAfter(who[h], count[h])
  /\ \A v \in Listed : CountedAfter(v, leafIndex[v] + 1)
  /\ \A u, v \in Listed : leafIndex[u] = leafIndex[v] => u = v

LEMMA InitIndex == Init => IndexInv
  BY DEF Init, IndexInv, Listed, NoRow

\* Leaves are only ever appended.
LEMMA LeavesGrow ==
  ASSUME TypeInv, [Next]_vars
  PROVE  /\ leaves \in Seq(Voters) /\ leaves' \in Seq(Voters)
         /\ Len(leaves) <= Len(leaves')
         /\ \A a \in 1 .. Len(leaves) : leaves'[a] = leaves[a]
  <1>1. leaves \in Seq(Voters) /\ leaves' \in Seq(Voters)
    BY StepType DEF TypeInv, TypeOK, ChainTypeOK
  <1>2. ASSUME leaves' = leaves
        PROVE  /\ Len(leaves) <= Len(leaves')
               /\ \A a \in 1 .. Len(leaves) : leaves'[a] = leaves[a]
    BY <1>1, <1>2
  <1>3. ASSUME NEW v \in Voters, MayRegister(v), Register(v)
        PROVE  /\ Len(leaves) <= Len(leaves')
               /\ \A a \in 1 .. Len(leaves) : leaves'[a] = leaves[a]
    <2>1. Len(leaves') = Len(leaves) + 1 /\ Len(leaves) \in Nat
      BY <1>1, <1>3, OneLeafMore
    <2>2. \A a \in 1 .. Len(leaves) : leaves'[a] = leaves[a]
      BY <1>3, OneLeafMore
    <2> QED BY <2>1, <2>2
  <1>4. ASSUME NEW h \in RegReqs, \/ CheckPhase(h)
                                  \/ LandAgain(h)
                                  \/ ReadCount(h)
                                  \/ Upsert(h)
                                  \/ Fail(h)
                                  \/ HangUp(h)
        PROVE  leaves' = leaves
    BY <1>4 DEF CheckPhase, LandAgain, ReadCount, Upsert, Fail, HangUp, chain
  <1>5. ASSUME NEW h \in RegReqs, LandRelay(h)
        PROVE  \/ leaves' = leaves
               \/ MayRegister(who[h]) /\ Register(who[h]) /\ who[h] \in Voters
    BY <1>5 DEF LandRelay, Land, chain, TypeInv, TypeOK
  <1>6. CASE Environment
    <2>1. ASSUME NEW v \in Voters, VoterRegisters(v)
          PROVE  MayRegister(v) /\ Register(v)
      BY <2>1 DEF VoterRegisters
    <2>2. ASSUME \/ ChainOpens \/ RowAppears \/ RowIsMarked("voting")
                 \/ \E v \in Voters, mark \in BOOLEAN : AdminMarks(v, mark)
          PROVE  leaves' = leaves
      BY <2>2
      DEF ChainOpens, OpenVoting, RowAppears, RowIsMarked, AdminMarks, SetEligible, chain
    <2> QED BY <1>1, <1>2, <1>3, <1>6, <2>1, <2>2 DEF Environment
  <1>7. CASE UNCHANGED vars
    BY <1>1, <1>2, <1>7 DEF vars, chain
  <1> QED
    BY <1>1, <1>2, <1>3, <1>4, <1>5, <1>6, <1>7 DEF Next, RegisterRequest

LEMMA CountedStays ==
  ASSUME TypeInv, [Next]_vars, NEW v, NEW n \in Int, CountedAfter(v, n)
  PROVE  CountedAfter(v, n)'
  <1>1. PICK a \in 1 .. Len(leaves) : leaves[a] = v /\ a <= n /\ n <= Len(leaves)
    BY DEF CountedAfter
  <1>2. /\ Len(leaves) \in Nat /\ Len(leaves') \in Nat /\ Len(leaves) <= Len(leaves')
        /\ leaves'[a] = leaves[a]
    BY LeavesGrow
  <1>3. a \in 1 .. Len(leaves') /\ n <= Len(leaves')
    BY <1>1, <1>2
  <1> QED BY <1>1, <1>2, <1>3 DEF CountedAfter

LEMMA RegisteredStays ==
  ASSUME TypeInv, [Next]_vars, NEW v, v \in Registered
  PROVE  v \in Registered'
  <1>1. PICK a \in 1 .. Len(leaves) : leaves[a] = v
    BY DEF Registered
  <1>2. /\ Len(leaves) \in Nat /\ Len(leaves') \in Nat /\ Len(leaves) <= Len(leaves')
        /\ leaves'[a] = leaves[a]
    BY LeavesGrow
  <1> QED BY <1>1, <1>2 DEF Registered

LEMMA StepIndex == TypeInv /\ IndexInv /\ [Next]_vars => IndexInv'
  <1> SUFFICES ASSUME TypeInv, IndexInv, [Next]_vars PROVE IndexInv' OBVIOUS
  <1> USE DEF Goto
  \* What was so of the leaves stays so; a step has to justify what it changes.
  <1>1. ASSUME UNCHANGED <<who, leafIndex>>,
               \A h \in RegReqs : call'[h] = "ok" =>
                 call[h] = "ok" \/ who[h] \in Registered \/ who[h] \in Registered',
               \A h \in RegReqs : pc'[h] = "inserting" =>
                 \/ pc[h] = "inserting" /\ count'[h] = count[h]
                 \/ CountedAfter(who[h], count[h])'
        PROVE  IndexInv'
    <2>1. \A h \in RegReqs : call'[h] = "ok" => who'[h] \in Registered'
      BY <1>1, RegisteredStays DEF IndexInv
    <2>2. \A h \in RegReqs : pc'[h] = "inserting" => CountedAfter(who[h], count[h])'
      <3> SUFFICES ASSUME NEW h \in RegReqs, pc'[h] = "inserting"
                   PROVE  CountedAfter(who[h], count[h])'
        OBVIOUS
      <3>1. CASE pc[h] = "inserting" /\ count'[h] = count[h]
        <4>1. CountedAfter(who[h], count[h]) /\ count[h] \in Int
          BY <3>1 DEF IndexInv, TypeInv, TypeOK
        <4>2. \E a \in 1 .. Len(leaves') : leaves'[a] = who[h] /\ a <= count[h] /\ count[h] <= Len(leaves')
          BY <4>1, CountedStays DEF CountedAfter
        <4> QED BY <1>1, <3>1, <4>2 DEF CountedAfter
      <3>2. CASE CountedAfter(who[h], count[h])'
        BY <3>2
      <3> QED BY <1>1, <3>1, <3>2
    <2>3. \A v \in Listed' : CountedAfter(v, leafIndex[v] + 1)'
      <3> SUFFICES ASSUME NEW v \in Listed PROVE CountedAfter(v, leafIndex[v] + 1)'
        BY <1>1 DEF Listed
      <3>1. CountedAfter(v, leafIndex[v] + 1) /\ leafIndex[v] + 1 \in Int
        BY DEF IndexInv, TypeInv, TypeOK, Listed, NoRow
      <3>2. \E a \in 1 .. Len(leaves') : leaves'[a] = v /\ a <= leafIndex[v] + 1 /\ leafIndex[v] + 1 <= Len(leaves')
        BY <3>1, CountedStays DEF CountedAfter
      <3> QED BY <1>1, <3>2 DEF CountedAfter
    <2>4. \A u, v \in Listed' : leafIndex'[u] = leafIndex'[v] => u = v
      BY <1>1 DEF IndexInv, Listed
    <2> QED BY <2>1, <2>2, <2>3, <2>4 DEF IndexInv
  <1>2. ASSUME NEW h \in RegReqs, CheckPhase(h) PROVE IndexInv'
    BY <1>1, <1>2 DEF CheckPhase, Spawn, TypeInv, TypeOK
  <1>3. ASSUME NEW h \in RegReqs, LandRelay(h) PROVE IndexInv'
    <2>1. CASE MayRegister(who[h]) /\ Register(who[h])
      <3>1. who[h] \in Registered'
        <4>1. who[h] \in Voters
          BY DEF TypeInv, TypeOK
        <4>2. Len(leaves') = Len(leaves) + 1 /\ leaves'[Len(leaves) + 1] = who[h]
          BY <2>1, <4>1, OneLeafMore
        <4>3. Len(leaves) + 1 \in 1 .. Len(leaves')
          BY <4>2, LeavesGrow
        <4> QED BY <4>2, <4>3 DEF Registered
      <3> QED BY <1>1, <1>3, <3>1 DEF LandRelay, Land, TypeInv, TypeOK
    <2>2. CASE ~(MayRegister(who[h]) /\ Register(who[h]))
      BY <1>1, <1>3, <2>2 DEF LandRelay, Land, TypeInv, TypeOK
    <2> QED BY <2>1, <2>2
  <1>4. ASSUME NEW h \in RegReqs, LandAgain(h) PROVE IndexInv'
    BY <1>1, <1>4 DEF LandAgain, TypeInv, TypeOK
  <1>5. ASSUME NEW h \in RegReqs, ReadCount(h) PROVE IndexInv'
    <2>1. call[h] = "ok" /\ leaves' = leaves
      BY <1>5 DEF ReadCount, SeesOk, chain
    <2>2. PICK a \in 1 .. Len(leaves) : leaves[a] = who[h]
      BY <2>1 DEF IndexInv, Registered
    <2>3. count'[h] = Len(leaves) /\ Len(leaves) \in Nat
      BY <1>5 DEF ReadCount, RegisteredCount, TypeInv, TypeOK, ChainTypeOK
    <2>4. CountedAfter(who[h], count[h])'
      <3>1. who'[h] = who[h]
        BY <1>5 DEF ReadCount
      <3> QED BY <2>1, <2>2, <2>3, <3>1 DEF CountedAfter
    <2>5. \A g \in RegReqs : pc'[g] = "inserting" =>
            \/ pc[g] = "inserting" /\ count'[g] = count[g]
            \/ CountedAfter(who[g], count[g])'
      <3> SUFFICES ASSUME NEW g \in RegReqs, pc'[g] = "inserting", g # h
                   PROVE  pc[g] = "inserting" /\ count'[g] = count[g]
        BY <2>4
      <3> QED BY <1>5 DEF ReadCount, TypeInv, TypeOK
    <2> QED BY <1>1, <1>5, <2>5 DEF ReadCount, TypeInv, TypeOK
  <1>6. ASSUME NEW h \in RegReqs, Upsert(h) PROVE IndexInv'
    <2> DEFINE index == IndexFrom(count[h])
    <2>1. CASE \E u \in Voters \ {who[h]} : leafIndex[u] = index
      BY <1>1, <1>6, <2>1 DEF Upsert, TypeInv, TypeOK
    <2>2. CASE ~\E u \in Voters \ {who[h]} : leafIndex[u] = index
      <3>1. /\ leafIndex' = [leafIndex EXCEPT ![who[h]] = index]
            /\ pc' = [pc EXCEPT ![h] = "done"]
            /\ pc[h] = "inserting"
            /\ UNCHANGED <<chain, call, dbPhase, who, count>>
        BY <1>6, <2>2 DEF Upsert
      <3>2. CountedAfter(who[h], count[h]) /\ count[h] \in Nat /\ who[h] \in Voters
        BY <3>1 DEF IndexInv, TypeInv, TypeOK
      <3>3. index = count[h] - 1
        BY <3>2 DEF CountedAfter, IndexFrom
      <3>4. leaves' = leaves
        BY <3>1 DEF chain
      <3>5. \A g \in RegReqs : call'[g] = "ok" => who'[g] \in Registered'
        BY <3>1, <3>4 DEF IndexInv, Registered
      <3>6. \A g \in RegReqs : pc'[g] = "inserting" => CountedAfter(who[g], count[g])'
        BY <3>1, <3>4 DEF IndexInv, CountedAfter, TypeInv, TypeOK
      <3> HIDE DEF index
      <3>7. \A v \in Voters : v # who[h] => leafIndex'[v] = leafIndex[v]
        BY <3>1 DEF TypeInv, TypeOK
      <3>8. leafIndex'[who[h]] = index
        BY <3>1, <3>2 DEF TypeInv, TypeOK
      <3>9. \A v \in Listed' : CountedAfter(v, leafIndex[v] + 1)'
        <4> SUFFICES ASSUME NEW v \in Listed' PROVE CountedAfter(v, leafIndex[v] + 1)'
          OBVIOUS
        <4>1. CASE v = who[h]
          <5>1. leafIndex'[v] + 1 = count[h]
            BY <3>2, <3>3, <3>8, <4>1
          <5> QED BY <3>2, <3>4, <4>1, <5>1 DEF CountedAfter
        <4>2. CASE v # who[h]
          <5>1. v \in Listed /\ leafIndex'[v] = leafIndex[v]
            BY <3>7, <4>2 DEF Listed
          <5> QED BY <3>4, <5>1 DEF IndexInv, CountedAfter
        <4> QED BY <4>1, <4>2
      <3>10. \A u, v \in Listed' : leafIndex'[u] = leafIndex'[v] => u = v
        BY <2>2, <3>7, <3>8 DEF IndexInv, Listed
      <3> QED BY <3>5, <3>6, <3>9, <3>10 DEF IndexInv
    <2> QED BY <2>1, <2>2
  <1>7. ASSUME NEW h \in RegReqs, Fail(h) \/ HangUp(h) PROVE IndexInv'
    BY <1>1, <1>7 DEF Fail, HangUp, TypeInv, TypeOK
  <1>8. CASE Environment \/ UNCHANGED vars
    BY <1>1, <1>8 DEF Environment, vars
  <1> QED
    BY <1>2, <1>3, <1>4, <1>5, <1>6, <1>7, <1>8 DEF Next, RegisterRequest

LEMMA IndexInvariant == Spec => [](TypeInv /\ IndexInv)
  <1>1. Spec => []TypeInv
    BY InitType, StepType, PTL DEF Spec
  <1>2. Spec => []IndexInv
    BY <1>1, InitIndex, StepIndex, PTL DEF Spec
  <1> QED BY <1>1, <1>2, PTL

\* Position(v) is the index of v's leaf.
LEMMA PositionOf ==
  ASSUME TypeInv, NEW a \in 1 .. Len(leaves)
  PROVE  Position(leaves[a]) = a - 1
  <1>1. \E i \in 1 .. Len(leaves) : leaves[i] = leaves[a]
    OBVIOUS
  <1> DEFINE c == CHOOSE i \in 1 .. Len(leaves) : leaves[i] = leaves[a]
  <1>2. c \in 1 .. Len(leaves) /\ leaves[c] = leaves[a]
    BY <1>1
  <1> HIDE DEF c
  <1>3. c = a
    BY <1>2 DEF TypeInv, LeavesDistinct
  <1> QED BY <1>3 DEF Position, c

LEMMA IndexBounds ==
  ASSUME TypeInv, IndexInv, NEW v \in Listed
  PROVE  /\ v \in Registered
         /\ \E a \in 1 .. Len(leaves) : leaves[a] = v /\ Position(v) = a - 1
         /\ Position(v) <= leafIndex[v]
         /\ leafIndex[v] < RegisteredCount
         /\ leafIndex[v] \in Int
  <1>1. Len(leaves) \in Nat /\ leafIndex[v] \in Int
    BY DEF TypeInv, TypeOK, ChainTypeOK, Listed, NoRow
  <1>2. PICK a \in 1 .. Len(leaves) :
          leaves[a] = v /\ a <= leafIndex[v] + 1 /\ leafIndex[v] + 1 <= Len(leaves)
    BY DEF IndexInv, CountedAfter
  <1>3. Position(v) = a - 1
    BY <1>2, PositionOf
  <1> QED BY <1>1, <1>2, <1>3 DEF Registered, RegisteredCount

\* A recorded leaf_index is that of the voter's leaf or of a later one.
THEOREM IndexIsBounded == Spec => []IndexNotBeforeLeaf
  <1>1. TypeInv /\ IndexInv => IndexNotBeforeLeaf
    BY IndexBounds DEF IndexNotBeforeLeaf
  <1> QED BY <1>1, IndexInvariant, PTL

\* Were a row too high in a complete list, the voters from its leaf on would
\* have distinct indices behind that leaf: one more than there is room for.
LEMMA PigeonHole ==
  ASSUME TypeInv, IndexInv, Listed = Registered
  PROVE  \A v \in Listed : leafIndex[v] = Position(v)
  <1> SUFFICES ASSUME NEW v \in Listed, leafIndex[v] # Position(v) PROVE FALSE
    OBVIOUS
  <1>1. PICK p \in 1 .. Len(leaves) : leaves[p] = v /\ Position(v) = p - 1
    BY IndexBounds
  <1>2. leafIndex[v] \in Int /\ leafIndex[v] > p - 1
    BY <1>1, IndexBounds
  <1>3. Len(leaves) \in Nat
    BY DEF TypeInv, TypeOK, ChainTypeOK
  <1> DEFINE n == Len(leaves)
             S == p .. n
             T == p .. (n - 1)
             f == [a \in S |-> leafIndex[leaves[a]]]
  <1>4. ASSUME NEW a \in S
        PROVE  /\ leaves[a] \in Listed
               /\ a - 1 <= leafIndex[leaves[a]] /\ leafIndex[leaves[a]] < n
               /\ leafIndex[leaves[a]] \in Int
    <2>1. a \in 1 .. n
      BY <1>3
    <2>2. leaves[a] \in Listed
      BY <2>1 DEF Registered
    <2>3. Position(leaves[a]) = a - 1
      BY <2>1, PositionOf
    <2> QED BY <2>2, <2>3, IndexBounds DEF RegisteredCount
  <1>5. f \in [S -> T]
    <2> SUFFICES ASSUME NEW a \in S PROVE leafIndex[leaves[a]] \in T
      OBVIOUS
    <2>1. CASE a = p
      BY <1>1, <1>2, <1>3, <1>4, <2>1
    <2>2. CASE a # p
      BY <1>3, <1>4, <2>2
    <2> QED BY <2>1, <2>2
  <1>6. /\ IsFiniteSet(S) /\ Cardinality(S) = n - p + 1
        /\ IsFiniteSet(T) /\ Cardinality(T) = n - p
    <2>1. p \in Int /\ n \in Int /\ n - 1 \in Int
      BY <1>3
    <2> HIDE DEF n
    <2>2. /\ IsFiniteSet(p .. n) /\ Cardinality(p .. n) = IF p > n THEN 0 ELSE n - p + 1
          /\ IsFiniteSet(p .. (n - 1))
          /\ Cardinality(p .. (n - 1)) = IF p > n - 1 THEN 0 ELSE n - 1 - p + 1
      BY <2>1, FS_Interval
    <2>3. p <= n
      BY <1>3 DEF n
    <2> QED BY <2>1, <2>2, <2>3
  <1>7. Cardinality(T) < Cardinality(S)
    BY <1>3, <1>6
  <1>8. PICK x \in S, y \in S : x # y /\ f[x] = f[y]
    <2> HIDE DEF S, T, f
    <2> QED BY <1>5, <1>6, <1>7, FS_PigeonHole
  <1>9. leaves[x] = leaves[y]
    BY <1>4, <1>8 DEF IndexInv
  <1>10. x = y
    BY <1>3, <1>9 DEF TypeInv, LeavesDistinct
  <1> QED BY <1>8, <1>10

\* A leaf list with a row for every registration has every row at its leaf,
\* however many requests raced for their indices.
THEOREM CompleteListIsExact == Spec => []CompleteMirrorIsExact
  <1>1. TypeInv /\ IndexInv => CompleteMirrorIsExact
    BY PigeonHole DEF CompleteMirrorIsExact
  <1> QED BY <1>1, IndexInvariant, PTL

----------------------------------------------------------------------------
(* When nothing lands between a relay and the count that is read behind it. *)

\* The voter's leaf is the n-th.
LeafAt(v, n) == n \in 1 .. Len(leaves) /\ leaves[n] = v

\* The last leaf is that of the request about to read the count; counts that
\* were read, and indices that were stored, are those of their voter's leaf.
ExactInv ==
  /\ \A h \in RegReqs :
       pc[h] = "relaying" /\ call[h] = "ok" => LeafAt(who[h], Len(leaves))
  /\ \A h \in RegReqs : pc[h] = "inserting" => LeafAt(who[h], count[h])
  /\ \A v \in Listed : LeafAt(v, leafIndex[v] + 1)

LEMMA InitExact == Init => ExactInv
  BY DEF Init, ExactInv, Listed, NoRow

LEMMA LeafStays ==
  ASSUME TypeInv, [Next]_vars, NEW v, NEW n, LeafAt(v, n)
  PROVE  n \in 1 .. Len(leaves') /\ leaves'[n] = v
  <1>1. /\ Len(leaves) \in Nat /\ Len(leaves') \in Nat /\ Len(leaves) <= Len(leaves')
        /\ leaves'[n] = leaves[n]
    BY LeavesGrow DEF LeafAt
  <1> QED BY <1>1 DEF LeafAt

\* What a step does not change stays exact: a leaf keeps its place, and none is
\* added when a count is due.
LEMMA ExactKept ==
  ASSUME TypeInv, ExactInv, [UndisturbedNext]_vars, UNCHANGED <<who, leafIndex>>,
         \A h \in RegReqs : pc'[h] = "relaying" /\ call'[h] = "ok" =>
           \/ pc[h] = "relaying" /\ call[h] = "ok"
           \/ LeafAt(who[h], Len(leaves))',
         \A h \in RegReqs : pc'[h] = "inserting" =>
           \/ pc[h] = "inserting" /\ count'[h] = count[h]
           \/ LeafAt(who[h], count[h])'
  PROVE  ExactInv'
  <1>1. [Next]_vars
    BY DEF UndisturbedNext
  <1>2. ASSUME NEW h \in RegReqs, pc'[h] = "relaying", call'[h] = "ok"
        PROVE  LeafAt(who[h], Len(leaves))'
    <2>1. CASE pc[h] = "relaying" /\ call[h] = "ok"
      <3>1. leaves' = leaves
        BY <2>1 DEF UndisturbedNext, SeesOk, vars, chain
      <3> QED BY <2>1, <3>1 DEF ExactInv, LeafAt
    <2> QED BY <1>2, <2>1
  <1>3. ASSUME NEW h \in RegReqs, pc'[h] = "inserting"
        PROVE  LeafAt(who[h], count[h])'
    <2>1. CASE pc[h] = "inserting" /\ count'[h] = count[h]
      <3>1. LeafAt(who[h], count[h])
        BY <2>1 DEF ExactInv
      <3>2. count[h] \in 1 .. Len(leaves') /\ leaves'[count[h]] = who[h]
        BY <1>1, <3>1, LeafStays
      <3> QED BY <2>1, <3>2 DEF LeafAt
    <2> QED BY <1>3, <2>1
  <1>4. ASSUME NEW v \in Listed' PROVE LeafAt(v, leafIndex[v] + 1)'
    <2>1. LeafAt(v, leafIndex[v] + 1)
      BY <1>4 DEF Listed, ExactInv
    <2>2. leafIndex[v] + 1 \in 1 .. Len(leaves') /\ leaves'[leafIndex[v] + 1] = v
      BY <1>1, <2>1, LeafStays
    <2> QED BY <2>2 DEF LeafAt
  <1> QED BY <1>2, <1>3, <1>4 DEF ExactInv

\* The row that a request stores is that of its voter's leaf, and no other row
\* has its index.
LEMMA UpsertIsExact ==
  ASSUME TypeInv, ExactInv, NEW h \in RegReqs, Upsert(h)
  PROVE  /\ pc[h] = "inserting" /\ pc' = [pc EXCEPT ![h] = "done"]
         /\ who[h] \in Voters /\ count[h] \in Nat \ {0}
         /\ LeafAt(who[h], count[h])
         /\ leafIndex' = [leafIndex EXCEPT ![who[h]] = count[h] - 1]
         /\ UNCHANGED <<chain, call, dbPhase, who, count>>
  <1> DEFINE index == IndexFrom(count[h])
  <1>1. pc[h] = "inserting" /\ who[h] \in Voters /\ LeafAt(who[h], count[h])
    BY DEF Upsert, TypeInv, TypeOK, ExactInv
  <1>2. count[h] \in Nat \ {0} /\ leaves[count[h]] = who[h]
    BY <1>1 DEF LeafAt
  <1>3. index = count[h] - 1 /\ index \in Nat /\ index + 1 = count[h]
    BY <1>2 DEF IndexFrom
  <1>4. ASSUME NEW u \in Voters \ {who[h]}, leafIndex[u] = index PROVE FALSE
    <2>1. u \in Listed
      BY <1>3, <1>4 DEF Listed, NoRow
    <2>2. leaves[index + 1] = u
      BY <1>4, <2>1 DEF ExactInv, LeafAt
    <2> QED BY <1>2, <1>3, <2>2
  <1>5. /\ leafIndex' = [leafIndex EXCEPT ![who[h]] = index]
        /\ pc' = [pc EXCEPT ![h] = "done"]
        /\ UNCHANGED <<chain, call, dbPhase, who, count>>
    BY <1>4 DEF Upsert, Goto
  <1> HIDE DEF index
  <1> QED BY <1>1, <1>2, <1>3, <1>5

LEMMA StepExact == TypeInv /\ ExactInv /\ [UndisturbedNext]_vars => ExactInv'
  <1> SUFFICES ASSUME TypeInv, ExactInv, [UndisturbedNext]_vars PROVE ExactInv'
    OBVIOUS
  <1> USE DEF Goto
  <1>1. pc \in [RegReqs -> PcLabels] /\ call \in [RegReqs -> CallStatus] /\ count \in [RegReqs -> Nat]
    BY DEF TypeInv, TypeOK
  <1>2. ASSUME NEW h \in RegReqs, CheckPhase(h) \/ Fail(h) \/ HangUp(h) PROVE ExactInv'
    BY <1>1, <1>2, ExactKept DEF CheckPhase, Spawn, Fail, HangUp
  <1>3. ASSUME NEW h \in RegReqs, LandRelay(h) PROVE ExactInv'
    <2>1. /\ UNCHANGED <<leafIndex, pc, who, count>>
          /\ \A g \in RegReqs : g # h => call'[g] = call[g]
          /\ call'[h] = "ok" => MayRegister(who[h]) /\ Register(who[h])
      BY <1>1, <1>3 DEF LandRelay, Land
    <2>2. call'[h] = "ok" => LeafAt(who[h], Len(leaves))'
      <3> SUFFICES ASSUME call'[h] = "ok" PROVE LeafAt(who[h], Len(leaves))'
        OBVIOUS
      <3>1. Len(leaves') = Len(leaves) + 1 /\ leaves'[Len(leaves) + 1] = who[h]
        BY <2>1, OneLeafMore DEF TypeInv, TypeOK
      <3>2. Len(leaves) \in Nat
        BY DEF TypeInv, TypeOK, ChainTypeOK
      <3> QED BY <2>1, <3>1, <3>2 DEF LeafAt
    <2> QED BY <2>1, <2>2, ExactKept
  <1>4. ASSUME NEW h \in RegReqs, ReadCount(h) PROVE ExactInv'
    <2>1. /\ UNCHANGED <<call, leafIndex, who, leaves>>
          /\ pc[h] = "relaying" /\ call[h] = "ok"
          /\ pc' = [pc EXCEPT ![h] = "inserting"]
          /\ count' = [count EXCEPT ![h] = Len(leaves)]
      BY <1>4 DEF ReadCount, SeesOk, RegisteredCount, chain
    <2>2. LeafAt(who[h], count[h])'
      BY <1>1, <2>1 DEF ExactInv, LeafAt
    <2> QED BY <1>1, <2>1, <2>2, ExactKept
  <1>5. ASSUME NEW h \in RegReqs, Upsert(h) PROVE ExactInv'
    <2>1. /\ pc[h] = "inserting" /\ pc' = [pc EXCEPT ![h] = "done"]
          /\ who[h] \in Voters /\ count[h] \in Nat \ {0}
          /\ LeafAt(who[h], count[h])
          /\ leafIndex' = [leafIndex EXCEPT ![who[h]] = count[h] - 1]
          /\ UNCHANGED <<call, who, count, leaves>>
      BY <1>5, UpsertIsExact DEF chain
    <2>2. ASSUME NEW v \in Listed' PROVE LeafAt(v, leafIndex[v] + 1)'
      <3>1. CASE v = who[h]
        <4>1. leafIndex'[v] = count[h] - 1
          BY <2>1, <3>1 DEF TypeInv, TypeOK
        <4>2. leafIndex'[v] + 1 = count[h]
          BY <2>1, <4>1
        <4> QED BY <2>1, <3>1, <4>2 DEF LeafAt
      <3>2. CASE v # who[h]
        <4>1. leafIndex'[v] = leafIndex[v] /\ v \in Listed
          BY <2>1, <2>2, <3>2 DEF Listed, TypeInv, TypeOK
        <4> QED BY <2>1, <4>1 DEF ExactInv, LeafAt
      <3> QED BY <3>1, <3>2
    <2>3. \A g \in RegReqs : pc'[g] = "relaying" /\ call'[g] = "ok" => LeafAt(who[g], Len(leaves))'
      BY <1>1, <2>1 DEF ExactInv, LeafAt
    <2>4. \A g \in RegReqs : pc'[g] = "inserting" => LeafAt(who[g], count[g])'
      BY <1>1, <2>1 DEF ExactInv, LeafAt
    <2> QED BY <2>2, <2>3, <2>4 DEF ExactInv
  <1>6. CASE Environment \/ UNCHANGED vars
    BY <1>1, <1>6, ExactKept DEF Environment, vars
  <1> QED
    BY <1>2, <1>3, <1>4, <1>5, <1>6 DEF UndisturbedNext, Next, RegisterRequest

LEMMA ExactInvariant == UndisturbedSpec => [](TypeInv /\ ExactInv)
  <1>1. [UndisturbedNext]_vars => [Next]_vars
    BY DEF UndisturbedNext
  <1>2. UndisturbedSpec => []TypeInv
    BY <1>1, InitType, StepType, PTL DEF UndisturbedSpec
  <1> QED BY <1>2, InitExact, StepExact, PTL DEF UndisturbedSpec

\* Where the comment of register takes the index read back for safe it is: with
\* nothing landing in between, every stored leaf_index is that of the voter's
\* leaf, whatever fails or hangs up.
THEOREM UndisturbedIndexIsExact == UndisturbedSpec => []IndexIsExact
  <1>1. TypeInv /\ ExactInv => IndexIsExact
    <2> SUFFICES ASSUME TypeInv, ExactInv, NEW v \in Listed
                 PROVE  leafIndex[v] = Position(v)
      BY DEF IndexIsExact
    <2>1. leafIndex[v] \in Int
      BY DEF TypeInv, TypeOK, Listed, NoRow
    <2>2. leafIndex[v] + 1 \in 1 .. Len(leaves) /\ leaves[leafIndex[v] + 1] = v
      BY DEF ExactInv, LeafAt
    <2>3. Position(v) = (leafIndex[v] + 1) - 1
      BY <2>2, PositionOf
    <2> QED BY <2>1, <2>3
  <1> QED BY <1>1, ExactInvariant, PTL

\* A request that ended had its call refused or has stored its row.
AnsweredInv ==
  /\ \A h \in RegReqs : pc[h] = "new" => call[h] = "none"
  /\ \A h \in RegReqs : pc[h] = "failed" => call[h] \in {"none", "refused"}
  /\ \A h \in RegReqs : pc[h] = "done" => who[h] \in Listed
  /\ \A h \in RegReqs : pc[h] # "gone"

LEMMA InitAnswered == Init => AnsweredInv
  BY DEF Init, AnsweredInv

LEMMA StepAnswered ==
  ASSUME Faulty = FALSE, TypeInv, ExactInv, AnsweredInv, [UndisturbedNext]_vars
  PROVE  AnsweredInv'
  <1> USE DEF Goto
  <1>1. pc \in [RegReqs -> PcLabels] /\ call \in [RegReqs -> CallStatus]
    BY DEF TypeInv, TypeOK
  <1>2. ASSUME NEW h \in RegReqs, CheckPhase(h) \/ LandRelay(h) \/ LandAgain(h) \/ ReadCount(h)
        PROVE  AnsweredInv'
    BY <1>1, <1>2 DEF CheckPhase, Spawn, LandRelay, Land, LandAgain, ReadCount, AnsweredInv, Listed
  <1>3. ASSUME NEW h \in RegReqs, Upsert(h) PROVE AnsweredInv'
    <2>1. /\ pc[h] = "inserting" /\ pc' = [pc EXCEPT ![h] = "done"]
          /\ who[h] \in Voters /\ count[h] \in Nat \ {0}
          /\ leafIndex' = [leafIndex EXCEPT ![who[h]] = count[h] - 1]
          /\ UNCHANGED <<call, who>>
      BY <1>3, UpsertIsExact
    <2>2. count[h] - 1 # NoRow
      BY <2>1 DEF NoRow
    <2>3. who[h] \in Listed' /\ Listed \subseteq Listed'
      BY <2>1, <2>2 DEF Listed, TypeInv, TypeOK
    <2> QED BY <1>1, <2>1, <2>3 DEF AnsweredInv
  <1>4. ASSUME NEW h \in RegReqs, Fail(h) PROVE AnsweredInv'
    BY <1>1, <1>4 DEF Fail, SeesErr, AnsweredInv, Listed
  <1>5. CASE Environment \/ UNCHANGED vars
    BY <1>5 DEF Environment, vars, AnsweredInv, Listed
  <1> QED
    BY <1>2, <1>3, <1>4, <1>5 DEF UndisturbedNext, Next, RegisterRequest, HangUp

\* Without faults, and with nothing landing in between, a voter whom the backend
\* has registered is in its table once the request is answered.
THEOREM UndisturbedVoterIsListed ==
  Faulty = FALSE => (UndisturbedSpec => []RelayedVoterIsListed)
  <1> SUFFICES ASSUME Faulty = FALSE PROVE UndisturbedSpec => []RelayedVoterIsListed
    OBVIOUS
  <1>1. TypeInv /\ ExactInv /\ AnsweredInv /\ [UndisturbedNext]_vars => AnsweredInv'
    BY StepAnswered
  <1>2. AnsweredInv => RelayedVoterIsListed
    BY DEF AnsweredInv, RelayedVoterIsListed
  <1> QED
    BY <1>1, <1>2, InitAnswered, ExactInvariant, PTL DEF UndisturbedSpec
=============================================================================
