------------------------ MODULE AdministrationProofs ------------------------
(***************************************************************************)
(* Proofs about Administration, for every set of requests and every bound: *)
(* what the sequence numbers of the operator's account do to concurrent,   *)
(* failed and repeated calls, and what the tables hold of the rounds.      *)
(***************************************************************************)
EXTENDS Administration, FiniteSetTheorems, TLAPS

----------------------------------------------------------------------------
(* The account.                                                            *)

AccountType ==
  /\ seq \in Nat
  /\ op \in [Calls -> OpStatus]
  /\ number \in [Calls -> Nat]

\* A number that was used was used by one that was included with it; a number
\* on its way is at most the next.
AccountInv ==
  /\ \A k \in Calls :
       /\ number[k] <= seq + 1
       /\ op[k] \in {"none", "started"} => number[k] = 0
       /\ op[k] = "signed" => number[k] > 0
       /\ Included(k) => number[k] > 0 /\ number[k] <= seq
       /\ op[k] = "refused" => number[k] <= seq
  /\ \A n \in 1 .. seq : \E j \in Calls : Included(j) /\ number[j] = n

\* A step of one call.
AccountStep ==
  \E k \in Calls :
    \/ Start(k)
    \/ \E allowed \in BOOLEAN : Sign(k, allowed)
    \/ op[k] = "signed" /\ number[k] = seq + 1 /\ seq' = seq + 1 /\ number' = number
         /\ (op' = [op EXCEPT ![k] = "ok"] \/ op' = [op EXCEPT ![k] = "reverted"])
    \/ Outrun(k)

LEMMA AccountStarts == Init => AccountType /\ AccountInv
  BY DEF Init, AccountType, AccountInv, OpStatus, Included

LEMMA AccountMoves ==
  ASSUME AccountType, AccountInv, AccountStep \/ UNCHANGED account
  PROVE  AccountType' /\ AccountInv'
  <1>1. CASE UNCHANGED account
    BY <1>1 DEF account, AccountType, AccountInv, Included
  <1>2. ASSUME NEW k \in Calls, Start(k) PROVE AccountType' /\ AccountInv'
    <2>1. /\ op[k] = "none" /\ op' = [op EXCEPT ![k] = "started"] /\ UNCHANGED <<seq, number>>
      BY <1>2 DEF Start
    <2>2. \A j \in Calls : op'[j] = IF j = k THEN "started" ELSE op[j]
      BY <2>1 DEF AccountType
    <2>3. AccountType'
      BY <2>1 DEF AccountType, OpStatus
    <2>4. AccountInv'
      BY <2>1, <2>2 DEF AccountInv, Included
    <2> QED BY <2>3, <2>4
  <1>3. ASSUME NEW k \in Calls, NEW allowed \in BOOLEAN, Sign(k, allowed)
        PROVE  AccountType' /\ AccountInv'
    <2>1. CASE /\ op[k] = "started" /\ UNCHANGED seq
               /\ op' = [op EXCEPT ![k] = "signed"]
               /\ number' = [number EXCEPT ![k] = seq + 1]
      <3>1. \A j \in Calls : /\ op'[j] = IF j = k THEN "signed" ELSE op[j]
                             /\ number'[j] = IF j = k THEN seq + 1 ELSE number[j]
        BY <2>1 DEF AccountType
      <3>2. AccountType'
        BY <2>1 DEF AccountType, OpStatus
      <3>3. \A n \in 1 .. seq' : \E j \in Calls : (Included(j) /\ number[j] = n)'
        BY <2>1, <3>1 DEF AccountInv, Included
      <3>4. AccountInv'
        BY <2>1, <3>1, <3>3 DEF AccountInv, AccountType, Included
      <3> QED BY <3>2, <3>4
    <2>2. CASE /\ op[k] = "started" /\ UNCHANGED <<seq, number>>
               /\ op' = [op EXCEPT ![k] = "refused"]
      <3>1. \A j \in Calls : op'[j] = IF j = k THEN "refused" ELSE op[j]
        BY <2>2 DEF AccountType
      <3>2. AccountType'
        BY <2>2 DEF AccountType, OpStatus
      <3>3. AccountInv'
        BY <2>2, <3>1 DEF AccountInv, AccountType, Included
      <3> QED BY <3>2, <3>3
    <2> QED BY <1>3, <2>1, <2>2 DEF Sign
  <1>4. ASSUME NEW k \in Calls, op[k] = "signed", number[k] = seq + 1,
               seq' = seq + 1, number' = number,
               op' = [op EXCEPT ![k] = "ok"] \/ op' = [op EXCEPT ![k] = "reverted"]
        PROVE  AccountType' /\ AccountInv'
    <2>1. /\ Included(k)'
          /\ \A j \in Calls : j # k => op'[j] = op[j]
      BY <1>4 DEF AccountType, Included
    <2>2. AccountType'
      BY <1>4 DEF AccountType, OpStatus
    <2>3. \A n \in 1 .. seq' : \E j \in Calls : (Included(j) /\ number[j] = n)'
      <3> SUFFICES ASSUME NEW n \in 1 .. seq'
                   PROVE  \E j \in Calls : (Included(j) /\ number[j] = n)'
        OBVIOUS
      <3>1. CASE n = seq + 1
        BY <1>4, <2>1, <3>1
      <3>2. CASE n # seq + 1
        <4>1. n \in 1 .. seq
          BY <1>4, <3>2 DEF AccountType
        <4>2. PICK j \in Calls : Included(j) /\ number[j] = n
          BY <4>1 DEF AccountInv
        <4>3. Included(j)'
          BY <1>4, <2>1, <4>2 DEF Included
        <4> QED BY <1>4, <4>2, <4>3
      <3> QED BY <3>1, <3>2
    <2>4. \A j \in Calls :
            /\ number'[j] <= seq' + 1
            /\ op'[j] \in {"none", "started"} => number'[j] = 0
            /\ op'[j] = "signed" => number'[j] > 0
            /\ Included(j)' => number'[j] > 0 /\ number'[j] <= seq'
            /\ op'[j] = "refused" => number'[j] <= seq'
      <3> SUFFICES ASSUME NEW j \in Calls
                   PROVE  /\ number'[j] <= seq' + 1
                          /\ op'[j] \in {"none", "started"} => number'[j] = 0
                          /\ op'[j] = "signed" => number'[j] > 0
                          /\ Included(j)' => number'[j] > 0 /\ number'[j] <= seq'
                          /\ op'[j] = "refused" => number'[j] <= seq'
        OBVIOUS
      <3>1. number[j] \in Nat /\ seq \in Nat
        BY DEF AccountType
      <3>2. CASE j = k
        BY <1>4, <2>1, <3>1, <3>2 DEF Included, AccountType
      <3>3. CASE j # k
        BY <1>4, <2>1, <3>1, <3>3 DEF AccountInv, Included
      <3> QED BY <3>2, <3>3
    <2> QED BY <2>2, <2>3, <2>4 DEF AccountInv
  <1>5. ASSUME NEW k \in Calls, Outrun(k) PROVE AccountType' /\ AccountInv'
    <2>1. /\ op[k] = "signed" /\ number[k] <= seq
          /\ op' = [op EXCEPT ![k] = "refused"] /\ UNCHANGED <<seq, number>>
      BY <1>5 DEF Outrun
    <2>2. \A j \in Calls : op'[j] = IF j = k THEN "refused" ELSE op[j]
      BY <2>1 DEF AccountType
    <2>3. AccountType'
      BY <2>1 DEF AccountType, OpStatus
    <2>4. AccountInv'
      BY <2>1, <2>2 DEF AccountInv, AccountType, Included
    <2> QED BY <2>3, <2>4
  <1> QED BY <1>1, <1>2, <1>3, <1>4, <1>5 DEF AccountStep

----------------------------------------------------------------------------
(* Types, and the state of each request.                                   *)

MadeBy(h, c, i) == i \in 1 .. Len(made[c]) /\ made[c][i] = [by |-> h, choices |-> size[h]]

RowOf(h) == [contract |-> on[h], by |-> h, choices |-> size[h]]

\* A creation under way belongs to the contract in use; once called it has its
\* round there; and its row is in the table when it is done, and not before.
CreateOk(h) ==
  /\ pc[h] \in {"new", "calling", "beginning", "storing", "adding", "done", "failed"}
  /\ pc[h] = "new" => op[<<h, 0>>] = "none"
  /\ op[<<h, 0>>] # "none" => size[h] > 0
  /\ op[<<h, 0>>] = "ok" => \E i \in Ids : MadeBy(h, on[h], i)
  /\ pc[h] \in {"calling", "beginning", "storing", "adding"} => on[h] = contract
  /\ pc[h] \in {"calling", "beginning", "storing", "adding", "done"} => size[h] > 0
  /\ pc[h] \in {"beginning", "storing", "adding", "done"} =>
       id[h] \in Ids /\ MadeBy(h, on[h], id[h])
  /\ pc[h] \in {"new", "calling", "beginning", "storing"} => at[h] = 0
  /\ pc[h] = "adding" => at[h] <= size[h] /\ rounds[id[h]] = NoRow
  /\ pc[h] = "done" => rounds[id[h]] = RowOf(h)

\* A round on a contract is of a creation that was included there, once.
MadeOk(c) ==
  /\ \A i \in 1 .. Len(made[c]) :
       /\ op[<<made[c][i].by, 0>>] = "ok"
       /\ on[made[c][i].by] = c
       /\ made[c][i].choices = size[made[c][i].by]
  /\ \A i, j \in 1 .. Len(made[c]) : made[c][i].by = made[c][j].by => i = j

\* A marking has got a conclusive answer, or one of a transaction that is sent,
\* to all calls behind it, and has made none of those before it.
Answered(h, i) == op[<<h, i>>] \notin {"none", "started"}

MarkOk(h) ==
  /\ pc[h] \in {"new", "marking", "awaiting", "done", "failed"}
  /\ Len(voters[h]) <= MaxList
  /\ \A i, j \in 1 .. Len(voters[h]) : voters[h][i] = voters[h][j] => i = j
  /\ \A i \in 0 .. MaxList : op[<<h, i>>] # "none" => i < Len(voters[h]) /\ id[h] \in Ids
  /\ pc[h] \in {"marking", "awaiting", "done"} => id[h] \in Ids
  /\ at[h] <= Len(voters[h])
  /\ pc[h] = "awaiting" => at[h] < Len(voters[h])
  /\ pc[h] = "new" => /\ \A i \in 0 .. MaxList : op[<<h, i>>] = "none"
                      /\ voters[h] = <<>> /\ updated[h] = {} /\ at[h] = 0 /\ before[h] = {}
  /\ pc[h] = "done" => at[h] = Len(voters[h])
  /\ pc[h] \in {"marking", "awaiting", "done"} =>
       \A i \in 0 .. MaxList :
         /\ i < at[h] => Answered(h, i)
         /\ i >= at[h] => op[<<h, i>>] = "none" \/ (pc[h] = "awaiting" /\ i = at[h])
  /\ \A v \in updated[h] :
       \E i \in 0 .. MaxList : i < Len(voters[h]) /\ voters[h][i + 1] = v /\ op[<<h, i>>] = "ok"

Inv ==
  /\ TypeOK
  /\ AccountInv
  /\ \A h \in CreateReqs : CreateOk(h)
  /\ \A c \in Contracts : MadeOk(c)
  /\ \A h \in MarkReqs : MarkOk(h)

LEMMA Sizes ==
  /\ MaxProposals \in Nat /\ MaxProposals > 0
  /\ MaxList \in Nat /\ MaxList > 0
  /\ MaxContracts \in Nat /\ MaxContracts > 0
  /\ CreateReqs \cap MarkReqs = {}
  /\ Cardinality(CreateReqs) \in Nat
  BY AdministrationAssumption, FS_CardinalityType

LEMMA InitInv == Init => Inv
  <1> SUFFICES ASSUME Init PROVE Inv OBVIOUS
  <1>1. AccountInv
    BY AccountStarts
  <1>2. TypeOK
    BY Sizes DEF Init, TypeOK, OpStatus, PcLabels, Contracts
  <1>3. \A h \in CreateReqs : CreateOk(h)
    BY Sizes DEF Init, CreateOk, Reqs, Calls
  <1>4. \A c \in Contracts : MadeOk(c)
    BY DEF Init, MadeOk
  <1>5. \A h \in MarkReqs : MarkOk(h)
    BY Sizes DEF Init, MarkOk, Reqs, Calls, Answered
  <1> QED BY <1>1, <1>2, <1>3, <1>4, <1>5 DEF Inv

\* Every step of the system is one of a single call, or of none.
LEMMA NextMovesAccount ==
  ASSUME Inv, [Next]_vars PROVE AccountStep \/ UNCHANGED account
  <1>1. ASSUME NEW h \in CreateReqs, NEW n, NEW pool, BeginCreate(h, n, pool)
        PROVE  AccountStep \/ UNCHANGED account
    <2>1. <<h, 0>> \in Calls
      BY Sizes DEF Calls, Reqs
    <2> QED BY <1>1, <2>1 DEF BeginCreate, AccountStep
  <1>2. ASSUME NEW h \in CreateReqs, Called(h) \/ Store(h)
        PROVE  UNCHANGED account
    BY <1>2 DEF Called, Store, BeginTx, InsertRound, InsertProposal, Commit
  <1>3. ASSUME NEW h \in MarkReqs, SendMark(h)
        PROVE  AccountStep \/ UNCHANGED account
    <2>1. at[h] < Len(voters[h]) => <<h, at[h]>> \in Calls
      <3>1. Len(voters[h]) \in Nat /\ at[h] \in Nat /\ Len(voters[h]) <= MaxList
        BY DEF Inv, TypeOK, MarkOk, Reqs
      <3> QED BY <3>1, Sizes DEF Calls, Reqs
    <2> QED BY <1>3, <2>1 DEF SendMark, AccountStep
  <1>4. ASSUME NEW h \in MarkReqs,
               \/ MarkAnswered(h)
               \/ \E i \in Ids, list \in Lists, value \in BOOLEAN : BeginMark(h, i, list, value)
        PROVE  UNCHANGED account
    BY <1>4 DEF BeginMark, MarkAnswered
  <1>5. ASSUME (\E h \in Reqs : Fail(h)) \/ ReplaceContract
        PROVE  UNCHANGED account
    BY <1>5 DEF Fail, ReplaceContract
  <1>6. ASSUME NEW h \in Reqs, Ledger(h) PROVE AccountStep
    <2>1. \A i \in 0 .. MaxList : <<h, i>> \in Calls
      BY DEF Calls
    <2>3. CASE h \in CreateReqs /\ IncludeCreate(h)
      BY <2>1, <2>3, Sizes DEF IncludeCreate, Include, AccountStep
    <2>4. ASSUME NEW i \in 0 .. MaxList, IncludeMark(h, i) PROVE AccountStep
      BY <2>1, <2>4 DEF IncludeMark, Include, AccountStep
    <2>5. ASSUME NEW i \in 0 .. MaxList,
                 Sign(<<h, i>>, TRUE) \/ SignMark(h, i) \/ Outrun(<<h, i>>)
          PROVE  AccountStep
      <3>1. ASSUME NEW allowed \in BOOLEAN, Sign(<<h, i>>, allowed) PROVE AccountStep
        BY <2>1, <3>1 DEF AccountStep
      <3>2. Exists(on[h], id[h]) \in BOOLEAN
        BY DEF Exists
      <3>3. PICK allowed \in BOOLEAN : allowed = Exists(on[h], id[h])
        BY <3>2
      <3>4. SignMark(h, i) => Sign(<<h, i>>, allowed)
        BY <3>3 DEF SignMark, Sign
      <3> QED BY <2>1, <2>5, <3>1, <3>4 DEF AccountStep
    <2> QED BY <1>6, <2>3, <2>4, <2>5 DEF Ledger
  <1>7. CASE UNCHANGED vars
    BY <1>7 DEF vars
  <1> QED
    BY <1>1, <1>2, <1>3, <1>4, <1>5, <1>6, <1>7 DEF Next, Create, Mark, Reqs

LEMMA AccountInvariant == Inv /\ [Next]_vars => AccountType' /\ AccountInv'
  BY NextMovesAccount, AccountMoves DEF Inv, TypeOK, AccountType

----------------------------------------------------------------------------
(* Preservation.                                                           *)

\* A creation that is included gets an id no other round of its contract has.
LEMMA NextIdIsFree ==
  ASSUME Inv, NEW h \in CreateReqs, op[<<h, 0>>] = "signed", NEW c \in Contracts
  PROVE  Len(made[c]) + 1 \in Ids /\ \A i \in 1 .. Len(made[c]) : made[c][i].by # h
  <1> DEFINE n == Len(made[c])
             S == 1 .. (n + 1)
             f == [i \in S |-> IF i <= n THEN made[c][i].by ELSE h]
  <1>1. n \in Nat /\ \A i \in 1 .. n : made[c][i] \in Rounds
    BY DEF Inv, TypeOK
  <1>2. \A i \in 1 .. n : made[c][i].by # h
    BY DEF Inv, MadeOk
  <1>3. \A i, j \in 1 .. n : made[c][i].by = made[c][j].by => i = j
    BY DEF Inv, MadeOk
  <1> HIDE DEF n
  <1>4. f \in [S -> CreateReqs]
    BY <1>1 DEF Rounds
  <1>5. \A x, y \in S : f[x] = f[y] => x = y
    BY <1>1, <1>2, <1>3
  <1>6. IsFiniteSet(S) /\ Cardinality(S) = n + 1
    BY <1>1, FS_Interval
  <1>7. ~(Cardinality(CreateReqs) < n + 1)
    <2> SUFFICES ASSUME Cardinality(CreateReqs) < n + 1 PROVE FALSE
      OBVIOUS
    <2>1. IsFiniteSet(CreateReqs) /\ Cardinality(CreateReqs) < Cardinality(S)
      BY <1>6, AdministrationAssumption
    <2> HIDE DEF S, f
    <2>2. PICK x \in S, y \in S : x # y /\ f[x] = f[y]
      BY <1>4, <1>6, <2>1, FS_PigeonHole
    <2> QED BY <1>5, <2>2
  <1>8. n + 1 \in Ids
    BY <1>1, <1>7, Sizes DEF Ids
  <1> QED BY <1>2, <1>8 DEF n

\* What the subprocesses and the ledger do, apart from creating rounds.
OneCallMoves(h) ==
  /\ UNCHANGED <<contract, made, tables, conns, pc, work>>
  /\ \E i \in 0 .. MaxList, s \in {"signed", "refused", "ok", "reverted"} :
       /\ op[<<h, i>>] \in {"started", "signed"}
       /\ op' = [op EXCEPT ![<<h, i>>] = s]
       /\ s = "ok" => h \in MarkReqs

LEMMA LedgerMoves ==
  ASSUME NEW h \in Reqs, Ledger(h)
  PROVE  (h \in CreateReqs /\ IncludeCreate(h)) \/ OneCallMoves(h)
  <1>1. ASSUME NEW i \in 0 .. MaxList, UNCHANGED <<contract, made, tables, conns, pc, work>>,
               NEW s \in {"signed", "refused", "ok", "reverted"},
               op[<<h, i>>] \in {"started", "signed"}, op' = [op EXCEPT ![<<h, i>>] = s],
               s = "ok" => h \in MarkReqs
        PROVE  OneCallMoves(h)
    BY <1>1 DEF OneCallMoves
  <1>2. ASSUME NEW i \in 0 .. MaxList, UNCHANGED <<contract, made, tables, conns, pc, work>>,
               \/ Sign(<<h, i>>, TRUE)
               \/ SignMark(h, i)
               \/ h \in MarkReqs /\ IncludeMark(h, i)
               \/ Outrun(<<h, i>>)
        PROVE  OneCallMoves(h)
    <2>1. op[<<h, i>>] \in {"started", "signed"}
      BY <1>2 DEF Sign, SignMark, IncludeMark, Include, Outrun
    <2>2. \E s \in {"signed", "refused", "ok", "reverted"} :
            op' = [op EXCEPT ![<<h, i>>] = s] /\ (s = "ok" => h \in MarkReqs)
      BY <1>2 DEF Sign, SignMark, IncludeMark, Include, Outrun
    <2> QED BY <1>1, <1>2, <2>1, <2>2
  <1> QED BY <1>2 DEF Ledger

ChainType ==
  /\ contract \in Contracts
  /\ made \in [Contracts -> Seq(Rounds)]
  /\ eligible \in SUBSET (Contracts \X Ids \X Voters)

TableType ==
  /\ rounds \in [Ids -> RoundRows \cup {NoRow}]
  /\ proposals \in [Ids -> SUBSET (0 .. (MaxProposals - 1))]
  /\ conns \in SUBSET CreateReqs

PcType == pc \in [Reqs -> PcLabels]

WorkType ==
  /\ on \in [Reqs -> Contracts]
  /\ id \in [Reqs -> Ids \cup {0}]
  /\ size \in [CreateReqs -> 0 .. MaxProposals]
  /\ voters \in [MarkReqs -> Seq(Voters)]
  /\ mark \in [MarkReqs -> BOOLEAN]
  /\ at \in [Reqs -> Nat]
  /\ updated \in [MarkReqs -> SUBSET Voters]
  /\ before \in [MarkReqs -> SUBSET MarkReqs]

LEMMA Types == TypeOK <=> AccountType /\ ChainType /\ TableType /\ PcType /\ WorkType
  BY DEF TypeOK, AccountType, ChainType, TableType, PcType, WorkType

LEMMA StepType ==
  ASSUME Inv, [Next]_vars PROVE TypeOK'
  <1>0. AccountType' /\ ChainType /\ TableType /\ PcType /\ WorkType
    BY AccountInvariant, Types DEF Inv
  <1>a. (ChainType' /\ TableType' /\ PcType' /\ WorkType') => TypeOK'
    BY <1>0 DEF TypeOK, AccountType, ChainType, TableType, PcType, WorkType
  <1>b. UNCHANGED <<contract, made, eligible>> => ChainType'
    BY <1>0 DEF ChainType
  <1>c. UNCHANGED tables /\ conns' \subseteq conns => TableType'
    BY <1>0 DEF TableType, tables
  <1>d. UNCHANGED work => WorkType'
    BY <1>0 DEF WorkType, work
  <1>e. \A h, label : label \in PcLabels /\ pc' = [pc EXCEPT ![h] = label] => PcType'
    BY <1>0 DEF PcType
  <1>f. UNCHANGED pc => PcType'
    BY <1>0 DEF PcType
  <1> USE DEF Goto
  <1>1. ASSUME NEW h \in CreateReqs, NEW n \in 0 .. MaxProposals, NEW pool \in {-1, 0},
               BeginCreate(h, n, pool)
        PROVE  TypeOK'
    <2>1. ChainType' /\ TableType'
      BY <1>b, <1>c, <1>1 DEF BeginCreate
    <2>2. PcType'
      BY <1>e, <1>1 DEF BeginCreate, PcLabels
    <2>3. WorkType'
      BY <1>0, <1>1 DEF BeginCreate, WorkType, ChainType
    <2> QED BY <1>a, <2>1, <2>2, <2>3
  <1>2. ASSUME NEW h \in CreateReqs, Called(h) PROVE TypeOK'
    <2>1. op[<<h, 0>>] = "ok" /\ CreateOk(h)
      BY <1>2 DEF Called, SeesOk, Inv
    <2>2. PICK i \in Ids : Exists(on[h], i) /\ made[on[h]][i].by = h
      BY <2>1 DEF CreateOk, MadeBy, Exists
    <2>3. ReturnedId(h) \in Ids
      BY <2>2 DEF ReturnedId
    <2>4. ChainType' /\ TableType' /\ PcType'
      BY <1>b, <1>c, <1>e, <1>2 DEF Called, PcLabels
    <2> HIDE DEF ReturnedId
    <2>5. WorkType'
      BY <1>0, <1>2, <2>3 DEF Called, WorkType
    <2> QED BY <1>a, <2>4, <2>5
  <1>3. ASSUME NEW h \in CreateReqs, BeginTx(h) \/ InsertRound(h) PROVE TypeOK'
    <2>1. ChainType' /\ WorkType'
      BY <1>b, <1>d, <1>3 DEF BeginTx, InsertRound
    <2>2. TableType'
      BY <1>0, <1>3 DEF BeginTx, InsertRound, Connect, Release, TableType, tables
    <2>3. PcType'
      BY <1>e, <1>3 DEF BeginTx, InsertRound, PcLabels
    <2> QED BY <1>a, <2>1, <2>2, <2>3
  <1>4. ASSUME NEW h \in CreateReqs, InsertProposal(h) PROVE TypeOK'
    <2>1. ChainType' /\ TableType' /\ PcType'
      BY <1>b, <1>c, <1>f, <1>4 DEF InsertProposal
    <2>2. WorkType'
      BY <1>0, <1>4 DEF InsertProposal, WorkType, Reqs
    <2> QED BY <1>a, <2>1, <2>2
  <1>5. ASSUME NEW h \in CreateReqs, Commit(h) PROVE TypeOK'
    <2>1. pc[h] = "adding" /\ CreateOk(h) /\ h \in Reqs
      BY <1>5 DEF Commit, Inv, Reqs
    <2>2. id[h] \in Ids /\ size[h] \in 1 .. MaxProposals /\ on[h] \in Contracts
      BY <1>0, <2>1 DEF CreateOk, WorkType
    <2>3. RowOf(h) \in RoundRows
      BY <2>2 DEF RowOf, RoundRows
    <2>4. 0 .. (at[h] - 1) \in SUBSET (0 .. (MaxProposals - 1))
      BY <1>5, <2>2, Sizes DEF Commit
    <2>5. rounds' = [rounds EXCEPT ![id[h]] = RowOf(h)]
      BY <1>5 DEF Commit, RowOf
    <2> HIDE DEF RowOf
    <2>6. TableType'
      BY <1>0, <1>5, <2>3, <2>4, <2>5 DEF Commit, Release, TableType
    <2>7. ChainType' /\ WorkType'
      BY <1>b, <1>d, <1>5 DEF Commit
    <2>8. PcType'
      BY <1>e, <1>5 DEF Commit, PcLabels
    <2> QED BY <1>a, <2>6, <2>7, <2>8
  <1>6. ASSUME NEW h \in MarkReqs, NEW i \in Ids, NEW list \in Lists, NEW value \in BOOLEAN,
               BeginMark(h, i, list, value)
        PROVE  TypeOK'
    <2>1. list \in Seq(Voters)
      BY Sizes DEF Lists
    <2>2. ChainType' /\ TableType'
      BY <1>b, <1>c, <1>6 DEF BeginMark
    <2>3. PcType'
      BY <1>e, <1>6 DEF BeginMark, PcLabels
    <2>4. CASE UNCHANGED work
      BY <1>a, <1>d, <2>2, <2>3, <2>4
    <2>5. CASE rounds[i] # NoRow
      <3>1. before' \in [MarkReqs -> SUBSET MarkReqs]
        BY <1>0, <1>6, <2>5 DEF BeginMark, WorkType
      <3>2. on' \in [Reqs -> Contracts] /\ id' \in [Reqs -> Ids \cup {0}]
        BY <1>0, <1>6, <2>5 DEF BeginMark, WorkType, ChainType
      <3>3. voters' \in [MarkReqs -> Seq(Voters)] /\ mark' \in [MarkReqs -> BOOLEAN]
        BY <1>0, <1>6, <2>1, <2>5 DEF BeginMark, WorkType
      <3>4. WorkType'
        BY <1>0, <1>6, <2>5, <3>1, <3>2, <3>3 DEF BeginMark, WorkType
      <3> QED BY <1>a, <2>2, <2>3, <3>4
    <2> QED BY <1>6, <2>4, <2>5 DEF BeginMark
  <1>7. ASSUME NEW h \in MarkReqs, SendMark(h) PROVE TypeOK'
    <2>1. ChainType' /\ TableType' /\ WorkType'
      BY <1>b, <1>c, <1>d, <1>7 DEF SendMark
    <2>2. PcType'
      BY <1>e, <1>7 DEF SendMark, PcLabels
    <2> QED BY <1>a, <2>1, <2>2
  <1>8. ASSUME NEW h \in MarkReqs, MarkAnswered(h) PROVE TypeOK'
    <2>1. at[h] \in Nat /\ at[h] + 1 \in 1 .. Len(voters[h]) /\ voters[h] \in Seq(Voters)
      <3>1. pc[h] = "awaiting" /\ MarkOk(h) /\ h \in Reqs
        BY <1>8 DEF MarkAnswered, Inv, Reqs
      <3> QED BY <1>0, <3>1 DEF MarkOk, WorkType
    <2>2. voters[h][at[h] + 1] \in Voters
      BY <2>1
    <2>3. ChainType' /\ TableType' /\ PcType'
      BY <1>b, <1>c, <1>e, <1>8 DEF MarkAnswered, PcLabels
    <2>4. at' \in [Reqs -> Nat]
      <3>1. at' = [at EXCEPT ![h] = at[h] + 1] /\ at \in [Reqs -> Nat]
        BY <1>0, <1>8 DEF MarkAnswered, WorkType
      <3>2. at[h] + 1 \in Nat
        BY <2>1
      <3> QED BY <3>1, <3>2
    <2>5. updated' \in [MarkReqs -> SUBSET Voters]
      <3>1. updated' = updated \/ updated' = [updated EXCEPT ![h] = @ \cup {voters[h][at[h] + 1]}]
        BY <1>8 DEF MarkAnswered
      <3>2. updated[h] \cup {voters[h][at[h] + 1]} \in SUBSET Voters
        BY <1>0, <2>2 DEF WorkType
      <3> QED BY <1>0, <3>1, <3>2 DEF WorkType
    <2>6. WorkType'
      BY <1>0, <1>8, <2>4, <2>5 DEF MarkAnswered, WorkType
    <2> QED BY <1>a, <2>3, <2>6
  <1>9. ASSUME NEW S \in SUBSET Reqs, Drop(S), contract' \in Contracts,
               UNCHANGED <<account, made, eligible, tables>>
        PROVE  TypeOK'
    <2>1. ChainType' /\ TableType'
      BY <1>0, <1>c, <1>9 DEF Drop, ChainType
    <2>2. PcType'
      BY <1>0, <1>9 DEF Drop, PcType, PcLabels
    <2>3. WorkType'
      BY <1>0, <1>9 DEF Drop, WorkType
    <2> QED BY <1>a, <2>1, <2>2, <2>3
  <1>10. ASSUME NEW h \in Reqs, Fail(h) PROVE TypeOK'
    BY <1>0, <1>9, <1>10 DEF Fail, ChainType
  <1>11. CASE ReplaceContract
    <2>1. contract' \in Contracts
      BY <1>0, <1>11, Sizes DEF ReplaceContract, Contracts, ChainType
    <2> QED BY <1>9, <1>11, <2>1 DEF ReplaceContract
  <1>12. ASSUME NEW h \in CreateReqs, IncludeCreate(h) PROVE TypeOK'
    <2> DEFINE round == [by |-> h, choices |-> size[h]]
    <2>1. /\ op[<<h, 0>>] = "signed"
          /\ made' = [made EXCEPT ![on[h]] = Append(@, round)]
          /\ UNCHANGED <<contract, eligible, tables, conns, pc, work>>
      BY <1>12 DEF IncludeCreate, Include
    <2>2. size[h] \in 1 .. MaxProposals
      <3>1. size[h] > 0
        BY <2>1 DEF Inv, CreateOk
      <3>2. size[h] \in 0 .. MaxProposals
        BY <1>0 DEF WorkType
      <3> QED BY <3>1, <3>2, Sizes
    <2>3. round \in Rounds
      BY <2>2 DEF Rounds
    <2> HIDE DEF round
    <2>4. \A c \in Contracts : Append(made[c], round) \in Seq(Rounds)
      BY <1>0, <2>3 DEF ChainType
    <2>5. ChainType'
      BY <1>0, <2>1, <2>4 DEF ChainType
    <2>6. TableType' /\ PcType' /\ WorkType'
      BY <1>c, <1>d, <1>f, <2>1
    <2> QED BY <1>a, <2>5, <2>6
  <1>13. ASSUME NEW h \in Reqs, OneCallMoves(h), eligible' \in SUBSET (Contracts \X Ids \X Voters)
         PROVE  TypeOK'
    <2>1. ChainType'
      BY <1>0, <1>13 DEF OneCallMoves, ChainType
    <2>2. TableType' /\ PcType' /\ WorkType'
      BY <1>c, <1>d, <1>f, <1>13 DEF OneCallMoves
    <2> QED BY <1>a, <2>1, <2>2
  <1>14. ASSUME NEW h \in MarkReqs, NEW i \in 0 .. MaxList, IncludeMark(h, i)
         PROVE  eligible' \in SUBSET (Contracts \X Ids \X Voters)
    <2>1. i < Len(voters[h]) /\ id[h] \in Ids
      BY <1>14 DEF IncludeMark, Include, Inv, MarkOk
    <2>2. on[h] \in Contracts /\ voters[h] \in Seq(Voters) /\ h \in Reqs
      BY <1>0 DEF WorkType, Reqs
    <2>3. voters[h][i + 1] \in Voters
      BY <2>1, <2>2
    <2> DEFINE entry == <<on[h], id[h], voters[h][i + 1]>>
    <2>4. entry \in Contracts \X Ids \X Voters
      BY <2>1, <2>2, <2>3
    <2>5. \/ eligible' = eligible \cup {entry}
          \/ eligible' = eligible \ {entry}
          \/ eligible' = eligible
      BY <1>14 DEF IncludeMark, Include
    <2> HIDE DEF entry
    <2> QED BY <1>0, <2>4, <2>5 DEF ChainType
  <1>15. CASE UNCHANGED vars
    BY <1>a, <1>b, <1>c, <1>d, <1>f, <1>15 DEF vars
  <1>16. ASSUME NEW h \in Reqs, Ledger(h) PROVE TypeOK'
    <2>1. CASE h \in CreateReqs /\ IncludeCreate(h)
      BY <1>12, <2>1
    <2>2. CASE OneCallMoves(h)
      <3>1. \/ h \in CreateReqs /\ IncludeCreate(h)
            \/ eligible' \in SUBSET (Contracts \X Ids \X Voters)
        BY <1>0, <1>14, <1>16 DEF Ledger, ChainType
      <3> QED BY <1>12, <1>13, <2>2, <3>1
    <2> QED BY <1>16, <2>1, <2>2, LedgerMoves
  <1> QED
    BY <1>1, <1>2, <1>3, <1>4, <1>5, <1>6, <1>7, <1>8, <1>10, <1>11, <1>15, <1>16
    DEF Next, Create, Store, Mark

\* Only the ledger adds rounds to the chain, and those there stay as they are.
LEMMA MadeMoves ==
  ASSUME Inv, [Next]_vars PROVE UNCHANGED made \/ \E h \in CreateReqs : IncludeCreate(h)
  <1>1. ASSUME NEW h \in Reqs, Ledger(h)
        PROVE  UNCHANGED made \/ (h \in CreateReqs /\ IncludeCreate(h))
    BY <1>1, LedgerMoves DEF OneCallMoves
  <1>2. ASSUME NEW h \in CreateReqs, Create(h) PROVE UNCHANGED made
    BY <1>2
    DEF Create, Store, BeginCreate, Called, BeginTx, InsertRound, InsertProposal, Commit
  <1>3. ASSUME NEW h \in MarkReqs, Mark(h) PROVE UNCHANGED made
    BY <1>3 DEF Mark, BeginMark, SendMark, MarkAnswered
  <1>4. (\E h \in Reqs : Fail(h)) \/ ReplaceContract \/ UNCHANGED vars => UNCHANGED made
    BY DEF Fail, ReplaceContract, vars
  <1> QED BY <1>1, <1>2, <1>3, <1>4 DEF Next

LEMMA MadeGrows ==
  ASSUME Inv, [Next]_vars
  PROVE  \A c \in Contracts : \A i \in 1 .. Len(made[c]) :
           i \in 1 .. Len(made'[c]) /\ made'[c][i] = made[c][i]
  <1>1. CASE UNCHANGED made
    BY <1>1
  <1>2. ASSUME NEW h \in CreateReqs, IncludeCreate(h)
        PROVE  \A c \in Contracts : \A i \in 1 .. Len(made[c]) :
                 i \in 1 .. Len(made'[c]) /\ made'[c][i] = made[c][i]
    <2> DEFINE round == [by |-> h, choices |-> size[h]]
    <2>1. made' = [made EXCEPT ![on[h]] = Append(@, round)] /\ made \in [Contracts -> Seq(Rounds)]
      BY <1>2 DEF IncludeCreate, Include, Inv, TypeOK
    <2> HIDE DEF round
    <2>2. \A c \in Contracts : made'[c] = made[c] \/ made'[c] = Append(made[c], round)
      BY <2>1
    <2> SUFFICES ASSUME NEW c \in Contracts, NEW i \in 1 .. Len(made[c])
                 PROVE  i \in 1 .. Len(made'[c]) /\ made'[c][i] = made[c][i]
      OBVIOUS
    <2>3. made[c] \in Seq(Rounds)
      BY <2>1
    <2> QED BY <2>2, <2>3
  <1> QED BY <1>1, <1>2, MadeMoves

\* What is so of a creation stays so unless a step of its own changes it.
LEMMA CreateFrame ==
  ASSUME Inv, [Next]_vars, NEW h \in CreateReqs,
         on'[h] = on[h], id'[h] = id[h], size'[h] = size[h], at'[h] = at[h],
         pc'[h] = pc[h], contract' = contract \/ ~InFlight(h),
         op'[<<h, 0>>] = op[<<h, 0>>] \/ (op[<<h, 0>>] \notin {"none", "ok"} /\ op'[<<h, 0>>] # "ok"),
         pc[h] \in {"adding", "done"} => rounds'[id[h]] = rounds[id[h]]
  PROVE  CreateOk(h)'
  <1>1. \A i : MadeBy(h, on[h], i) =>
               i \in 1 .. Len(made'[on[h]]) /\ made'[on[h]][i] = [by |-> h, choices |-> size[h]]
    <2>1. on[h] \in Contracts
      BY DEF Inv, TypeOK, Reqs
    <2> QED BY <2>1, MadeGrows DEF MadeBy
  <1>2. CreateOk(h)
    BY DEF Inv
  <1> QED BY <1>1, <1>2 DEF CreateOk, RowOf, MadeBy, InFlight

LEMMA StepCreate ==
  ASSUME Inv, [Next]_vars, NEW g \in CreateReqs PROVE CreateOk(g)'
  <1> USE DEF Goto
  <1>0. CreateOk(g) /\ TypeOK /\ g \in Reqs /\ <<g, 0>> \in Calls /\ g \notin MarkReqs
    BY Sizes DEF Inv, Reqs, Calls
  <1>t. /\ op \in [Calls -> OpStatus] /\ pc \in [Reqs -> PcLabels]
        /\ on \in [Reqs -> Contracts] /\ id \in [Reqs -> Ids \cup {0}] /\ at \in [Reqs -> Nat]
        /\ size \in [CreateReqs -> 0 .. MaxProposals]
        /\ rounds \in [Ids -> RoundRows \cup {NoRow}]
    BY <1>0 DEF TypeOK
  <1>1. ASSUME NEW h \in CreateReqs, NEW n \in 0 .. MaxProposals, NEW pool \in {-1, 0},
               BeginCreate(h, n, pool)
        PROVE  CreateOk(g)'
    <2>1. CASE g # h
      <3>1. op'[<<g, 0>>] = op[<<g, 0>>]
        <4>1. op' = op \/ op' = [op EXCEPT ![<<h, 0>>] = "started"]
          BY <1>1 DEF BeginCreate, Start, account
        <4> QED BY <1>0, <1>t, <2>1, <4>1
      <3>2. on'[g] = on[g] /\ size'[g] = size[g] /\ pc'[g] = pc[g]
        BY <1>t, <1>0, <1>1, <2>1 DEF BeginCreate
      <3>3. contract' = contract /\ id' = id /\ at' = at /\ rounds' = rounds
        BY <1>1 DEF BeginCreate, tables
      <3> QED BY <3>1, <3>2, <3>3, CreateFrame
    <2>2. CASE g = h
      <3>1. CASE n > 0 /\ pool >= 0
        <4>1. /\ op'[<<g, 0>>] = "started" /\ on'[g] = contract /\ size'[g] = n
              /\ pc'[g] = "calling" /\ contract' = contract /\ at' = at /\ pc[g] = "new"
          BY <1>t, <1>0, <1>1, <2>2, <3>1 DEF BeginCreate, Start
        <4> QED BY <1>0, <3>1, <4>1 DEF CreateOk
      <3>2. CASE ~(n > 0 /\ pool >= 0)
        <4>1. /\ pc'[g] = "failed" /\ pc[g] = "new" /\ UNCHANGED op
          BY <1>t, <1>0, <1>1, <2>2, <3>2 DEF BeginCreate, account
        <4>2. op'[<<g, 0>>] = "none"
          BY <1>0, <4>1 DEF CreateOk
        <4> QED BY <4>1, <4>2 DEF CreateOk
      <3> QED BY <3>1, <3>2
    <2> QED BY <2>1, <2>2
  <1>2. ASSUME NEW h \in CreateReqs, Called(h) PROVE CreateOk(g)'
    <2>1. /\ UNCHANGED <<op, contract, made, rounds, on, size, at>>
          /\ pc[h] = "calling" /\ op[<<h, 0>>] = "ok"
      BY <1>2 DEF Called, SeesOk, account, tables
    <2>2. CASE g # h
      <3>1. id'[g] = id[g] /\ pc'[g] = pc[g]
        BY <1>t, <1>0, <1>2, <2>2 DEF Called
      <3> QED BY <2>1, <3>1, CreateFrame
    <2>3. CASE g = h
      <3> DEFINE r == ReturnedId(g)
      <3>1. PICK i \in Ids : MadeBy(g, on[g], i)
        BY <1>0, <2>1, <2>3 DEF CreateOk
      <3>2. r \in Ids /\ Exists(on[g], r) /\ made[on[g]][r].by = g
        BY <3>1 DEF ReturnedId, MadeBy, Exists
      <3>3. r = i
        BY <1>t, <1>0, <3>1, <3>2 DEF Inv, MadeOk, MadeBy, Exists
      <3>4. id'[g] = r /\ pc'[g] = "beginning"
        BY <1>t, <1>0, <1>2, <2>3 DEF Called
      <3> HIDE DEF r
      <3> QED BY <1>0, <2>1, <2>3, <3>1, <3>3, <3>4 DEF CreateOk, MadeBy
    <2> QED BY <2>2, <2>3
  <1>3. ASSUME NEW h \in CreateReqs, BeginTx(h) \/ InsertRound(h) PROVE CreateOk(g)'
    <2>1. UNCHANGED <<op, contract, made, rounds, on, size, at, id>>
      BY <1>3 DEF BeginTx, InsertRound, account, tables, work
    <2>2. CASE g # h
      <3>1. pc'[g] = pc[g]
        BY <1>t, <1>0, <1>3, <2>2 DEF BeginTx, InsertRound
      <3> QED BY <2>1, <3>1, CreateFrame
    <2>3. CASE g = h
      <3>1. \/ pc[g] = "beginning" /\ pc'[g] = "storing"
            \/ pc[g] = "storing" /\ pc'[g] = "failed"
            \/ pc[g] = "storing" /\ pc'[g] = "adding" /\ rounds[id[g]] = NoRow
        BY <1>t, <1>0, <1>3, <2>3 DEF BeginTx, InsertRound
      <3> QED BY <1>0, <1>t, <2>1, <3>1 DEF CreateOk, MadeBy
    <2> QED BY <2>2, <2>3
  <1>4. ASSUME NEW h \in CreateReqs, InsertProposal(h) PROVE CreateOk(g)'
    <2>1. UNCHANGED <<op, contract, made, rounds, on, size, pc, id>>
      BY <1>4 DEF InsertProposal, account, tables
    <2>2. CASE g # h
      <3>1. at'[g] = at[g]
        BY <1>t, <1>0, <1>4, <2>2 DEF InsertProposal
      <3> QED BY <2>1, <3>1, CreateFrame
    <2>3. CASE g = h
      <3>1. pc[g] = "adding" /\ at[g] < size[g] /\ at'[g] = at[g] + 1
        BY <1>t, <1>0, <1>4, <2>3 DEF InsertProposal
      <3>2. at[g] \in Nat /\ size[g] \in Nat
        BY <1>t, <1>0
      <3> QED BY <1>0, <2>1, <3>1, <3>2 DEF CreateOk, MadeBy
    <2> QED BY <2>2, <2>3
  <1>5. ASSUME NEW h \in CreateReqs, Commit(h) PROVE CreateOk(g)'
    <2>1. /\ UNCHANGED <<op, contract, made, on, size, at, id>>
          /\ pc[h] = "adding" /\ pc'[h] \in {"done", "failed"}
          /\ \A x \in Reqs : x # h => pc'[x] = pc[x]
          /\ rounds' = [rounds EXCEPT ![id[h]] = RowOf(h)]
      BY <1>t, <1>5 DEF Commit, account, work, RowOf, Reqs
    <2>2. CreateOk(h)
      BY DEF Inv
    <2>3. CASE g # h
      <3>1. pc[g] \in {"adding", "done"} => id[g] # id[h]
        <4>1. CASE pc[g] = "adding"
          BY <1>0, <2>1, <2>2, <2>3, <4>1 DEF CreateOk, MadeBy
        <4>2. CASE pc[g] = "done"
          <5>1. RowOf(g) \in RoundRows
            <6>1. size[g] \in 1 .. MaxProposals /\ on[g] \in Contracts
              BY <1>0, <1>t, <4>2 DEF CreateOk
            <6> QED BY <6>1 DEF RowOf, RoundRows
          <5>2. rounds[id[g]] # NoRow
            BY <1>0, <4>2, <5>1, AdministrationAssumption DEF CreateOk
          <5> QED BY <2>1, <2>2, <5>2 DEF CreateOk
        <4> QED BY <4>1, <4>2
      <3>2. pc[g] \in {"adding", "done"} => rounds'[id[g]] = rounds[id[g]]
        BY <1>t, <2>1, <3>1
      <3> QED BY <1>0, <2>1, <2>3, <3>2, CreateFrame
    <2>4. CASE g = h
      <3>1. rounds'[id[g]] = RowOf(g)
        BY <1>t, <1>0, <2>1, <2>4 DEF CreateOk
      <3> QED BY <1>0, <2>1, <2>4, <3>1 DEF CreateOk, MadeBy, RowOf
    <2> QED BY <2>3, <2>4
  <1>6. ASSUME NEW h \in MarkReqs, Mark(h) PROVE CreateOk(g)'
    <2>1. /\ UNCHANGED <<contract, rounds, size>>
          /\ on'[g] = on[g] /\ id'[g] = id[g] /\ at'[g] = at[g] /\ pc'[g] = pc[g]
      BY <1>0, <1>t, <1>6 DEF Mark, BeginMark, SendMark, MarkAnswered, tables, work
    <2>2. op'[<<g, 0>>] = op[<<g, 0>>]
      BY <1>0, <1>t, <1>6 DEF Mark, BeginMark, SendMark, MarkAnswered, Start, account
    <2> QED BY <2>1, <2>2, CreateFrame
  <1>7. ASSUME NEW S \in SUBSET Reqs, Drop(S), contract' = contract \/ \A h \in Reqs \ S : ~InFlight(h),
               UNCHANGED <<account, made, eligible, tables>>
        PROVE  CreateOk(g)'
    <2>1. CASE g \in S
      <3>1. pc'[g] = "failed" /\ UNCHANGED <<op, made, size, on>>
        BY <1>0, <1>7, <2>1 DEF Drop, account
      <3> QED BY <1>0, <3>1 DEF CreateOk, MadeBy
    <2>2. CASE g \notin S
      <3>1. /\ pc'[g] = pc[g] /\ at'[g] = at[g] /\ UNCHANGED <<op, rounds, on, id, size>>
            /\ contract' = contract \/ ~InFlight(g)
        BY <1>0, <1>7, <2>2 DEF Drop, account, tables
      <3> QED BY <3>1, CreateFrame
    <2> QED BY <2>1, <2>2
  <1>8. ASSUME NEW h \in Reqs, Fail(h) PROVE CreateOk(g)'
    BY <1>7, <1>8 DEF Fail
  <1>9. CASE ReplaceContract
    BY <1>7, <1>9 DEF ReplaceContract
  <1>10. ASSUME NEW h \in CreateReqs, IncludeCreate(h) PROVE CreateOk(g)'
    <2> DEFINE round == [by |-> h, choices |-> size[h]]
               n == Len(made[on[h]]) + 1
    <2>1. /\ op[<<h, 0>>] = "signed" /\ op' = [op EXCEPT ![<<h, 0>>] = "ok"]
          /\ made' = [made EXCEPT ![on[h]] = Append(made[on[h]], round)]
          /\ UNCHANGED <<contract, rounds, on, id, size, at, pc>>
      BY <1>10 DEF IncludeCreate, Include, tables, work
    <2>2. CASE g # h
      <3>1. op'[<<g, 0>>] = op[<<g, 0>>]
        BY <1>t, <1>0, <2>1, <2>2
      <3> QED BY <2>1, <3>1, CreateFrame
    <2>3. CASE g = h
      <3>1. on[g] \in Contracts /\ made \in [Contracts -> Seq(Rounds)]
        BY <1>t, <1>0 DEF TypeOK
      <3>2. n \in Ids
        BY <2>1, <2>3, <3>1, NextIdIsFree
      <3>3. n \in 1 .. Len(made'[on[g]]) /\ made'[on[g]][n] = round
        BY <2>1, <2>3, <3>1
      <3> HIDE DEF n
      <3>4. \E i \in Ids : MadeBy(g, on[g], i)'
        BY <2>1, <2>3, <3>2, <3>3 DEF MadeBy
      <3>5. op'[<<g, 0>>] = "ok"
        BY <1>t, <1>0, <2>1, <2>3
      <3>6. \A i : MadeBy(g, on[g], i) => MadeBy(g, on[g], i)'
        BY <2>1, <3>1, MadeGrows DEF MadeBy
      <3> QED BY <1>0, <2>1, <2>3, <3>4, <3>5, <3>6 DEF CreateOk, RowOf
    <2> QED BY <2>2, <2>3
  <1>11. ASSUME NEW h \in Reqs, OneCallMoves(h) PROVE CreateOk(g)'
    <2>1. UNCHANGED <<contract, rounds, on, id, size, at, pc>>
      BY <1>11 DEF OneCallMoves, tables, work
    <2>2. \/ op'[<<g, 0>>] = op[<<g, 0>>]
          \/ op[<<g, 0>>] \notin {"none", "ok"} /\ op'[<<g, 0>>] # "ok"
      BY <1>t, <1>0, <1>11 DEF OneCallMoves
    <2> QED BY <2>1, <2>2, CreateFrame
  <1>12. CASE UNCHANGED vars
    BY <1>12, CreateFrame DEF vars, account, tables, work
  <1>13. ASSUME NEW h \in Reqs, Ledger(h) PROVE CreateOk(g)'
    BY <1>10, <1>11, <1>13, LedgerMoves
  <1> QED
    BY <1>1, <1>2, <1>3, <1>4, <1>5, <1>6, <1>8, <1>9, <1>12, <1>13 DEF Next, Create, Store

\* A creation that was included keeps its contract and its proposals.
LEMMA IncludedKeeps ==
  ASSUME Inv, [Next]_vars, NEW g \in CreateReqs, op[<<g, 0>>] = "ok"
  PROVE  op'[<<g, 0>>] = "ok" /\ on'[g] = on[g] /\ size'[g] = size[g]
  <1>0. CreateOk(g) /\ g \in Reqs /\ <<g, 0>> \in Calls /\ g \notin MarkReqs
    BY Sizes DEF Inv, Reqs, Calls
  <1>t. /\ op \in [Calls -> OpStatus] /\ on \in [Reqs -> Contracts]
        /\ size \in [CreateReqs -> 0 .. MaxProposals]
    BY DEF Inv, TypeOK
  <1>1. ASSUME NEW h \in CreateReqs, NEW n, NEW pool, BeginCreate(h, n, pool)
        PROVE  op'[<<g, 0>>] = "ok" /\ on'[g] = on[g] /\ size'[g] = size[g]
    <2>1. pc[h] = "new"
      BY <1>1 DEF BeginCreate
    <2>2. g # h
      BY <1>0, <2>1 DEF CreateOk
    <2>3. op' = op \/ op' = [op EXCEPT ![<<h, 0>>] = "started"]
      BY <1>1 DEF BeginCreate, Start, account
    <2>4. op'[<<g, 0>>] = "ok"
      BY <1>0, <1>t, <2>2, <2>3
    <2> QED BY <1>0, <1>t, <1>1, <2>2, <2>4 DEF BeginCreate
  <1>2. ASSUME NEW h \in CreateReqs, Called(h) \/ Store(h)
        PROVE  UNCHANGED <<op, on, size>>
    BY <1>2 DEF Called, Store, BeginTx, InsertRound, InsertProposal, Commit, account, work
  <1>3. ASSUME NEW h \in MarkReqs, Mark(h)
        PROVE  op'[<<g, 0>>] = "ok" /\ on'[g] = on[g] /\ size'[g] = size[g]
    <2>1. on'[g] = on[g] /\ size' = size
      BY <1>0, <1>t, <1>3 DEF Mark, BeginMark, SendMark, MarkAnswered, work
    <2>2. op' = op \/ op' = [op EXCEPT ![<<h, at[h]>>] = "started"]
      BY <1>3 DEF Mark, BeginMark, SendMark, MarkAnswered, Start, account
    <2> QED BY <1>0, <1>t, <1>3, <2>1, <2>2
  <1>4. ASSUME (\E h \in Reqs : Fail(h)) \/ ReplaceContract \/ UNCHANGED vars
        PROVE  UNCHANGED <<op, on, size>>
    BY <1>4 DEF Fail, ReplaceContract, Drop, vars, account, work
  <1>5. ASSUME NEW h \in Reqs, Ledger(h)
        PROVE  op'[<<g, 0>>] = "ok" /\ on'[g] = on[g] /\ size'[g] = size[g]
    <2>1. CASE h \in CreateReqs /\ IncludeCreate(h)
      BY <1>0, <1>t, <2>1 DEF IncludeCreate, Include, work
    <2>2. CASE OneCallMoves(h)
      BY <1>0, <1>t, <2>2 DEF OneCallMoves, work
    <2> QED BY <1>5, <2>1, <2>2, LedgerMoves
  <1> QED BY <1>1, <1>2, <1>3, <1>4, <1>5 DEF Next, Create

LEMMA StepMade ==
  ASSUME Inv, [Next]_vars, NEW c \in Contracts PROVE MadeOk(c)'
  <1>0. made \in [Contracts -> Seq(Rounds)] /\ MadeOk(c)
    BY DEF Inv, TypeOK
  <1>1. \A i \in 1 .. Len(made[c]) : made[c][i].by \in CreateReqs
    <2>1. \A i \in 1 .. Len(made[c]) : made[c][i] \in Rounds
      BY <1>0
    <2> QED BY <2>1 DEF Rounds
  <1>2. \A i \in 1 .. Len(made[c]) :
          /\ op'[<<made[c][i].by, 0>>] = "ok"
          /\ on'[made[c][i].by] = c
          /\ made[c][i].choices = size'[made[c][i].by]
    <2> SUFFICES ASSUME NEW i \in 1 .. Len(made[c])
                 PROVE  /\ op'[<<made[c][i].by, 0>>] = "ok"
                        /\ on'[made[c][i].by] = c
                        /\ made[c][i].choices = size'[made[c][i].by]
      OBVIOUS
    <2>1. PICK g \in CreateReqs : g = made[c][i].by
      BY <1>1
    <2> QED BY <1>0, <2>1, IncludedKeeps DEF MadeOk
  <1>3. CASE made'[c] = made[c]
    BY <1>0, <1>2, <1>3 DEF MadeOk
  <1>4. ASSUME NEW h \in CreateReqs, IncludeCreate(h), c = on[h]
        PROVE  MadeOk(c)'
    <2> DEFINE round == [by |-> h, choices |-> size[h]]
    <2>1. /\ op[<<h, 0>>] = "signed" /\ op' = [op EXCEPT ![<<h, 0>>] = "ok"]
          /\ made'[c] = Append(made[c], round)
          /\ UNCHANGED <<on, size>>
      BY <1>0, <1>4 DEF IncludeCreate, Include, work
    <2>2. op'[<<h, 0>>] = "ok"
      BY <2>1, Sizes DEF Inv, TypeOK, Calls, Reqs
    <2>3. \A i \in 1 .. Len(made[c]) : made[c][i].by # h
      BY <1>0, <2>1 DEF MadeOk
    <2>4. round.by = h /\ round.choices = size[h]
      OBVIOUS
    <2> HIDE DEF round
    <2>5. \A i \in 1 .. Len(made'[c]) :
            \/ i = Len(made[c]) + 1 /\ made'[c][i] = round
            \/ i \in 1 .. Len(made[c]) /\ made'[c][i] = made[c][i]
      BY <1>0, <2>1
    <2>6. \A i \in 1 .. Len(made'[c]) :
            /\ op'[<<made'[c][i].by, 0>>] = "ok"
            /\ on'[made'[c][i].by] = c
            /\ made'[c][i].choices = size'[made'[c][i].by]
      BY <1>2, <1>4, <2>1, <2>2, <2>4, <2>5
    <2>7. \A i, j \in 1 .. Len(made'[c]) : made'[c][i].by = made'[c][j].by => i = j
      <3> SUFFICES ASSUME NEW i \in 1 .. Len(made'[c]), NEW j \in 1 .. Len(made'[c]),
                          made'[c][i].by = made'[c][j].by
                   PROVE  i = j
        OBVIOUS
      <3>1. CASE i = Len(made[c]) + 1
        <4>1. made'[c][i].by = h
          BY <2>1, <2>4, <2>5, <3>1, <1>0
        <4> QED BY <2>3, <2>5, <3>1, <4>1
      <3>2. CASE j = Len(made[c]) + 1
        <4>1. made'[c][j].by = h
          BY <2>1, <2>4, <2>5, <3>2, <1>0
        <4> QED BY <2>3, <2>5, <3>2, <4>1
      <3>3. CASE i # Len(made[c]) + 1 /\ j # Len(made[c]) + 1
        BY <1>0, <2>5, <3>3 DEF MadeOk
      <3> QED BY <3>1, <3>2, <3>3
    <2> QED BY <2>6, <2>7 DEF MadeOk
  <1>5. ASSUME NEW h \in CreateReqs, IncludeCreate(h), c # on[h]
        PROVE  made'[c] = made[c]
    BY <1>0, <1>5 DEF IncludeCreate, Include
  <1> QED BY <1>3, <1>4, <1>5, MadeMoves

\* What is so of a marking stays so unless a step of its own changes it; its
\* calls may go on.
LEMMA MarkFrame ==
  ASSUME Inv, NEW h \in MarkReqs,
         id'[h] = id[h], voters'[h] = voters[h], updated'[h] = updated[h], at'[h] = at[h],
         pc'[h] = pc[h], before'[h] = before[h],
         \A i \in 0 .. MaxList :
           \/ op'[<<h, i>>] = op[<<h, i>>]
           \/ op[<<h, i>>] \in {"started", "signed"} /\ op'[<<h, i>>] \notin {"none", "started"}
  PROVE  MarkOk(h)'
  <1>1. MarkOk(h)
    BY DEF Inv
  <1> QED BY <1>1 DEF MarkOk, Answered

LEMMA StepMark ==
  ASSUME Inv, [Next]_vars, NEW g \in MarkReqs PROVE MarkOk(g)'
  <1> USE DEF Goto
  <1>0. MarkOk(g) /\ TypeOK /\ g \in Reqs /\ g \notin CreateReqs
        /\ \A i \in 0 .. MaxList : <<g, i>> \in Calls
    BY Sizes DEF Inv, Reqs, Calls
  <1>t. /\ op \in [Calls -> OpStatus] /\ pc \in [Reqs -> PcLabels]
        /\ id \in [Reqs -> Ids \cup {0}] /\ at \in [Reqs -> Nat]
        /\ voters \in [MarkReqs -> Seq(Voters)] /\ updated \in [MarkReqs -> SUBSET Voters]
        /\ before \in [MarkReqs -> SUBSET MarkReqs]
    BY <1>0 DEF TypeOK
  <1>1. ASSUME NEW h \in CreateReqs, Create(h) PROVE MarkOk(g)'
    <2>1. /\ id'[g] = id[g] /\ at'[g] = at[g] /\ pc'[g] = pc[g]
          /\ UNCHANGED <<voters, updated, before>>
      BY <1>0, <1>t, <1>1
      DEF Create, Store, BeginCreate, Called, BeginTx, InsertRound, InsertProposal, Commit, work
    <2>2. op' = op \/ op' = [op EXCEPT ![<<h, 0>>] = "started"]
      BY <1>1
      DEF Create, Store, BeginCreate, Called, BeginTx, InsertRound, InsertProposal, Commit,
          Start, account
    <2>3. \A i \in 0 .. MaxList : op'[<<g, i>>] = op[<<g, i>>]
      BY <1>0, <1>1, <1>t, <2>2
    <2> QED BY <2>1, <2>3, MarkFrame
  <1>2. ASSUME NEW h \in MarkReqs, NEW i \in Ids, NEW list \in Lists, NEW value \in BOOLEAN,
               BeginMark(h, i, list, value)
        PROVE  MarkOk(g)'
    <2>1. UNCHANGED <<op, at, updated>> /\ pc[h] = "new"
      BY <1>2 DEF BeginMark, account, work
    <2>2. CASE g # h
      <3>1. id'[g] = id[g] /\ voters'[g] = voters[g] /\ pc'[g] = pc[g] /\ before'[g] = before[g]
        BY <1>0, <1>t, <1>2, <2>2 DEF BeginMark, work
      <3> QED BY <2>1, <3>1, MarkFrame
    <2>3. CASE g = h /\ rounds[i] = NoRow
      <3>1. pc'[g] = "failed" /\ UNCHANGED <<id, voters, before>>
        BY <1>0, <1>t, <1>2, <2>3 DEF BeginMark, work
      <3> QED BY <1>0, <2>1, <2>3, <3>1 DEF MarkOk
    <2>4. CASE g = h /\ rounds[i] # NoRow
      <3>1. pc'[g] = "marking" /\ id'[g] = i /\ voters'[g] = list
        BY <1>0, <1>t, <1>2, <2>4 DEF BeginMark
      <3>2. /\ Len(list) \in Nat /\ Len(list) <= MaxList
            /\ \A a, b \in 1 .. Len(list) : list[a] = list[b] => a = b
        <4>1. PICK n \in 1 .. MaxList : list \in [1 .. n -> Voters]
          BY DEF Lists
        <4>2. list \in Seq(Voters) /\ Len(list) = n /\ DOMAIN list = 1 .. Len(list)
          BY <4>1, Sizes
        <4> QED BY <4>2, Sizes DEF Lists
      <3> QED BY <1>0, <2>1, <2>4, <3>1, <3>2 DEF MarkOk, Answered
    <2> QED BY <2>2, <2>3, <2>4
  <1>3. ASSUME NEW h \in MarkReqs, SendMark(h) PROVE MarkOk(g)'
    <2>1. UNCHANGED <<id, voters, updated, at, before>> /\ pc[h] = "marking"
      BY <1>3 DEF SendMark, work
    <2>2. op' = op \/ op' = [op EXCEPT ![<<h, at[h]>>] = "started"]
      BY <1>3 DEF SendMark, Start, account
    <2>3. CASE g # h
      <3>1. pc'[g] = pc[g] /\ \A i \in 0 .. MaxList : op'[<<g, i>>] = op[<<g, i>>]
        BY <1>0, <1>t, <1>3, <2>2, <2>3 DEF SendMark
      <3> QED BY <2>1, <3>1, MarkFrame
    <2>4. CASE g = h /\ at[g] < Len(voters[g])
      <3>1. pc'[g] = "awaiting"
            /\ \A i \in 0 .. MaxList : op'[<<g, i>>] = IF i = at[g] THEN "started" ELSE op[<<g, i>>]
        BY <1>0, <1>t, <1>3, <2>4 DEF SendMark, Start
      <3>2. op[<<g, at[g]>>] = "none"
        BY <1>3, <2>4 DEF SendMark, Start
      <3>3. at[g] \in Nat /\ Len(voters[g]) \in Nat
        BY <1>0, <1>t
      <3>4. \A i \in 0 .. MaxList :
              /\ i < at[g] => Answered(g, i)'
              /\ i >= at[g] => op'[<<g, i>>] = "none" \/ i = at[g]
        BY <1>0, <2>1, <2>4, <3>1, <3>3 DEF MarkOk, Answered
      <3>5. \A i \in 0 .. MaxList : op'[<<g, i>>] # "none" => i < Len(voters[g]) /\ id[g] \in Ids
        BY <1>0, <2>1, <2>4, <3>1, <3>3 DEF MarkOk
      <3>6. \A i \in 0 .. MaxList : op[<<g, i>>] = "ok" => op'[<<g, i>>] = "ok"
        BY <3>1, <3>2
      <3>7. \A v \in updated[g] :
              \E i \in 0 .. MaxList :
                i < Len(voters[g]) /\ voters[g][i + 1] = v /\ op'[<<g, i>>] = "ok"
        BY <1>0, <3>6 DEF MarkOk
      <3> QED BY <1>0, <2>1, <2>4, <3>1, <3>4, <3>5, <3>7 DEF MarkOk
    <2>5. CASE g = h /\ ~(at[g] < Len(voters[g]))
      <3>1. pc'[g] = "done" /\ UNCHANGED op
        BY <1>0, <1>t, <1>3, <2>5 DEF SendMark, account
      <3>2. at[g] = Len(voters[g])
        BY <1>0, <1>t, <2>5 DEF MarkOk
      <3> QED BY <1>0, <2>1, <2>5, <3>1, <3>2 DEF MarkOk, Answered
    <2> QED BY <2>3, <2>4, <2>5
  <1>4. ASSUME NEW h \in MarkReqs, MarkAnswered(h) PROVE MarkOk(g)'
    <2>1. UNCHANGED <<op, id, voters, before>> /\ pc[h] = "awaiting"
      BY <1>4 DEF MarkAnswered, account
    <2>2. CASE g # h
      <3>1. pc'[g] = pc[g] /\ at'[g] = at[g] /\ updated'[g] = updated[g]
        BY <1>0, <1>t, <1>4, <2>2 DEF MarkAnswered
      <3> QED BY <2>1, <3>1, MarkFrame
    <2>3. CASE g = h
      <3>1. pc'[g] = "marking" /\ at'[g] = at[g] + 1 /\ at[g] \in Nat
        BY <1>0, <1>t, <1>4, <2>3 DEF MarkAnswered
      <3>2. Answered(g, at[g])
        BY <1>4, <2>3 DEF MarkAnswered, SeesOk, SeesErr, Answered
      <3>3. \/ updated'[g] = updated[g]
            \/ updated'[g] = updated[g] \cup {voters[g][at[g] + 1]} /\ op[<<g, at[g]>>] = "ok"
        BY <1>t, <1>4, <2>3 DEF MarkAnswered, SeesOk
      <3>4. at[g] < Len(voters[g]) /\ at[g] \in 0 .. MaxList /\ Len(voters[g]) \in Nat
        BY <1>0, <1>t, <2>1, <2>3, <3>1, Sizes DEF MarkOk
      <3>5. \A v \in updated'[g] :
              \E i \in 0 .. MaxList :
                i < Len(voters[g]) /\ voters[g][i + 1] = v /\ op[<<g, i>>] = "ok"
        <4> SUFFICES ASSUME NEW v \in updated'[g]
                     PROVE  \E i \in 0 .. MaxList :
                              i < Len(voters[g]) /\ voters[g][i + 1] = v /\ op[<<g, i>>] = "ok"
          OBVIOUS
        <4>1. CASE v \in updated[g]
          BY <1>0, <4>1 DEF MarkOk
        <4>2. CASE v \notin updated[g]
          BY <3>3, <3>4, <4>2
        <4> QED BY <4>1, <4>2
      <3>6. \A i \in 0 .. MaxList : /\ i < at'[g] => Answered(g, i)
                                    /\ i >= at'[g] => op[<<g, i>>] = "none"
        BY <1>0, <2>1, <2>3, <3>1, <3>2 DEF MarkOk
      <3> QED BY <1>0, <2>1, <2>3, <3>1, <3>4, <3>5, <3>6 DEF MarkOk, Answered
    <2> QED BY <2>2, <2>3
  <1>5. ASSUME NEW S \in SUBSET Reqs, Drop(S), UNCHANGED account PROVE MarkOk(g)'
    <2>1. UNCHANGED <<op, id, voters, before>>
      BY <1>5 DEF Drop, account
    <2>2. CASE g \in S
      <3>1. pc'[g] = "failed" /\ at'[g] = 0 /\ updated'[g] = {}
        BY <1>0, <1>5, <2>2 DEF Drop
      <3>2. Len(voters[g]) \in Nat
        BY <1>t
      <3> QED BY <1>0, <2>1, <3>1, <3>2 DEF MarkOk
    <2>3. CASE g \notin S
      <3>1. pc'[g] = pc[g] /\ at'[g] = at[g] /\ updated'[g] = updated[g]
        BY <1>0, <1>5, <2>3 DEF Drop
      <3> QED BY <2>1, <3>1, MarkFrame
    <2> QED BY <2>2, <2>3
  <1>6. ASSUME NEW h \in Reqs, Fail(h) PROVE MarkOk(g)'
    BY <1>5, <1>6 DEF Fail
  <1>7. CASE ReplaceContract
    BY <1>5, <1>7 DEF ReplaceContract
  <1>8. ASSUME NEW h \in Reqs, Ledger(h) PROVE MarkOk(g)'
    <2>1. CASE h \in CreateReqs /\ IncludeCreate(h)
      <3>1. UNCHANGED <<id, voters, updated, at, pc, before>>
        BY <2>1 DEF IncludeCreate, work
      <3>2. \A i \in 0 .. MaxList : op'[<<g, i>>] = op[<<g, i>>]
        BY <1>0, <1>t, <2>1 DEF IncludeCreate, Include
      <3> QED BY <3>1, <3>2, MarkFrame
    <2>2. CASE OneCallMoves(h)
      <3>1. UNCHANGED <<id, voters, updated, at, pc, before>>
        BY <2>2 DEF OneCallMoves, work
      <3>2. \A i \in 0 .. MaxList :
              \/ op'[<<g, i>>] = op[<<g, i>>]
              \/ op[<<g, i>>] \in {"started", "signed"} /\ op'[<<g, i>>] \notin {"none", "started"}
        BY <1>0, <1>t, <2>2 DEF OneCallMoves
      <3> QED BY <3>1, <3>2, MarkFrame
    <2> QED BY <1>8, <2>1, <2>2, LedgerMoves
  <1>9. CASE UNCHANGED vars
    BY <1>9, MarkFrame DEF vars, account, work
  <1> QED BY <1>1, <1>2, <1>3, <1>4, <1>6, <1>7, <1>8, <1>9 DEF Next, Mark

LEMMA Invariant == Spec => []Inv
  <1>1. Inv /\ [Next]_vars => Inv'
    <2> SUFFICES ASSUME Inv, [Next]_vars PROVE Inv' OBVIOUS
    <2>1. AccountInv'
      BY AccountInvariant
    <2> QED BY <2>1, StepType, StepCreate, StepMade, StepMark DEF Inv
  <1> QED BY <1>1, InitInv, PTL DEF Spec

----------------------------------------------------------------------------
(* The theorems.                                                           *)

\* Every variable keeps its type (create_round, set_eligibility and the
\* tables they write).
THEOREM TypeCorrect == Spec => []TypeOK
  BY Invariant, PTL DEF Inv

\* The row of a round that was answered with 200 stays as it is, whatever the
\* later contracts number their rounds (rounds.id is the primary key).
THEOREM CreatedStays == Spec => []CreatedRoundStays
  <1>1. Inv => CreatedRoundStays
    BY DEF Inv, CreatedRoundStays, CreateOk, RowOf
  <1> QED BY <1>1, Invariant, PTL

RowIsWhole(i) ==
  IF rounds[i] = NoRow
    THEN proposals[i] = {}
    ELSE /\ i \in 1 .. Len(made[rounds[i].contract])
         /\ made[rounds[i].contract][i] = [by |-> rounds[i].by, choices |-> rounds[i].choices]
         /\ proposals[i] = 0 .. (rounds[i].choices - 1)

\* A row is stored whole, and is of the round the chain has under its id
\* (create_round: the call, then one transaction).
THEOREM RowsAreWhole == Spec => []RowsAreWholeRounds
  <1>1. Init => RowsAreWholeRounds
    BY DEF Init, RowsAreWholeRounds
  <1>2. Inv /\ RowsAreWholeRounds /\ [Next]_vars => RowsAreWholeRounds'
    <2> SUFFICES ASSUME Inv, RowsAreWholeRounds, [Next]_vars, NEW i \in Ids
                 PROVE  RowIsWhole(i)'
      BY DEF RowsAreWholeRounds, RowIsWhole, Exists
    <2>a. RowIsWhole(i)
      BY DEF RowsAreWholeRounds, RowIsWhole, Exists
    <2>0. /\ rounds \in [Ids -> RoundRows \cup {NoRow}]
          /\ proposals \in [Ids -> SUBSET (0 .. (MaxProposals - 1))]
      BY DEF Inv, TypeOK
    <2>1. CASE rounds'[i] = rounds[i] /\ proposals'[i] = proposals[i]
      <3>1. CASE rounds[i] = NoRow
        BY <2>a, <2>1, <3>1 DEF RowIsWhole
      <3>2. CASE rounds[i] # NoRow
        <4>1. PICK c \in Contracts : c = rounds[i].contract
          BY <2>0, <3>2 DEF RoundRows
        <4>2. i \in 1 .. Len(made[c])
          BY <2>a, <3>2, <4>1 DEF RowIsWhole
        <4>3. i \in 1 .. Len(made'[c]) /\ made'[c][i] = made[c][i]
          BY <4>2, MadeGrows
        <4> QED BY <2>a, <2>1, <3>2, <4>1, <4>3 DEF RowIsWhole
      <3> QED BY <3>1, <3>2
    <2>2. ASSUME NEW h \in CreateReqs, Commit(h), i = id[h]
          PROVE  RowIsWhole(i)'
      <3>1. /\ rounds'[i] = RowOf(h) /\ proposals'[i] = 0 .. (size[h] - 1)
            /\ UNCHANGED made /\ pc[h] = "adding"
        BY <2>0, <2>2 DEF Commit, RowOf
      <3>2. MadeBy(h, on[h], i)
        BY <2>2, <3>1 DEF Inv, CreateOk
      <3>3. RowOf(h) \in RoundRows
        <4>1. CreateOk(h) /\ on[h] \in Contracts /\ size[h] \in 0 .. MaxProposals
          BY DEF Inv, TypeOK, Reqs
        <4>2. size[h] \in 1 .. MaxProposals
          BY <3>1, <4>1, Sizes DEF CreateOk
        <4> QED BY <4>1, <4>2 DEF RowOf, RoundRows
      <3>4. rounds'[i] # NoRow
        BY <3>1, <3>3, AdministrationAssumption
      <3>5. RowOf(h).contract = on[h] /\ RowOf(h).by = h /\ RowOf(h).choices = size[h]
        BY DEF RowOf
      <3> QED BY <3>1, <3>2, <3>4, <3>5 DEF MadeBy, RowIsWhole
    <2>3. ASSUME NEW h \in CreateReqs, Commit(h), i # id[h]
          PROVE  rounds'[i] = rounds[i] /\ proposals'[i] = proposals[i]
      BY <2>0, <2>3 DEF Commit
    <2>4. ASSUME NEW h \in CreateReqs, Create(h), ~Commit(h)
          PROVE  UNCHANGED tables
      BY <2>4 DEF Create, Store, BeginCreate, Called, BeginTx, InsertRound, InsertProposal
    <2>5. ASSUME NEW h \in MarkReqs, Mark(h)
          PROVE  UNCHANGED tables
      BY <2>5 DEF Mark, BeginMark, SendMark, MarkAnswered
    <2>6. ASSUME NEW h \in Reqs, Fail(h) \/ Ledger(h)
          PROVE  UNCHANGED tables
      BY <2>6, LedgerMoves DEF Fail, IncludeCreate, OneCallMoves
    <2>7. ReplaceContract \/ UNCHANGED vars => UNCHANGED tables
      BY DEF ReplaceContract, vars
    <2>8. UNCHANGED tables => rounds'[i] = rounds[i] /\ proposals'[i] = proposals[i]
      BY DEF tables
    <2> QED BY <2>1, <2>2, <2>3, <2>4, <2>5, <2>6, <2>7, <2>8 DEF Next
  <1> QED BY <1>1, <1>2, Invariant, PTL DEF Spec

----------------------------------------------------------------------------
(* The last marking wins.                                                  *)

\* Whoever had been answered before h began has no call left that could be
\* included behind one of h's; so what h's included calls have set, stays.
LaterOk(h) ==
  /\ \A g \in before[h] : pc[g] = "done"
  /\ \A g \in before[h] : \A i, j \in 0 .. MaxList :
       number[<<h, j>>] = 0 \/ number[<<g, i>>] <= number[<<h, j>>]
  /\ \A j \in 0 .. MaxList :
       op[<<h, j>>] = "ok" =>
         ((\A g \in MarkReqs : Rivals(h, g, voters[h][j + 1]) => g \in before[h])
            => (<<on[h], id[h], voters[h][j + 1]>> \in eligible <=> mark[h]))

\* A marking that was accepted keeps what it was asked for.
LEMMA MarkingKeeps ==
  ASSUME Inv, [Next]_vars, NEW g \in MarkReqs, pc[g] # "new"
  PROVE  /\ on'[g] = on[g] /\ id'[g] = id[g] /\ voters'[g] = voters[g]
         /\ mark'[g] = mark[g] /\ before'[g] = before[g]
         /\ pc[g] = "done" => pc'[g] = "done"
  <1> USE DEF Goto
  <1>0. TypeOK /\ MarkOk(g) /\ g \in Reqs /\ g \notin CreateReqs
    BY Sizes DEF Inv, Reqs
  <1>t. /\ pc \in [Reqs -> PcLabels] /\ on \in [Reqs -> Contracts]
        /\ id \in [Reqs -> Ids \cup {0}] /\ voters \in [MarkReqs -> Seq(Voters)]
        /\ mark \in [MarkReqs -> BOOLEAN] /\ before \in [MarkReqs -> SUBSET MarkReqs]
    BY <1>0 DEF TypeOK
  <1>1. ASSUME NEW h \in CreateReqs, Create(h)
        PROVE  /\ on'[g] = on[g] /\ id'[g] = id[g] /\ pc'[g] = pc[g]
               /\ UNCHANGED <<voters, mark, before>>
    BY <1>0, <1>t, <1>1
    DEF Create, Store, BeginCreate, Called, BeginTx, InsertRound, InsertProposal, Commit, work
  <1>2. ASSUME NEW h \in MarkReqs, NEW i \in Ids, NEW list \in Lists, NEW value \in BOOLEAN,
               BeginMark(h, i, list, value)
        PROVE  /\ on'[g] = on[g] /\ id'[g] = id[g] /\ voters'[g] = voters[g]
               /\ mark'[g] = mark[g] /\ before'[g] = before[g] /\ pc'[g] = pc[g]
    <2>1. h # g /\ h \in Reqs
      BY <1>2 DEF BeginMark, Reqs
    <2>2. CASE rounds[i] = NoRow
      BY <1>0, <1>t, <1>2, <2>1, <2>2 DEF BeginMark, work
    <2>3. CASE rounds[i] # NoRow
      BY <1>0, <1>t, <1>2, <2>1, <2>3 DEF BeginMark
    <2> QED BY <2>2, <2>3
  <1>3. ASSUME NEW h \in MarkReqs, SendMark(h) \/ MarkAnswered(h)
        PROVE  UNCHANGED <<on, id, voters, mark, before>> /\ (pc[g] = "done" => pc'[g] = "done")
    BY <1>0, <1>t, <1>3 DEF SendMark, MarkAnswered, work, Reqs
  <1>4. ASSUME NEW S \in SUBSET {h \in Reqs : pc[h] = "calling" \/ InFlight(h)}, Drop(S)
        PROVE  UNCHANGED <<on, id, voters, mark, before>> /\ (pc[g] = "done" => pc'[g] = "done")
    BY <1>0, <1>4 DEF Drop, InFlight
  <1>5. ASSUME NEW h \in Reqs, Fail(h)
        PROVE  UNCHANGED <<on, id, voters, mark, before>> /\ (pc[g] = "done" => pc'[g] = "done")
    BY <1>4, <1>5 DEF Fail
  <1>6. CASE ReplaceContract
    BY <1>4, <1>6 DEF ReplaceContract
  <1>7. ASSUME NEW h \in Reqs, Ledger(h)
        PROVE  UNCHANGED <<on, id, voters, mark, before, pc>>
    BY <1>7, LedgerMoves DEF IncludeCreate, OneCallMoves, work
  <1>8. UNCHANGED vars => UNCHANGED <<on, id, voters, mark, before, pc>>
    BY DEF vars, work
  <1> QED BY <1>1, <1>2, <1>3, <1>5, <1>6, <1>7, <1>8 DEF Next, Mark

\* When a call gets its number, it is the account's next one.
LEMMA NumberMoves ==
  ASSUME Inv, [Next]_vars, NEW k \in Calls
  PROVE  number'[k] = number[k] \/ (op[k] = "started" /\ number'[k] = seq + 1)
  <1>1. number \in [Calls -> Nat]
    BY DEF Inv, TypeOK
  <1>2. ASSUME NEW j \in Calls, NEW allowed \in BOOLEAN, Sign(j, allowed)
        PROVE  number'[k] = number[k] \/ (op[k] = "started" /\ number'[k] = seq + 1)
    BY <1>1, <1>2 DEF Sign
  <1>3. ASSUME NEW j \in Calls, Start(j) \/ Outrun(j) \/ number' = number
        PROVE  number'[k] = number[k]
    BY <1>3 DEF Start, Outrun
  <1>4. UNCHANGED account => number' = number
    BY DEF account
  <1> QED BY <1>2, <1>3, <1>4, NextMovesAccount DEF AccountStep

\* The marks on the chain, and a marking call that is included.
LEMMA EligibleMoves ==
  ASSUME Inv, [Next]_vars
  PROVE  \/ UNCHANGED eligible /\ \A h \in MarkReqs : \A i \in 0 .. MaxList :
                                    op'[<<h, i>>] = "ok" => op[<<h, i>>] = "ok"
         \/ \E g \in MarkReqs : \E i \in 0 .. MaxList : IncludeMark(g, i)
  <1> DEFINE NoneIncluded == \A h \in MarkReqs : \A i \in 0 .. MaxList :
                               op'[<<h, i>>] = "ok" => op[<<h, i>>] = "ok"
  <1>t. op \in [Calls -> OpStatus] /\ \A h \in MarkReqs : \A i \in 0 .. MaxList : <<h, i>> \in Calls
    BY Sizes DEF Inv, TypeOK, Calls, Reqs
  <1>1. ASSUME NEW k, Start(k) \/ Outrun(k) \/ (\E allowed : Sign(k, allowed)) \/ UNCHANGED account
        PROVE  NoneIncluded
    <2>1. op' = op \/ \E s \in {"started", "signed", "refused"} : op' = [op EXCEPT ![k] = s]
      BY <1>1 DEF Start, Outrun, Sign, account
    <2> QED BY <1>t, <2>1
  <1>2. ASSUME NEW h \in CreateReqs, IncludeCreate(h)
        PROVE  UNCHANGED eligible /\ NoneIncluded
    <2>1. /\ UNCHANGED eligible
          /\ op' = [op EXCEPT ![<<h, 0>>] = "ok"] \/ op' = [op EXCEPT ![<<h, 0>>] = "reverted"]
      BY <1>2 DEF IncludeCreate, Include
    <2> QED BY <1>t, <1>2, <2>1, Sizes
  <1> HIDE DEF NoneIncluded
  <1>3. ASSUME NEW h \in CreateReqs, Create(h)
        PROVE  UNCHANGED eligible /\ NoneIncluded
    <2>1. UNCHANGED eligible
      BY <1>3
      DEF Create, Store, BeginCreate, Called, BeginTx, InsertRound, InsertProposal, Commit
    <2>2. Start(<<h, 0>>) \/ UNCHANGED account
      BY <1>3
      DEF Create, Store, BeginCreate, Called, BeginTx, InsertRound, InsertProposal, Commit
    <2> QED BY <1>1, <2>1, <2>2
  <1>4. ASSUME NEW h \in MarkReqs, Mark(h)
        PROVE  UNCHANGED eligible /\ NoneIncluded
    <2>1. UNCHANGED eligible
      BY <1>4 DEF Mark, BeginMark, SendMark, MarkAnswered
    <2>2. Start(<<h, at[h]>>) \/ UNCHANGED account
      BY <1>4 DEF Mark, BeginMark, SendMark, MarkAnswered
    <2> QED BY <1>1, <2>1, <2>2
  <1>5. (\E h \in Reqs : Fail(h)) \/ ReplaceContract \/ UNCHANGED vars
          => UNCHANGED <<account, eligible>>
    BY DEF Fail, ReplaceContract, vars
  <1>6. ASSUME NEW h \in Reqs, Ledger(h)
        PROVE  \/ UNCHANGED eligible /\ NoneIncluded
               \/ \E g \in MarkReqs : \E i \in 0 .. MaxList : IncludeMark(g, i)
    <2>1. CASE h \in CreateReqs /\ IncludeCreate(h)
      BY <1>2, <2>1
    <2>2. ASSUME NEW i \in 0 .. MaxList, UNCHANGED eligible,
                 Sign(<<h, i>>, TRUE) \/ SignMark(h, i) \/ Outrun(<<h, i>>)
          PROVE  NoneIncluded
      <3>1. SignMark(h, i) => \E allowed : Sign(<<h, i>>, allowed)
        BY Zenon DEF SignMark
      <3> QED BY <1>1, <2>2, <3>1
    <2> QED BY <1>6, <2>1, <2>2 DEF Ledger
  <1> QED BY <1>1, <1>3, <1>4, <1>5, <1>6 DEF Next, NoneIncluded, account

\* A marking begins behind those that are done.
LEMMA BeforeMoves ==
  ASSUME Inv, [Next]_vars, NEW h \in MarkReqs
  PROVE  before'[h] = before[h] \/ before'[h] = {g \in MarkReqs : pc[g] = "done"}
  <1>t. before \in [MarkReqs -> SUBSET MarkReqs]
    BY DEF Inv, TypeOK
  <1>1. ASSUME NEW g \in CreateReqs, Create(g) PROVE UNCHANGED before
    BY <1>1
    DEF Create, Store, BeginCreate, Called, BeginTx, InsertRound, InsertProposal, Commit, work
  <1>2. ASSUME NEW g \in MarkReqs, Mark(g)
        PROVE  before'[h] = before[h] \/ before'[h] = {x \in MarkReqs : pc[x] = "done"}
    <2>1. before' = before \/ before' = [before EXCEPT ![g] = {x \in MarkReqs : pc[x] = "done"}]
      BY <1>2 DEF Mark, BeginMark, SendMark, MarkAnswered, work
    <2> QED BY <1>t, <2>1
  <1>3. ASSUME NEW g \in Reqs, Ledger(g) PROVE UNCHANGED before
    BY <1>3, LedgerMoves DEF IncludeCreate, OneCallMoves, work
  <1>4. (\E g \in Reqs : Fail(g)) \/ ReplaceContract \/ UNCHANGED vars => UNCHANGED before
    BY DEF Fail, ReplaceContract, Drop, vars, work
  <1> QED BY <1>1, <1>2, <1>3, <1>4 DEF Next

LEMMA StepLater ==
  ASSUME Inv, Inv', \A g \in MarkReqs : LaterOk(g), [Next]_vars, NEW h \in MarkReqs
  PROVE  LaterOk(h)'
  <1>0. LaterOk(h) /\ MarkOk(h) /\ MarkOk(h)' /\ TypeOK /\ AccountInv
    BY DEF Inv
  <1>t. /\ seq \in Nat /\ number \in [Calls -> Nat]
        /\ \A g \in MarkReqs : /\ before[g] \subseteq MarkReqs
                               /\ \A i \in 0 .. MaxList : <<g, i>> \in Calls
    BY <1>0, Sizes DEF TypeOK, Calls, Reqs
  <1>1. ASSUME NEW g \in MarkReqs, pc[g] = "done", NEW i \in 0 .. MaxList
        PROVE  number'[<<g, i>>] = number[<<g, i>>]
    <2>1. op[<<g, i>>] # "started"
      BY <1>1 DEF Inv, MarkOk, Answered
    <2> QED BY <1>1, <1>t, <2>1, NumberMoves
  <1>2. CASE pc[h] = "new"
    <2>1. \A i \in 0 .. MaxList : op[<<h, i>>] = "none" /\ number[<<h, i>>] = 0
      BY <1>0, <1>2, <1>t DEF MarkOk, AccountInv
    <2>2. \A i \in 0 .. MaxList : number'[<<h, i>>] = 0
      BY <1>t, <2>1, NumberMoves
    <2>3. \A i \in 0 .. MaxList : op'[<<h, i>>] # "ok"
      <3>1. AccountInv'
        BY DEF Inv
      <3> QED BY <1>t, <2>2, <3>1 DEF AccountInv, Included
    <2>4. \A g \in before'[h] : pc'[g] = "done"
      <3>1. CASE before'[h] = {}
        BY <3>1
      <3>2. CASE before'[h] # {}
        <4>1. before[h] = {}
          BY <1>0, <1>2 DEF MarkOk
        <4>2. before'[h] \subseteq {g \in MarkReqs : pc[g] = "done"}
          BY <3>2, <4>1, BeforeMoves
        <4> QED BY <4>2, MarkingKeeps
      <3> QED BY <3>1, <3>2
    <2> QED BY <2>2, <2>3, <2>4 DEF LaterOk
  <1>3. CASE pc[h] # "new"
    <2>1. /\ on'[h] = on[h] /\ id'[h] = id[h] /\ voters'[h] = voters[h]
          /\ mark'[h] = mark[h] /\ before'[h] = before[h]
      BY <1>3, MarkingKeeps
    <2>2. \A g \in before'[h] : pc'[g] = "done"
      BY <1>0, <1>t, <2>1, MarkingKeeps DEF LaterOk
    <2>3. ASSUME NEW g \in before'[h], NEW i \in 0 .. MaxList, NEW j \in 0 .. MaxList
          PROVE  number'[<<h, j>>] = 0 \/ number'[<<g, i>>] <= number'[<<h, j>>]
      <3>1. g \in before[h] /\ g \in MarkReqs /\ pc[g] = "done"
        BY <1>0, <1>t, <2>1, <2>3 DEF LaterOk
      <3>2. number'[<<g, i>>] = number[<<g, i>>]
        BY <1>1, <3>1
      <3>3. number[<<g, i>>] <= seq + 1
        BY <1>0, <1>t, <3>1 DEF AccountInv
      <3>4. number[<<h, j>>] = 0 \/ number[<<g, i>>] <= number[<<h, j>>]
        BY <1>0, <3>1 DEF LaterOk
      <3> QED BY <1>t, <3>2, <3>3, <3>4, NumberMoves
    <2>4. ASSUME NEW j \in 0 .. MaxList, op'[<<h, j>>] = "ok",
                 \A g \in MarkReqs : Rivals(h, g, voters[h][j + 1])' => g \in before[h]
          PROVE  <<on[h], id[h], voters[h][j + 1]>> \in eligible' <=> mark[h]
      <3> DEFINE v == voters[h][j + 1]
                 entry == <<on[h], id[h], v>>
      <3>1. j < Len(voters[h]) /\ Len(voters[h]) \in Nat
        BY <1>0, <2>1, <2>4 DEF MarkOk, TypeOK
      <3>2. CASE op[<<h, j>>] = "ok"
        <4>1. \A g \in MarkReqs : Rivals(h, g, v) => g \in before[h]
          <5> SUFFICES ASSUME NEW g \in MarkReqs, Rivals(h, g, v) PROVE g \in before[h]
            OBVIOUS
          <5>1. pc[g] # "new"
            BY DEF Rivals, Inv, MarkOk
          <5>2. on'[g] = on[g] /\ id'[g] = id[g] /\ voters'[g] = voters[g]
            BY <5>1, MarkingKeeps
          <5>3. Rivals(h, g, voters[h][j + 1])'
            BY <2>1, <5>2 DEF Rivals
          <5> QED BY <2>4, <5>3
        <4>2. entry \in eligible <=> mark[h]
          BY <1>0, <3>2, <4>1 DEF LaterOk
        <4>3. ASSUME NEW g \in MarkReqs, NEW i \in 0 .. MaxList, IncludeMark(g, i)
              PROVE  entry \in eligible' <=> entry \in eligible
          <5> DEFINE other == <<on[g], id[g], voters[g][i + 1]>>
          <5>1. \/ eligible' = eligible \cup {other}
                \/ eligible' = eligible \ {other}
                \/ eligible' = eligible
            BY <4>3 DEF IncludeMark, Include
          <5>2. op[<<g, i>>] = "signed" /\ number[<<g, i>>] = seq + 1
            BY <4>3 DEF IncludeMark, Include
          <5>3. i < Len(voters[g]) /\ Len(voters[g]) \in Nat
            <6>1. MarkOk(g) /\ voters[g] \in Seq(Voters)
              BY <1>0 DEF Inv, TypeOK
            <6>2. op[<<g, i>>] # "none"
              BY <5>2
            <6> QED BY <6>1, <6>2 DEF MarkOk
          <5>4. other # entry
            <6> SUFFICES ASSUME other = entry PROVE FALSE
              OBVIOUS
            <6>1. on[g] = on[h] /\ id[g] = id[h] /\ voters[g][i + 1] = v
              OBVIOUS
            <6> HIDE DEF v
            <6>2. CASE g = h
              <7>1. i + 1 = j + 1
                BY <1>0, <3>1, <5>3, <6>1, <6>2 DEF MarkOk, v
              <7> QED BY <3>2, <5>2, <6>2, <7>1
            <6>3. CASE g # h
              <7>1. Rivals(h, g, v)
                BY <5>3, <6>1, <6>3 DEF Rivals
              <7>2. number[<<h, j>>] = 0 \/ number[<<g, i>>] <= number[<<h, j>>]
                BY <1>0, <4>1, <7>1 DEF LaterOk
              <7>3. number[<<h, j>>] > 0 /\ number[<<h, j>>] <= seq
                BY <1>0, <1>t, <3>2 DEF AccountInv, Included
              <7> QED BY <1>t, <5>2, <7>2, <7>3
            <6> QED BY <6>2, <6>3
          <5> HIDE DEF other, entry
          <5> QED BY <5>1, <5>4
        <4> QED BY <4>2, <4>3, EligibleMoves
      <3>3. CASE op[<<h, j>>] # "ok"
        <4>1. PICK g \in MarkReqs : \E i \in 0 .. MaxList : IncludeMark(g, i)
          BY <2>4, <3>3, EligibleMoves
        <4>2. PICK i \in 0 .. MaxList : IncludeMark(g, i)
          BY <4>1
        <4>3. <<g, i>> = <<h, j>> /\ op'[<<g, i>>] = "ok"
          <5>1. op' = [op EXCEPT ![<<g, i>>] = "ok"] \/ op' = [op EXCEPT ![<<g, i>>] = "reverted"]
            BY <4>2 DEF IncludeMark, Include
          <5> QED BY <1>0, <1>t, <2>4, <3>3, <5>1 DEF TypeOK
        <4>4. g = h /\ i = j
          BY <4>3
        <4>5. eligible' = IF mark[h] THEN eligible \cup {entry} ELSE eligible \ {entry}
          <5>1. op'[<<h, j>>] # "reverted"
            BY <2>4
          <5> QED BY <1>0, <1>t, <4>2, <4>4, <5>1 DEF IncludeMark, Include, TypeOK
        <4> HIDE DEF entry
        <4>6. entry \in eligible' <=> mark[h]
          BY <1>0, <4>5 DEF TypeOK
        <4> QED BY <4>6 DEF entry
      <3> QED BY <3>2, <3>3
    <2>5. \A j \in 0 .. MaxList :
            op'[<<h, j>>] = "ok" =>
              ((\A g \in MarkReqs : Rivals(h, g, voters[h][j + 1])' => g \in before'[h])
                 => (<<on[h], id[h], voters[h][j + 1]>> \in eligible' <=> mark[h]))
      BY <2>1, <2>4
    <2> QED BY <2>1, <2>2, <2>3, <2>5 DEF LaterOk, Rivals
  <1> QED BY <1>2, <1>3

\* A voter reported as updated has the mark that was asked for, if all other
\* requests about this voter had been answered before (set_eligibility and the
\* account's sequence numbers).
THEOREM LaterMark == Spec => []LaterMarkWins
  <1> DEFINE AllLater == \A h \in MarkReqs : LaterOk(h)
  <1>1. Init => AllLater
    BY Sizes DEF Init, LaterOk, Calls, Reqs
  <1>2. Inv /\ Inv' /\ AllLater /\ [Next]_vars => AllLater'
    BY StepLater
  <1>3. Inv /\ AllLater => LaterMarkWins
    <2> SUFFICES ASSUME Inv, AllLater, NEW h \in MarkReqs, NEW v \in updated[h],
                        \A g \in MarkReqs : Rivals(h, g, v) => g \in before[h]
                 PROVE  <<on[h], id[h], v>> \in eligible <=> mark[h]
      BY DEF LaterMarkWins
    <2>1. PICK j \in 0 .. MaxList :
            j < Len(voters[h]) /\ voters[h][j + 1] = v /\ op[<<h, j>>] = "ok"
      BY DEF Inv, MarkOk
    <2> QED BY <2>1 DEF LaterOk
  <1> HIDE DEF AllLater
  <1> QED BY <1>1, <1>2, <1>3, Invariant, PTL DEF Spec
----------------------------------------------------------------------------
(* The connections of the pool.                                            *)

Open == {h \in CreateReqs : pc[h] \in {"storing", "adding"}}

\* The holders of connections are the creations with an open transaction.
LEMMA ConnectionsStep ==
  ASSUME Inv, ConnectionsAreNotLeaked, [Next]_vars PROVE ConnectionsAreNotLeaked'
  <1> USE DEF Goto
  <1>1. /\ pc \in [Reqs -> PcLabels] /\ CreateReqs \subseteq Reqs /\ MarkReqs \subseteq Reqs
        /\ CreateReqs \cap MarkReqs = {}
        /\ conns = Open /\ IsFiniteSet(conns)
        /\ MaxConns \in Nat /\ Cardinality(conns) \in Nat /\ Cardinality(conns) <= MaxConns
    <2>1. conns \subseteq CreateReqs /\ conns = Open
      BY DEF ConnectionsAreNotLeaked, Open
    <2>2. IsFiniteSet(conns) /\ Cardinality(conns) \in Nat
      BY <2>1, AdministrationAssumption, FS_Subset, FS_CardinalityType
    <2>3. pc \in [Reqs -> PcLabels]
      BY DEF Inv, TypeOK
    <2> QED BY <2>1, <2>2, <2>3, AdministrationAssumption DEF ConnectionsAreNotLeaked, Reqs
  <1>2. ASSUME conns' = Open', conns' \subseteq conns PROVE ConnectionsAreNotLeaked'
    <2>1. Cardinality(conns') \in Nat /\ Cardinality(conns') <= Cardinality(conns)
      BY <1>1, <1>2, FS_Subset, FS_CardinalityType
    <2> QED BY <1>1, <1>2, <2>1 DEF ConnectionsAreNotLeaked, Open
  <1>3. ASSUME NEW h \in Reqs, NEW label, pc' = [pc EXCEPT ![h] = label], conns' = conns,
               h \in CreateReqs =>
                 (pc[h] \in {"storing", "adding"} <=> label \in {"storing", "adding"})
        PROVE  ConnectionsAreNotLeaked'
    BY <1>1, <1>2, <1>3 DEF Open
  <1>4. ASSUME NEW h \in Reqs, NEW label, pc' = [pc EXCEPT ![h] = label], conns' = conns \ {h},
               label \notin {"storing", "adding"}
        PROVE  ConnectionsAreNotLeaked'
    BY <1>1, <1>2, <1>4 DEF Open
  <1>5. ASSUME UNCHANGED <<pc, conns>> PROVE ConnectionsAreNotLeaked'
    BY <1>1, <1>2, <1>5 DEF Open
  <1>6. ASSUME NEW S, Drop(S) PROVE ConnectionsAreNotLeaked'
    <2>1. /\ conns' = conns \ S
          /\ \A h \in Reqs : pc'[h] = IF h \in S THEN "failed" ELSE pc[h]
      BY <1>6 DEF Drop
    <2> QED BY <1>1, <1>2, <2>1 DEF Open
  <1>7. ASSUME NEW h \in CreateReqs, Create(h) PROVE ConnectionsAreNotLeaked'
    <2>1. ASSUME NEW n, NEW pool, BeginCreate(h, n, pool) PROVE ConnectionsAreNotLeaked'
      BY <1>1, <1>3, <2>1 DEF BeginCreate
    <2>2. CASE Called(h)
      BY <1>1, <1>3, <2>2 DEF Called
    <2>3. CASE BeginTx(h)
      <3>1. /\ pc[h] = "beginning" /\ pc' = [pc EXCEPT ![h] = "storing"]
            /\ Cardinality(conns) < MaxConns /\ conns' = conns \cup {h}
        BY <2>3 DEF BeginTx, Connect
      <3>2. h \notin conns
        BY <1>1, <3>1 DEF Open
      <3>3. Cardinality(conns') = Cardinality(conns) + 1
        BY <1>1, <3>1, <3>2, FS_AddElement
      <3>4. conns' = Open'
        BY <1>1, <3>1 DEF Open
      <3> QED BY <1>1, <3>1, <3>3, <3>4 DEF ConnectionsAreNotLeaked, Open
    <2>4. CASE InsertRound(h)
      BY <1>1, <1>3, <1>4, <2>4 DEF InsertRound, Release
    <2>5. CASE InsertProposal(h)
      BY <1>5, <2>5 DEF InsertProposal
    <2>6. CASE Commit(h)
      BY <1>1, <1>4, <2>6 DEF Commit, Release
    <2> QED BY <1>7, <2>1, <2>2, <2>3, <2>4, <2>5, <2>6 DEF Create, Store
  <1>8. ASSUME NEW h \in MarkReqs, Mark(h) PROVE ConnectionsAreNotLeaked'
    <2>1. /\ conns' = conns
          /\ \E label \in PcLabels : pc' = [pc EXCEPT ![h] = label]
      BY <1>8 DEF Mark, BeginMark, SendMark, MarkAnswered, PcLabels
    <2> QED BY <1>1, <1>3, <2>1
  <1>9. ASSUME NEW h \in Reqs, Fail(h) PROVE ConnectionsAreNotLeaked'
    BY <1>6, <1>9 DEF Fail
  <1>10. ASSUME NEW h \in Reqs, Ledger(h) PROVE ConnectionsAreNotLeaked'
    BY <1>5, <1>10, LedgerMoves DEF OneCallMoves, IncludeCreate
  <1>11. CASE ReplaceContract
    BY <1>6, <1>11 DEF ReplaceContract
  <1>12. CASE UNCHANGED vars
    BY <1>5, <1>12 DEF vars
  <1> QED BY <1>7, <1>8, <1>9, <1>10, <1>11, <1>12 DEF Next

\* No way out of create_round keeps a connection (the sqlx transaction gives its
\* own back when it is committed and when it is dropped), so the pool never
\* gives out more than PgPoolOptions::max_connections and never loses one.
THEOREM ConnectionsReturn == Spec => []ConnectionsAreNotLeaked
  <1>1. Init => ConnectionsAreNotLeaked
    <2> SUFFICES ASSUME Init PROVE ConnectionsAreNotLeaked
      OBVIOUS
    <2>1. conns = {} /\ \A h \in CreateReqs : pc[h] = "new"
      BY DEF Init, Reqs
    <2>2. Cardinality(conns) = 0
      BY <2>1, FS_EmptySet
    <2> QED BY <2>1, <2>2, AdministrationAssumption DEF ConnectionsAreNotLeaked
  <1> QED BY <1>1, ConnectionsStep, Invariant, PTL DEF Spec
=============================================================================
