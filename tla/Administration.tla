--------------------------- MODULE Administration ---------------------------
(***************************************************************************)
(* What the round administrator does before a round is opened: POST        *)
(* /rounds, which creates the round on the chain and then stores it with   *)
(* its proposals in one transaction, and POST /rounds/{id}/eligibility,    *)
(* which marks voters one call after the other (src/routes/rounds.rs).     *)
(*                                                                         *)
(* Calls of concurrent requests compete for the sequence numbers of one    *)
(* account, and their queries for the connections of one pool.  The        *)
(* operator may replace the contract: the server is started again with     *)
(* another CONTRACT_ID, whose round ids begin anew, over the same tables.  *)
(***************************************************************************)
EXTENDS OperatorAccount, Integers, Sequences, FiniteSets

CONSTANTS
  CreateReqs,    \* the POST /rounds requests
  MarkReqs,      \* the POST /rounds/{id}/eligibility requests
  Voters,        \* whom they name
  MaxProposals,  \* bound: proposals of a round
  MaxList,       \* bound: voters in one request
  MaxContracts,  \* bound: contracts that are used one after the other
  MaxConns,      \* PgPoolOptions::max_connections
  NoRow          \* an id without a row

Reqs == CreateReqs \cup MarkReqs

Calls == Reqs \X (0 .. MaxList)

Contracts == 1 .. MaxContracts

Ids == 1 .. Cardinality(CreateReqs)

\* A round on the chain, or its row: by is the request whose title, pool and
\* proposals it has.
Rounds == [by : CreateReqs, choices : 1 .. MaxProposals]

RoundRows == [contract : Contracts, by : CreateReqs, choices : 1 .. MaxProposals]

ASSUME AdministrationAssumption ==
  /\ IsFiniteSet(CreateReqs) /\ IsFiniteSet(MarkReqs)
  /\ CreateReqs \cap MarkReqs = {}
  /\ {MaxProposals, MaxList, MaxContracts, MaxConns} \subseteq Nat \ {0}
  /\ NoRow \notin RoundRows

VARIABLES
  contract,   \* the contract the server is configured with
  made,       \* the rounds created on each contract; an id is a position
  eligible,   \* the marks the contracts hold: <<contract, id, voter>>
  rounds,     \* the rounds table: id -> row, or NoRow
  proposals,  \* the proposals table: id -> choice indices
  conns,      \* the requests that hold a connection
  pc,         \* where each request is
  on,         \* the contract it calls
  id,         \* the id a creation was given, or that a marking names
  size,       \* the number of proposals a creation brings
  voters,     \* the voters a marking names, in order
  mark,       \* whether it marks them or unmarks them
  at,         \* the proposal or the voter its loop has reached
  updated,    \* the voters it will report as updated
  before      \* history: the markings that had been answered when it began

tables == <<rounds, proposals>>

work == <<on, id, size, voters, mark, at, updated, before>>

vars == <<account, contract, made, eligible, tables, conns, pc, work>>

Goto(h, label) == pc' = [pc EXCEPT ![h] = label]

InFlight(h) == pc[h] \notin {"new", "done", "failed"}

Connect(h) ==
  /\ Cardinality(conns) < MaxConns
  /\ conns' = conns \cup {h}

Release(h) == conns' = conns \ {h}

\* The handlers of S end without a reply of theirs; what they held is dropped.
Drop(S) ==
  /\ pc' = [h \in Reqs |-> IF h \in S THEN "failed" ELSE pc[h]]
  /\ conns' = conns \ S
  /\ at' = [h \in Reqs |-> IF h \in S THEN 0 ELSE at[h]]
  /\ updated' = [h \in MarkReqs |-> IF h \in S THEN {} ELSE updated[h]]
  /\ UNCHANGED <<on, id, size, voters, mark, before>>

\* Whether the contract knows the round.
Exists(c, i) == i \in 1 .. Len(made[c])

Init ==
  /\ seq = 0
  /\ op = [k \in Calls |-> "none"]
  /\ number = [k \in Calls |-> 0]
  /\ contract = 1
  /\ made = [c \in Contracts |-> <<>>]
  /\ eligible = {}
  /\ rounds = [i \in Ids |-> NoRow]
  /\ proposals = [i \in Ids |-> {}]
  /\ conns = {}
  /\ pc = [h \in Reqs |-> "new"]
  /\ on = [h \in Reqs |-> 1]
  /\ id = [h \in Reqs |-> 0]
  /\ size = [h \in CreateReqs |-> 0]
  /\ voters = [h \in MarkReqs |-> <<>>]
  /\ mark = [h \in MarkReqs |-> FALSE]
  /\ at = [h \in Reqs |-> 0]
  /\ updated = [h \in MarkReqs |-> {}]
  /\ before = [h \in MarkReqs |-> {}]

----------------------------------------------------------------------------
(* Mistakes that the properties tell from the code: none is part of Next.  *)

\* The id is taken from the table, not from the call's result.
CalledCountsRows(h) ==
  /\ pc[h] = "calling"
  /\ SeesOk(<<h, 0>>)
  /\ id' = [id EXCEPT ![h] = Cardinality({i \in Ids : rounds[i] # NoRow}) + 1]
  /\ Goto(h, "beginning")
  /\ UNCHANGED <<account, contract, made, eligible, tables, conns,
                 on, size, voters, mark, at, updated, before>>

\* ON CONFLICT (id) DO UPDATE.
InsertRoundUpserts(h) ==
  /\ pc[h] = "storing"
  /\ Goto(h, "adding")
  /\ UNCHANGED <<account, contract, made, eligible, tables, conns, work>>

\* The transaction is kept open when its first INSERT fails.
InsertRoundLeaks(h) ==
  /\ pc[h] = "storing"
  /\ Goto(h, IF rounds[id[h]] = NoRow THEN "adding" ELSE "failed")
  /\ UNCHANGED <<account, contract, made, eligible, tables, conns, work>>

\* The proposals are inserted through the pool, not through the transaction.
InsertProposalThroughPool(h) ==
  /\ pc[h] = "adding" /\ at[h] < size[h]
  /\ Cardinality(conns) < MaxConns
  /\ at' = [at EXCEPT ![h] = @ + 1]
  /\ UNCHANGED <<account, contract, made, eligible, tables, conns, pc,
                 on, id, size, voters, mark, updated, before>>

\* Choices are counted from one.
CommitFromOne(h) ==
  /\ pc[h] = "adding" /\ at[h] = size[h]
  /\ rounds' = [rounds EXCEPT ![id[h]] =
                  [contract |-> on[h], by |-> h, choices |-> size[h]]]
  /\ proposals' = [proposals EXCEPT ![id[h]] = 1 .. at[h]]
  /\ Goto(h, "done")
  /\ Release(h)
  /\ UNCHANGED <<account, contract, made, eligible, work>>

\* The call's error is not looked at.
MarkAnsweredAnyhow(h) ==
  /\ pc[h] = "awaiting"
  /\ SeesOk(<<h, at[h]>>) \/ SeesErr(<<h, at[h]>>)
  /\ updated' = [updated EXCEPT ![h] = @ \cup {voters[h][at[h] + 1]}]
  /\ at' = [at EXCEPT ![h] = @ + 1]
  /\ Goto(h, "marking")
  /\ UNCHANGED <<account, contract, made, eligible, tables, conns,
                 on, id, size, voters, mark, before>>

----------------------------------------------------------------------------
(* create_round.                                                           *)

\* 400 for no proposals or a negative pool; then the call.
BeginCreate(h, n, pool) ==
  /\ pc[h] = "new"
  /\ \/ /\ n = 0 \/ pool < 0
        /\ Goto(h, "failed")
        /\ UNCHANGED <<account, on, size>>
     \/ /\ n > 0 /\ pool >= 0
        /\ on' = [on EXCEPT ![h] = contract]
        /\ size' = [size EXCEPT ![h] = n]
        /\ Start(<<h, 0>>)
        /\ Goto(h, "calling")
  /\ UNCHANGED <<contract, made, eligible, tables, conns,
                 id, voters, mark, at, updated, before>>

\* The contract gives the round its next id, which the call returns.
IncludeCreate(h) ==
  LET round == [by |-> h, choices |-> size[h]] IN
  /\ Include(<<h, 0>>, TRUE, made' = [made EXCEPT ![on[h]] = Append(@, round)], made)
  /\ UNCHANGED <<contract, eligible, tables, conns, pc, work>>

ReturnedId(h) == CHOOSE i \in Ids : Exists(on[h], i) /\ made[on[h]][i].by = h

Called(h) ==
  /\ pc[h] = "calling"
  /\ SeesOk(<<h, 0>>)
  /\ id' = [id EXCEPT ![h] = ReturnedId(h)]
  /\ Goto(h, "beginning")
  /\ UNCHANGED <<account, contract, made, eligible, tables, conns,
                 on, size, voters, mark, at, updated, before>>

\* begin: a connection is taken from the pool, and kept until the end.
BeginTx(h) ==
  /\ pc[h] = "beginning"
  /\ Connect(h)
  /\ Goto(h, "storing")
  /\ UNCHANGED <<account, contract, made, eligible, tables, work>>

\* INSERT INTO rounds: the id is the primary key, whatever the contract.
InsertRound(h) ==
  /\ pc[h] = "storing"
  /\ IF rounds[id[h]] = NoRow
       THEN Goto(h, "adding") /\ UNCHANGED conns
       ELSE Goto(h, "failed") /\ Release(h)
  /\ UNCHANGED <<account, contract, made, eligible, tables, work>>

\* INSERT INTO proposals, one by one.
InsertProposal(h) ==
  /\ pc[h] = "adding" /\ at[h] < size[h]
  /\ at' = [at EXCEPT ![h] = @ + 1]
  /\ UNCHANGED <<account, contract, made, eligible, tables, conns, pc,
                 on, id, size, voters, mark, updated, before>>

\* What the transaction has written becomes visible at once; the connection may
\* be lost before the answer.
Commit(h) ==
  /\ pc[h] = "adding" /\ at[h] = size[h]
  /\ rounds' = [rounds EXCEPT ![id[h]] =
                  [contract |-> on[h], by |-> h, choices |-> size[h]]]
  /\ proposals' = [proposals EXCEPT ![id[h]] = 0 .. (at[h] - 1)]
  /\ \E answer \in IF Faulty THEN {"done", "failed"} ELSE {"done"} : Goto(h, answer)
  /\ Release(h)
  /\ UNCHANGED <<account, contract, made, eligible, work>>

----------------------------------------------------------------------------
(* set_eligibility.                                                        *)

\* fetch_round: 404 without a row.  It does not look at the row's contract.
BeginMark(h, i, list, value) ==
  /\ pc[h] = "new"
  /\ Cardinality(conns) < MaxConns
  /\ IF rounds[i] = NoRow
       THEN Goto(h, "failed") /\ UNCHANGED work
       ELSE /\ on' = [on EXCEPT ![h] = contract]
            /\ id' = [id EXCEPT ![h] = i]
            /\ voters' = [voters EXCEPT ![h] = list]
            /\ mark' = [mark EXCEPT ![h] = value]
            /\ before' = [before EXCEPT ![h] = {g \in MarkReqs : pc[g] = "done"}]
            /\ Goto(h, "marking")
            /\ UNCHANGED <<size, at, updated>>
  /\ UNCHANGED <<account, contract, made, eligible, tables, conns>>

\* The next call of the loop, or the reply behind the last.
SendMark(h) ==
  /\ pc[h] = "marking"
  /\ IF at[h] < Len(voters[h])
       THEN Start(<<h, at[h]>>) /\ Goto(h, "awaiting")
       ELSE UNCHANGED account /\ Goto(h, "done")
  /\ UNCHANGED <<contract, made, eligible, tables, conns, work>>

SignMark(h, i) == Sign(<<h, i>>, Exists(on[h], id[h]))

IncludeMark(h, i) ==
  LET entry == {<<on[h], id[h], voters[h][i + 1]>>} IN
  Include(<<h, i>>, Exists(on[h], id[h]),
          eligible' = IF mark[h] THEN eligible \cup entry ELSE eligible \ entry,
          eligible)

\* The loop goes on whatever the answer: an error is reported for its voter.
MarkAnswered(h) ==
  /\ pc[h] = "awaiting"
  /\ \/ /\ SeesOk(<<h, at[h]>>)
        /\ updated' = [updated EXCEPT ![h] = @ \cup {voters[h][at[h] + 1]}]
     \/ SeesErr(<<h, at[h]>>) /\ UNCHANGED updated
  /\ at' = [at EXCEPT ![h] = @ + 1]
  /\ Goto(h, "marking")
  /\ UNCHANGED <<account, contract, made, eligible, tables, conns,
                 on, id, size, voters, mark, before>>

----------------------------------------------------------------------------
(* Errors, clients, the account and the operator.                          *)

\* A creation ends with an error of its call or of a query; so does any request
\* whose client hangs up or whose server crashes.  The transaction is rolled
\* back, but a subprocess runs on.
Fail(h) ==
  /\ \/ pc[h] = "calling" /\ SeesErr(<<h, 0>>)
     \/ InFlight(h) /\ Faulty
  /\ Drop({h})
  /\ UNCHANGED <<account, contract, made, eligible, tables>>

\* The server is started again, with the next contract.
ReplaceContract ==
  /\ contract < MaxContracts
  /\ contract' = contract + 1
  /\ Drop({h \in Reqs : InFlight(h)})
  /\ UNCHANGED <<account, made, eligible, tables>>

\* The subprocesses and the ledger, whether or not someone waits for them.
Ledger(h) ==
  \/ h \in CreateReqs /\ IncludeCreate(h)
  \/ \E i \in 0 .. MaxList :
       /\ \/ h \in CreateReqs /\ Sign(<<h, i>>, TRUE) /\ UNCHANGED eligible
          \/ h \in MarkReqs /\ SignMark(h, i) /\ UNCHANGED eligible
          \/ h \in MarkReqs /\ IncludeMark(h, i)
          \/ Outrun(<<h, i>>) /\ UNCHANGED eligible
       /\ UNCHANGED <<contract, made, tables, conns, pc, work>>

\* Voters without repetition, up to MaxList of them.
Lists ==
  {list \in UNION {[1 .. n -> Voters] : n \in 1 .. MaxList} :
     \A a, b \in DOMAIN list : list[a] = list[b] => a = b}

Store(h) == BeginTx(h) \/ InsertRound(h) \/ InsertProposal(h) \/ Commit(h)

Create(h) ==
  \/ \E n \in 0 .. MaxProposals, pool \in {-1, 0} : BeginCreate(h, n, pool)
  \/ Called(h)
  \/ Store(h)

Mark(h) ==
  \/ \E i \in Ids, list \in Lists, value \in BOOLEAN : BeginMark(h, i, list, value)
  \/ SendMark(h)
  \/ MarkAnswered(h)

Next ==
  \/ \E h \in CreateReqs : Create(h)
  \/ \E h \in MarkReqs : Mark(h)
  \/ \E h \in Reqs : Fail(h) \/ Ledger(h)
  \/ ReplaceContract

Spec == Init /\ [][Next]_vars

----------------------------------------------------------------------------
(* Properties.                                                             *)

PcLabels == {"new", "calling", "beginning", "storing", "adding",
             "marking", "awaiting", "done", "failed"}

\* Every variable keeps its type; a proposal has its choice_index.
TypeOK ==
  /\ seq \in Nat
  /\ op \in [Calls -> OpStatus]
  /\ number \in [Calls -> Nat]
  /\ contract \in Contracts
  /\ made \in [Contracts -> Seq(Rounds)]
  /\ eligible \in SUBSET (Contracts \X Ids \X Voters)
  /\ rounds \in [Ids -> RoundRows \cup {NoRow}]
  /\ proposals \in [Ids -> SUBSET (0 .. (MaxProposals - 1))]
  /\ conns \in SUBSET CreateReqs
  /\ pc \in [Reqs -> PcLabels]
  /\ on \in [Reqs -> Contracts]
  /\ id \in [Reqs -> Ids \cup {0}]
  /\ size \in [CreateReqs -> 0 .. MaxProposals]
  /\ voters \in [MarkReqs -> Seq(Voters)]
  /\ mark \in [MarkReqs -> BOOLEAN]
  /\ at \in [Reqs -> Nat]
  /\ updated \in [MarkReqs -> SUBSET Voters]
  /\ before \in [MarkReqs -> SUBSET MarkReqs]

\* Creations that fail between the chain and the tables leave rounds without a
\* row, and only that: every row is of the round that its own request created,
\* under the id and on the contract it names, and comes with exactly the
\* proposals of that round's choices.
RowsAreWholeRounds ==
  \A i \in Ids :
    IF rounds[i] = NoRow
      THEN proposals[i] = {}
      ELSE /\ Exists(rounds[i].contract, i)
           /\ made[rounds[i].contract][i] = [by |-> rounds[i].by, choices |-> rounds[i].choices]
           /\ proposals[i] = 0 .. (rounds[i].choices - 1)

\* A round that was answered with 200 keeps its row, also when the contract is
\* replaced by one that gives its id to another round: it is the new round that
\* gets no row.
CreatedRoundStays ==
  \A h \in CreateReqs :
    pc[h] = "done" =>
      rounds[id[h]] = [contract |-> on[h], by |-> h, choices |-> size[h]]

\* Whether g, a marking other than h, has named voter v of h's round.
Rivals(h, g, v) ==
  /\ g # h
  /\ <<on[g], id[g]>> = <<on[h], id[h]>>
  /\ \E i \in 1 .. Len(voters[g]) : voters[g][i] = v

\* The last word counts: a voter reported as updated has the mark that was asked
\* for, if all other requests about this voter had been answered before.  Some
\* of their calls may have been reported as failed and still be on their way,
\* but they cannot take effect any more: their sequence number has been used.
LaterMarkWins ==
  \A h \in MarkReqs : \A v \in updated[h] :
    (\A g \in MarkReqs : Rivals(h, g, v) => g \in before[h])
      => (<<on[h], id[h], v>> \in eligible <=> mark[h])

\* No connection leaks: whether a creation commits, conflicts, fails, hangs up or
\* goes down with the server, it holds one exactly while its transaction is open,
\* and the pool never gives out more than it has.
ConnectionsAreNotLeaked ==
  /\ conns = {h \in CreateReqs : pc[h] \in {"storing", "adding"}}
  /\ Cardinality(conns) <= MaxConns

\* The pool does not run dry: a connection is only held for queries that need no
\* other one, and never while a call is awaited, so whoever holds one can go on
\* and will give it back.
ConnectionsComeBack == \A h \in conns : ENABLED Store(h)
=============================================================================
