------------------------------ MODULE Payouts ------------------------------
(***************************************************************************)
(* POST /payouts/execute (src/routes/payouts.rs) for one round: the        *)
(* "already executed" check, the loop that sends one payment per proposal  *)
(* and records it, and the payouts table whose UNIQUE (round_id,           *)
(* proposal_id) is the only thing that arbitrates concurrent requests.     *)
(*                                                                         *)
(* Each request h makes at most one payment call per proposal p, <<h, p>>: *)
(* its status is the network's, so the payment was made iff it is "ok".    *)
(* The rest of the system is the environment: the round and its row move   *)
(* as RoundMirror has it.                                                  *)
(***************************************************************************)
EXTENDS RoundMirror, SorobanClient, PayoutAllocation

CONSTANTS
  Execs,  \* the POST /payouts/execute requests
  Pool    \* the round's payout_pool_stroops

ASSUME PoolAssumption == Pool \in Nat

VARIABLES
  rows,     \* the payouts table: proposal -> row, or NoRow
  pc,       \* where each request is
  next,     \* the proposal each request's loop has reached
  shares,   \* the amounts a request computed from the tally it read
  outcome   \* the status it is about to record

vars == <<chain, call, dbPhase, rows, pc, next, shares, outcome>>

Proposals == Choices

NoRow == [amount |-> 0, status |-> "none"]

Recorded(p) == rows[p] # NoRow

Paid(h, p) == call[<<h, p>>] = "ok"

Goto(h, label) == pc' = [pc EXCEPT ![h] = label]

\* The row that is due, and the step to the next proposal, up to last.
RowOf(h) == [amount |-> shares[h][next[h]], status |-> outcome[h]]

LoopOn(h, last) ==
  IF next[h] < last
    THEN next' = [next EXCEPT ![h] = @ + 1] /\ Goto(h, "settling")
    ELSE UNCHANGED next /\ Goto(h, "done")

\* INSERT INTO payouts .. await?: a unique violation ends the loop.
Insert(h, row, last) ==
  IF Recorded(next[h])
    THEN Goto(h, "failed") /\ UNCHANGED <<rows, next>>
    ELSE rows' = [rows EXCEPT ![next[h]] = row] /\ LoopOn(h, last)

InFlight(h) == pc[h] \in {"checking", "reading", "settling", "paying", "recording"}

Init ==
  /\ MirrorInit
  /\ eligible = Voters
  /\ call = [k \in Execs \X Proposals |-> "none"]
  /\ rows = [p \in Proposals |-> NoRow]
  /\ pc = [h \in Execs |-> "new"]
  /\ next = [h \in Execs |-> 0]
  /\ shares = [h \in Execs |-> [p \in Proposals |-> 0]]
  /\ outcome = [h \in Execs |-> "none"]

----------------------------------------------------------------------------
(* Mistakes that the properties tell from the code: none is part of Next.  *)

\* A round that is still open for votes is settled too.
CheckRoundVoting(h) ==
  /\ pc[h] = "new"
  /\ Goto(h, IF dbPhase \in {"voting", "finalized"} /\ Pool > 0 THEN "checking" ELSE "failed")
  /\ UNCHANGED <<chain, call, dbPhase, rows, next, shares, outcome>>

\* The error of a payment is dropped.
PaymentErrorDropped(h) ==
  /\ pc[h] = "paying"
  /\ SeesOk(<<h, next[h]>>) \/ SeesErr(<<h, next[h]>>)
  /\ outcome' = [outcome EXCEPT ![h] = "submitted"]
  /\ Goto(h, "recording")
  /\ UNCHANGED <<chain, call, dbPhase, rows, next, shares>>

\* The loop runs one proposal too far ...
RecordTooFar(h) ==
  /\ pc[h] = "recording"
  /\ Insert(h, RowOf(h), NumChoices)
  /\ UNCHANGED <<chain, call, dbPhase, shares, outcome>>

\* ... or not far enough.
RecordTooFew(h) ==
  /\ pc[h] = "recording"
  /\ Insert(h, RowOf(h), NumChoices - 2)
  /\ UNCHANGED <<chain, call, dbPhase, shares, outcome>>

\* A payment that failed gets no row.
RecordSkipsFailed(h) ==
  /\ pc[h] = "recording"
  /\ Insert(h, IF outcome[h] = "failed" THEN NoRow ELSE RowOf(h), NumChoices - 1)
  /\ UNCHANGED <<chain, call, dbPhase, shares, outcome>>

\* ON CONFLICT DO NOTHING: the loop goes on behind the row of another request.
RecordIgnoresConflict(h) ==
  /\ pc[h] = "recording"
  /\ rows' = IF Recorded(next[h]) THEN rows ELSE [rows EXCEPT ![next[h]] = RowOf(h)]
  /\ LoopOn(h, NumChoices - 1)
  /\ UNCHANGED <<chain, call, dbPhase, shares, outcome>>

\* ON CONFLICT DO UPDATE.
RecordUpserts(h) ==
  /\ pc[h] = "recording"
  /\ rows' = [rows EXCEPT ![next[h]] = RowOf(h)]
  /\ LoopOn(h, NumChoices - 1)
  /\ UNCHANGED <<chain, call, dbPhase, shares, outcome>>

----------------------------------------------------------------------------
(* Before the loop: three checks and two reads, each behind an await.      *)

\* fetch_round, then 409 unless finalized, then 400 without a pool.
CheckRound(h) ==
  /\ pc[h] = "new"
  /\ Goto(h, IF dbPhase = "finalized" /\ Pool > 0 THEN "checking" ELSE "failed")
  /\ UNCHANGED <<chain, call, dbPhase, rows, next, shares, outcome>>

\* SELECT count(*) FROM payouts: 409 if payouts have already been executed.
CheckAlready(h) ==
  /\ pc[h] = "checking"
  /\ Goto(h, IF \E p \in Proposals : Recorded(p) THEN "already" ELSE "reading")
  /\ UNCHANGED <<chain, call, dbPhase, rows, next, shares, outcome>>

\* The tally is read from the chain and the pool allocated.
ReadTally(h) ==
  /\ pc[h] = "reading"
  /\ shares' = [shares EXCEPT ![h] = AllocatedAmounts(Pool, Tally)]
  /\ Goto(h, "settling")
  /\ UNCHANGED <<chain, call, dbPhase, rows, next, outcome>>

----------------------------------------------------------------------------
(* The loop, one iteration per proposal in choice order.                   *)

\* No payment for a zero share: it is recorded as confirmed.
SkipZero(h) ==
  /\ pc[h] = "settling"
  /\ shares[h][next[h]] = 0
  /\ outcome' = [outcome EXCEPT ![h] = "confirmed"]
  /\ Goto(h, "recording")
  /\ UNCHANGED <<chain, call, dbPhase, rows, next, shares>>

SendPayment(h) ==
  /\ pc[h] = "settling"
  /\ shares[h][next[h]] > 0
  /\ Spawn(<<h, next[h]>>)
  /\ Goto(h, "paying")
  /\ UNCHANGED <<chain, dbPhase, rows, next, shares, outcome>>

\* The network pays, or refuses (no such account, no funds, bad sequence).
LandPayment(h, p) ==
  /\ \E accepted \in IF Faulty THEN BOOLEAN ELSE {TRUE} :
       Land(<<h, p>>, accepted, UNCHANGED chain, chain)
  /\ UNCHANGED <<dbPhase, rows, pc, next, shares, outcome>>

\* An error does not end the loop: it is what the row will say.
PaymentAnswered(h) ==
  /\ pc[h] = "paying"
  /\ \/ SeesOk(<<h, next[h]>>)  /\ outcome' = [outcome EXCEPT ![h] = "submitted"]
     \/ SeesErr(<<h, next[h]>>) /\ outcome' = [outcome EXCEPT ![h] = "failed"]
  /\ Goto(h, "recording")
  /\ UNCHANGED <<chain, call, dbPhase, rows, next, shares>>

\* The row is inserted, whatever became of the payment.
Record(h) ==
  /\ pc[h] = "recording"
  /\ Insert(h, RowOf(h), NumChoices - 1)
  /\ UNCHANGED <<chain, call, dbPhase, shares, outcome>>

----------------------------------------------------------------------------
(* An error of a query, of the tally read or of the INSERT ends the        *)
(* request; so does the client, or a crash of the server.                  *)

Fail(h) ==
  /\ Faulty
  /\ pc[h] \in {"checking", "reading", "recording"}
  /\ Goto(h, "failed")
  /\ UNCHANGED <<chain, call, dbPhase, rows, next, shares, outcome>>

HangUp(h) ==
  /\ Faulty
  /\ InFlight(h)
  /\ Goto(h, "gone")
  /\ UNCHANGED <<chain, call, dbPhase, rows, next, shares, outcome>>

----------------------------------------------------------------------------
(* The rest of the system.                                                 *)

Environment ==
  (RoundMoves \/ VotersAct) /\ UNCHANGED <<call, rows, pc, next, shares, outcome>>

Execute(h) ==
  \/ CheckRound(h)
  \/ CheckAlready(h)
  \/ ReadTally(h)
  \/ SkipZero(h)
  \/ SendPayment(h)
  \/ PaymentAnswered(h)
  \/ Record(h)

Next ==
  \/ \E h \in Execs : Execute(h) \/ Fail(h) \/ HangUp(h)
  \/ \E h \in Execs, p \in Proposals : LandPayment(h, p)
  \/ Environment

Spec == Init /\ [][Next]_vars

\* Handlers run on, and the network and the database answer them.  Nothing in
\* the code retries or times out, so this is what its liveness rests on.
Fairness ==
  /\ \A h \in Execs : WF_vars(Execute(h))
  /\ \A h \in Execs, p \in Proposals : WF_vars(LandPayment(h, p))

FairSpec == Spec /\ Fairness

\* The same with an operator who sends a request only when no other one is
\* in flight, as a retry after an error or a restart.
SerialNext ==
  /\ Next
  /\ \A h \in Execs : pc[h] = "new" /\ pc'[h] # "new" =>
       \A other \in Execs : ~InFlight(other)

SerialSpec == Init /\ [][SerialNext]_vars

----------------------------------------------------------------------------
(* Properties.                                                             *)

PcLabels == {"new", "checking", "reading", "settling", "paying", "recording",
             "done", "already", "failed", "gone"}

RowStatus == {"none", "confirmed", "submitted", "failed"}

\* Every variable keeps its type: the loop stays within the proposals.
TypeOK ==
  /\ ChainTypeOK
  /\ call \in [Execs \X Proposals -> CallStatus]
  /\ dbPhase \in DbPhases
  /\ rows \in [Proposals -> [amount : Nat, status : RowStatus]]
  /\ pc \in [Execs -> PcLabels]
  /\ next \in [Execs -> Proposals]
  /\ shares \in [Execs -> [Proposals -> Nat]]
  /\ outcome \in [Execs -> RowStatus]

\* Only the first proposal can be paid twice.  Concurrent requests, and
\* requests repeated after a crash, may all pay proposal 0 before one of them
\* records it; from then on the unique row and the count check leave a single
\* request in the loop, so every later proposal is paid at most once.
LaterProposalsPaidOnce ==
  \A p \in Proposals \ {0}, h1, h2 \in Execs :
    Paid(h1, p) /\ Paid(h2, p) => h1 = h2

\* Whatever mix of requests wrote them, the rows are shares of one and the same
\* allocation, that of the final tally; so are the payments.
RecordedSharesAreFinal ==
  /\ \A p \in Proposals :
       Recorded(p) => rows[p].amount = AllocatedAmounts(Pool, Tally)[p]
  /\ \A h \in Execs, p \in Proposals :
       Paid(h, p) => shares[h][p] = AllocatedAmounts(Pool, Tally)[p]

\* The table never promises more than the pool, and a complete table of a round
\* with votes promises exactly the pool.
RowsWithinPool ==
  LET promised == SumFunction([p \in Proposals |-> rows[p].amount])
  IN  /\ promised <= Pool
      /\ (\A p \in Proposals : Recorded(p)) /\ BallotCount > 0 => promised = Pool

\* A row marked submitted is of a proposal that was paid, and a proposal whose
\* row is marked confirmed got nothing: no payment is hidden behind a row that
\* says there was none to make.
RowsTellThePayments ==
  \A p \in Proposals :
    /\ rows[p].status = "submitted" => \E h \in Execs : Paid(h, p)
    /\ rows[p].status = "confirmed" => \A h \in Execs : ~Paid(h, p)

\* The requests together keep the promise of Settlement.
Settled == INSTANCE Settlement WITH
  Payers <- Execs,
  sent   <- {k \in Execs \X Proposals : call[k] # "none"},
  made   <- {k \in Execs \X Proposals : call[k] = "ok"},
  table  <- [p \in Proposals |-> rows[p].status]

\* Whatever mix of concurrent, repeated and interrupted requests runs, it pays
\* and records as one settlement would that only races for the first proposal:
\* no later payment is sent but by the one request that got there, behind the
\* rows of all earlier proposals and before its own; no row is written twice or
\* claims a payment that was not made; and nothing is ever paid for a proposal
\* recorded as having no share.
ImplementsSettlement == Settled!SettlementSpec

\* The payments recorded so far are those of a prefix of the proposals, so that
\* a settlement that broke off can be resumed behind its last row.
RowsArePrefix ==
  \A p, q \in Proposals : q < p /\ Recorded(p) => Recorded(q)

\* Without faults a settlement that passed the checks completes: of concurrent
\* requests one survives its unique violations and records every proposal.
SettlementCompletes ==
  (\E h \in Execs : pc[h] = "settling") ~> \A p \in Proposals : Recorded(p)

\* The documented idempotence: no proposal is paid twice (payouts.rs:39: this
\* returns 409 rather than paying out twice).  It takes that nothing fails and
\* that no two requests are in flight at once.
PaidAtMostOnce ==
  \A p \in Proposals, h1, h2 \in Execs : Paid(h1, p) /\ Paid(h2, p) => h1 = h2

\* The documented settlement (README.md:182: one payment per proposal with a
\* nonzero share; payouts.rs:39: 409 if the payouts were already recorded): a
\* request that is told the payouts have been executed leaves no proposal that
\* has a share without its row once no request is in flight.  It takes that
\* nothing fails; then it holds of concurrent requests too.
AlreadyExecutedMeansComplete ==
  (\E h \in Execs : pc[h] = "already") /\ (\A h \in Execs : ~InFlight(h))
    => \A p \in Proposals : AllocatedAmounts(Pool, Tally)[p] > 0 => Recorded(p)
=============================================================================
