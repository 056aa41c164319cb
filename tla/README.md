# A verification development of anonvote-backend

`anonvote-backend` is an axum service between voters, a Postgres database and
the AnonVote Soroban contract. It keeps no state of its own between requests:
everything it knows is on the chain, which it reaches through subprocesses of
the `stellar` CLI, and in five tables. Every handler is therefore a short
sequence of awaits on two systems that share no transaction, and what is hard
about it is what happens between two awaits. This directory models those
handlers in TLA+, checks them with TLC on small instances, and proves the
properties that matter most with TLAPS for all instances.

## Inventory

| Part (source) | State | Operations | Hard | What makes it correct | Status |
|---|---|---|---|---|---|
| Round lifecycle (`routes/rounds.rs`) | `rounds.phase`, a mirror of the contract's phase | `open_voting`, `finalize_round`, `get_tally` | the transaction and the UPDATE are two steps; UPDATEs run in any order; two reads for one reply | the row is never ahead of the chain; a final reply is final | `RoundLifecycle`, abstract: `RoundMirror` |
| Payout execution (`routes/payouts.rs`) | `payouts` rows | `execute_payouts` | check, pay, record with awaits between; a loop that can stop anywhere; concurrent requests | how often a proposal is paid; one allocation; what the rows say of the payments | `Payouts`, abstract: `Settlement` |
| Payout allocation (same file) | none: a pure function | `allocate_stroops` | rounding, unsigned subtraction, one pass for the leftover | largest-remainder split of the whole pool | `PayoutAllocation`, `AllocateStroops` |
| Registration (`routes/voters.rs`) | `voter_registrations` rows | `register` | the leaf index is read back after the relay; two unique constraints, one handled | bounds on `leaf_index`; a complete list is exact | `Registration` |
| Ballots (`routes/votes.rs`) | `ballots` rows | `cast_vote` | root read before proving; relay before INSERT; equal nullifiers in different spellings; a row that is late | rows are ballots of the chain; no INSERT conflict; no stale server-side proof; a good vote is refused for few reasons | `Voting` |
| Proof service (`proof_service.rs`) | a workspace per request | `prove`, `compute_nullifier` | two subprocesses that find their inputs in files, for concurrent requests; inputs handed over as they came | a proof is of its own request; its inputs are readable | `ProofService`, used by `Voting` |
| Round creation (`rounds.rs`, `create_round`) | `rounds`, `proposals` | one call, one database transaction | failure between the two; ids of another contract; a bounded connection pool | every row is a whole round and stays | `Administration` |
| Eligibility (`rounds.rs`, `set_eligibility`) | the contract's marks | a loop of calls | errors per voter, some of calls still on their way | what is reported as updated holds | `Administration` |
| Soroban client (`soroban_client.rs`) | subprocesses; the operator's sequence number | `read`, `invoke_as_operator`, `relay_signed_xdr`, `send_payment` | errors after inclusion; subprocesses that outlive their request; no timeout; one account for concurrent calls | what a handler may conclude from an answer | `SorobanClient`, `OperatorAccount` (partly) |
| Contract (another repository) | phase, leaves, eligibility, ballots | `register`, `open_voting`, `cast_vote`, ... | – | taken as given | `AnonVoteContract` (external) |
| The handlers together (`routes/mod.rs`, `state.rs`) | nothing but the tables | the routes | one component's environment is the others | each sees only what it was checked against; a ballot answered with 200 is paid | `Backend` |
| Start-up, configuration (`main.rs`, `config.rs`) | `CONTRACT_ID`, pool size | restart | a replaced contract | – | in `Administration` (partly) |
| Read endpoints, errors, wire types | none | single queries | – | – | not modelled on their own |

The handlers interact only through the chain and the rows: open and finalize
write `rounds.phase`, which register, cast_vote and execute_payouts check and
never lock; execute_payouts reads the tally that cast_vote made; clients build
Merkle paths from the rows that register wrote. create_round and set_eligibility
come before all of them; their calls share the sequence numbers of one account.
`PROJECT.json` lists the hazards at their lines with the properties for each.

## Modules

`AnonVoteContract` is one round of the contract: an operation is an atomic
action with a guard (`MayRegister`, `MayCastVote`, ...) taken from the named
rejections in `contract_error_name`. Hashes are injective: a voter stands for
its secret, its commitment and its nullifier, and the Merkle root of a list of
leaves is that list.

`SorobanClient` is a call. `Spawn` starts the subprocess; `Land` is the ledger
including or refusing the transaction, at any later time and whether or not
anyone still waits; `SeesOk` and `SeesErr` are what the waiting handler may be
told. With `Faulty = TRUE` an error may be reported of a transaction that was
included, will be or never is (the network drops it, or another call of the
operator's account has used its sequence number: then it stays "running"),
queries fail and clients hang up. A crash of the server
is a hang-up of every request in flight, as no other state is lost.

`OperatorAccount` is the same call one level down, for `Administration`: the
CLI simulates, signs with the number after the account's (`Sign`), and the
ledger includes the transaction only if the number is still the next one
(`Include`), or never again (`Outrun`).

`RoundMirror` is a round as the handlers that do not move it see it: the
contract's round, which goes forward, and the row, which follows late, in any
order, not always, but never ahead. It is the abstract specification of
`RoundLifecycle` (`ImplementsMirror`, checked and proved) and the environment of
`Registration`, `Voting` and `Payouts`, which extend it.

In each component module a request is an identifier with a program counter
`pc`, and an action is what its handler does between two awaits, named after
what it does:

- **`RoundLifecycle`**: `StartOpen`/`LandOpen`/`MarkVoting`,
  `StartFinalize`/`LandFinalize`/`MarkFinalized`/`ReplyFinalized` and
  `StartTally`/`ReadRound`/`ReadTally`. `dbPhase` is `rounds.phase`, or
  "absent" for a round this backend has no row of (its create_round is not done
  or failed), for which the handlers reach the contract all the same. `view` is
  what a reply will report.
- **`Payouts`**: `CheckRound`, `CheckAlready`, `ReadTally`, then per proposal
  `SkipZero` or `SendPayment`/`LandPayment`/`PaymentAnswered`, and `Record`.
  A payment is made iff its call is "ok".
- **`Settlement`**: what all requests to settle a round promise together, with
  no requests in it but payers: who may send which payment when, and what a row
  may say. `Payouts` implements it under the mapping `Settled`
  (`ImplementsSettlement`, checked and proved): sent payments are the calls
  made, made payments those that are "ok", the table its statuses.
- **`PayoutAllocation`**, **`AllocateStroops`**: the closed form that `Payouts`
  pays by, and the loops of `allocate_stroops`, an iteration a step, with u64
  values modulo `U64`. `ComputesTheAllocation` ties the two.
- **`Registration`**: `CheckPhase`, `LandRelay` (or `LandAgain`, for an
  envelope the network knows already), `ReadCount`, `Upsert`. Wallets register
  without the backend, and eligibility changes.
- **`ProofService`**: a workspace holds the `Prover.toml` that nargo will find
  in it; `Dir` says whose it is, `Solvable` what nargo reads and the circuit
  admits, `HexEq` what the code takes for equal. A field element has a
  spelling, with or without `0x`, which the code ignores where it compares and
  sends, but not where it stores (`NullifierHex`) and where nargo reads
  (`Readable`): the nullifier as its client has spelled it, the Merkle root as
  the CLI has printed it (`RootForms`).
- **`Voting`**: `Begin` with any body and any root or path a client can have
  seen, `ReadRoot` (which prepares the workspace), `Solve` (nargo), `Prove`
  (bb), `LandBallot`, `Insert`. In the runs, but not in the proofs, one body
  stands for all that are refused at once for a reason (`FewRefused`): a good
  vote while the row does not say voting, and one of each fault. Others cast
  ballots without the backend.
- **`Administration`**: create_round as `BeginCreate`, the call, `Called`,
  `BeginTx`, `InsertRound`, `InsertProposal` and `Commit`, on a connection of a
  bounded pool; set_eligibility as `BeginMark`, `SendMark` and `MarkAnswered`;
  `Ledger` is the account's side of their calls. `ReplaceContract` restarts the
  server with another `CONTRACT_ID` over the same tables, as an operator does.
- **`Backend`**: `Voting`, which it extends, with an `INSTANCE` each of
  `RoundLifecycle`, `Registration` and `Payouts` over the same contract and row;
  an action is a route. What was an environment is now what the others do:
  `ImplementsRoundLifecycle`, `ImplementsVoting` and `ImplementsPayouts` say
  that each step of the whole is a step of the component's own specification,
  and `ImplementsRegistration` the same of registration, to which a round is in
  registration or not (all checked and proved).

Every component module has a section of mistakes: definitions that no action
uses, each a plausible slip in one mapped definition. The `mutants` of
`PROJECT.json` put them in its place, and TLC then finds the property broken.
`MC*` modules name the model values and the symmetry; the `.cfg` files give
the constants.

Assumptions of the models: the round and the voter a registration names are
those of the envelope it carries (the backend does not look inside); a read,
and the sequence number a CLI takes, are of the latest ledger; outside
`Administration` a collision of sequence numbers is a call that never lands and
is answered with an error, so that it is one of the faults, and runs and
theorems without faults have none; nargo reads hexadecimal with a `0x` only,
and takes what has none for a decimal number; the operator's account is used by
this backend alone; a secret has one spelling, a nullifier its full length; a
list of voters names nobody twice; a request that fails before its first effect
is as if never sent; nothing but the handlers writes to the tables.

## Runs

Passing runs:

| Run | Instance | Shows |
|---|---|---|
| `round_lifecycle` | 2 opens, 2 finalizes, 1 tally, 2 voters, 2 choices, faults | `DbPhaseNotAhead`, `FinalizedReplyIsFinal`, `VotesWithinElectorate`, `ImplementsMirror` |
| `payouts` | 2 settlements, 3 proposals, 3 voters, pool 5, faults | `LaterProposalsPaidOnce`, `RecordedSharesAreFinal`, `RowsWithinPool`, `RowsTellThePayments`, `RowsArePrefix`, `ImplementsSettlement` |
| `allocate_stroops` | 4 proposals, pools to 20, up to 8 votes, `U64` = 21 | `SplitIsFair`, `ComputesTheAllocation`, `NoWrap`, `LeftoverFits` |
| `registration` | 3 requests, 3 voters, wallets, faults | `IndexNotBeforeLeaf`, `CompleteMirrorIsExact` |
| `voting` | 2 requests, 2 voters, 2 choices, every kind of body, nullifiers and roots in every form, faults | `RowsAreBallots`, `InsertNeverConflicts`, `ServerProofIsCurrent` |
| `administration` | 2 creations, 2 markings, 1 voter, 2 contracts, 1 connection, up to 2 proposals, faults | `RowsAreWholeRounds`, `CreatedRoundStays`, `LaterMarkWins`, `ConnectionsAreNotLeaked`, `ConnectionsComeBack` |
| `backend` | 1 open, 1 finalize, 1 registration, 1 vote with a witness, a root in either form, 2 settlements, 1 voter, 2 choices, pool 2, no faults, fairness | `AnsweredBallotIsPaid`, `ErrorMeansNotCast`, `GoodVoteIsNotRefused`, `ImplementsRoundLifecycle`, `ImplementsVoting`, `ImplementsPayouts`, `ImplementsRegistration`, `GoodVoteIsCounted`, `SettlementCompletes` |

All but `backend` check a `TypeOK` too. Two requests of a kind are what a race
needs; a third one of registrations lets one overtake two. Two opens and two
finalizes include a retry of each. Three proposals distinguish the first, which
is arbitrated too late, from those behind it, and pool 5 among three votes
leaves remainders, ties and proposals without votes. `U64` = 21 is the least
word size that holds the largest pool, so that any overflow would show. A pool
of one connection is the one that runs dry first; two creations and two
contracts give an id twice. `Administration`'s lists have one voter in the run,
because two markings with two voters each do not fit into it beside two
creations; its proofs are for lists of any length. `Backend` is small where its
components are large: the interleavings of several votes or settlements of
three proposals are in their own runs, what it adds is that of components. Two
settlements keep their race, and one voter's ballot is enough to be lost in a
settlement; it is cast with a witness, which goes the longer way, while votes
with a proof are in `voting` and in the theorem about `GoodVoteIsNotRefused`. It
runs without faults since its liveness does not hold with them;
registrations without the backend are left to `registration`, and get_tally,
which writes nothing, to `round_lifecycle`. The bounds `MaxProposals`,
`MaxList` and `MaxContracts` of `Administration` are named where they are
declared; everything else is finite by the number of requests. Deadlock is not
checked anywhere: when every request has been answered the system may stop.

Violation runs, each of one statement of the repository that the code does not
keep (the findings of `PROJECT.json` quote the lines):

| Run | Statement | What happens |
|---|---|---|
| `paid_twice_concurrently` | payouts are idempotent per round | two requests pass the count check and both pay the first proposal |
| `partly_settled` | one payment per proposal with a nonzero share | a request stops between two rows; a retry is answered "already executed", and a proposal with a share is not paid |
| `finalized_row_reopened` | finalize makes payouts possible | a late UPDATE of open takes the row back to voting, for good |
| `opened_unmarked` | open opens voting | of opens sent one after the other for a round that has its row, the first lands and its caller is told of an error; the second is refused by the contract; the row stays in registration, for good |
| `registration_lost` | the table tells who registered | two requests read one count; the second row is refused |

What it takes for each of them to hold is proved (see below), and TLC finds no
counterexample to it under the configuration named, which is run by hand:

| Statement | Holds | Configuration |
|---|---|---|
| `PaidAtMostOnce` | without faults, of settlements sent one after the other | `PayoutsSerial`: 3 settlements, 3 proposals, 3 voters, pool 5 |
| `AlreadyExecutedMeansComplete` | without faults, of concurrent settlements too | `PayoutsFaultless`: 3 settlements, 3 proposals, 2 voters, pool 3 |
| `FinalizedRowIsFinal` | with faults, if opens and finalizes are sent one after the other | `LifecycleSerial`: 2 opens, 2 finalizes, 2 voters |
| `OpenedRoundIsMarked` | without faults, in the same way | `LifecycleSerialFaultless`: the same |
| `RelayedVoterIsListed` | without faults, if no registration lands in another's window | `RegistrationUndisturbedFaultless`: 3 requests, 3 voters |
| `IndexIsExact`, stronger than `IndexNotBeforeLeaf` | with faults, under the same condition | `RegistrationUndisturbed`: the same |

`Next` is what it is in the runs, but for when requests are sent. `SerialSpec`
of `RoundLifecycle` and of `Payouts` has an operator who sends a request only
when no other one is in flight: the one before was answered, its client has
hung up or the server crashed, and its transaction may still land. That of
`RoundLifecycle` also waits for the round's row. `UndisturbedSpec` of
`Registration` is what the comment at `voters.rs:41` assumes: nothing registers
between a relay and its read-back. No code enforces any of it.

The same models reach what these runs do not repeat: a payment made twice by
one request after another, when the first stops between payment and row; a
`leaf_index` of another voter's leaf, which `voters.rs` documents as best
effort; a counted ballot without a row, whose request failed or was dropped
before its INSERT, although the schema says that `ballots` "mirrors the on-chain
public ballot log exactly"; a payouts row that says failed of a payment that
landed later; a round on the chain without a row; and, after the
contract was replaced, handlers that call the new contract's round of an id on
the strength of the old one's row, since fetch_round does not look at
`contract_id`, and a create_round that cannot store its round.

README.md and `votes.rs:22` say that a vote may bring a witness and have the
backend prove it. That rests on something this repository does not say: how the
CLI prints the contract's `merkle_root`, a String to the backend, which
write_prover_toml hands to nargo as it came. If it is a `BytesN`, it is plain
hexadecimal without `0x` (`soroban_client.rs:125`, and the parameter is called
`merkle_root_hex`); nargo does not read that, and no witness is ever cast: that
is the theorem `BareRootIsNeverProved`. If it is a `U256`, it is decimal, and
witnesses work as `GoodVoteIsNotRefused` and `GoodVoteIsCounted` say.

Some statements of the repository are met by no run, because nothing moves in
them. README.md says that the amounts "always sum to exactly the pool", but
`NobodyVoted` allocates nothing. The schema says that `ballots` "is what GET
/rounds/{id}/tally aggregates", but get_tally reads the chain. models.rs:186-188
allows field elements in decimal, but compute_nullifier reads every secret as
hexadecimal. config.rs:45 and proof_service.rs:21 promise a 503 for a
`BB_PATH` that names no binary, but that is a `Spawn` error, answered with 422.
config.rs:22 calls the network's name and its URLs mutually exclusive, but
nothing refuses both.

## Fairness

The safety properties need none. `SettlementCompletes` and
`GoodVoteIsCounted` assume weak fairness of the handlers' own steps (the
runtime polls a ready task) and of the ledger taking up what was sent, and no
faults; in `Backend` a request that nobody sends stays unsent. The code has no
timeout and no retry, so nothing weaker than an answering network and database
would do; with faults a settlement stays partial for good, as the run
`partly_settled` shows. `ConnectionsComeBack` is the safety part of the pool
giving connections back: whoever holds one can go on without another one.

## Proofs

All from the named assumptions on the constants in `AnonVoteContract`,
`SorobanClient`, `OperatorAccount`, `RoundLifecycle`, `Payouts`,
`AllocateStroops`, `ProofService`, `Voting`, `Administration` and `Backend`,
which TLC evaluates in the runs; sets of voters and requests, choices, pools,
lists, contracts, connections and word sizes are arbitrary, with faults unless
stated.

- `CommonLemmas`: lemmas that several modules cite, on sums and the allocation
  and on the abstract round. `SumFunction` is a fold, and the library's
  induction theorems cannot be instantiated, so induction over a finite set is
  done on the set of its subsets for which the claim holds (`SubsetInduction`):
  were one missing, there would be a smallest one, strict inclusion being
  well-founded on finite sets (`WFMin`). From the equation of the fold
  (`SumsEquation`, `SumRemove`) follow that sums are monotone, linear, count a
  set by its kinds, and telescope; that the places of a vote vector are a
  permutation (`PlacesAreTaken`); that the leftover is below the number of
  entries with a remainder (`LeftoverBound`); and what an allocation is: exact
  and fair (`AllocationSum`, `AmountsAreFair`). Of the abstract round: it goes
  forward, its leaves only grow, and stand still from Voting on; the tally
  counts every ballot once, and every ballot is of a registered voter.
- `RoundLifecycleProofs`: `TypeCorrect`, `PhaseMirrorSafe` (`DbPhaseNotAhead`),
  `FinalReplies` (`FinalizedReplyIsFinal`), `LifecycleImplementsMirror`
  (`ImplementsMirror`), `TurnoutWithinElectorate` (`VotesWithinElectorate`). A
  successful call is a witness of the phase it brought about, and phases only
  rise, so that the UPDATE behind it is a `RowIsMarked`; a view that says
  Finalized was read of a frozen chain. The tally is read after the round: what
  a reply lists is bounded by the electorate only because nobody registers once
  there are ballots, so `ElectorateInv` ties the registrations a view counted
  to those of the chain from the end of registration on. Of `SerialSpec`:
  `SerialRowIsFinal` (`FinalizedRowIsFinal`) and `SerialOpenIsMarked`
  (`OpenedRoundIsMarked`, if not `Faulty`). No two requests are in flight, and
  an open that is in flight when the row is finalized has no call that
  succeeded, as the chain was past it when it was sent (`SerialInv`); without
  faults an open whose call succeeded is in flight or behind its UPDATE, and it
  was one of them that opened the chain (`OpenedInv`).
- `PayoutsProofs`: `OnlyTheFirstIsPaidTwice` (`LaterProposalsPaidOnce`),
  `SettledPrefix` (`RowsArePrefix`), `OneAllocation`
  (`RecordedSharesAreFinal`), `RowsAreTrue` (`RowsTellThePayments`),
  `SettlementImplemented` (`ImplementsSettlement`), `AmountsAreStroops`
  (`TypeOK`), `TableWithinPool` (`RowsWithinPool`). The invariant `LoopInv`
  says that every proposal behind a request has its row, that one request at
  most is behind the first proposal, and that none has paid ahead of where it
  is; the property alone is not inductive, as it does not say who wrote the row
  that let a request move on. `FinalInv` says that a request past the first
  check finds a frozen tally, `TruthInv` what a request about to write a row
  knows of its payment. With `FinalInv` each row is a term of one allocation or
  nothing yet, and the sum of the rows is compared with that of the allocation.
  If not `Faulty`: `ExecutedIsComplete` (`AlreadyExecutedMeansComplete`), since
  only the first row can stop a request, so that a table with a row and not yet
  complete has a request behind the first proposal that carries it on
  (`CarriedInv`); and of `SerialSpec` `SerialPaysOnce` (`PaidAtMostOnce`), since
  a request that has ended after a payment has left a row for the count check
  of the next one, and whoever is past that check is alone in having paid
  (`SerialInv`).
- `AllocateStroopsProofs`: `TypeCorrect`, `ArithmeticIsExact` (`NoWrap`),
  `PoolIsHandedOut` (`LeftoverFits`), `LoopsComputeTheAllocation`
  (`ComputesTheAllocation`), `AllocationIsFair` (`SplitIsFair`). After k
  iterations the rounding has lost between 0 and k - 1 units of `total`, by the
  running totals of the votes; so the pool covers what is allocated, and the
  leftover is below the number of proposals. `LoopsInv` says which entries have
  their quota, remainder or extra stroop; the sorted order is a permutation in
  which the entry at position k has place k - 1 (`SortedPlaces`), so that the
  second loop tops up the entries that the closed form tops up.
- `RegistrationProofs`: `TypeCorrect`, `IndexIsBounded` (`IndexNotBeforeLeaf`),
  `CompleteListIsExact` (`CompleteMirrorIsExact`). Each stored index is of a
  count that was read when the voter's leaf was there; were one too high in a
  complete list, the voters from its leaf on would have distinct indices behind
  that leaf, one more than there is room for (the pigeonhole principle of
  `FiniteSetTheorems`). Of `UndisturbedSpec`: `UndisturbedIndexIsExact`
  (`IndexIsExact`), since the leaf of a request about to read the count is the
  last one (`ExactInv`), and, if not `Faulty`,
  `UndisturbedVoterIsListed` (`RelayedVoterIsListed`): exact indices of distinct
  voters are distinct, so no row is refused (`AnsweredInv`).
- `VotingProofs`: `TypeCorrect`, `MirrorsBallots` (`RowsAreBallots`),
  `InsertIsFree` (`InsertNeverConflicts`), `ProofIsCurrent`
  (`ServerProofIsCurrent`), `ErrorIsNotCast` (`ErrorMeansNotCast`, if not
  `Faulty`). A row, in any spelling, has the call of a request that is done
  behind it, and a spent nullifier has one call that spent it; a workspace
  holds the document of its own request, whose root is that of the frozen
  leaves from the moment a row said voting, and whose form nargo could read if
  it was solved. If not `Faulty`, `GoodVoteGoesThrough`
  (`GoodVoteIsNotRefused`): what a request casts is what it was asked for and,
  if its path was current when it passed the checks, current still, so that
  neither nargo nor the INSERT ends it unless the root was unreadable; and with
  a root that is always printed bare no witness gets as far as a call
  (`BareRootIsNeverProved`).
- `AdministrationProofs`: `TypeCorrect`, `CreatedStays` (`CreatedRoundStays`),
  `RowsAreWhole` (`RowsAreWholeRounds`), `LaterMark` (`LaterMarkWins`),
  `ConnectionsReturn` (`ConnectionsAreNotLeaked`). The
  account's numbers are used in order: every number up to `seq` belongs to one
  included call, and a call that is still signed when a later one is included
  has a number that is used up. So of two markings the calls of the one that
  was answered first cannot land behind those of the other.
- `BackendProofs`: `RoundLifecycleImplemented`, `VotingImplemented`,
  `RegistrationImplemented`, `PayoutsImplemented` (`ImplementsRoundLifecycle`
  and the three like it), `BackendErrorIsNotCast` (`ErrorMeansNotCast`, if not
  `Faulty`), `BackendGoodVote` (`GoodVoteIsNotRefused`, likewise) and
  `AnsweredIsPaid` (`AnsweredBallotIsPaid`), for any number of
  requests of each kind, with faults where not stated. `BackendInv` is the
  invariant of `VotingProofs` with `RoundInv`, which says of the other handlers
  that a call that succeeded is a witness of its phase. Under it a step of any
  route moves the round as `RoundMirror` has it or not at all
  (`RoutesMoveTheRound`), which is what each component takes for its
  environment. An answered ballot is one the contract has counted, a settlement
  past its first check finds a final tally and goes by it (`SharesInv`), and
  the quota of a vote in a pool of a stroop per ballot is at least one
  (`VotedGetsAStroop`). That `Payouts`' allocation, under the names of its
  instance, is the one the lemmas are about is `SameAllocation`.

`Backend` extends `Voting` because the prover cannot cite a theorem through an
instance that renames variables. For the three instances the refinement is what
is proved here, and what follows of it for the whole is what their own proof
modules show of their specifications.

Only model-checked: `SettlementCompletes` and `GoodVoteIsCounted`, which are
liveness, and `ConnectionsComeBack`, which is about `ENABLED`; the prover
reaches neither. Their safety halves are proved: that a settlement which is
over has left no proposal with a share out (`ExecutedIsComplete`, of `Payouts`,
which `Backend` implements), that a good vote is not refused
(`BackendGoodVote`), and that a connection is held for an open transaction
alone (`ConnectionsReturn`). The statements of the violation runs are false in
general; their theorems are those of the table above, under its conditions.

## Not modelled

- list_rounds, get_round and list_payouts, each one or two SELECTs that answer
  with what is there, and health: no step of theirs changes anything, and what
  list_registrations shows is what the properties of `Registration` say.
- The CLI's arguments and the parsing of its output (regular expressions,
  transaction hashes): text. A parse that fails is an error after inclusion,
  which `SeesErr` has.
- The HTTP status of each error, serde types, logging, CORS, the layout of the
  fields of a proof, compute_leaf (which no route uses).
- Environment variables other than the contract's id, and the order of
  start-up: sequential, before the first request.
- A graceful shutdown that waits for a subprocess which hangs: nothing in the
  code bounds the wait, so there is nothing to check.
- Two rounds at once: the handlers of one round touch no row of another, and
  the account and the pool, which rounds share, are in `Administration`.
