------------------------------- MODULE Backend -------------------------------
(***************************************************************************)
(* The handlers of one round together (src/routes/mod.rs, router): those   *)
(* that move it, registrations, ballots and payouts, over one contract,    *)
(* one rounds row and their own tables.  What is the environment of one    *)
(* component is here what the others do.  GET tally writes nothing and is  *)
(* left to RoundLifecycle, registrations without the backend are left to   *)
(* Registration.                                                           *)
(*                                                                         *)
(* The server has no state but the tables: handlers share nothing else,    *)
(* and each of its subprocesses is its own.                                *)
(*                                                                         *)
(* POST /votes is Voting's under its own names, so that what is proved of  *)
(* Voting can be used of the whole; the others are instances.              *)
(***************************************************************************)
EXTENDS Voting

CONSTANTS OpenReqs, FinalizeReqs, RegReqs, Execs, Pool

ASSUME BackendAssumption ==
  /\ OpenReqs \cap FinalizeReqs = {}
  /\ Pool \in Nat

VARIABLES
  roundCall, roundPc, view,                       \* RoundLifecycle
  regCall, regPc, leafIndex, who, count,          \* Registration
  payCall, payPc, payRows, next, shares, outcome  \* Payouts

Lifecycle == INSTANCE RoundLifecycle WITH
  TallyReqs <- {}, call <- roundCall, pc <- roundPc

Registrations == INSTANCE Registration WITH call <- regCall, pc <- regPc

Payments == INSTANCE Payouts WITH call <- payCall, pc <- payPc, rows <- payRows

roundVars == <<roundCall, roundPc, view>>

regVars == <<regCall, regPc, leafIndex, who, count>>

voteVars == <<call, workspace, rows, pc, body, proof>>

payVars == <<payCall, payPc, payRows, next, shares, outcome>>

backendVars == <<chain, dbPhase, roundVars, regVars, voteVars, payVars>>

BackendInit == Init /\ Lifecycle!Init /\ Registrations!Init /\ Payments!Init

----------------------------------------------------------------------------
(* A mistake that the properties tell from the code.                       *)

\* The contract lets anyone finalize a round.
AnyoneFinalizes ==
  /\ RowAppears \/ ChainFinalizes \/ \E v \in Voters, c \in Choices : VoterVotes(v, c)
  /\ UNCHANGED <<roundVars, regVars, voteVars, payVars>>

----------------------------------------------------------------------------
(* The routes, each a handler with the transactions it waits for.          *)

OpenVotingRoute(h) == Lifecycle!Open(h) /\ UNCHANGED <<regVars, voteVars, payVars>>

FinalizeRoute(h) == Lifecycle!Finalize(h) /\ UNCHANGED <<regVars, voteVars, payVars>>

RoundRouteFails(h) == Lifecycle!Fail(h) /\ UNCHANGED <<regVars, voteVars, payVars>>

RegisterRoute(h) ==
  /\ Registrations!RegisterRequest(h) \/ Registrations!Fail(h)
  /\ UNCHANGED <<roundVars, voteVars, payVars>>

VoteRoute(h) ==
  /\ AnyBegin(h) \/ Vote(h) \/ LandBallot(h)
  /\ UNCHANGED <<roundVars, regVars, payVars>>

ExecuteRoute(h) ==
  /\ Payments!Execute(h) \/ \E p \in Choices : Payments!LandPayment(h, p)
  /\ UNCHANGED <<roundVars, regVars, voteVars>>

\* Anyone may cast a ballot without this backend, and create_round may be late.
Outside ==
  /\ RowAppears \/ \E v \in Voters, c \in Choices : VoterVotes(v, c)
  /\ UNCHANGED <<roundVars, regVars, voteVars, payVars>>

BackendNext ==
  \/ \E h \in OpenReqs : OpenVotingRoute(h)
  \/ \E h \in FinalizeReqs : FinalizeRoute(h)
  \/ \E h \in OpenReqs \cup FinalizeReqs : RoundRouteFails(h)
  \/ \E h \in RegReqs : RegisterRoute(h)
  \/ \E h \in VoteReqs : VoteRoute(h)
  \/ \E h \in Execs : ExecuteRoute(h)
  \/ Outside

BackendSpec == BackendInit /\ [][BackendNext]_backendVars

\* Handlers run on and the network takes up what was sent to it; nobody has to
\* send a request.
VoteGoesOn(h) ==
  /\ Vote(h) \/ LandBallot(h)
  /\ UNCHANGED <<roundVars, regVars, payVars>>

ExecuteGoesOn(h) == payPc[h] # "new" /\ ExecuteRoute(h)

BackendFairness ==
  /\ \A h \in VoteReqs : WF_backendVars(VoteGoesOn(h))
  /\ \A h \in Execs : WF_backendVars(ExecuteGoesOn(h))

BackendFairSpec == BackendSpec /\ BackendFairness

----------------------------------------------------------------------------
(* Properties.                                                             *)

\* The environments the components were checked in are what the rest of the
\* backend does: no handler moves the round or its row in a way that POST
\* /votes or POST /payouts/execute was not checked against, and none but open
\* and finalize moves them on behalf of the operator.
ImplementsRoundLifecycle == Lifecycle!Spec

ImplementsVoting == Spec

ImplementsPayouts == Payments!Spec

\* Likewise for POST /voters/register, to which a round is in registration or
\* not, and to which the ballots do not matter.
RegistrationView == INSTANCE Registration WITH
  call       <- regCall,
  pc         <- regPc,
  chainPhase <- IF chainPhase = "Registration" THEN "Registration" ELSE "Voting",
  dbPhase    <- IF dbPhase = "finalized" THEN "voting" ELSE dbPhase,
  ballots    <- [n \in Voters |-> NoVote]

ImplementsRegistration == RegistrationView!Spec

\* A ballot that was answered with 200 counts in every settlement: with a pool
\* that gives each vote a stroop, its proposal gets a share, however late the
\* ballot was cast and whoever settles.  The row vouches for a final tally.
AnsweredBallotIsPaid ==
  \A h \in VoteReqs, e \in Execs :
    /\ pc[h] = "done"
    /\ payPc[e] \in {"settling", "paying", "recording", "done"}
    /\ BallotCount <= Pool
    => shares[e][body[h].choice] > 0

\* See Payouts: without faults a settlement that passed the checks completes.
SettlementCompletes == Payments!SettlementCompletes
=============================================================================
