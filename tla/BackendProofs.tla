---------------------------- MODULE BackendProofs ----------------------------
(***************************************************************************)
(* Proofs about Backend, for every set of voters and requests, every       *)
(* number of choices and every pool: each handler sees only what it was    *)
(* proved correct against, and a ballot that was answered with 200 is paid *)
(* for.                                                                    *)
(***************************************************************************)
EXTENDS Backend, VotingProofs

----------------------------------------------------------------------------
(* The round as a whole.                                                   *)

\* Requests and voters keep their type, and a call that succeeded is a witness
\* of the phase it brought about, on which the UPDATE behind it relies.
RoundInv ==
  /\ roundCall \in [OpenReqs \cup FinalizeReqs -> {"none", "running", "ok", "refused"}]
  /\ who \in [RegReqs -> Voters]
  /\ \A h \in OpenReqs : roundCall[h] = "ok" => chainPhase # "Registration"
  /\ \A h \in FinalizeReqs : roundCall[h] = "ok" => chainPhase = "Finalized"

BackendInv == IInv /\ RoundInv

LEMMA BackendStarts == BackendInit => BackendInv
  <1>1. BackendInit => IInv
    BY VotingStarts DEF BackendInit
  <1>2. BackendInit => RoundInv
    BY DEF BackendInit, Lifecycle!Init, Registrations!Init, RoundInv
  <1> QED BY <1>1, <1>2 DEF BackendInv

\* What a step of the handlers does to the round and its row, seen from POST
\* /votes or POST /payouts/execute, which are proved against just this.
RoundStep == RoundMoves \/ VotersAct \/ UNCHANGED <<chain, dbPhase>>

LEMMA OpenMoves ==
  ASSUME BackendInv, NEW h \in OpenReqs, Lifecycle!Open(h) PROVE RoundStep
  <1>1. CASE Lifecycle!StartOpen(h)
    BY <1>1 DEF Lifecycle!StartOpen, Lifecycle!chain, RoundStep, chain
  <1>2. CASE Lifecycle!LandOpen(h)
    BY <1>2
    DEF Lifecycle!LandOpen, Lifecycle!Land, Lifecycle!MayOpenVoting, Lifecycle!OpenVoting,
        Lifecycle!chain, RoundStep, RoundMoves, ChainOpens, MayOpenVoting, OpenVoting, chain
  <1>3. CASE Lifecycle!MarkVoting(h)
    <2>1. UNCHANGED chain /\ (dbPhase' = dbPhase \/ (dbPhase # "absent" /\ dbPhase' = "voting"))
      BY <1>3 DEF Lifecycle!MarkVoting, Lifecycle!chain, chain
    <2>2. chainPhase \in {"Voting", "Finalized"}
      BY <1>3
      DEF Lifecycle!MarkVoting, Lifecycle!SeesOk, BackendInv, RoundInv, IInv, TypeOK,
          ChainTypeOK, Phases
    <2>3. Rank("voting") <= Rank(chainPhase)
      BY <2>2 DEF Rank
    <2> QED BY <2>1, <2>3 DEF RoundStep, RoundMoves, RowIsMarked
  <1> QED BY <1>1, <1>2, <1>3 DEF Lifecycle!Open

LEMMA FinalizeMoves ==
  ASSUME BackendInv, NEW h \in FinalizeReqs, Lifecycle!Finalize(h) PROVE RoundStep
  <1>1. CASE Lifecycle!StartFinalize(h) \/ Lifecycle!ReplyFinalized(h)
    BY <1>1
    DEF Lifecycle!StartFinalize, Lifecycle!StartOpen, Lifecycle!ReplyFinalized,
        Lifecycle!chain, RoundStep, chain
  <1>2. CASE Lifecycle!LandFinalize(h)
    BY <1>2
    DEF Lifecycle!LandFinalize, Lifecycle!Land, Lifecycle!MayFinalize, Lifecycle!FinalizeRound,
        Lifecycle!chain, RoundStep, RoundMoves, ChainFinalizes, MayFinalize, FinalizeRound, chain
  <1>3. CASE Lifecycle!MarkFinalized(h)
    <2>1. UNCHANGED chain
          /\ (dbPhase' = dbPhase \/ (dbPhase # "absent" /\ dbPhase' = "finalized"))
      BY <1>3 DEF Lifecycle!MarkFinalized, Lifecycle!chain, chain
    <2>2. chainPhase = "Finalized"
      BY <1>3 DEF Lifecycle!MarkFinalized, Lifecycle!SeesOk, BackendInv, RoundInv
    <2>3. Rank("finalized") <= Rank(chainPhase)
      BY <2>2 DEF Rank
    <2> QED BY <2>1, <2>3 DEF RoundStep, RoundMoves, RowIsMarked
  <1> QED BY <1>1, <1>2, <1>3 DEF Lifecycle!Finalize

LEMMA RegisterMoves ==
  ASSUME BackendInv, NEW h \in RegReqs, Registrations!RegisterRequest(h) PROVE RoundStep
  <1>1. CASE Registrations!LandRelay(h)
    <2>1. who[h] \in Voters
      BY DEF BackendInv, RoundInv
    <2>2. \/ UNCHANGED <<chain, dbPhase>>
          \/ VoterRegisters(who[h])
      BY <1>1
      DEF Registrations!LandRelay, Registrations!Land, Registrations!MayRegister,
          Registrations!Registered, Registrations!Register, Registrations!chain,
          VoterRegisters, MayRegister, Register, Registered, chain
    <2> QED BY <2>1, <2>2 DEF RoundStep, VotersAct
  <1>2. CASE ~Registrations!LandRelay(h)
    BY <1>2
    DEF Registrations!RegisterRequest, Registrations!CheckPhase, Registrations!LandAgain,
        Registrations!ReadCount, Registrations!Upsert, Registrations!chain, RoundStep, chain
  <1> QED BY <1>1, <1>2

\* No route moves the round or its row but as RoundMirror has it.
LEMMA RoutesMoveTheRound ==
  ASSUME BackendInv, [BackendNext]_backendVars PROVE RoundStep
  <1>1. ASSUME NEW h \in OpenReqs \cup FinalizeReqs, RoundRouteFails(h) PROVE RoundStep
    BY <1>1 DEF RoundRouteFails, Lifecycle!Fail, Lifecycle!chain, RoundStep, chain
  <1>2. ASSUME NEW h \in RegReqs, RegisterRoute(h) PROVE RoundStep
    BY <1>2, RegisterMoves
    DEF RegisterRoute, Registrations!Fail, Registrations!chain, RoundStep, chain
  <1>3. ASSUME NEW h \in VoteReqs, VoteRoute(h) PROVE RoundStep
    <2>1. CASE LandBallot(h)
      BY <2>1, BallotLands DEF BackendInv, RoundStep
    <2>2. CASE AnyBegin(h) \/ Vote(h)
      BY <2>2
      DEF AnyBegin, Vote, Begin, ReadRoot, Solve, Prove, Insert, Fail, RoundStep
    <2> QED BY <1>3, <2>1, <2>2 DEF VoteRoute
  <1>4. ASSUME NEW e \in Execs, ExecuteRoute(e) PROVE RoundStep
    <2>1. CASE Payments!Execute(e)
      BY <2>1
      DEF Payments!Execute, Payments!CheckRound, Payments!CheckAlready, Payments!ReadTally,
          Payments!SkipZero, Payments!SendPayment, Payments!PaymentAnswered, Payments!Record,
          Payments!chain, RoundStep, chain
    <2>2. ASSUME NEW p \in Choices, Payments!LandPayment(e, p) PROVE RoundStep
      BY <2>2 DEF Payments!LandPayment, Payments!Land, Payments!chain, RoundStep, chain
    <2> QED BY <1>4, <2>1, <2>2 DEF ExecuteRoute
  <1>5. CASE Outside
    BY <1>5 DEF Outside, RoundStep, RoundMoves, VotersAct
  <1>6. CASE UNCHANGED backendVars
    BY <1>6 DEF backendVars, RoundStep
  <1> QED
    BY <1>1, <1>2, <1>3, <1>4, <1>5, <1>6, OpenMoves, FinalizeMoves
    DEF BackendNext, OpenVotingRoute, FinalizeRoute

----------------------------------------------------------------------------
(* POST /votes in the whole.                                               *)

\* Only POST /votes touches what is its own; to it the others are the
\* environment it was proved against.
LEMMA VotingSeesVoting ==
  ASSUME BackendInv, [BackendNext]_backendVars PROVE [Next]_vars
  <1>1. CASE \E h \in VoteReqs : VoteRoute(h)
    BY <1>1 DEF VoteRoute, Next
  <1>2. CASE ~(\E h \in VoteReqs : VoteRoute(h))
    <2>1. UNCHANGED <<call, workspace, rows, pc, body, proof>>
      BY <1>2
      DEF BackendNext, OpenVotingRoute, FinalizeRoute, RoundRouteFails, RegisterRoute,
          ExecuteRoute, Outside, voteVars, backendVars
    <2> QED BY <2>1, RoutesMoveTheRound DEF RoundStep, Next, Environment, vars
  <1> QED BY <1>1, <1>2

LEMMA StepRound ==
  ASSUME BackendInv, [BackendNext]_backendVars PROVE RoundInv'
  <1> USE BackendAssumption
  <1>1. /\ chainPhase # "Registration" => chainPhase' # "Registration"
        /\ chainPhase = "Finalized" => chainPhase' = "Finalized"
    BY VotingSeesVoting, VotingMirrors, RoundGoesForward DEF BackendInv, IInv, MirrorInv
  <1>2. ASSUME UNCHANGED <<roundCall, who>> PROVE RoundInv'
    BY <1>1, <1>2 DEF BackendInv, RoundInv
  <1>3. ASSUME NEW h \in OpenReqs, OpenVotingRoute(h) PROVE RoundInv'
    <2>1. who' = who
      BY <1>3 DEF OpenVotingRoute, regVars
    <2>2. CASE Lifecycle!StartOpen(h)
      BY <1>1, <2>1, <2>2
      DEF Lifecycle!StartOpen, Lifecycle!Spawn, BackendInv, RoundInv
    <2>3. CASE Lifecycle!LandOpen(h)
      BY <1>1, <2>1, <2>3
      DEF Lifecycle!LandOpen, Lifecycle!Land, Lifecycle!OpenVoting, BackendInv, RoundInv
    <2>4. CASE Lifecycle!MarkVoting(h)
      BY <1>2, <2>1, <2>4 DEF Lifecycle!MarkVoting
    <2> QED BY <1>3, <2>2, <2>3, <2>4 DEF OpenVotingRoute, Lifecycle!Open
  <1>4. ASSUME NEW h \in FinalizeReqs, FinalizeRoute(h) PROVE RoundInv'
    <2>1. who' = who
      BY <1>4 DEF FinalizeRoute, regVars
    <2>2. CASE Lifecycle!StartFinalize(h)
      BY <1>1, <2>1, <2>2
      DEF Lifecycle!StartFinalize, Lifecycle!StartOpen, Lifecycle!Spawn, BackendInv, RoundInv
    <2>3. CASE Lifecycle!LandFinalize(h)
      BY <1>1, <2>1, <2>3
      DEF Lifecycle!LandFinalize, Lifecycle!Land, Lifecycle!FinalizeRound, BackendInv, RoundInv
    <2>4. CASE Lifecycle!MarkFinalized(h) \/ Lifecycle!ReplyFinalized(h)
      BY <1>2, <2>1, <2>4 DEF Lifecycle!MarkFinalized, Lifecycle!ReplyFinalized
    <2> QED BY <1>4, <2>2, <2>3, <2>4 DEF FinalizeRoute, Lifecycle!Finalize
  <1>5. ASSUME NEW h \in OpenReqs \cup FinalizeReqs, RoundRouteFails(h) PROVE RoundInv'
    BY <1>2, <1>5 DEF RoundRouteFails, Lifecycle!Fail, regVars
  <1>6. ASSUME NEW h \in RegReqs, RegisterRoute(h) PROVE RoundInv'
    BY <1>2, <1>6
    DEF RegisterRoute, Registrations!RegisterRequest, Registrations!CheckPhase,
        Registrations!LandRelay, Registrations!LandAgain, Registrations!ReadCount,
        Registrations!Upsert, Registrations!Fail, roundVars
  <1> QED
    BY <1>2, <1>3, <1>4, <1>5, <1>6
    DEF BackendNext, VoteRoute, ExecuteRoute, Outside, roundVars, regVars, backendVars

LEMMA BackendStep == BackendInv /\ [BackendNext]_backendVars => BackendInv'
  BY StepRound, VotingSeesVoting, VotingStep DEF BackendInv

LEMMA BackendInvariant == BackendSpec => []BackendInv
  BY BackendStarts, BackendStep, PTL DEF BackendSpec

\* POST /votes meets nothing in the whole that it was not proved against, so all
\* that VotingProofs says of it holds with the other handlers around it.
THEOREM VotingImplemented == BackendSpec => ImplementsVoting
  <1>1. BackendInit => Init
    BY DEF BackendInit
  <1>2. BackendInv /\ [BackendNext]_backendVars => [Next]_vars
    BY VotingSeesVoting
  <1> QED BY <1>1, <1>2, BackendInvariant, PTL DEF BackendSpec, ImplementsVoting, Spec

\* Without faults, an error of POST /votes means that no ballot was cast, however
\* the round is opened, finalized and settled meanwhile.
THEOREM BackendErrorIsNotCast == Faulty = FALSE => (BackendSpec => []ErrorMeansNotCast)
  BY VotingImplemented, ErrorIsNotCast, PTL DEF ImplementsVoting

\* Without faults, a good vote is refused for the four reasons only, of which the
\* row that is late is an open or create handler's; that a round is finalized and
\* settled meanwhile is no other reason.
THEOREM BackendGoodVote == Faulty = FALSE => (BackendSpec => GoodVoteIsNotRefused)
  BY VotingImplemented, GoodVoteGoesThrough, PTL DEF ImplementsVoting

----------------------------------------------------------------------------
(* POST /payouts/execute in the whole.                                     *)

LEMMA PaymentsStart == BackendInit => Payments!Init
  BY DEF BackendInit

LEMMA PaymentsSeePayouts ==
  ASSUME BackendInv, [BackendNext]_backendVars PROVE [Payments!Next]_(Payments!vars)
  <1>1. CASE \E e \in Execs : ExecuteRoute(e)
    <2>1. Choices = Payments!Proposals
      BY DEF Choices, Payments!Proposals, Payments!Choices
    <2> QED BY <1>1, <2>1 DEF ExecuteRoute, Payments!Next
  <1>2. CASE ~(\E e \in Execs : ExecuteRoute(e))
    <2>1. UNCHANGED <<payCall, payRows, payPc, next, shares, outcome>>
      BY <1>2
      DEF BackendNext, OpenVotingRoute, FinalizeRoute, RoundRouteFails, RegisterRoute,
          VoteRoute, Outside, payVars, backendVars
    <2>2. ASSUME RoundMoves PROVE Payments!RoundMoves
      BY <2>2
      DEF RoundMoves, RowAppears, ChainOpens, MayOpenVoting, OpenVoting, ChainFinalizes,
          MayFinalize, FinalizeRound, RowIsMarked, Rank, chain,
          Payments!RoundMoves, Payments!RowAppears, Payments!ChainOpens,
          Payments!MayOpenVoting, Payments!OpenVoting, Payments!ChainFinalizes,
          Payments!MayFinalize, Payments!FinalizeRound, Payments!RowIsMarked,
          Payments!Rank, Payments!chain
    <2>3. ASSUME VotersAct PROVE Payments!VotersAct
      <3>1. ASSUME NEW v \in Voters, VoterRegisters(v) PROVE Payments!VoterRegisters(v)
        BY <3>1
        DEF VoterRegisters, MayRegister, Register, Registered,
            Payments!VoterRegisters, Payments!MayRegister, Payments!Register,
            Payments!Registered
      <3>2. ASSUME NEW v \in Voters, NEW c \in Choices, VoterVotes(v, c)
            PROVE  Payments!VoterVotes(v, c)
        BY <3>2
        DEF VoterVotes, MayCastVote, CastVote, Proof, Registered, Choices,
            Payments!VoterVotes, Payments!MayCastVote, Payments!CastVote, Payments!Proof,
            Payments!Registered, Payments!Choices
      <3> QED BY <2>3, <3>1, <3>2 DEF VotersAct, Payments!VotersAct, Choices, Payments!Choices
    <2>4. UNCHANGED <<chain, dbPhase>> => UNCHANGED Payments!vars
      BY <2>1 DEF chain, Payments!vars, Payments!chain
    <2> QED BY <2>1, <2>2, <2>3, <2>4, RoutesMoveTheRound
        DEF RoundStep, Payments!Next, Payments!Environment
  <1> QED BY <1>1, <1>2

\* Nor does POST /payouts/execute: whoever registers, votes, opens and finalizes
\* meanwhile, it does what PayoutsProofs is about.
THEOREM PayoutsImplemented == BackendSpec => ImplementsPayouts
  <1>1. BackendInv /\ [BackendNext]_backendVars => [Payments!Next]_(Payments!vars)
    BY PaymentsSeePayouts
  <1> QED
    BY <1>1, PaymentsStart, BackendInvariant, PTL
    DEF BackendSpec, ImplementsPayouts, Payments!Spec

----------------------------------------------------------------------------
(* The routes of the round in the whole.                                   *)

LEMMA LifecycleStarts == BackendInit => Lifecycle!Init
  BY DEF BackendInit

\* Voters act, and a row may be late; nobody else opens, finalizes or marks.
LEMMA OthersLeaveTheRound ==
  ASSUME BackendInv, BackendNext,
         ~(\E h \in OpenReqs : OpenVotingRoute(h)),
         ~(\E h \in FinalizeReqs : FinalizeRoute(h)),
         ~(\E h \in OpenReqs \cup FinalizeReqs : RoundRouteFails(h))
  PROVE  /\ UNCHANGED <<roundCall, roundPc, view>>
         /\ VotersAct \/ RowAppears \/ UNCHANGED <<chain, dbPhase>>
  <1>1. UNCHANGED <<roundCall, roundPc, view>>
    BY DEF BackendNext, RegisterRoute, VoteRoute, ExecuteRoute, Outside, roundVars
  <1>2. CASE Outside
    BY <1>1, <1>2 DEF Outside, VotersAct
  <1>3. CASE ~Outside
    <2>1. ASSUME NEW h \in RegReqs, RegisterRoute(h)
          PROVE  VotersAct \/ UNCHANGED <<chain, dbPhase>>
      <3>1. CASE Registrations!LandRelay(h)
        <4>1. who[h] \in Voters
          BY DEF BackendInv, RoundInv
        <4>2. VoterRegisters(who[h]) \/ UNCHANGED <<chain, dbPhase>>
          BY <3>1
          DEF Registrations!LandRelay, Registrations!Land, Registrations!MayRegister,
              Registrations!Registered, Registrations!Register, Registrations!chain,
              VoterRegisters, MayRegister, Register, Registered, chain
        <4> QED BY <4>1, <4>2 DEF VotersAct
      <3>2. CASE ~Registrations!LandRelay(h)
        BY <2>1, <3>2
        DEF RegisterRoute, Registrations!RegisterRequest, Registrations!CheckPhase,
            Registrations!LandAgain, Registrations!ReadCount, Registrations!Upsert,
            Registrations!Fail, Registrations!chain, chain
      <3> QED BY <3>1, <3>2
    <2>2. ASSUME NEW h \in VoteReqs, VoteRoute(h)
          PROVE  VotersAct \/ UNCHANGED <<chain, dbPhase>>
      <3>1. CASE LandBallot(h)
        BY <3>1, BallotLands DEF BackendInv
      <3>2. CASE AnyBegin(h) \/ Vote(h)
        BY <3>2 DEF AnyBegin, Vote, Begin, ReadRoot, Solve, Prove, Insert, Fail
      <3> QED BY <2>2, <3>1, <3>2 DEF VoteRoute
    <2>3. ASSUME NEW e \in Execs, ExecuteRoute(e) PROVE UNCHANGED <<chain, dbPhase>>
      BY <2>3
      DEF ExecuteRoute, Payments!LandPayment, Payments!Land, Payments!Execute,
          Payments!CheckRound, Payments!CheckAlready, Payments!ReadTally, Payments!SkipZero,
          Payments!SendPayment, Payments!PaymentAnswered, Payments!Record, Payments!chain, chain
    <2> QED BY <1>1, <1>3, <2>1, <2>2, <2>3 DEF BackendNext
  <1> QED BY <1>1, <1>2, <1>3

LEMMA RoutesAreLifecycles ==
  ASSUME BackendInv, [BackendNext]_backendVars PROVE [Lifecycle!Next]_(Lifecycle!vars)
  <1>1. CASE \/ \E h \in OpenReqs : OpenVotingRoute(h)
             \/ \E h \in FinalizeReqs : FinalizeRoute(h)
             \/ \E h \in OpenReqs \cup FinalizeReqs : RoundRouteFails(h)
    BY <1>1
    DEF OpenVotingRoute, FinalizeRoute, RoundRouteFails, Lifecycle!Next, Lifecycle!Reqs
  <1>2. CASE /\ ~(\E h \in OpenReqs : OpenVotingRoute(h))
             /\ ~(\E h \in FinalizeReqs : FinalizeRoute(h))
             /\ ~(\E h \in OpenReqs \cup FinalizeReqs : RoundRouteFails(h))
             /\ BackendNext
    <2>1. /\ UNCHANGED <<roundCall, roundPc, view>>
          /\ VotersAct \/ RowAppears \/ UNCHANGED <<chain, dbPhase>>
      BY <1>2, OthersLeaveTheRound
    <2>2. RowAppears => Lifecycle!RowAppears
      BY DEF RowAppears, chain, Lifecycle!RowAppears, Lifecycle!chain
    <2>3. ASSUME VotersAct PROVE Lifecycle!VotersAct
      <3>1. ASSUME NEW v \in Voters, VoterRegisters(v) PROVE Lifecycle!VoterRegisters(v)
        BY <3>1
        DEF VoterRegisters, MayRegister, Register, Registered,
            Lifecycle!VoterRegisters, Lifecycle!MayRegister, Lifecycle!Register,
            Lifecycle!Registered
      <3>2. ASSUME NEW v \in Voters, NEW c \in Choices, VoterVotes(v, c)
            PROVE  Lifecycle!VoterVotes(v, c)
        BY <3>2
        DEF VoterVotes, MayCastVote, CastVote, Proof, Registered, Choices,
            Lifecycle!VoterVotes, Lifecycle!MayCastVote, Lifecycle!CastVote, Lifecycle!Proof,
            Lifecycle!Registered, Lifecycle!Choices
      <3> QED
        BY <2>3, <3>1, <3>2 DEF VotersAct, Lifecycle!VotersAct, Choices, Lifecycle!Choices
    <2>4. UNCHANGED <<chain, dbPhase>> => UNCHANGED Lifecycle!vars
      BY <2>1 DEF chain, Lifecycle!vars, Lifecycle!chain
    <2> QED BY <2>1, <2>2, <2>3, <2>4 DEF Lifecycle!Next, Lifecycle!Environment
  <1>3. CASE UNCHANGED backendVars
    BY <1>3 DEF backendVars, roundVars, chain, Lifecycle!vars, Lifecycle!chain
  <1> QED BY <1>1, <1>2, <1>3

\* POST /rounds/{id}/open and POST /rounds/{id}/finalize are alone in moving the
\* round and its row, which the proofs of RoundLifecycle rely on: what they show
\* holds with ballots, registrations and settlements on the way.
THEOREM RoundLifecycleImplemented == BackendSpec => ImplementsRoundLifecycle
  <1>1. BackendInv /\ [BackendNext]_backendVars => [Lifecycle!Next]_(Lifecycle!vars)
    BY RoutesAreLifecycles
  <1> QED
    BY <1>1, LifecycleStarts, BackendInvariant, PTL
    DEF BackendSpec, ImplementsRoundLifecycle, Lifecycle!Spec

----------------------------------------------------------------------------
(* POST /voters/register in the whole.                                     *)

LEMMA RegistrationStarts == BackendInit => RegistrationView!Init
  BY DEF BackendInit, Init, MirrorInit, Registrations!Init, Registrations!NoRow,
         RegistrationView!Init, RegistrationView!MirrorInit, RegistrationView!NoRow

\* Its steps are the same in its view.
LEMMA RegisterSeesRegister ==
  ASSUME NEW h \in RegReqs, RegisterRoute(h) PROVE RegistrationView!Next
  <1>1. ASSUME Registrations!CheckPhase(h) PROVE RegistrationView!CheckPhase(h)
    BY <1>1
    DEF Registrations!CheckPhase, Registrations!Spawn, Registrations!Goto, Registrations!chain,
        RegistrationView!CheckPhase, RegistrationView!Spawn, RegistrationView!Goto,
        RegistrationView!chain
  <1>2. ASSUME Registrations!LandRelay(h) PROVE RegistrationView!LandRelay(h)
    BY <1>2
    DEF Registrations!LandRelay, Registrations!Land, Registrations!MayRegister,
        Registrations!Registered, Registrations!Register, Registrations!chain,
        RegistrationView!LandRelay, RegistrationView!Land, RegistrationView!MayRegister,
        RegistrationView!Registered, RegistrationView!Register, RegistrationView!chain
  <1>3. ASSUME Registrations!LandAgain(h) PROVE RegistrationView!LandAgain(h)
    BY <1>3
    DEF Registrations!LandAgain, Registrations!Registered, Registrations!chain,
        RegistrationView!LandAgain, RegistrationView!Registered, RegistrationView!chain
  <1>4. ASSUME Registrations!ReadCount(h) PROVE RegistrationView!ReadCount(h)
    BY <1>4
    DEF Registrations!ReadCount, Registrations!SeesOk, Registrations!RegisteredCount,
        Registrations!Goto, Registrations!chain,
        RegistrationView!ReadCount, RegistrationView!SeesOk, RegistrationView!RegisteredCount,
        RegistrationView!Goto, RegistrationView!chain
  <1>5. ASSUME Registrations!Upsert(h) PROVE RegistrationView!Upsert(h)
    BY <1>5
    DEF Registrations!Upsert, Registrations!IndexFrom, Registrations!Goto, Registrations!chain,
        RegistrationView!Upsert, RegistrationView!IndexFrom, RegistrationView!Goto,
        RegistrationView!chain
  <1>6. ASSUME Registrations!Fail(h) PROVE RegistrationView!Fail(h)
    BY <1>6
    DEF Registrations!Fail, Registrations!SeesErr, Registrations!Goto, Registrations!chain,
        RegistrationView!Fail, RegistrationView!SeesErr, RegistrationView!Goto,
        RegistrationView!chain
  <1> QED
    BY <1>1, <1>2, <1>3, <1>4, <1>5, <1>6
    DEF RegisterRoute, Registrations!RegisterRequest, RegistrationView!RegisterRequest,
        RegistrationView!Next

\* A step of the round is one of its environment or invisible: a ballot, and the
\* end of voting, which leave the round out of registration.
LEMMA RegistrationSeesRound ==
  ASSUME BackendInv, RoundStep, UNCHANGED <<regCall, regPc, leafIndex, who, count>>
  PROVE  [RegistrationView!Next]_(RegistrationView!vars)
  <1> USE DEF RegistrationView!vars, RegistrationView!chain
  <1>0. chainPhase \in Phases
    BY DEF BackendInv, IInv, TypeOK, ChainTypeOK
  <1>1. CASE RowAppears
    <2>1. RegistrationView!RowAppears
      BY <1>1 DEF RowAppears, chain, RegistrationView!RowAppears
    <2> QED BY <2>1 DEF RegistrationView!Next, RegistrationView!Environment
  <1>2. CASE ChainOpens
    <2>1. RegistrationView!ChainOpens
      BY <1>2
      DEF ChainOpens, MayOpenVoting, OpenVoting, RegistrationView!ChainOpens,
          RegistrationView!MayOpenVoting, RegistrationView!OpenVoting
    <2> QED BY <2>1 DEF RegistrationView!Next, RegistrationView!Environment
  <1>3. CASE ChainFinalizes
    BY <1>3 DEF ChainFinalizes, MayFinalize, FinalizeRound
  <1>4. ASSUME NEW phase \in {"voting", "finalized"}, RowIsMarked(phase)
        PROVE  [RegistrationView!Next]_(RegistrationView!vars)
    <2>1. chainPhase # "Registration"
      BY <1>4 DEF RowIsMarked, Rank
    <2>2. RegistrationView!RowIsMarked("voting")
      BY <1>4, <2>1 DEF RowIsMarked, chain, RegistrationView!RowIsMarked, RegistrationView!Rank
    <2> QED BY <2>2 DEF RegistrationView!Next, RegistrationView!Environment
  <1>5. ASSUME NEW v \in Voters, NEW c \in Choices, VoterVotes(v, c)
        PROVE  UNCHANGED RegistrationView!vars
    BY <1>5 DEF VoterVotes, CastVote
  <1>6. ASSUME NEW v \in Voters, VoterRegisters(v)
        PROVE  RegistrationView!Next
    <2>1. RegistrationView!VoterRegisters(v)
      BY <1>6
      DEF VoterRegisters, MayRegister, Register, Registered,
          RegistrationView!VoterRegisters, RegistrationView!MayRegister,
          RegistrationView!Register, RegistrationView!Registered
    <2> QED BY <2>1 DEF RegistrationView!Next, RegistrationView!Environment
  <1>7. UNCHANGED <<chain, dbPhase>> => UNCHANGED RegistrationView!vars
    BY DEF chain
  <1> QED
    BY <1>1, <1>2, <1>3, <1>4, <1>5, <1>6, <1>7 DEF RoundStep, RoundMoves, VotersAct

\* POST /voters/register sees of the other handlers that registration closes and
\* that the row is marked, and nothing else that RegistrationProofs leaves out.
THEOREM RegistrationImplemented == BackendSpec => ImplementsRegistration
  <1>1. ASSUME BackendInv, [BackendNext]_backendVars
        PROVE  [RegistrationView!Next]_(RegistrationView!vars)
    <2>1. CASE \E h \in RegReqs : RegisterRoute(h)
      BY <2>1, RegisterSeesRegister
    <2>2. CASE ~(\E h \in RegReqs : RegisterRoute(h))
      <3>1. UNCHANGED <<regCall, regPc, leafIndex, who, count>>
        BY <1>1, <2>2
        DEF BackendNext, OpenVotingRoute, FinalizeRoute, RoundRouteFails, VoteRoute,
            ExecuteRoute, Outside, regVars, backendVars
      <3> QED BY <1>1, <3>1, RoutesMoveTheRound, RegistrationSeesRound
    <2> QED BY <2>1, <2>2
  <1> QED
    BY <1>1, RegistrationStarts, BackendInvariant, PTL
    DEF BackendSpec, ImplementsRegistration, RegistrationView!Spec

----------------------------------------------------------------------------
(* Ballots and payments.                                                   *)

\* Payouts' copy of the allocation is the one that CommonLemmas is about.
LEMMA SameAllocation ==
  Payments!AllocatedAmounts(Pool, Payments!Tally) = AllocatedAmounts(Pool, Tally)
  <1>1. ASSUME NEW S PROVE Payments!Cardinality(S) = Cardinality(S)
    BY DEF Payments!Cardinality, Cardinality
  <1>2. Payments!Tally = Tally
    BY <1>1 DEF Payments!Tally, Tally, Payments!Choices, Choices
  <1>3. ASSUME NEW f PROVE Payments!SumFunction(f) = SumFunction(f)
    BY DEF Payments!SumFunction, Payments!SumFunctionOnSet, Payments!FoldFunctionOnSet,
           Payments!MapThenFoldSet, SumFunction, SumFunctionOnSet, FoldFunctionOnSet,
           MapThenFoldSet
  <1>4. ASSUME NEW rem, NEW i PROVE Payments!Place(rem, i) = Place(rem, i)
    BY <1>1 DEF Payments!Place, Place, Payments!Before, Before
  <1>5. ASSUME NEW votes, NEW total
        PROVE  Payments!Amounts(Pool, votes, total) = Amounts(Pool, votes, total)
    BY <1>3, <1>4
    DEF Payments!Amounts, Amounts, Payments!Quota, Quota, Payments!Remainder, Remainder
  <1>6. ASSUME NEW votes
        PROVE  Payments!AllocatedAmounts(Pool, votes) = AllocatedAmounts(Pool, votes)
    BY <1>3, <1>5 DEF Payments!AllocatedAmounts, AllocatedAmounts
  <1> QED BY <1>2, <1>6

FinalShares == AllocatedAmounts(Pool, Tally)

InLoopOrDone == {"settling", "paying", "recording", "done"}

\* A request to settle that is past the first check finds a finalized round, and
\* the shares it goes by are those of the final tally.
SharesInv ==
  /\ payPc \in [Execs -> Payments!PcLabels]
  /\ shares = [e \in Execs |-> shares[e]]
  /\ \A e \in Execs :
       payPc[e] \in {"checking", "reading"} \cup InLoopOrDone => chainPhase = "Finalized"
  /\ \A e \in Execs : payPc[e] \in InLoopOrDone => shares[e] = FinalShares

LEMMA SharesStart == BackendInit => SharesInv
  BY DEF BackendInit, Payments!Init, Payments!PcLabels, SharesInv, InLoopOrDone

LEMMA SharesStep ==
  ASSUME BackendInv, SharesInv, [BackendNext]_backendVars PROVE SharesInv'
  <1> USE DEF InLoopOrDone, Payments!PcLabels, Payments!Goto
  <1>1. chainPhase = "Finalized" => chainPhase' = "Finalized" /\ FinalShares' = FinalShares
    <2>1. chainPhase = "Finalized" => UNCHANGED <<chainPhase, ballots>>
      BY VotingSeesVoting, VotingMirrors, RoundGoesForward DEF BackendInv, IInv, MirrorInv
    <2>2. ballots' = ballots => FinalShares' = FinalShares
      BY DEF FinalShares, Tally
    <2> QED BY <2>1, <2>2
  <1>2. ASSUME UNCHANGED <<payPc, shares>> PROVE SharesInv'
    BY <1>1, <1>2 DEF SharesInv
  <1>3. ASSUME NEW e \in Execs, Payments!CheckRound(e) PROVE SharesInv'
    <2>1. shares' = shares /\ \/ payPc' = [payPc EXCEPT ![e] = "failed"]
                              \/ /\ payPc' = [payPc EXCEPT ![e] = "checking"]
                                 /\ dbPhase = "finalized"
      BY <1>3 DEF Payments!CheckRound
    <2>2. dbPhase = "finalized" => chainPhase = "Finalized"
      BY RowTellsPhase DEF BackendInv, IInv
    <2> QED BY <1>1, <2>1, <2>2 DEF SharesInv
  <1>4. ASSUME NEW e \in Execs, Payments!ReadTally(e) PROVE SharesInv'
    <2>1. /\ payPc[e] = "reading"
          /\ payPc' = [payPc EXCEPT ![e] = "settling"]
          /\ shares' = [shares EXCEPT ![e] = FinalShares]
      BY <1>4, SameAllocation DEF Payments!ReadTally, FinalShares
    <2> QED BY <1>1, <2>1 DEF SharesInv
  <1>5. ASSUME NEW e \in Execs, Payments!CheckAlready(e) PROVE SharesInv'
    BY <1>1, <1>5 DEF Payments!CheckAlready, SharesInv
  <1>6. ASSUME NEW e \in Execs, \/ Payments!SkipZero(e)
                                \/ Payments!SendPayment(e)
                                \/ Payments!PaymentAnswered(e)
                                \/ Payments!Record(e)
        PROVE  SharesInv'
    <2>1. payPc[e] \in {"settling", "paying", "recording"} /\ shares' = shares
      BY <1>6
      DEF Payments!SkipZero, Payments!SendPayment, Payments!PaymentAnswered, Payments!Record
    <2>2. \E label \in {"settling", "paying", "recording", "done", "failed"} :
            payPc' = [payPc EXCEPT ![e] = label]
      BY <1>6
      DEF Payments!SkipZero, Payments!SendPayment, Payments!PaymentAnswered, Payments!Record,
          Payments!Insert, Payments!LoopOn
    <2> QED BY <1>1, <2>1, <2>2 DEF SharesInv
  <1>7. ASSUME NEW e \in Execs, NEW p \in Choices, Payments!LandPayment(e, p) PROVE SharesInv'
    BY <1>2, <1>7 DEF Payments!LandPayment
  <1>8. CASE ~(\E e \in Execs : ExecuteRoute(e))
    BY <1>2, <1>8
    DEF BackendNext, OpenVotingRoute, FinalizeRoute, RoundRouteFails, RegisterRoute,
        VoteRoute, Outside, payVars, backendVars
  <1> QED
    BY <1>3, <1>4, <1>5, <1>6, <1>7, <1>8 DEF ExecuteRoute, Payments!Execute

\* A proposal with a vote gets a stroop from a pool of one for each ballot.
LEMMA VotedGetsAStroop ==
  ASSUME ChainTypeOK, NEW c \in Choices, Tally[c] > 0, BallotCount <= Pool
  PROVE  FinalShares[c] > 0
  <1> DEFINE votes == Tally
             total == SumFunction(votes)
  <1>1. votes \in [Choices -> Nat]
    BY TallyType
  <1>2. total = BallotCount /\ total \in Nat /\ Pool \in Nat
    BY TallyCountsBallots, BackendAssumption
  <1>3. votes[c] \in Nat \ {0}
    BY <1>1
  <1>4. FinalShares = AllocatedAmounts(Pool, votes)
    BY DEF FinalShares
  <1>5. Choices \in SUBSET Int /\ IsFiniteSet(Choices)
    BY ChoicesAreFinite
  <1> HIDE DEF votes
  <1>6. votes[c] <= total
    <2>1. total = SumFunctionOnSet(votes, Choices) /\ \A x \in Choices : votes[x] \in Nat
      BY <1>1 DEF SumFunction
    <2> HIDE DEF total
    <2> QED BY <1>5, <2>1, SumBoundsTerm
  <1>7. total \in Nat \ {0}
    BY <1>2, <1>3, <1>6
  <1>8. AllocatedAmounts(Pool, votes) = Amounts(Pool, votes, total)
    BY <1>7 DEF AllocatedAmounts
  <1> DEFINE a == Amounts(Pool, votes, total)
             v == votes[c]
  <1>9. a[c] - Quota(Pool, v, total) \in {0, 1} /\ a \in [Choices -> Nat]
    <2> HIDE DEF a
    <2>1. a \in [Choices -> Nat] /\ IsFairSplit(a, Pool, votes, total)
      BY <1>1, <1>2, <1>5, <1>7, AmountsAreFair DEF a
    <2> QED BY <1>1, <2>1 DEF IsFairSplit
  <1> HIDE DEF total, a, v
  <1>10. Quota(Pool, v, total) > 0
    <2>1. v \in Nat \ {0}
      BY <1>3 DEF v
    <2>2. /\ Quota(Pool, v, total) \in Nat
          /\ Remainder(Pool, v, total) \in 0 .. (total - 1)
          /\ Pool * v = Quota(Pool, v, total) * total + Remainder(Pool, v, total)
      BY <1>2, <1>7, <2>1, QuotaRemainder
    <2>3. Pool * v >= Pool
      BY <1>2, <2>1
    <2>4. total <= Pool
      BY <1>2
    <2>5. Quota(Pool, v, total) = 0 => Pool * v < total
      BY <1>7, <2>2
    <2> QED BY <1>2, <1>7, <2>1, <2>2, <2>3, <2>4, <2>5
  <1>11. a[c] \in Nat /\ Quota(Pool, v, total) \in Nat
    BY <1>2, <1>3, <1>7, <1>9, QuotaRemainder DEF v
  <1>12. a[c] > 0
    BY <1>9, <1>10, <1>11
  <1> QED BY <1>4, <1>8, <1>12 DEF a

\* Whoever settles, a ballot that was answered with 200 is paid for: the contract
\* counted it before the round was finalized, and the settlement reads the tally
\* after that.
THEOREM AnsweredIsPaid == BackendSpec => []AnsweredBallotIsPaid
  <1>1. BackendSpec => []SharesInv
    BY SharesStart, SharesStep, BackendInvariant, PTL DEF BackendSpec
  <1>2. BackendInv /\ SharesInv => AnsweredBallotIsPaid
    <2> SUFFICES ASSUME BackendInv, SharesInv, NEW h \in VoteReqs, NEW e \in Execs,
                        pc[h] = "done", payPc[e] \in InLoopOrDone, BallotCount <= Pool
                 PROVE  shares[e][body[h].choice] > 0
      BY DEF AnsweredBallotIsPaid, InLoopOrDone
    <2> DEFINE c == body[h].choice
               n == body[h].nullifier
    <2>1. c \in Choices /\ ballots[n] = c
      BY DEF BackendInv, IInv, RequestInv, Called
    <2>2. n \in Voters /\ ChainTypeOK
      BY DEF BackendInv, IInv, TypeOK
    <2>3. Tally[c] > 0
      <3> DEFINE B == {m \in Voters : ballots[m] = c}
      <3>1. n \in B
        BY <2>1, <2>2
      <3>2. IsFiniteSet(B)
        BY ContractAssumption, FS_Subset DEF ContractAssumption
      <3>3. Cardinality(B) \in Nat /\ Cardinality(B) # 0
        <4> HIDE DEF B
        <4> QED BY <3>1, <3>2, FS_CardinalityType, FS_EmptySet
      <3>4. Tally[c] = Cardinality(B)
        BY <2>1 DEF Tally
      <3> QED BY <3>3, <3>4
    <2> HIDE DEF c
    <2>4. FinalShares[c] > 0
      BY <2>1, <2>2, <2>3, VotedGetsAStroop
    <2>5. shares[e] = FinalShares
      BY DEF SharesInv
    <2> QED BY <2>4, <2>5 DEF c
  <1> QED BY <1>1, <1>2, BackendInvariant, PTL
=============================================================================
