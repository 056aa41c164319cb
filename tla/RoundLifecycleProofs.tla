------------------------ MODULE RoundLifecycleProofs ------------------------
(***************************************************************************)
(* Proofs about RoundLifecycle, for every set of voters and requests.      *)
(*                                                                         *)
(* The inductive invariant adds to the properties what ties a handler to   *)
(* the transaction it sent: an included open_voting or finalize_round has  *)
(* left its mark on the chain, and a finalize handler past its call holds  *)
(* the final tally.                                                        *)
(***************************************************************************)
EXTENDS RoundLifecycle, CommonLemmas, FiniteSetTheorems

\* A finalize handler goes on only with the answer of an included call, which
\* carries a vote count for every choice.
AnswerInHand ==
  \A h \in FinalizeReqs :
    /\ pc[h] \in {"reading", "done"} => call[h] = "ok"
    /\ pc[h] \in {"invoking", "reading"} /\ call[h] = "ok" =>
         view[h].votes \in [Choices -> Nat]

\* Tally handlers are the only ones to count.
OnlyTalliesCount ==
  \A h \in OpenReqs \cup FinalizeReqs : pc[h] # "counting"

TypeInv == TypeOK /\ AnswerInHand /\ OnlyTalliesCount

\* zip_tally keeps a vector of counts one, or makes it empty.
LEMMA ZipType ==
  ASSUME NEW votes \in [Choices -> Nat]
  PROVE  ZipTally(votes) \in [Choices -> Nat] \cup [{} -> Nat]
  BY DEF ZipTally, ProposalRows

LEMMA InitType == Init => TypeInv
  <1> SUFFICES ASSUME Init PROVE TypeInv OBVIOUS
  <1>1. ChainTypeOK BY MirrorStarts DEF Init, MirrorInv
  <1>2. NoView \in [phase : Phases, count : Nat,
                    votes : [Choices -> Nat] \cup [{} -> Nat]]
    BY DEF NoView, Phases
  <1>3. TypeOK
    BY <1>1, <1>2 DEF Init, MirrorInit, TypeOK, CallStatus, DbPhases, PcLabels
  <1> QED BY <1>3 DEF Init, TypeInv, AnswerInHand, OnlyTalliesCount, Reqs

LEMMA StepType == TypeInv /\ [Next]_vars => TypeInv'
  <1> SUFFICES ASSUME TypeInv, [Next]_vars PROVE TypeInv' OBVIOUS
  <1> USE RequestsAssumption DEF RequestsAssumption, TypeInv, TypeOK,
        AnswerInHand, OnlyTalliesCount, Reqs, CallStatus, PcLabels, Goto
  <1>1. ASSUME NEW h \in OpenReqs \cup FinalizeReqs, StartOpen(h) PROVE TypeInv'
    BY <1>1 DEF StartOpen, Spawn, chain, ChainTypeOK
  <1>2. ASSUME NEW h \in OpenReqs, LandOpen(h) PROVE TypeInv'
    BY <1>2 DEF LandOpen, Land, OpenVoting, chain, ChainTypeOK, Phases
  <1>3. ASSUME NEW h \in OpenReqs, MarkVoting(h) PROVE TypeInv'
    BY <1>3 DEF MarkVoting, SeesOk, DbPhases, chain, ChainTypeOK
  <1>4. ASSUME NEW h \in FinalizeReqs, LandFinalize(h) PROVE TypeInv'
    <2>1. CASE MayFinalize
      <3>1. view' = [view EXCEPT ![h].votes = Tally]
        BY <1>4, <2>1 DEF LandFinalize
      <3>2. view' \in [Reqs -> [phase : Phases, count : Nat,
                               votes : [Choices -> Nat] \cup [{} -> Nat]]]
        BY <3>1, TallyType DEF Phases
      <3>3. /\ view'[h].votes = Tally
            /\ \A g \in Reqs \ {h} : view'[g] = view[g]
        BY <3>1
      <3> QED
        BY <1>4, <2>1, <3>2, <3>3, TallyType
        DEF LandFinalize, Land, FinalizeRound, chain, ChainTypeOK, Phases
    <2>2. CASE ~MayFinalize
      BY <1>4, <2>2 DEF LandFinalize, Land, chain, ChainTypeOK, Phases
    <2> QED BY <2>1, <2>2
  <1>5. ASSUME NEW h \in FinalizeReqs, MarkFinalized(h) PROVE TypeInv'
    BY <1>5 DEF MarkFinalized, SeesOk, DbPhases, chain, ChainTypeOK
  <1>6. ASSUME NEW h \in FinalizeReqs, ReplyFinalized(h) PROVE TypeInv'
    <2>1. view[h].votes \in [Choices -> Nat]
      BY <1>6 DEF ReplyFinalized
    <2>2. ZipTally(view[h].votes) \in [Choices -> Nat] \cup [{} -> Nat]
      BY <2>1, ZipType
    <2>3. RegisteredCount \in Nat
      BY DEF RegisteredCount, ChainTypeOK
    <2> QED BY <1>6, <2>2, <2>3 DEF ReplyFinalized, chain, ChainTypeOK, Phases
  <1>7. ASSUME NEW h \in TallyReqs, StartTally(h) PROVE TypeInv'
    BY <1>7 DEF StartTally, chain, ChainTypeOK
  <1>8. ASSUME NEW h \in TallyReqs, ReadRound(h) PROVE TypeInv'
    <2>1. RegisteredCount \in Nat
      BY DEF RegisteredCount, ChainTypeOK
    <2> QED BY <1>8, <2>1 DEF ReadRound, chain, ChainTypeOK
  <1>9. ASSUME NEW h \in TallyReqs, ReadTally(h) PROVE TypeInv'
    <2>1. ZipTally(Tally) \in [Choices -> Nat] \cup [{} -> Nat]
      BY TallyType, ZipType
    <2>2. view' = [view EXCEPT ![h].votes = ZipTally(Tally)]
      BY <1>9 DEF ReadTally
    <2>3. view' \in [Reqs -> [phase : Phases, count : Nat,
                             votes : [Choices -> Nat] \cup [{} -> Nat]]]
      BY <2>1, <2>2
    <2>4. \A g \in FinalizeReqs : view'[g] = view[g]
      BY <2>2
    <2> QED BY <1>9, <2>3, <2>4 DEF ReadTally, chain, ChainTypeOK
  <1>10. ASSUME NEW h \in Reqs, Fail(h) \/ HangUp(h) PROVE TypeInv'
    BY <1>10 DEF Fail, HangUp, chain, ChainTypeOK
  <1>11. CASE Environment
    <2>1. ASSUME NEW v \in Voters, VoterRegisters(v) PROVE ChainTypeOK' /\ dbPhase' = dbPhase
      BY <2>1 DEF VoterRegisters, Register, ChainTypeOK
    <2>2. ASSUME NEW v \in Voters, NEW c \in Choices, VoterVotes(v, c)
          PROVE  ChainTypeOK' /\ dbPhase' = dbPhase
      BY <2>2 DEF VoterVotes, CastVote, Proof, ChainTypeOK
    <2>3. ASSUME RowAppears PROVE ChainTypeOK' /\ dbPhase' \in DbPhases
      BY <2>3 DEF RowAppears, DbPhases, chain, ChainTypeOK
    <2> QED BY <1>11, <2>1, <2>2, <2>3 DEF Environment, VotersAct
  <1>12. CASE UNCHANGED vars
    BY <1>12 DEF vars, chain, ChainTypeOK
  <1> QED
    BY <1>1, <1>2, <1>3, <1>4, <1>5, <1>6, <1>7, <1>8, <1>9, <1>10, <1>11, <1>12
    DEF Next, Open, Finalize, StartFinalize, GetTally

\* Every behaviour keeps the types of the variables and of the replies.
THEOREM TypeCorrect == Spec => []TypeOK
  <1>1. Spec => []TypeInv
    BY InitType, StepType, PTL DEF Spec
  <1>2. TypeInv => TypeOK
    BY DEF TypeInv
  <1> QED BY <1>1, <1>2, PTL

----------------------------------------------------------------------------
(* The handlers implement RoundMirror, and so the rounds table never runs  *)
(* ahead of the chain.                                                     *)

\* An included transaction has left its mark on the chain, where no later one
\* can undo it.
IncludedIsOnChain ==
  /\ \A h \in OpenReqs : call[h] = "ok" => chainPhase \in {"Voting", "Finalized"}
  /\ \A h \in FinalizeReqs : call[h] = "ok" => chainPhase = "Finalized"

PhaseInv == MirrorInv /\ IncludedIsOnChain

LEMMA InitPhase == Init => PhaseInv
  BY MirrorStarts, RequestsAssumption DEF Init, PhaseInv, IncludedIsOnChain

\* Each step of a handler is one of RoundMirror, or leaves the round alone.
LEMMA StepMirror ==
  ASSUME TypeInv, PhaseInv, [Next]_vars
  PROVE  [MirrorNext]_<<chain, dbPhase>>
  <1> USE RequestsAssumption
      DEF RequestsAssumption, TypeInv, TypeOK, ChainTypeOK, Phases, PhaseInv, Rank
  <1>1. ASSUME NEW h \in Reqs, \/ StartOpen(h)
                                \/ ReplyFinalized(h)
                                \/ StartTally(h)
                                \/ ReadRound(h)
                                \/ ReadTally(h)
                                \/ Fail(h)
                                \/ HangUp(h)
        PROVE  UNCHANGED <<chain, dbPhase>>
    BY <1>1 DEF StartOpen, ReplyFinalized, StartTally, ReadRound, ReadTally, Fail, HangUp
  <1>2. ASSUME NEW h \in OpenReqs, LandOpen(h)
        PROVE  ChainOpens \/ UNCHANGED <<chain, dbPhase>>
    BY <1>2 DEF LandOpen, Land, ChainOpens
  <1>3. ASSUME NEW h \in FinalizeReqs, LandFinalize(h)
        PROVE  ChainFinalizes \/ UNCHANGED <<chain, dbPhase>>
    BY <1>3 DEF LandFinalize, Land, ChainFinalizes
  <1>4. ASSUME NEW h \in OpenReqs, MarkVoting(h)
        PROVE  RowIsMarked("voting") \/ UNCHANGED <<chain, dbPhase>>
    <2>1. chainPhase \in {"Voting", "Finalized"}
      BY <1>4 DEF MarkVoting, SeesOk, IncludedIsOnChain
    <2> QED BY <1>4, <2>1 DEF MarkVoting, RowIsMarked
  <1>5. ASSUME NEW h \in FinalizeReqs, MarkFinalized(h)
        PROVE  RowIsMarked("finalized") \/ UNCHANGED <<chain, dbPhase>>
    <2>1. chainPhase = "Finalized"
      BY <1>5 DEF MarkFinalized, SeesOk, IncludedIsOnChain
    <2> QED BY <1>5, <2>1 DEF MarkFinalized, RowIsMarked
  <1>6. CASE Environment
    BY <1>6 DEF Environment, MirrorNext, RoundMoves
  <1>7. CASE UNCHANGED vars
    BY <1>7 DEF vars
  <1> QED
    BY <1>1, <1>2, <1>3, <1>4, <1>5, <1>6, <1>7
    DEF Next, Open, Finalize, StartFinalize, GetTally, Reqs, MirrorNext, RoundMoves

LEMMA StepPhase == TypeInv /\ PhaseInv /\ [Next]_vars => PhaseInv'
  <1> SUFFICES ASSUME TypeInv, PhaseInv, [Next]_vars PROVE PhaseInv' OBVIOUS
  <1>1. MirrorInv'
    BY StepMirror, MirrorMoves DEF PhaseInv
  <1>2. /\ chainPhase # "Registration" => chainPhase' # "Registration"
        /\ chainPhase = "Finalized" => chainPhase' = "Finalized"
    BY StepMirror, RoundGoesForward DEF TypeInv, TypeOK
  <1>3. ASSUME NEW h \in OpenReqs \cup FinalizeReqs, call'[h] = "ok", call[h] # "ok"
        PROVE  IF h \in OpenReqs THEN chainPhase' = "Voting" ELSE chainPhase' = "Finalized"
    <2> USE <1>3, RequestsAssumption DEF RequestsAssumption, TypeInv, TypeOK, Reqs
    <2>1. ASSUME NEW g \in OpenReqs, LandOpen(g) PROVE g = h /\ chainPhase' = "Voting"
      BY <2>1 DEF LandOpen, Land, OpenVoting
    <2>2. ASSUME NEW g \in FinalizeReqs, LandFinalize(g) PROVE g = h /\ chainPhase' = "Finalized"
      BY <2>2 DEF LandFinalize, Land, FinalizeRound
    <2>3. ASSUME NEW g \in OpenReqs \cup FinalizeReqs, StartOpen(g) PROVE FALSE
      BY <2>3 DEF StartOpen, Spawn
    <2>4. call' # call
      OBVIOUS
    <2> QED
      BY <2>1, <2>2, <2>3, <2>4
      DEF Next, Open, Finalize, StartFinalize, GetTally, MarkVoting, MarkFinalized,
          ReplyFinalized, StartTally, ReadRound, ReadTally, Fail, HangUp, Environment, vars
  <1>4. IncludedIsOnChain'
    <2>1. chainPhase' \in Phases
      BY <1>1 DEF MirrorInv, ChainTypeOK
    <2> QED BY <1>2, <1>3, <2>1, RequestsAssumption
        DEF RequestsAssumption, PhaseInv, IncludedIsOnChain, Phases
  <1> QED BY <1>1, <1>4 DEF PhaseInv

LEMMA PhaseInvariant == Spec => [](TypeInv /\ PhaseInv)
  <1>1. Spec => []TypeInv
    BY InitType, StepType, PTL DEF Spec
  <1>2. Spec => []PhaseInv
    BY <1>1, InitPhase, StepPhase, PTL DEF Spec
  <1> QED BY <1>1, <1>2, PTL

\* Whatever the interleaving, the faults and the number of requests, a row that
\* says voting or finalized is of a round that the contract has opened or
\* finalized: what POST /votes and POST /payouts/execute rely on.
THEOREM PhaseMirrorSafe == Spec => []DbPhaseNotAhead
  <1>1. PhaseInv => DbPhaseNotAhead
    BY DEF PhaseInv, MirrorInv, RowNotAhead, DbPhaseNotAhead
  <1> QED BY <1>1, PhaseInvariant, PTL

\* The handlers of the round lifecycle implement the round that the other
\* handlers are modelled against, for any number of requests and any faults.
THEOREM LifecycleImplementsMirror == Spec => ImplementsMirror
  <1>1. Init => MirrorInit
    BY DEF Init
  <1>2. TypeInv /\ PhaseInv /\ [Next]_vars => [MirrorNext]_<<chain, dbPhase>>
    BY StepMirror
  <1> QED BY <1>1, <1>2, PhaseInvariant, PTL DEF Spec, ImplementsMirror, MirrorSpec

----------------------------------------------------------------------------
(* A reply that says Finalized is final.                                   *)

\* What a request has read when it is on its way to such a reply, or has given
\* it: the value of finalize_round, or a get_round that said Finalized.
ReadIsFinal(h) ==
  /\ h \in FinalizeReqs /\ pc[h] \in {"invoking", "reading"} /\ call[h] = "ok" =>
       view[h].votes = Tally
  /\ h \in TallyReqs /\ pc[h] = "counting" /\ view[h].phase = "Finalized" =>
       chainPhase = "Finalized" /\ view[h].count = RegisteredCount
  /\ h \in FinalizeReqs \cup TallyReqs /\ pc[h] = "done" /\ view[h].phase = "Finalized" =>
       /\ chainPhase = "Finalized"
       /\ view[h].count = RegisteredCount
       /\ \A c \in DOMAIN view[h].votes : view[h].votes[c] = Tally[c]

ReplyInv == \A h \in Reqs : ReadIsFinal(h)

LEMMA InitReply == Init => ReplyInv
  BY DEF Init, ReplyInv, ReadIsFinal, Reqs

\* A step that reads nothing for a request, and does not let it go on, leaves it
\* as it was: what it has read is of a finalized round, or nobody sees it.
LEMMA OthersKeep ==
  ASSUME TypeInv, PhaseInv, ReplyInv, [Next]_vars, NEW h \in Reqs, view'[h] = view[h],
         pc'[h] = pc[h] \/ pc'[h] \in {"failed", "gone"},
         h \in FinalizeReqs => call'[h] = call[h] \/ call'[h] # "ok"
  PROVE  ReadIsFinal(h)'
  <1>1. chainPhase = "Finalized" =>
          /\ chainPhase' = "Finalized"
          /\ RegisteredCount' = RegisteredCount
          /\ Tally' = Tally
    BY StepMirror, RoundGoesForward DEF RegisteredCount, Tally, TypeInv, TypeOK
  <1> QED BY <1>1 DEF ReplyInv, ReadIsFinal, PhaseInv, IncludedIsOnChain

LEMMA StepReply == TypeInv /\ PhaseInv /\ ReplyInv /\ [Next]_vars => ReplyInv'
  <1> SUFFICES ASSUME TypeInv, PhaseInv, ReplyInv, [Next]_vars, NEW g \in Reqs
               PROVE  ReadIsFinal(g)'
    BY DEF ReplyInv
  <1> USE RequestsAssumption
      DEF RequestsAssumption, Reqs, Goto, TypeInv, TypeOK, AnswerInHand
  <1>1. ASSUME NEW h \in OpenReqs \cup FinalizeReqs, StartOpen(h) PROVE ReadIsFinal(g)'
    <2>1. CASE g = h
      BY <1>1, <2>1 DEF StartOpen, Spawn, ReadIsFinal
    <2>2. CASE g # h
      BY <1>1, <2>2, OthersKeep DEF StartOpen, Spawn
    <2> QED BY <2>1, <2>2
  <1>2. ASSUME NEW h \in OpenReqs, LandOpen(h) PROVE ReadIsFinal(g)'
    BY <1>2, OthersKeep DEF LandOpen, Land
  <1>3. ASSUME NEW h \in OpenReqs, MarkVoting(h) PROVE ReadIsFinal(g)'
    <2>1. CASE g = h
      BY <1>3, <2>1 DEF ReadIsFinal
    <2>2. CASE g # h
      BY <1>3, <2>2, OthersKeep DEF MarkVoting
    <2> QED BY <2>1, <2>2
  <1>4. ASSUME NEW h \in FinalizeReqs, LandFinalize(h) PROVE ReadIsFinal(g)'
    <2>1. CASE g = h /\ MayFinalize
      <3>1. Tally' = Tally
        BY <1>4, <2>1 DEF LandFinalize, Land, FinalizeRound, Tally
      <3>2. view'[h].votes = Tally
        BY <1>4, <2>1, TallyType DEF LandFinalize
      <3>3. pc[h] # "done" /\ pc' = pc
        BY <1>4 DEF LandFinalize, Land
      <3> QED BY <2>1, <3>1, <3>2, <3>3 DEF ReadIsFinal
    <2>2. CASE g # h
      BY <1>4, <2>2, OthersKeep DEF LandFinalize, Land
    <2>3. CASE ~MayFinalize
      BY <1>4, <2>3, OthersKeep DEF LandFinalize, Land
    <2> QED BY <2>1, <2>2, <2>3
  <1>5. ASSUME NEW h \in FinalizeReqs, MarkFinalized(h) PROVE ReadIsFinal(g)'
    <2>1. CASE g = h
      BY <1>5, <2>1 DEF MarkFinalized, SeesOk, ReplyInv, ReadIsFinal, Tally, chain
    <2>2. CASE g # h
      BY <1>5, <2>2, OthersKeep DEF MarkFinalized
    <2> QED BY <2>1, <2>2
  <1>6. ASSUME NEW h \in FinalizeReqs, ReplyFinalized(h) PROVE ReadIsFinal(g)'
    <2>1. CASE g = h
      <3>1. chainPhase' = "Finalized" /\ view[h].votes = Tally
        BY <1>6 DEF ReplyFinalized, ReplyInv, ReadIsFinal, PhaseInv, IncludedIsOnChain, chain
      <3>2. Tally' = Tally /\ RegisteredCount' = RegisteredCount
        BY <1>6 DEF ReplyFinalized, Tally, RegisteredCount, chain
      <3>3. view'[h] = [phase |-> "Finalized", count |-> RegisteredCount,
                        votes |-> ZipTally(Tally)]
        BY <1>6, <3>1 DEF ReplyFinalized
      <3>4. \A c \in DOMAIN ZipTally(Tally) : ZipTally(Tally)[c] = Tally[c]
        BY DEF ZipTally
      <3>5. pc'[h] = "done"
        BY <1>6 DEF ReplyFinalized
      <3> QED BY <2>1, <3>1, <3>2, <3>3, <3>4, <3>5 DEF ReadIsFinal
    <2>2. CASE g # h
      BY <1>6, <2>2, OthersKeep DEF ReplyFinalized
    <2> QED BY <2>1, <2>2
  <1>7. ASSUME NEW h \in TallyReqs, StartTally(h) PROVE ReadIsFinal(g)'
    <2>1. CASE g = h
      BY <1>7, <2>1 DEF StartTally, ReadIsFinal
    <2>2. CASE g # h
      BY <1>7, <2>2, OthersKeep DEF StartTally
    <2> QED BY <2>1, <2>2
  <1>8. ASSUME NEW h \in TallyReqs, ReadRound(h) PROVE ReadIsFinal(g)'
    <2>1. CASE g = h
      BY <1>8, <2>1 DEF ReadRound, ReadIsFinal, RegisteredCount, chain
    <2>2. CASE g # h
      BY <1>8, <2>2, OthersKeep DEF ReadRound
    <2> QED BY <2>1, <2>2
  <1>9. ASSUME NEW h \in TallyReqs, ReadTally(h) PROVE ReadIsFinal(g)'
    <2>1. CASE g = h
      <3>1. Tally' = Tally /\ RegisteredCount' = RegisteredCount /\ chainPhase' = chainPhase
        BY <1>9 DEF ReadTally, Tally, RegisteredCount, chain
      <3>2. /\ pc[h] = "counting" /\ pc'[h] = "done"
            /\ view' = [view EXCEPT ![h].votes = ZipTally(Tally)]
        BY <1>9 DEF ReadTally
      <3>3. /\ view'[h].phase = view[h].phase
            /\ view'[h].count = view[h].count
            /\ view'[h].votes = ZipTally(Tally)
        BY <3>2
      <3>4. \A c \in DOMAIN ZipTally(Tally) : ZipTally(Tally)[c] = Tally[c]
        BY DEF ZipTally
      <3> QED BY <2>1, <3>1, <3>2, <3>3, <3>4 DEF ReplyInv, ReadIsFinal
    <2>2. CASE g # h
      BY <1>9, <2>2, OthersKeep DEF ReadTally
    <2> QED BY <2>1, <2>2
  <1>10. ASSUME NEW h \in Reqs, Fail(h) \/ HangUp(h) PROVE ReadIsFinal(g)'
    BY <1>10, OthersKeep DEF Fail, HangUp
  <1>11. CASE Environment
    BY <1>11, OthersKeep DEF Environment
  <1>12. CASE UNCHANGED vars
    BY <1>12, OthersKeep DEF vars
  <1> QED
    BY <1>1, <1>2, <1>3, <1>4, <1>5, <1>6, <1>7, <1>8, <1>9, <1>10, <1>11, <1>12
    DEF Next, Open, Finalize, StartFinalize, GetTally

LEMMA ReplyInvariant == Spec => []ReplyInv
  BY PhaseInvariant, InitReply, StepReply, PTL DEF Spec

\* A reply that calls the round Finalized carries the final tally and the final
\* number of registrations, whatever happened between the reads of its handler.
THEOREM FinalReplies == Spec => []FinalizedReplyIsFinal
  <1>1. ReplyInv => FinalizedReplyIsFinal
    BY DEF ReplyInv, ReadIsFinal, FinalizedReplyIsFinal, Reqs
  <1> QED BY <1>1, ReplyInvariant, PTL

----------------------------------------------------------------------------
(* A reply has no more votes than voters.                                  *)

\* A tally handler that has read a closed registration has its final count.
CountIsFinal(h) ==
  pc[h] = "counting" /\ view[h].phase # "Registration" =>
    chainPhase # "Registration" /\ view[h].count = RegisteredCount

ReplyWithinElectorate(h) ==
  pc[h] = "done" /\ view[h].phase # "Registration" => TotalVotes(h) <= view[h].count

ElectorateInv ==
  /\ ElectorateVotes
  /\ \A h \in TallyReqs : CountIsFinal(h)
  /\ \A h \in FinalizeReqs \cup TallyReqs : ReplyWithinElectorate(h)

\* The tally of the listed proposals is no more than the ballots: all of them,
\* or none where there is no row.
LEMMA ListedVotesWithinElectorate ==
  ASSUME ChainTypeOK, ElectorateVotes
  PROVE  SumFunction(ZipTally(Tally)) <= RegisteredCount
  <1>1. CASE ProposalRows = {}
    <2>1. SumFunction(ZipTally(Tally)) = SumFunctionOnSet(ZipTally(Tally), {})
      BY <1>1 DEF ZipTally, SumFunction
    <2>2. RegisteredCount \in Nat
      BY DEF RegisteredCount, ChainTypeOK
    <2> QED BY <2>1, <2>2, SumEmpty
  <1>2. CASE ProposalRows = Choices
    <2>1. ZipTally(Tally) = Tally
      BY <1>2 DEF ZipTally, Tally
    <2> QED BY <2>1, TallyCountsBallots, BallotsWithinElectorate
  <1> QED BY <1>1, <1>2 DEF ProposalRows

LEMMA InitElectorate == Init => ElectorateInv
  BY ElectorateStarts
  DEF Init, ElectorateInv, CountIsFinal, ReplyWithinElectorate, Reqs

\* A step that reads nothing for a request, and does not let it go on, leaves
\* what it has read within the electorate.
LEMMA OthersStayWithin ==
  ASSUME TypeInv, PhaseInv, ElectorateInv, [Next]_vars,
         NEW h \in FinalizeReqs \cup TallyReqs,
         \/ pc'[h] = pc[h] /\ view'[h] = view[h]
         \/ pc'[h] \notin {"counting", "done"}
  PROVE  /\ h \in TallyReqs => CountIsFinal(h)'
         /\ ReplyWithinElectorate(h)'
  <1>1. chainPhase # "Registration" =>
          chainPhase' # "Registration" /\ RegisteredCount' = RegisteredCount
    BY StepMirror, RoundGoesForward DEF RegisteredCount, TypeInv, TypeOK
  <1>2. view'[h] = view[h] => TotalVotes(h)' = TotalVotes(h)
    BY DEF TotalVotes
  <1> QED
    BY <1>1, <1>2 DEF ElectorateInv, CountIsFinal, ReplyWithinElectorate

LEMMA StepElectorate ==
  TypeInv /\ PhaseInv /\ ReplyInv /\ ElectorateInv /\ [Next]_vars => ElectorateInv'
  <1> SUFFICES ASSUME TypeInv, PhaseInv, ReplyInv, ElectorateInv, [Next]_vars
               PROVE  ElectorateInv'
    OBVIOUS
  <1> DEFINE Within(g) == /\ g \in TallyReqs => CountIsFinal(g)'
                          /\ ReplyWithinElectorate(g)'
  <1>1. ElectorateVotes'
    BY StepMirror, ElectorateMoves DEF ElectorateInv, PhaseInv
  <1>2. SUFFICES ASSUME NEW g \in FinalizeReqs \cup TallyReqs PROVE Within(g)
    BY <1>1 DEF ElectorateInv
  <1> USE RequestsAssumption
      DEF RequestsAssumption, Reqs, Goto, TypeInv, TypeOK, AnswerInHand
  <1>3. ASSUME \/ pc'[g] = pc[g] /\ view'[g] = view[g]
               \/ pc'[g] \notin {"counting", "done"}
        PROVE  Within(g)
    BY <1>3, OthersStayWithin
  <1> HIDE DEF Within
  <1>4. ASSUME NEW h \in OpenReqs \cup FinalizeReqs, StartOpen(h) PROVE Within(g)
    BY <1>3, <1>4 DEF StartOpen
  <1>5. ASSUME NEW h \in OpenReqs, LandOpen(h) \/ MarkVoting(h) PROVE Within(g)
    BY <1>3, <1>5 DEF LandOpen, MarkVoting
  <1>6. ASSUME NEW h \in FinalizeReqs, LandFinalize(h) PROVE Within(g)
    <2>1. CASE g = h
      <3>1. pc[h] # "done" /\ pc[h] # "counting"
        BY <1>6 DEF LandFinalize, Land, OnlyTalliesCount
      <3> QED BY <1>3, <1>6, <2>1, <3>1 DEF LandFinalize
    <2>2. CASE g # h
      BY <1>3, <1>6, <2>2 DEF LandFinalize
    <2> QED BY <2>1, <2>2
  <1>7. ASSUME NEW h \in FinalizeReqs, MarkFinalized(h) PROVE Within(g)
    BY <1>3, <1>7 DEF MarkFinalized
  <1>8. ASSUME NEW h \in FinalizeReqs, ReplyFinalized(h) PROVE Within(g)
    <2>1. CASE g = h
      <3>1. view[h].votes = Tally /\ pc'[h] = "done"
        BY <1>8 DEF ReplyFinalized, ReplyInv, ReadIsFinal
      <3>2. view'[h] = [phase |-> "Finalized", count |-> RegisteredCount,
                        votes |-> ZipTally(Tally)]
        BY <1>8, <3>1 DEF ReplyFinalized
      <3>3. TotalVotes(h)' <= view'[h].count
        BY <3>2, ListedVotesWithinElectorate DEF TotalVotes, ElectorateInv
      <3> QED BY <2>1, <3>1, <3>3 DEF Within, CountIsFinal, ReplyWithinElectorate
    <2>2. CASE g # h
      BY <1>3, <1>8, <2>2 DEF ReplyFinalized
    <2> QED BY <2>1, <2>2
  <1>9. ASSUME NEW h \in TallyReqs, StartTally(h) PROVE Within(g)
    BY <1>3, <1>9 DEF StartTally
  <1>10. ASSUME NEW h \in TallyReqs, ReadRound(h) PROVE Within(g)
    <2>1. CASE g = h
      <3>1. pc'[h] = "counting" /\ view'[h].count = RegisteredCount /\ view'[h].phase = chainPhase
            /\ UNCHANGED chain
        BY <1>10 DEF ReadRound
      <3> QED
        BY <2>1, <3>1 DEF Within, CountIsFinal, ReplyWithinElectorate, RegisteredCount, chain
    <2>2. CASE g # h
      BY <1>3, <1>10, <2>2 DEF ReadRound
    <2> QED BY <2>1, <2>2
  <1>11. ASSUME NEW h \in TallyReqs, ReadTally(h) PROVE Within(g)
    <2>1. CASE g = h
      <3>1. /\ pc[h] = "counting" /\ pc'[h] = "done"
            /\ view'[h].phase = view[h].phase
            /\ view'[h].count = view[h].count
            /\ view'[h].votes = ZipTally(Tally)
        BY <1>11 DEF ReadTally
      <3>2. view[h].phase # "Registration" => view[h].count = RegisteredCount
        BY <3>1 DEF ElectorateInv, CountIsFinal
      <3>3. view[h].phase # "Registration" => TotalVotes(h)' <= view'[h].count
        BY <3>1, <3>2, ListedVotesWithinElectorate DEF TotalVotes, ElectorateInv
      <3> QED BY <2>1, <3>1, <3>3 DEF Within, CountIsFinal, ReplyWithinElectorate
    <2>2. CASE g # h
      BY <1>3, <1>11, <2>2 DEF ReadTally
    <2> QED BY <2>1, <2>2
  <1>12. ASSUME NEW h \in Reqs, Fail(h) \/ HangUp(h) PROVE Within(g)
    BY <1>3, <1>12 DEF Fail, HangUp
  <1>13. CASE Environment
    BY <1>3, <1>13 DEF Environment
  <1>14. CASE UNCHANGED vars
    BY <1>3, <1>14 DEF vars
  <1> QED
    BY <1>4, <1>5, <1>6, <1>7, <1>8, <1>9, <1>10, <1>11, <1>12, <1>13, <1>14
    DEF Next, Open, Finalize, StartFinalize, GetTally

\* A reply that says registration is closed reports at most one vote for each
\* registration it reports, although get_tally reads the two in separate calls.
THEOREM TurnoutWithinElectorate == Spec => []VotesWithinElectorate
  <1>1. Spec => []ElectorateInv
    BY PhaseInvariant, ReplyInvariant, InitElectorate, StepElectorate, PTL DEF Spec
  <1>2. ElectorateInv => VotesWithinElectorate
    BY DEF ElectorateInv, ReplyWithinElectorate, VotesWithinElectorate
  <1> QED BY <1>1, <1>2, PTL

----------------------------------------------------------------------------
(* An operator who sends one request after the other.                      *)

\* An operator's request in flight is the only one, so that a call to open the
\* round that succeeded is not waited for any more once the row is finalized.
SerialInv ==
  /\ \A g, h \in OpenReqs \cup FinalizeReqs : InFlight(g) /\ InFlight(h) => g = h
  /\ \A h \in OpenReqs : dbPhase = "finalized" /\ InFlight(h) => call[h] # "ok"

LEMMA InitSerial == Init => SerialInv
  BY DEF Init, SerialInv, InFlight, Reqs

LEMMA StepSerial ==
  ASSUME TypeInv, PhaseInv, SerialInv, [SerialNext]_vars
  PROVE  SerialInv'
  <1> USE RequestsAssumption DEF RequestsAssumption, Reqs, Goto
  <1>1. pc \in [Reqs -> PcLabels] /\ call \in [OpenReqs \cup FinalizeReqs -> CallStatus]
    BY DEF TypeInv, TypeOK
  <1>2. ASSUME UNCHANGED <<call, dbPhase>>,
               \A h \in OpenReqs \cup FinalizeReqs : InFlight(h)' => InFlight(h)
        PROVE  SerialInv'
    BY <1>2 DEF SerialInv
  <1>3. ASSUME NEW h \in OpenReqs \cup FinalizeReqs, StartOpen(h) PROVE SerialInv'
    <2>1. /\ pc[h] = "new" /\ pc' = [pc EXCEPT ![h] = "invoking"] /\ dbPhase' = dbPhase
          /\ call' = [call EXCEPT ![h] = "running"]
      BY <1>3 DEF StartOpen, Spawn
    <2>2. pc'[h] = "invoking" /\ call'[h] = "running"
      BY <1>1, <2>1
    <2>3. SerialNext
      BY <2>1, <2>2 DEF vars
    <2>4. \A g \in OpenReqs \cup FinalizeReqs : ~InFlight(g)
      BY <2>1, <2>2, <2>3 DEF SerialNext
    <2>5. \A g \in OpenReqs \cup FinalizeReqs : InFlight(g)' => g = h
      BY <1>1, <2>1, <2>4 DEF InFlight
    <2> QED BY <2>2, <2>5 DEF SerialInv
  <1>4. ASSUME NEW h \in OpenReqs, LandOpen(h) PROVE SerialInv'
    <2>1. dbPhase = "finalized" => ~MayOpenVoting
      BY DEF PhaseInv, MirrorInv, RowNotAhead, Rank, MayOpenVoting, ChainTypeOK, Phases
    <2>2. /\ UNCHANGED <<dbPhase, pc>>
          /\ \/ call' = [call EXCEPT ![h] = "ok"] /\ MayOpenVoting
             \/ call' = [call EXCEPT ![h] = "refused"]
      BY <1>4 DEF LandOpen, Land
    <2> QED BY <1>1, <2>1, <2>2 DEF SerialInv, InFlight
  <1>5. ASSUME NEW h \in FinalizeReqs, LandFinalize(h) PROVE SerialInv'
    BY <1>1, <1>5 DEF LandFinalize, Land, SerialInv, InFlight
  <1>6. ASSUME NEW h \in OpenReqs, MarkVoting(h) PROVE SerialInv'
    <2>1. /\ UNCHANGED call
          /\ dbPhase' # "finalized" \/ dbPhase' = dbPhase
          /\ \A g \in Reqs : InFlight(g)' => InFlight(g)
      BY <1>1, <1>6 DEF MarkVoting, InFlight
    <2> QED BY <1>6, <2>1 DEF MarkVoting, SerialInv
  <1>7. ASSUME NEW h \in FinalizeReqs, MarkFinalized(h) PROVE SerialInv'
    <2>1. /\ InFlight(h) /\ UNCHANGED call
          /\ \A g \in Reqs : InFlight(g)' => InFlight(g)
      BY <1>1, <1>7 DEF MarkFinalized, InFlight
    <2> QED BY <2>1 DEF SerialInv
  <1>8. ASSUME NEW h \in FinalizeReqs, ReplyFinalized(h) PROVE SerialInv'
    BY <1>1, <1>2, <1>8 DEF ReplyFinalized, InFlight
  <1>9. ASSUME NEW h \in TallyReqs, GetTally(h) PROVE SerialInv'
    BY <1>1, <1>2, <1>9 DEF GetTally, StartTally, ReadRound, ReadTally, InFlight
  <1>10. ASSUME NEW h \in Reqs, Fail(h) \/ HangUp(h) PROVE SerialInv'
    BY <1>1, <1>2, <1>10 DEF Fail, HangUp, InFlight
  <1>11. CASE Environment
    BY <1>11 DEF Environment, VotersAct, VoterRegisters, VoterVotes, RowAppears, SerialInv, InFlight
  <1>12. CASE UNCHANGED vars
    BY <1>12 DEF vars, SerialInv, InFlight
  <1> QED
    BY <1>3, <1>4, <1>5, <1>6, <1>7, <1>8, <1>9, <1>10, <1>11, <1>12
    DEF SerialNext, Next, Open, Finalize, StartFinalize

LEMMA SerialIsSpec == SerialSpec => Spec
  <1>1. [SerialNext]_vars => [Next]_vars
    BY DEF SerialNext
  <1> QED BY <1>1, PTL DEF SerialSpec, Spec

\* If the operator sends one request after the other, a row that finalize_round
\* has marked stays finalized, whatever calls fail, are given up or land late.
THEOREM SerialRowIsFinal == SerialSpec => FinalizedRowIsFinal
  <1>1. Spec => [](TypeInv /\ PhaseInv)
    BY PhaseInvariant
  <1>2. TypeInv /\ PhaseInv /\ SerialInv /\ [SerialNext]_vars => SerialInv'
    BY StepSerial
  <1>3. TypeInv /\ SerialInv /\ [SerialNext]_vars =>
          [dbPhase = "finalized" => dbPhase' = "finalized"]_vars
    <2> SUFFICES ASSUME TypeInv, SerialInv, SerialNext, dbPhase = "finalized"
                 PROVE  dbPhase' = "finalized"
      OBVIOUS
    <2>1. ASSUME NEW h \in OpenReqs, MarkVoting(h) PROVE FALSE
      BY <2>1 DEF MarkVoting, SeesOk, InFlight, SerialInv
    <2>2. ASSUME NEW h \in FinalizeReqs, MarkFinalized(h) PROVE dbPhase' = "finalized"
      BY <2>2 DEF MarkFinalized
    <2> QED
      BY <2>1, <2>2
      DEF SerialNext, Next, Open, Finalize, GetTally, StartOpen, StartFinalize, LandOpen,
          LandFinalize, ReplyFinalized, StartTally, ReadRound, ReadTally, Fail, HangUp,
          Environment, VotersAct, VoterRegisters, VoterVotes, RowAppears
  <1> QED
    BY <1>1, <1>2, <1>3, InitSerial, SerialIsSpec, PTL DEF SerialSpec, FinalizedRowIsFinal

\* A round that was in the table before the operator asked to open it is opened
\* by a call that some request waits for, or has marked the row after.
OpenedInv ==
  /\ \A h \in OpenReqs \cup FinalizeReqs : pc[h] # "new" => dbPhase # "absent"
  /\ \A h \in OpenReqs : call[h] = "running" => pc[h] = "invoking"
  /\ \A h \in OpenReqs : call[h] = "ok" => pc[h] \in {"invoking", "done"}
  /\ \A h \in OpenReqs : pc[h] = "done" => dbPhase \in {"voting", "finalized"}
  /\ chainPhase = "Voting" => \E h \in OpenReqs : call[h] = "ok"

LEMMA InitOpened == Init => OpenedInv
  BY DEF Init, MirrorInit, OpenedInv, Reqs

LEMMA StepOpened ==
  ASSUME Faulty = FALSE, TypeInv, OpenedInv, [SerialNext]_vars
  PROVE  OpenedInv'
  <1> USE RequestsAssumption DEF RequestsAssumption, Reqs, Goto
  <1>1. pc \in [Reqs -> PcLabels] /\ call \in [OpenReqs \cup FinalizeReqs -> CallStatus]
    BY DEF TypeInv, TypeOK
  <1>2. ASSUME UNCHANGED <<call, dbPhase, chainPhase>>, \A h \in OpenReqs : pc'[h] = pc[h],
               \A h \in FinalizeReqs : pc[h] = "new" => pc'[h] = "new"
        PROVE  OpenedInv'
    BY <1>2 DEF OpenedInv
  <1>3. ASSUME NEW h \in OpenReqs \cup FinalizeReqs, StartOpen(h) PROVE OpenedInv'
    <2>1. /\ pc[h] = "new" /\ pc' = [pc EXCEPT ![h] = "invoking"]
          /\ UNCHANGED <<dbPhase, chainPhase>>
          /\ call' = [call EXCEPT ![h] = "running"] /\ call[h] = "none"
      BY <1>3 DEF StartOpen, Spawn, chain
    <2>2. pc'[h] = "invoking" /\ call'[h] = "running"
      BY <1>1, <2>1
    <2>3. SerialNext
      BY <2>1, <2>2 DEF vars
    <2>4. dbPhase # "absent"
      BY <2>1, <2>2, <2>3 DEF SerialNext
    <2>5. \A g \in OpenReqs \cup FinalizeReqs : g # h => pc'[g] = pc[g] /\ call'[g] = call[g]
      BY <1>1, <2>1
    <2> QED BY <2>1, <2>2, <2>4, <2>5 DEF OpenedInv
  <1>4. ASSUME NEW h \in OpenReqs, LandOpen(h) PROVE OpenedInv'
    <2>1. /\ call[h] = "running" /\ UNCHANGED <<dbPhase, pc>>
          /\ \/ call' = [call EXCEPT ![h] = "ok"]
             \/ call' = [call EXCEPT ![h] = "refused"] /\ UNCHANGED chainPhase
      BY <1>4 DEF LandOpen, Land, chain
    <2>2. pc[h] = "invoking"
      BY <2>1 DEF OpenedInv
    <2> QED BY <1>1, <2>1, <2>2 DEF OpenedInv
  <1>5. ASSUME NEW h \in FinalizeReqs, LandFinalize(h) PROVE OpenedInv'
    <2>1. /\ UNCHANGED <<dbPhase, pc>>
          /\ \A g \in OpenReqs : call'[g] = call[g]
          /\ chainPhase' = "Finalized" \/ chainPhase' = chainPhase
      BY <1>1, <1>5 DEF LandFinalize, Land, FinalizeRound, chain
    <2> QED BY <2>1 DEF OpenedInv
  <1>6. ASSUME NEW h \in OpenReqs, MarkVoting(h) PROVE OpenedInv'
    <2>1. dbPhase # "absent" /\ call[h] = "ok"
      BY <1>6 DEF MarkVoting, SeesOk, OpenedInv
    <2>2. /\ UNCHANGED <<call, chainPhase>> /\ dbPhase' = "voting"
          /\ pc' = [pc EXCEPT ![h] = "done"]
      BY <1>6, <2>1 DEF MarkVoting, chain
    <2> QED BY <1>1, <2>1, <2>2 DEF OpenedInv
  <1>7. ASSUME NEW h \in FinalizeReqs, MarkFinalized(h) PROVE OpenedInv'
    <2>1. dbPhase # "absent"
      BY <1>7 DEF MarkFinalized, OpenedInv
    <2> QED BY <1>1, <1>7, <2>1 DEF MarkFinalized, OpenedInv, chain
  <1>8. ASSUME NEW h \in FinalizeReqs, ReplyFinalized(h) PROVE OpenedInv'
    BY <1>1, <1>2, <1>8 DEF ReplyFinalized, chain
  <1>9. ASSUME NEW h \in TallyReqs, GetTally(h) PROVE OpenedInv'
    BY <1>1, <1>2, <1>9 DEF GetTally, StartTally, ReadRound, ReadTally, chain
  <1>10. ASSUME NEW h \in Reqs, Fail(h) PROVE OpenedInv'
    <2>1. /\ pc[h] = "invoking" /\ call[h] = "refused" /\ UNCHANGED <<call, dbPhase, chainPhase>>
          /\ pc' = [pc EXCEPT ![h] = "failed"]
      BY <1>10 DEF Fail, SeesErr, chain
    <2> QED BY <1>1, <2>1 DEF OpenedInv
  <1>11. CASE Environment
    <2>1. UNCHANGED <<call, pc, chainPhase>>
          /\ \/ dbPhase' = dbPhase
             \/ dbPhase = "absent" /\ dbPhase' = "registration"
      BY <1>11
      DEF Environment, VotersAct, VoterRegisters, VoterVotes, Register, CastVote, RowAppears, chain
    <2> QED BY <2>1 DEF OpenedInv
  <1>12. CASE UNCHANGED vars
    BY <1>2, <1>12 DEF vars, chain
  <1> QED
    BY <1>3, <1>4, <1>5, <1>6, <1>7, <1>8, <1>9, <1>10, <1>11, <1>12
    DEF SerialNext, Next, Open, Finalize, StartFinalize, HangUp

\* Without faults, a round that was in the table before is marked voting when its
\* opens have been answered: one of their calls opened it, and its UPDATE is done.
THEOREM SerialOpenIsMarked == Faulty = FALSE => (SerialSpec => []OpenedRoundIsMarked)
  <1> SUFFICES ASSUME Faulty = FALSE PROVE SerialSpec => []OpenedRoundIsMarked
    OBVIOUS
  <1>1. TypeInv /\ OpenedInv /\ [SerialNext]_vars => OpenedInv'
    BY StepOpened
  <1>2. PhaseInv /\ OpenedInv => OpenedRoundIsMarked
    BY DEF PhaseInv, MirrorInv, RowNotAhead, Rank, OpenedInv, OpenedRoundIsMarked
  <1> QED
    BY <1>1, <1>2, InitOpened, SerialIsSpec, PhaseInvariant, PTL DEF SerialSpec
=============================================================================
