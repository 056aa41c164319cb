----------------------------- MODULE RoundMirror -----------------------------
(***************************************************************************)
(* A round as the handlers that do not move it see it: the contract's      *)
(* round, and rounds.phase, the row the backend keeps of it.  The contract *)
(* goes forward only.  The row follows it, late, in either order and not   *)
(* always, but never ahead of it.                                          *)
(*                                                                         *)
(* This is what RoundLifecycle promises (it implements MirrorSpec) and     *)
(* what Registration, Voting and Payouts build on.                         *)
(***************************************************************************)
EXTENDS AnonVoteContract

VARIABLE dbPhase  \* rounds.phase, or "absent" when the table has no such row

DbPhases == {"absent", "registration", "voting", "finalized"}

MirrorInit ==
  /\ chainPhase = "Registration"
  /\ leaves = <<>>
  /\ eligible \in SUBSET Voters
  /\ ballots = [n \in Voters |-> NoVote]
  /\ dbPhase = "absent"

----------------------------------------------------------------------------
(* Wallets act on the contract with this backend or without it; the        *)
(* operator alone marks voters, opens and finalizes.                       *)

VoterRegisters(v) == MayRegister(v) /\ Register(v) /\ UNCHANGED dbPhase

AdminMarks(v, mark) == SetEligible(v, mark) /\ UNCHANGED dbPhase

ChainOpens == MayOpenVoting /\ OpenVoting /\ UNCHANGED dbPhase

VoterVotes(v, c) ==
  /\ MayCastVote(Proof(leaves, v, c))
  /\ CastVote(Proof(leaves, v, c))
  /\ UNCHANGED dbPhase

ChainFinalizes == MayFinalize /\ FinalizeRound /\ UNCHANGED dbPhase

\* A mistake that the properties tell from the code: the row gets the
\* contract's spelling of the phase.
RowIsMarkedInChainSpelling(phase) ==
  /\ dbPhase # "absent"
  /\ chainPhase # "Registration"
  /\ dbPhase' = chainPhase
  /\ UNCHANGED chain

\* create_round, whose call made the contract's round, commits the row (or
\* never does).
RowAppears ==
  /\ dbPhase = "absent"
  /\ dbPhase' = "registration"
  /\ UNCHANGED chain

\* The UPDATE of open_voting or of finalize_round reaches the row, if any.
RowIsMarked(phase) ==
  /\ dbPhase # "absent"
  /\ Rank(phase) <= Rank(chainPhase)
  /\ dbPhase' = phase
  /\ UNCHANGED chain

RoundMoves ==
  \/ RowAppears
  \/ ChainOpens
  \/ ChainFinalizes
  \/ \E phase \in {"voting", "finalized"} : RowIsMarked(phase)

VotersAct ==
  \/ \E v \in Voters : VoterRegisters(v)
  \/ \E v \in Voters, c \in Choices : VoterVotes(v, c)

MirrorNext ==
  \/ RoundMoves
  \/ VotersAct
  \/ \E v \in Voters, mark \in BOOLEAN : AdminMarks(v, mark)

MirrorSpec == MirrorInit /\ [][MirrorNext]_<<chain, dbPhase>>
=============================================================================
