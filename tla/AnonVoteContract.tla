-------------------------- MODULE AnonVoteContract --------------------------
(***************************************************************************)
(* One round of the AnonVote Soroban contract, as the backend uses it.     *)
(* The contract is a separate repository, so this module is external: its  *)
(* operations are those the handlers call, and their guards are the named  *)
(* rejections of soroban_client.rs, contract_error_name:                   *)
(*                                                                         *)
(*   register       RegistrationClosed, AlreadyRegistered,                 *)
(*                  RegistrationSetFull, and the voter must be eligible    *)
(*   open_voting    InvalidPhaseTransition                                 *)
(*   cast_vote      VotingNotOpen, VotingClosed, InvalidChoice,            *)
(*                  InvalidProof, NullifierAlreadyUsed                     *)
(*   finalize_round InvalidPhaseTransition, RoundAlreadyFinalized          *)
(*                                                                         *)
(* A ledger transaction is atomic: each operation is one action.           *)
(*                                                                         *)
(* Poseidon2 and the Merkle tree are taken as injective.  A voter stands   *)
(* for its secret: for the commitment it registers and for the nullifier   *)
(* Poseidon2(secret, round_id) it spends.  The Merkle root of a list of    *)
(* leaves is the list itself.                                              *)
(***************************************************************************)
EXTENDS Naturals, Sequences, FiniteSets

CONSTANTS
  Voters,      \* voters, each with one secret
  NumChoices,  \* the round's num_choices
  Capacity,    \* leaves the Merkle tree holds: 2^MERKLE_DEPTH
  NoVote       \* a nullifier that is not spent

Choices == 0 .. (NumChoices - 1)

ASSUME ContractAssumption ==
  /\ NumChoices \in Nat \ {0}
  /\ Capacity \in Nat
  /\ NoVote \notin Choices
  /\ IsFiniteSet(Voters)

VARIABLES
  chainPhase,  \* the round's phase
  leaves,      \* commitments in registration order
  eligible,    \* the voters set_eligible has marked
  ballots      \* nullifier -> choice, or NoVote while it is unspent

chain == <<chainPhase, leaves, eligible, ballots>>

Phases == {"Registration", "Voting", "Finalized"}

\* Position of a phase, on the chain or in the backend's mirror of it.
Rank(phase) ==
  CASE phase \in {"Registration", "registration"} -> 1
    [] phase \in {"Voting", "voting"}             -> 2
    [] phase \in {"Finalized", "finalized"}       -> 3
    [] OTHER                                      -> 0

ChainTypeOK ==
  /\ chainPhase \in Phases
  /\ leaves \in Seq(Voters)
  /\ eligible \in SUBSET Voters
  /\ ballots \in [Voters -> Choices \cup {NoVote}]

----------------------------------------------------------------------------
(* Reads (get_round, tally): simulated, they change nothing.               *)

Registered == {leaves[i] : i \in 1 .. Len(leaves)}

RegisteredCount == Len(leaves)

BallotCount == Cardinality({n \in Voters : ballots[n] # NoVote})

Tally == [c \in Choices |-> Cardinality({n \in Voters : ballots[n] = c})]

----------------------------------------------------------------------------
(* Transactions.  "May" is the contract's check, the action its effect.    *)

SetEligible(v, mark) ==
  /\ eligible' = IF mark THEN eligible \cup {v} ELSE eligible \ {v}
  /\ UNCHANGED <<chainPhase, leaves, ballots>>

MayRegister(v) ==
  /\ chainPhase = "Registration"
  /\ v \in eligible \ Registered
  /\ Len(leaves) < Capacity

Register(v) ==
  /\ leaves' = Append(leaves, v)
  /\ UNCHANGED <<chainPhase, eligible, ballots>>

MayOpenVoting == chainPhase = "Registration"

OpenVoting ==
  /\ chainPhase' = "Voting"
  /\ UNCHANGED <<leaves, eligible, ballots>>

\* A proof binds its public inputs: root, nullifier and choice.
Proof(root, nullifier, choice) ==
  [root |-> root, nullifier |-> nullifier, choice |-> choice]

MayCastVote(proof) ==
  /\ chainPhase = "Voting"
  /\ proof.choice \in Choices
  /\ proof.root = leaves
  /\ proof.nullifier \in Registered
  /\ ballots[proof.nullifier] = NoVote

CastVote(proof) ==
  /\ ballots' = [ballots EXCEPT ![proof.nullifier] = proof.choice]
  /\ UNCHANGED <<chainPhase, leaves, eligible>>

MayFinalize == chainPhase = "Voting"

FinalizeRound ==
  /\ chainPhase' = "Finalized"
  /\ UNCHANGED <<leaves, eligible, ballots>>
=============================================================================
