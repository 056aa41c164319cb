---------------------------- MODULE ProofService ----------------------------
(***************************************************************************)
(* Server-side proving (src/proof_service.rs) for the requests that wait   *)
(* for it.  prove writes its inputs into a temporary directory of its own, *)
(* lets nargo solve the circuit there and bb make a proof of the solution, *)
(* each in a subprocess it awaits; other requests go on in the meantime.   *)
(*                                                                         *)
(* A field element may be spelled with or without 0x and in either case.   *)
(* The code compares and sends field elements without their prefix, but    *)
(* it hands them to nargo as they came: the nullifier as its client has    *)
(* spelled it, the merkle_root as the CLI has printed it.  nargo reads one *)
(* without 0x as a decimal number, which the hexadecimal text of a hash is *)
(* not.                                                                    *)
(*                                                                         *)
(* The CLI prints a BytesN in "bare" hexadecimal (soroban_client.rs, above *)
(* hex_bytes), a U256 in "decimal".  Which of them the contract's root is, *)
(* is not in this repository: OnChainRound.merkle_root is a String.        *)
(***************************************************************************)
EXTENDS AnonVoteContract

CONSTANTS
  ProveReqs,  \* the requests that may ask for a proof
  RootForms   \* the forms in which the CLI may print a merkle_root

ASSUME ProofServiceAssumption == RootForms \subseteq {"bare", "decimal"}

VARIABLE workspace  \* the Prover.toml of each temporary directory: {} or {doc}

Spellings == {"0x", "bare"}

ProverToml ==
  [secret : Voters, path : Seq(Voters), root : Seq(Voters), form : RootForms,
   nullifier : Voters, spelling : Spellings, choice : Choices]

NoWorkspaces == [d \in ProveReqs |-> {}]

----------------------------------------------------------------------------
(* A mistake that the properties tell from the code.                       *)

\* All requests prove in the circuit's own directory.
CircuitDir(h) == CHOOSE d \in ProveReqs : TRUE

----------------------------------------------------------------------------

\* tempfile::tempdir: a new directory for each request.
Dir(h) == h

\* copy_circuit_package and write_prover_toml, without an await between them.
Prepare(h, doc) == workspace' = [workspace EXCEPT ![Dir(h)] = {doc}]

\* The directory is removed with the TempDir, however prove ends.
Discard(h) == workspace' = [workspace EXCEPT ![Dir(h)] = {}]

\* compute_nullifier: Poseidon2(secret, round_id).
ComputeNullifier(secret) == secret

\* hex_eq, and the prefix and the case of an Arg of hex_bytes: the spellings of
\* a field element are one.
HexEq(nullifier, other) == nullifier = other

\* nargo takes a field element for what it is if it has a prefix or is decimal.
Readable(spelling) == spelling # "bare"

\* nargo finds a solution only if it can read its inputs, the path leads from
\* the secret's leaf to the root, and the nullifier is the secret's.
Solvable(doc) ==
  /\ Readable(doc.form) /\ Readable(doc.spelling)
  /\ doc.path = doc.root
  /\ \E i \in 1 .. Len(doc.path) : doc.path[i] = doc.secret
  /\ doc.nullifier = ComputeNullifier(doc.secret)

\* bb's proof, as read_groth16_proof packs it: of the public inputs.
ProofOf(doc) == Proof(doc.root, doc.nullifier, doc.choice)
=============================================================================
