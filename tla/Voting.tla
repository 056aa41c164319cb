------------------------------- MODULE Voting -------------------------------
(***************************************************************************)
(* POST /votes (src/routes/votes.rs) for one round: the checks against the *)
(* rounds row, the proof the client brings or proof_service.rs makes, the  *)
(* cast_vote transaction the operator relays, and the ballots table.       *)
(*                                                                         *)
(* A request names a nullifier, in a spelling of its own, and a choice.    *)
(* It brings a proof, made for a root its client once saw, or a witness: a *)
(* secret and a Merkle path, opened from a leaf list its client once saw.  *)
(* Anyone can submit cast_vote without this backend.                       *)
(***************************************************************************)
EXTENDS RoundMirror, SorobanClient, ProofService

CONSTANTS
  VoteReqs,  \* the POST /votes requests
  Kinds,     \* what they bring, of AllKinds
  FewRefused \* BOOLEAN: of what is refused at once, only representatives?

AllKinds == {"proof", "witness", "malformed"}

ASSUME VotingAssumption ==
  ProveReqs = VoteReqs /\ Kinds \subseteq AllKinds /\ FewRefused \in BOOLEAN

VARIABLES
  rows,     \* ballots: nullifier_hex -> choice_index, or NoVote
  pc,       \* where each request is
  body,     \* what it asks for
  proof     \* the proof it casts

vars == <<chain, call, dbPhase, workspace, rows, pc, body, proof>>

Goto(h, label) == pc' = [pc EXCEPT ![h] = label]

\* What clients can have seen: the leaf list of now or of before.
SeenLists == {SubSeq(leaves, 1, n) : n \in 0 .. Len(leaves)}

\* A choice_index, or one out of range.
AnyChoice == Choices \cup {NumChoices}

Body(nullifier, spelling, choice, secret, path, kind) ==
  [nullifier |-> nullifier, spelling |-> spelling, choice |-> choice,
   secret |-> secret, path |-> path, kind |-> kind]

NoBody(v) == Body(v, "0x", NumChoices, v, <<>>, "malformed")

NoProof(v) == Proof(<<>>, v, NumChoices)

\* The key of a row: the text of the nullifier, as the request spells it.
NullifierHex(b) == <<b.nullifier, b.spelling>>

\* INSERT INTO ballots .. await?: an error if the nullifier_hex has a row.
InsertRow(h, value) ==
  LET n == NullifierHex(body[h]) IN
  IF rows[n] = NoVote
    THEN rows' = [rows EXCEPT ![n] = value] /\ Goto(h, "done")
    ELSE UNCHANGED rows /\ Goto(h, "failed")

\* What there is to prove, with the root the contract has now, as it is printed.
DocOf(h, form) ==
  LET b == body[h]
  IN  [secret |-> b.secret, path |-> b.path, root |-> leaves, form |-> form,
       nullifier |-> b.nullifier, spelling |-> b.spelling, choice |-> b.choice]

Init ==
  /\ MirrorInit
  /\ eligible = Voters
  /\ call = [h \in VoteReqs |-> "none"]
  /\ workspace = NoWorkspaces
  /\ rows = [n \in Voters \X Spellings |-> NoVote]
  /\ pc = [h \in VoteReqs |-> "new"]
  /\ \E v \in Voters : /\ body = [h \in VoteReqs |-> NoBody(v)]
                       /\ proof = [h \in VoteReqs |-> NoProof(v)]

----------------------------------------------------------------------------
(* Mistakes that the properties tell from the code: none is part of Next.  *)

\* Choices are counted from one.
ReadRootFromOne(h) ==
  /\ pc[h] = "reading"
  /\ \E form \in RootForms : Prepare(h, [DocOf(h, form) EXCEPT !.choice = @ + 1])
  /\ Goto(h, "solving")
  /\ UNCHANGED <<chain, call, dbPhase, rows, body, proof>>

\* The nullifier is bound to the choice's column.
InsertSwapped(h) ==
  /\ pc[h] = "casting"
  /\ SeesOk(h)
  /\ InsertRow(h, body[h].nullifier)
  /\ UNCHANGED <<chain, call, dbPhase, workspace, body, proof>>

\* The row is written without waiting for the call.
InsertAtOnce(h) ==
  /\ pc[h] = "casting"
  /\ InsertRow(h, body[h].choice)
  /\ UNCHANGED <<chain, call, dbPhase, workspace, body, proof>>

\* A call that takes long is given up.
FailOnTimeout(h) ==
  /\ \/ pc[h] = "casting"
     \/ pc[h] \in {"reading", "solving", "proving"} /\ Faulty
  /\ Goto(h, "failed")
  /\ Discard(h)
  /\ UNCHANGED <<chain, call, dbPhase, rows, body, proof>>

----------------------------------------------------------------------------
(* cast_vote.                                                              *)

\* 404 and 409, 400 for the choice, 400 for both or neither of proof and
\* witness, and 400 when Poseidon2(secret, round_id) is not the nullifier.
Acceptable(b) ==
  /\ dbPhase = "voting"
  /\ b.choice \in Choices
  /\ b.kind # "malformed"
  /\ b.kind = "witness" => HexEq(ComputeNullifier(b.secret), b.nullifier)

\* fetch_round and the checks on it; a proof is cast as it came.
Begin(h, b) ==
  /\ pc[h] = "new"
  /\ body' = [body EXCEPT ![h] = b]
  /\ \/ /\ ~Acceptable(b)
        /\ Goto(h, "failed")
        /\ UNCHANGED <<call, proof>>
     \/ /\ Acceptable(b) /\ b.kind = "witness"
        /\ Goto(h, "reading")
        /\ UNCHANGED <<call, proof>>
     \/ /\ Acceptable(b) /\ b.kind = "proof"
        /\ proof' = [proof EXCEPT ![h] = Proof(b.path, b.nullifier, b.choice)]
        /\ Spawn(h)
        /\ Goto(h, "casting")
  /\ UNCHANGED <<chain, dbPhase, workspace, rows>>

\* get_round has given the merkle_root; prove writes the inputs, starts nargo.
ReadRoot(h) ==
  /\ pc[h] = "reading"
  /\ \E form \in RootForms : Prepare(h, DocOf(h, form))
  /\ Goto(h, "solving")
  /\ UNCHANGED <<chain, call, dbPhase, rows, body, proof>>

\* nargo has solved what it found in the directory, and bb is started on the
\* solution; or there is none and prove fails.
Solve(h) ==
  /\ pc[h] = "solving"
  /\ IF \E doc \in workspace[Dir(h)] : Solvable(doc)
       THEN Goto(h, "proving") /\ UNCHANGED workspace
       ELSE Goto(h, "failed") /\ Discard(h)
  /\ UNCHANGED <<chain, call, dbPhase, rows, body, proof>>

\* bb is done: prove returns and the call is made.
Prove(h) ==
  /\ pc[h] = "proving"
  /\ \E doc \in workspace[Dir(h)] : proof' = [proof EXCEPT ![h] = ProofOf(doc)]
  /\ Discard(h)
  /\ Spawn(h)
  /\ Goto(h, "casting")
  /\ UNCHANGED <<chain, dbPhase, rows, body>>

\* The contract checks the proof against the nullifier and the choice sent.
MayCast(h) ==
  /\ proof[h].nullifier = body[h].nullifier
  /\ proof[h].choice = body[h].choice
  /\ MayCastVote(proof[h])

\* The ledger takes up the ballot, if it gets there: see SorobanClient.
LandBallot(h) ==
  /\ Land(h, MayCast(h), CastVote(proof[h]), chain)
  /\ UNCHANGED <<dbPhase, workspace, rows, pc, body, proof>>

\* The call succeeded: the ballot is recorded.
Insert(h) ==
  /\ pc[h] = "casting"
  /\ SeesOk(h)
  /\ InsertRow(h, body[h].choice)
  /\ UNCHANGED <<chain, call, dbPhase, workspace, body, proof>>

----------------------------------------------------------------------------
(* Errors (?), with proving that is not configured or does not work among  *)
(* them.  A request whose client hangs up, or whose server crashes, ends   *)
(* in the same way, wherever it is: nobody waits for what becomes of it.   *)

Fail(h) ==
  /\ \/ pc[h] = "casting" /\ SeesErr(h)
     \/ pc[h] \in {"reading", "solving", "proving"} /\ Faulty
  /\ Goto(h, "failed")
  /\ Discard(h)
  /\ UNCHANGED <<chain, call, dbPhase, rows, body, proof>>

----------------------------------------------------------------------------
(* The rest of the system.                                                 *)

Environment ==
  (RoundMoves \/ VotersAct) /\ UNCHANGED <<call, workspace, rows, pc, body, proof>>

\* One body for each reason to refuse it at once: a good vote while the row does
\* not say voting, and when it does, one of each fault.
Representative(b) ==
  /\ b.spelling = "0x" /\ b.path = leaves /\ b.choice \in {0, NumChoices}
  /\ b.choice = NumChoices => b.kind = "proof"
  /\ dbPhase # "voting" => b.kind = "witness" /\ b.secret = b.nullifier

\* Only a witness has a secret to disagree with the nullifier.
AnyBegin(h) ==
  /\ pc[h] = "new"
  /\ \E n, s \in Voters, x \in Spellings, c \in AnyChoice, path \in SeenLists, k \in Kinds :
       LET b == Body(n, x, c, s, path, k) IN
       /\ s # n => k = "witness"
       /\ FewRefused => Acceptable(b) \/ Representative(b)
       /\ Begin(h, b)

Vote(h) == ReadRoot(h) \/ Solve(h) \/ Prove(h) \/ Insert(h) \/ Fail(h)

Next ==
  \/ \E h \in VoteReqs : AnyBegin(h) \/ Vote(h) \/ LandBallot(h)
  \/ Environment

Spec == Init /\ [][Next]_vars

\* Handlers run on and the network takes up what was sent to it.
Fairness ==
  \A h \in VoteReqs : WF_vars(Vote(h)) /\ WF_vars(LandBallot(h))

FairSpec == Spec /\ Fairness

----------------------------------------------------------------------------
(* Properties.                                                             *)

PcLabels == {"new", "reading", "solving", "proving", "casting",
             "done", "failed"}

\* Every variable keeps its type.
TypeOK ==
  /\ ChainTypeOK
  /\ call \in [VoteReqs -> CallStatus]
  /\ dbPhase \in DbPhases
  /\ workspace \in [VoteReqs -> SUBSET ProverToml]
  /\ rows \in [Voters \X Spellings -> Choices \cup {NoVote}]
  /\ pc \in [VoteReqs -> PcLabels]
  /\ body \in [VoteReqs -> [nullifier : Voters, spelling : Spellings,
                            choice : AnyChoice, secret : Voters,
                            path : Seq(Voters), kind : AllKinds]]
  /\ proof \in [VoteReqs -> [root : Seq(Voters), nullifier : Voters,
                             choice : AnyChoice]]

\* The ballots table holds only ballots of the chain, with their choice, and
\* holds that of every request answered with 200: such a voter is counted.
RowsAreBallots ==
  /\ \A n \in Voters, x \in Spellings : rows[<<n, x>>] # NoVote => rows[<<n, x>>] = ballots[n]
  /\ \A h \in VoteReqs : pc[h] = "done" => rows[NullifierHex(body[h])] = body[h].choice

\* The INSERT never meets the UNIQUE (round_id, nullifier_hex), and it would not
\* need it: of all requests with one nullifier, however they spell it, the
\* contract lets one through, and that one inserts once.  So no ballot that was
\* cast is answered with a database error for that reason; and although the
\* column compares the text of the nullifier, no ballot gets a second row in
\* another spelling.
InsertNeverConflicts ==
  \A h \in VoteReqs :
    pc[h] = "casting" /\ call[h] = "ok" =>
      \A x \in Spellings : rows[<<body[h].nullifier, x>>] = NoVote

\* A ballot with a server-side proof is refused by the contract only because
\* its nullifier was spent or voting was over, never for its proof: the root
\* was read before the proof was made, but after registration was closed, which
\* the phase of the row vouches for.
ServerProofIsCurrent ==
  \A h \in VoteReqs :
    body[h].kind = "witness" /\ call[h] = "refused" =>
      ballots[body[h].nullifier] # NoVote \/ chainPhase = "Finalized"

\* What becomes of witnesses if the root is printed in a form nargo does not read.
WitnessIsNotCast == \A h \in VoteReqs : body[h].kind = "witness" => call[h] = "none"

\* Without faults, a request answered with an error has cast no ballot, so that
\* its voter may try again.
ErrorMeansNotCast ==
  \A h \in VoteReqs : pc[h] = "failed" => call[h] # "ok"

\* A vote that nothing is wrong with: of a registered voter, for one of the
\* choices, made with the leaf list the contract has; a witness comes with its
\* own nullifier, spelled as nargo reads it.
GoodVote(b) ==
  /\ b.kind # "malformed"
  /\ b.nullifier \in Registered
  /\ b.choice \in Choices
  /\ b.path = leaves
  /\ b.kind = "witness" => b.secret = b.nullifier /\ Readable(b.spelling)

\* Without faults, there are four reasons to answer a good vote with an error,
\* each at the moment of the answer: the row does not say voting, as it may be
\* late, the nullifier is spent, the round is finalized, or the root was printed
\* as nargo does not read it.  A root that is stale, a directory that is
\* another's, an INSERT that conflicts are no reasons.
GoodVoteIsNotRefused ==
  [][\A h \in VoteReqs :
       pc[h] # "failed" /\ pc'[h] = "failed" /\ GoodVote(body'[h]) =>
         \/ pc[h] = "new" /\ dbPhase # "voting"
         \/ ballots[body'[h].nullifier] # NoVote
         \/ chainPhase = "Finalized"
         \/ \E doc \in workspace[Dir(h)] : ~Readable(doc.form)]_vars

\* Without faults, a good vote is counted once it passed the checks on the row,
\* or voting is over before; a witness, if nargo can read the root.
GoodVoteIsCounted ==
  \A h \in VoteReqs :
    /\ GoodVote(body[h])
    /\ \/ pc[h] = "casting"
       \/ pc[h] \in {"solving", "proving"}
          /\ \E doc \in workspace[Dir(h)] : Readable(doc.form)
    ~> ballots[body[h].nullifier] # NoVote \/ chainPhase = "Finalized"
=============================================================================
