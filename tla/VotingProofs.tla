---------------------------- MODULE VotingProofs ----------------------------
(***************************************************************************)
(* Proofs about Voting, for every set of voters, choices and concurrent    *)
(* requests.                                                               *)
(*                                                                         *)
(* Every step is one of RoundMirror's or leaves it alone, so what that     *)
(* module's proofs say of the round holds here: once voting is open the    *)
(* leaves are frozen, and so are the root a request has read, the inputs   *)
(* it wrote for nargo and the proof it made of them.                       *)
(***************************************************************************)
EXTENDS Voting, CommonLemmas

\* While a request proves: the inputs in its directory are its own and current.
Proving(h) ==
  /\ call[h] = "none"
  /\ body[h].kind = "witness"
  /\ body[h].choice \in Choices
  /\ chainPhase # "Registration"
  /\ pc[h] \in {"solving", "proving"} =>
       \E form \in RootForms : workspace[h] = {DocOf(h, form)}
  /\ pc[h] = "proving" => \A doc \in workspace[h] : Solvable(doc)

\* Once it has called: it casts what it was asked for, with the proof it was given
\* or one that was made here, of the root the contract has, which nargo could read.
Called(h) ==
  /\ pc[h] \in {"casting", "done", "failed"}
  /\ chainPhase # "Registration"
  /\ body[h].choice \in Choices
  /\ proof[h] = Proof(IF body[h].kind = "witness" THEN leaves ELSE body[h].path,
                      body[h].nullifier, body[h].choice)
  /\ body[h].kind = "witness" =>
       body[h].nullifier \in Registered /\ "decimal" \in RootForms
  /\ call[h] = "ok" => ballots[body[h].nullifier] = body[h].choice
  /\ call[h] = "refused" /\ proof[h].root = leaves /\ body[h].nullifier \in Registered =>
       ballots[body[h].nullifier] # NoVote \/ chainPhase = "Finalized"

RequestInv(h) ==
  /\ pc[h] = "new" => call[h] = "none"
  /\ pc[h] \in {"reading", "solving", "proving"} => Proving(h)
  /\ pc[h] \in {"casting", "done"} => call[h] # "none"
  /\ call[h] # "none" => Called(h)
  /\ pc[h] = "done" => call[h] = "ok" /\ rows[NullifierHex(body[h])] = body[h].choice

\* A row is of a request that was answered, and its ballot.
RowInv ==
  \A n \in Voters, x \in Spellings :
    rows[<<n, x>>] # NoVote =>
      \E h \in VoteReqs :
        /\ call[h] = "ok" /\ pc[h] = "done"
        /\ NullifierHex(body[h]) = <<n, x>>
        /\ rows[<<n, x>>] = body[h].choice

\* One request at most casts the ballot of a nullifier.
OnceInv ==
  \A g, h \in VoteReqs :
    call[g] = "ok" /\ call[h] = "ok" /\ body[g].nullifier = body[h].nullifier => g = h

IInv ==
  /\ TypeOK
  /\ MirrorInv
  /\ \A h \in VoteReqs : RequestInv(h)
  /\ RowInv
  /\ OnceInv

LEMMA VotingStarts == Init => IInv
  <1> SUFFICES ASSUME Init PROVE IInv
    OBVIOUS
  <1>1. MirrorInv
    BY MirrorStarts DEF Init
  <1>2. PICK v \in Voters : /\ body = [h \in VoteReqs |-> NoBody(v)]
                            /\ proof = [h \in VoteReqs |-> NoProof(v)]
    BY DEF Init
  <1>3. /\ NoBody(v) \in [nullifier : Voters, spelling : Spellings, choice : AnyChoice,
                          secret : Voters, path : Seq(Voters), kind : AllKinds]
        /\ NoProof(v) \in [root : Seq(Voters), nullifier : Voters, choice : AnyChoice]
    BY DEF NoBody, Body, NoProof, Proof, Spellings, AnyChoice, AllKinds
  <1>4. TypeOK
    BY <1>1, <1>2, <1>3, VotingAssumption
    DEF Init, TypeOK, MirrorInv, CallStatus, PcLabels, NoWorkspaces
  <1>5. \A h \in VoteReqs : RequestInv(h)
    BY DEF Init, RequestInv
  <1>6. RowInv /\ OnceInv
    BY DEF Init, RowInv, OnceInv
  <1> QED BY <1>1, <1>4, <1>5, <1>6 DEF IInv

----------------------------------------------------------------------------
(* The steps.                                                              *)

\* What a step of h leaves to the other requests, and to the tables.
OnlyMoves(h) ==
  /\ \A g \in VoteReqs \ {h} :
       /\ pc'[g] = pc[g] /\ call'[g] = call[g] /\ body'[g] = body[g]
       /\ proof'[g] = proof[g] /\ workspace'[g] = workspace[g]
  /\ \A k \in Voters \X Spellings : rows[k] # NoVote => rows'[k] = rows[k]

LEMMA OneRequestMoves ==
  ASSUME IInv, NEW h \in VoteReqs, AnyBegin(h) \/ Vote(h) \/ LandBallot(h)
  PROVE  OnlyMoves(h)
  <1> USE DEF Goto, Dir
  <1>1. /\ pc \in [VoteReqs -> PcLabels] /\ call \in [VoteReqs -> CallStatus]
        /\ rows \in [Voters \X Spellings -> Choices \cup {NoVote}]
        /\ body \in [VoteReqs -> [nullifier : Voters, spelling : Spellings,
                                  choice : AnyChoice, secret : Voters,
                                  path : Seq(Voters), kind : AllKinds]]
        /\ proof \in [VoteReqs -> [root : Seq(Voters), nullifier : Voters, choice : AnyChoice]]
        /\ workspace \in [VoteReqs -> SUBSET ProverToml]
    BY DEF IInv, TypeOK
  <1>2. ASSUME NEW b, Begin(h, b) PROVE OnlyMoves(h)
    BY <1>1, <1>2 DEF Begin, Spawn, OnlyMoves
  <1>3. CASE ReadRoot(h)
    BY <1>1, <1>3 DEF ReadRoot, Prepare, OnlyMoves
  <1>4. CASE Solve(h)
    BY <1>1, <1>4 DEF Solve, Discard, OnlyMoves
  <1>5. CASE Prove(h)
    BY <1>1, <1>5 DEF Prove, Discard, Spawn, OnlyMoves
  <1>6. CASE Insert(h)
    <2>1. NullifierHex(body[h]) \in Voters \X Spellings
      BY <1>1 DEF NullifierHex
    <2>2. /\ UNCHANGED <<call, body, proof, workspace>>
          /\ \A g \in VoteReqs \ {h} : pc'[g] = pc[g]
      BY <1>1, <1>6 DEF Insert, InsertRow
    <2>3. \/ rows' = rows
          \/ /\ rows[NullifierHex(body[h])] = NoVote
             /\ rows' = [rows EXCEPT ![NullifierHex(body[h])] = body[h].choice]
      BY <1>6 DEF Insert, InsertRow
    <2>4. \A k \in Voters \X Spellings : rows[k] # NoVote => rows'[k] = rows[k]
      BY <1>1, <2>1, <2>3
    <2> QED BY <2>2, <2>4 DEF OnlyMoves
  <1>7. CASE Fail(h)
    BY <1>1, <1>7 DEF Fail, Discard, OnlyMoves
  <1>8. CASE LandBallot(h)
    BY <1>1, <1>8 DEF LandBallot, Land, OnlyMoves
  <1> QED BY <1>2, <1>3, <1>4, <1>5, <1>6, <1>7, <1>8 DEF AnyBegin, Vote

\* A ballot lands as one of a wallet would.
LEMMA BallotLands ==
  ASSUME IInv, NEW h \in VoteReqs, LandBallot(h)
  PROVE  dbPhase' = dbPhase /\ (VotersAct \/ UNCHANGED chain)
  <1>1. CASE UNCHANGED chain
    BY <1>1 DEF LandBallot
  <1>2. CASE MayCast(h) /\ CastVote(proof[h])
    <2>1. proof[h] \in [root : Seq(Voters), nullifier : Voters, choice : AnyChoice]
      BY DEF IInv, TypeOK
    <2>2. proof[h] = Proof(leaves, proof[h].nullifier, proof[h].choice)
      BY <1>2, <2>1 DEF MayCast, MayCastVote, Proof
    <2>3. PICK v \in Voters, c \in Choices : proof[h] = Proof(leaves, v, c)
      BY <1>2, <2>1, <2>2 DEF MayCast, MayCastVote
    <2>4. VoterVotes(v, c)
      BY <1>2, <2>3 DEF VoterVotes, MayCast, LandBallot
    <2> QED BY <2>4 DEF VotersAct, VoterVotes
  <1> QED BY <1>1, <1>2 DEF LandBallot, Land

LEMMA VotingMirrors ==
  ASSUME IInv, [Next]_vars PROVE [MirrorNext]_<<chain, dbPhase>>
  <1>1. ASSUME NEW h \in VoteReqs, AnyBegin(h) \/ Vote(h) PROVE UNCHANGED <<chain, dbPhase>>
    BY <1>1 DEF AnyBegin, Vote, Begin, ReadRoot, Solve, Prove, Insert, Fail
  <1>2. ASSUME NEW h \in VoteReqs, LandBallot(h) PROVE [MirrorNext]_<<chain, dbPhase>>
    BY <1>2, BallotLands DEF MirrorNext
  <1>3. Environment => MirrorNext
    BY DEF Environment, MirrorNext
  <1>4. UNCHANGED vars => UNCHANGED <<chain, dbPhase>>
    BY DEF vars
  <1> QED BY <1>1, <1>2, <1>3, <1>4 DEF Next

LEMMA VotingType ==
  ASSUME IInv, [Next]_vars PROVE TypeOK'
  <1> USE DEF Goto, Dir
  <1> DEFINE BodyType == [nullifier : Voters, spelling : Spellings, choice : AnyChoice,
                          secret : Voters, path : Seq(Voters), kind : AllKinds]
             ProofType == [root : Seq(Voters), nullifier : Voters, choice : AnyChoice]
  <1>1. /\ pc \in [VoteReqs -> PcLabels] /\ call \in [VoteReqs -> CallStatus]
        /\ rows \in [Voters \X Spellings -> Choices \cup {NoVote}]
        /\ body \in [VoteReqs -> BodyType]
        /\ proof \in [VoteReqs -> ProofType]
        /\ workspace \in [VoteReqs -> SUBSET ProverToml]
        /\ leaves \in Seq(Voters)
    BY DEF IInv, TypeOK, ChainTypeOK
  <1>2. ChainTypeOK' /\ dbPhase' \in DbPhases
    BY VotingMirrors, MirrorMoves DEF IInv, MirrorInv
  <1> DEFINE RestOK == /\ pc' \in [VoteReqs -> PcLabels] /\ call' \in [VoteReqs -> CallStatus]
                       /\ rows' \in [Voters \X Spellings -> Choices \cup {NoVote}]
                       /\ body' \in [VoteReqs -> BodyType]
                       /\ proof' \in [VoteReqs -> ProofType]
                       /\ workspace' \in [VoteReqs -> SUBSET ProverToml]
  <1>3. ASSUME NEW h \in VoteReqs, AnyBegin(h) PROVE RestOK
    <2>1. PICK n \in Voters, s \in Voters, x \in Spellings, c \in AnyChoice, path \in SeenLists,
               k \in Kinds : Begin(h, Body(n, x, c, s, path, k))
      BY <1>3 DEF AnyBegin
    <2>2. path \in Seq(Voters)
      <3>1. PICK m \in 0 .. Len(leaves) : path = SubSeq(leaves, 1, m)
        BY <2>1 DEF SeenLists
      <3> QED BY <1>1, <3>1
    <2> DEFINE b == Body(n, x, c, s, path, k)
    <2>3. b \in BodyType
      BY <2>2, VotingAssumption DEF Body
    <2>4. Proof(b.path, b.nullifier, b.choice) \in ProofType
      BY <2>3 DEF Proof
    <2>5. Begin(h, b)
      BY <2>1
    <2> HIDE DEF b, BodyType, ProofType
    <2>6. pc' \in [VoteReqs -> PcLabels] /\ UNCHANGED <<workspace, rows>>
      BY <1>1, <2>5 DEF Begin, PcLabels
    <2>7. call' \in [VoteReqs -> CallStatus]
      BY <1>1, <2>5 DEF Begin, Spawn, CallStatus
    <2>8. body' \in [VoteReqs -> BodyType]
      BY <1>1, <2>3, <2>5 DEF Begin
    <2>9. proof' \in [VoteReqs -> ProofType]
      BY <1>1, <2>4, <2>5 DEF Begin
    <2> QED BY <1>1, <2>6, <2>7, <2>8, <2>9
  <1>4. ASSUME NEW h \in VoteReqs, ReadRoot(h) PROVE RestOK
    <2>1. ASSUME NEW form \in RootForms PROVE DocOf(h, form) \in ProverToml
      <3>1. body[h] \in BodyType /\ body[h].choice \in Choices
        BY <1>1, <1>4 DEF ReadRoot, IInv, RequestInv, Proving
      <3> QED BY <1>1, <3>1 DEF DocOf, ProverToml
    <2> QED BY <1>1, <1>4, <2>1 DEF ReadRoot, Prepare, PcLabels
  <1>5. ASSUME NEW h \in VoteReqs, Solve(h) PROVE RestOK
    BY <1>1, <1>5 DEF Solve, Discard, PcLabels
  <1>6. ASSUME NEW h \in VoteReqs, Prove(h) PROVE RestOK
    <2>1. PICK doc \in workspace[h] : proof' = [proof EXCEPT ![h] = ProofOf(doc)]
      BY <1>6 DEF Prove
    <2>2. ProofOf(doc) \in ProofType
      <3>1. doc \in ProverToml
        BY <1>1
      <3> QED BY <3>1 DEF ProofOf, Proof, ProverToml, AnyChoice
    <2>3. proof' \in [VoteReqs -> ProofType]
      BY <1>1, <2>1, <2>2
    <2> QED BY <1>1, <1>6, <2>3 DEF Prove, Discard, Spawn, CallStatus, PcLabels
  <1>7. ASSUME NEW h \in VoteReqs, Insert(h) PROVE RestOK
    <2>1. body[h].choice \in Choices /\ NullifierHex(body[h]) \in Voters \X Spellings
      BY <1>1, <1>7 DEF Insert, SeesOk, IInv, RequestInv, Called, NullifierHex
    <2>2. rows' \in [Voters \X Spellings -> Choices \cup {NoVote}]
      BY <1>1, <1>7, <2>1 DEF Insert, InsertRow
    <2> QED BY <1>1, <1>7, <2>2 DEF Insert, InsertRow, PcLabels
  <1>8. ASSUME NEW h \in VoteReqs, Fail(h) PROVE RestOK
    BY <1>1, <1>8 DEF Fail, Discard, PcLabels
  <1>9. ASSUME NEW h \in VoteReqs, LandBallot(h) PROVE RestOK
    BY <1>1, <1>9 DEF LandBallot, Land, CallStatus
  <1>10. UNCHANGED <<call, workspace, rows, pc, body, proof>> => RestOK
    BY <1>1
  <1>11. RestOK
    <2> HIDE DEF RestOK
    <2> QED BY <1>3, <1>4, <1>5, <1>6, <1>7, <1>8, <1>9, <1>10
        DEF Next, Vote, Environment, vars
  <1> QED BY <1>2, <1>11 DEF TypeOK

\* What is so of a request stays so unless it moves itself: the leaves are
\* frozen before it reads them, and a ballot is final.
LEMMA RequestFrame ==
  ASSUME IInv, [Next]_vars, NEW g \in VoteReqs,
         pc'[g] = pc[g], call'[g] = call[g], body'[g] = body[g],
         proof'[g] = proof[g], workspace'[g] = workspace[g],
         rows[NullifierHex(body[g])] # NoVote =>
           rows'[NullifierHex(body[g])] = rows[NullifierHex(body[g])]
  PROVE  RequestInv(g)'
  <1>1. /\ Registered \subseteq Registered'
        /\ chainPhase # "Registration" => chainPhase' # "Registration" /\ leaves' = leaves
        /\ \A n \in Voters : ballots[n] # NoVote => ballots'[n] = ballots[n]
        /\ chainPhase = "Finalized" => chainPhase' = "Finalized"
    BY VotingMirrors, RoundGoesForward DEF IInv, MirrorInv
  <1>2. RequestInv(g) /\ body[g].nullifier \in Voters
    BY DEF IInv, TypeOK
  <1>3. \A c \in Choices : c # NoVote
    BY ContractAssumption
  <1>4. chainPhase # "Registration" => \A form \in RootForms : DocOf(g, form)' = DocOf(g, form)
    BY <1>1 DEF DocOf
  <1>5. pc[g] \in {"reading", "solving", "proving"} => Proving(g)'
    <2> SUFFICES ASSUME pc[g] \in {"reading", "solving", "proving"} PROVE Proving(g)'
      OBVIOUS
    <2>1. Proving(g) /\ \A form \in RootForms : DocOf(g, form)' = DocOf(g, form)
      BY <1>2, <1>4 DEF RequestInv, Proving
    <2> QED BY <1>1, <2>1 DEF Proving
  <1>6. call[g] # "none" => Called(g)'
    <2> SUFFICES ASSUME call[g] # "none" PROVE Called(g)'
      OBVIOUS
    <2>1. Called(g)
      BY <1>2 DEF RequestInv
    <2>2. leaves' = leaves /\ Registered' = Registered /\ chainPhase' # "Registration"
      BY <1>1, <2>1 DEF Called, Registered
    <2>3. call[g] = "ok" => ballots'[body[g].nullifier] = body[g].choice
      BY <1>1, <1>2, <1>3, <2>1 DEF Called
    <2>4. call[g] = "refused" /\ proof[g].root = leaves /\ body[g].nullifier \in Registered =>
            ballots'[body[g].nullifier] # NoVote \/ chainPhase' = "Finalized"
      BY <1>1, <1>2, <2>1 DEF Called
    <2> QED BY <2>1, <2>2, <2>3, <2>4 DEF Called, Proof
  <1>7. pc[g] = "done" => rows'[NullifierHex(body[g])] = body[g].choice
    BY <1>2, <1>3 DEF RequestInv, Called
  <1> QED BY <1>2, <1>5, <1>6, <1>7 DEF RequestInv, NullifierHex

\* A step of a request keeps what is so of it.
LEMMA OwnStep ==
  ASSUME IInv, [Next]_vars, NEW h \in VoteReqs, AnyBegin(h) \/ Vote(h) \/ LandBallot(h)
  PROVE  RequestInv(h)'
  <1> USE DEF Goto, Dir
  <1> DEFINE BodyType == [nullifier : Voters, spelling : Spellings, choice : AnyChoice,
                          secret : Voters, path : Seq(Voters), kind : AllKinds]
             ProofType == [root : Seq(Voters), nullifier : Voters, choice : AnyChoice]
  <1>1. /\ pc \in [VoteReqs -> PcLabels] /\ call \in [VoteReqs -> CallStatus]
        /\ rows \in [Voters \X Spellings -> Choices \cup {NoVote}]
        /\ body \in [VoteReqs -> BodyType]
        /\ proof \in [VoteReqs -> ProofType]
        /\ workspace \in [VoteReqs -> SUBSET ProverToml]
        /\ ballots \in [Voters -> Choices \cup {NoVote}]
        /\ RequestInv(h) /\ MirrorInv
    BY DEF IInv, TypeOK, ChainTypeOK
  <1>2. \A c \in Choices : c # NoVote
    BY ContractAssumption
  <1> HIDE DEF BodyType, ProofType
  <1>3. ASSUME NEW b, Begin(h, b) PROVE RequestInv(h)'
    <2>1. pc[h] = "new" /\ call[h] = "none" /\ UNCHANGED <<chain, workspace, rows>>
      BY <1>1, <1>3 DEF Begin, RequestInv
    <2>2. CASE ~Acceptable(b)
      <3>1. pc'[h] = "failed" /\ UNCHANGED call
        BY <1>1, <1>3, <2>2 DEF Begin
      <3> QED BY <2>1, <3>1 DEF RequestInv
    <2>3. Acceptable(b) => chainPhase' # "Registration"
      BY <1>1, <2>1, RowTellsPhase DEF Acceptable, chain
    <2>4. CASE Acceptable(b) /\ b.kind = "witness"
      <3>1. pc'[h] = "reading" /\ body'[h] = b /\ UNCHANGED call
        BY <1>1, <1>3, <2>4 DEF Begin
      <3> QED BY <2>1, <2>3, <2>4, <3>1 DEF RequestInv, Proving, Acceptable
    <2>5. CASE Acceptable(b) /\ b.kind = "proof"
      <3>1. /\ pc'[h] = "casting" /\ body'[h] = b /\ call'[h] = "running"
            /\ proof'[h] = Proof(b.path, b.nullifier, b.choice)
        BY <1>1, <1>3, <2>5 DEF Begin, Spawn
      <3> QED BY <2>1, <2>3, <2>5, <3>1 DEF RequestInv, Called, Acceptable
    <2> QED BY <1>3, <2>2, <2>4, <2>5 DEF Begin
  <1>4. CASE ReadRoot(h)
    <2>1. /\ pc[h] = "reading" /\ pc'[h] = "solving"
          /\ \E form \in RootForms : workspace'[h] = {DocOf(h, form)}
          /\ UNCHANGED <<call, body, rows>> /\ UNCHANGED chain
      BY <1>1, <1>4 DEF ReadRoot, Prepare
    <2>2. \A form \in RootForms : DocOf(h, form)' = DocOf(h, form)
      BY <2>1 DEF DocOf, chain
    <2> QED BY <1>1, <2>1, <2>2 DEF RequestInv, Proving, chain
  <1>5. CASE Solve(h)
    <2>1. /\ pc[h] = "solving" /\ UNCHANGED <<call, body, rows>> /\ UNCHANGED chain
          /\ \/ pc'[h] = "failed"
             \/ /\ pc'[h] = "proving" /\ UNCHANGED workspace
                /\ \E doc \in workspace[h] : Solvable(doc)
      BY <1>1, <1>5 DEF Solve
    <2>2. Proving(h)
      BY <1>1, <2>1 DEF RequestInv
    <2>3. \A form \in RootForms : DocOf(h, form)' = DocOf(h, form)
      BY <2>1 DEF DocOf, chain
    <2>4. ASSUME pc'[h] = "proving" PROVE \A doc \in workspace'[h] : Solvable(doc)
      BY <2>1, <2>2, <2>4 DEF Proving
    <2> QED BY <2>1, <2>2, <2>3, <2>4 DEF RequestInv, Proving, chain
  <1>6. CASE Prove(h)
    <2>1. /\ pc[h] = "proving" /\ pc'[h] = "casting" /\ call'[h] = "running"
          /\ UNCHANGED <<body, rows>> /\ UNCHANGED chain
          /\ \E doc \in workspace[h] : proof'[h] = ProofOf(doc)
      BY <1>1, <1>6 DEF Prove, Spawn
    <2>2. Proving(h)
      BY <1>1, <2>1 DEF RequestInv
    <2>3. PICK form \in RootForms : workspace[h] = {DocOf(h, form)}
      BY <2>1, <2>2 DEF Proving
    <2>4. Solvable(DocOf(h, form))
      BY <2>1, <2>2, <2>3 DEF Proving
    <2>5. proof'[h] = Proof(leaves, body[h].nullifier, body[h].choice)
      BY <2>1, <2>3 DEF ProofOf, DocOf
    <2>6. body[h].nullifier \in Registered
      BY <2>4 DEF Solvable, DocOf, ComputeNullifier, Registered
    <2>7. "decimal" \in RootForms
      BY <2>4, ProofServiceAssumption DEF Solvable, DocOf, Readable
    <2> QED BY <2>1, <2>2, <2>5, <2>6, <2>7 DEF RequestInv, Called, Proving, chain, Registered
  <1>7. CASE Insert(h)
    <2>1. /\ pc[h] = "casting" /\ call[h] = "ok"
          /\ UNCHANGED <<call, body, proof>> /\ UNCHANGED chain
          /\ \/ pc'[h] = "failed"
             \/ /\ pc'[h] = "done"
                /\ rows' = [rows EXCEPT ![NullifierHex(body[h])] = body[h].choice]
      BY <1>1, <1>7 DEF Insert, InsertRow, SeesOk
    <2>2. NullifierHex(body[h]) \in Voters \X Spellings
      BY <1>1 DEF NullifierHex, BodyType
    <2>3. pc'[h] = "done" => rows'[NullifierHex(body[h])] = body[h].choice
      BY <1>1, <2>1, <2>2
    <2>4. Called(h)'
      BY <1>1, <2>1 DEF RequestInv, Called, chain, Registered, Proof
    <2> QED BY <2>1, <2>3, <2>4 DEF RequestInv, NullifierHex
  <1>8. CASE Fail(h)
    <2>1. /\ pc[h] \notin {"new", "done"} /\ pc'[h] = "failed"
          /\ UNCHANGED <<call, body, proof>> /\ UNCHANGED chain
      BY <1>1, <1>8 DEF Fail
    <2>2. call[h] # "none" => Called(h)'
      BY <1>1, <2>1 DEF RequestInv, Called, chain, Registered, Proof
    <2> QED BY <2>1, <2>2 DEF RequestInv
  <1>9. CASE LandBallot(h)
    <2>1. /\ call[h] = "running" /\ UNCHANGED <<pc, body, proof, rows>>
      BY <1>9 DEF LandBallot, Land
    <2>2. Called(h) /\ pc[h] \in {"casting", "failed"}
      BY <1>1, <2>1 DEF RequestInv, Called
    <2>3. CASE MayCast(h) /\ CastVote(proof[h]) /\ call'[h] = "ok"
      <3>1. body[h].nullifier \in Voters
        BY <1>1 DEF BodyType
      <3>2. ballots'[body[h].nullifier] = body[h].choice /\ UNCHANGED <<chainPhase, leaves>>
        BY <1>1, <2>3, <3>1 DEF MayCast, CastVote
      <3> QED BY <2>1, <2>2, <2>3, <3>2 DEF RequestInv, Called, Proof, Registered
    <2>4. CASE ~MayCast(h) /\ UNCHANGED chain /\ call'[h] = "refused"
      <3>1. proof[h].root = leaves /\ body[h].nullifier \in Registered =>
              ballots[body[h].nullifier] # NoVote \/ chainPhase = "Finalized"
        BY <1>1, <2>2, <2>4
        DEF Called, MayCast, MayCastVote, Proof, MirrorInv, ChainTypeOK, Phases
      <3> QED BY <2>1, <2>2, <2>4, <3>1 DEF RequestInv, Called, Proof, Registered, chain
    <2> QED BY <1>1, <1>9, <2>3, <2>4 DEF LandBallot, Land
  <1> QED BY <1>3, <1>4, <1>5, <1>6, <1>7, <1>8, <1>9 DEF AnyBegin, Vote

LEMMA EachRequest ==
  ASSUME IInv, [Next]_vars, NEW g \in VoteReqs PROVE RequestInv(g)'
  <1>0. NullifierHex(body[g]) \in Voters \X Spellings
    BY DEF IInv, TypeOK, NullifierHex
  <1>1. ASSUME NEW h \in VoteReqs, AnyBegin(h) \/ Vote(h) \/ LandBallot(h)
        PROVE  RequestInv(g)'
    <2>1. CASE g = h
      BY <1>1, <2>1, OwnStep
    <2>2. CASE g # h
      BY <1>0, <1>1, <2>2, OneRequestMoves, RequestFrame DEF OnlyMoves
    <2> QED BY <2>1, <2>2
  <1>2. CASE UNCHANGED <<call, workspace, rows, pc, body, proof>>
    BY <1>2, RequestFrame
  <1> QED BY <1>1, <1>2 DEF Next, Environment, vars

\* Who has called keeps its request; who is done does nothing more; and a call
\* becomes ok when its ballot is cast, of a nullifier that was not spent.
LEMMA AfterCall ==
  ASSUME IInv, [Next]_vars, NEW g \in VoteReqs
  PROVE  /\ call[g] # "none" => body'[g] = body[g]
         /\ pc[g] = "done" => pc'[g] = "done" /\ call'[g] = call[g]
         /\ call'[g] = "ok" =>
              \/ call[g] = "ok"
              \/ /\ call[g] = "running"
                 /\ ballots[body[g].nullifier] = NoVote
                 /\ \A h \in VoteReqs \ {g} : call'[h] = call[h] /\ body'[h] = body[h]
  <1> USE DEF Goto
  <1>1. /\ pc \in [VoteReqs -> PcLabels] /\ call \in [VoteReqs -> CallStatus]
        /\ RequestInv(g)
    BY DEF IInv, TypeOK
  <1>2. CASE AnyBegin(g) \/ Vote(g) \/ LandBallot(g)
    <2>1. ASSUME NEW b, Begin(g, b)
          PROVE  pc[g] = "new" /\ call[g] = "none" /\ call'[g] # "ok"
      BY <1>1, <2>1 DEF Begin, Spawn, RequestInv
    <2>2. CASE ReadRoot(g) \/ Solve(g)
      BY <2>2 DEF ReadRoot, Solve
    <2>3. CASE Prove(g)
      BY <1>1, <2>3 DEF Prove, Spawn
    <2>4. CASE Insert(g) \/ Fail(g)
      BY <2>4 DEF Insert, Fail
    <2>5. CASE LandBallot(g)
      <3>1. /\ call[g] = "running" /\ UNCHANGED <<pc, body>>
            /\ call'[g] = "ok" => MayCast(g)
            /\ \A h \in VoteReqs \ {g} : call'[h] = call[h] /\ body'[h] = body[h]
        BY <1>1, <2>5 DEF LandBallot, Land
      <3>2. pc[g] # "done"
        BY <1>1, <3>1 DEF RequestInv
      <3> QED BY <3>1, <3>2 DEF MayCast, MayCastVote
    <2> QED BY <1>1, <1>2, <2>1, <2>2, <2>3, <2>4, <2>5 DEF AnyBegin, Vote
  <1>3. ASSUME NEW h \in VoteReqs, AnyBegin(h) \/ Vote(h) \/ LandBallot(h), g # h
        PROVE  pc'[g] = pc[g] /\ call'[g] = call[g] /\ body'[g] = body[g]
    BY <1>3, OneRequestMoves DEF OnlyMoves
  <1>4. UNCHANGED <<call, workspace, rows, pc, body, proof>>
          => pc'[g] = pc[g] /\ call'[g] = call[g] /\ body'[g] = body[g]
    OBVIOUS
  <1> QED BY <1>2, <1>3, <1>4 DEF Next, Environment, vars

LEMMA OnceStays ==
  ASSUME IInv, [Next]_vars PROVE OnceInv'
  <1> SUFFICES ASSUME NEW g \in VoteReqs, NEW h \in VoteReqs, g # h,
                      call'[g] = "ok", call'[h] = "ok",
                      body'[g].nullifier = body'[h].nullifier
               PROVE  FALSE
    BY DEF OnceInv
  <1>1. \A x \in VoteReqs : call[x] = "ok" =>
          ballots[body[x].nullifier] # NoVote /\ body'[x] = body[x]
    <2> SUFFICES ASSUME NEW x \in VoteReqs, call[x] = "ok"
                 PROVE  ballots[body[x].nullifier] # NoVote /\ body'[x] = body[x]
      OBVIOUS
    <2>1. Called(x)
      BY DEF IInv, RequestInv
    <2> QED BY <2>1, AfterCall, ContractAssumption DEF Called
  <1>2. CASE call[g] = "ok" /\ call[h] = "ok"
    BY <1>1, <1>2 DEF IInv, OnceInv
  <1>3. CASE call[g] # "ok"
    <2>1. /\ call[g] = "running" /\ ballots[body[g].nullifier] = NoVote
          /\ call[h] = "ok" /\ body'[h] = body[h]
      BY <1>3, AfterCall
    <2>2. body'[g] = body[g]
      BY <2>1, AfterCall
    <2> QED BY <1>1, <2>1, <2>2
  <1>4. CASE call[h] # "ok"
    <2>1. /\ call[h] = "running" /\ ballots[body[h].nullifier] = NoVote
          /\ call[g] = "ok" /\ body'[g] = body[g]
      BY <1>4, AfterCall
    <2>2. body'[h] = body[h]
      BY <2>1, AfterCall
    <2> QED BY <1>1, <2>1, <2>2
  <1> QED BY <1>2, <1>3, <1>4

LEMMA RowsStay ==
  ASSUME IInv, [Next]_vars PROVE RowInv'
  <1> SUFFICES ASSUME NEW n \in Voters, NEW x \in Spellings, rows'[<<n, x>>] # NoVote
               PROVE  \E h \in VoteReqs :
                        /\ call'[h] = "ok" /\ pc'[h] = "done"
                        /\ NullifierHex(body'[h]) = <<n, x>>
                        /\ rows'[<<n, x>>] = body'[h].choice
    BY DEF RowInv, NullifierHex
  <1>1. /\ rows \in [Voters \X Spellings -> Choices \cup {NoVote}]
        /\ pc \in [VoteReqs -> PcLabels]
    BY DEF IInv, TypeOK
  <1>2. CASE rows[<<n, x>>] # NoVote
    <2>1. PICK h \in VoteReqs : /\ call[h] = "ok" /\ pc[h] = "done"
                                /\ NullifierHex(body[h]) = <<n, x>>
                                /\ rows[<<n, x>>] = body[h].choice
      BY <1>2 DEF IInv, RowInv
    <2>2. call'[h] = "ok" /\ pc'[h] = "done" /\ body'[h] = body[h]
      BY <2>1, AfterCall
    <2>3. rows'[<<n, x>>] = rows[<<n, x>>]
      <3>1. ASSUME NEW g \in VoteReqs, AnyBegin(g) \/ Vote(g) \/ LandBallot(g)
            PROVE  rows'[<<n, x>>] = rows[<<n, x>>]
        BY <1>2, <3>1, OneRequestMoves DEF OnlyMoves
      <3> QED BY <3>1 DEF Next, Environment, vars
    <2> QED BY <2>1, <2>2, <2>3
  <1>3. CASE rows[<<n, x>>] = NoVote
    <2>1. PICK h \in VoteReqs : Insert(h)
      BY <1>3
      DEF Next, AnyBegin, Begin, Vote, ReadRoot, Solve, Prove, Fail, LandBallot, Environment, vars
    <2>2. /\ call[h] = "ok" /\ UNCHANGED <<call, body>>
          /\ rows' = [rows EXCEPT ![NullifierHex(body[h])] = body[h].choice]
          /\ pc' = [pc EXCEPT ![h] = "done"]
      BY <1>3, <2>1 DEF Insert, InsertRow, SeesOk, Goto
    <2>3. NullifierHex(body[h]) = <<n, x>>
      BY <1>1, <1>3, <2>2
    <2> QED BY <1>1, <2>2, <2>3
  <1> QED BY <1>2, <1>3

LEMMA VotingStep == IInv /\ [Next]_vars => IInv'
  <1> SUFFICES ASSUME IInv, [Next]_vars PROVE IInv'
    OBVIOUS
  <1>1. MirrorInv'
    BY VotingMirrors, MirrorMoves DEF IInv
  <1> QED BY <1>1, VotingType, EachRequest, RowsStay, OnceStays DEF IInv

LEMMA VotingInvariant == Spec => []IInv
  BY VotingStarts, VotingStep, PTL DEF Spec

----------------------------------------------------------------------------
(* The theorems.                                                           *)

\* Every variable keeps its type (cast_vote and the tables it writes).
THEOREM TypeCorrect == Spec => []TypeOK
  BY VotingInvariant, PTL DEF IInv

\* The ballots table mirrors the chain, and every 200 is of a counted ballot
\* (cast_vote inserts behind the call it awaits).
THEOREM MirrorsBallots == Spec => []RowsAreBallots
  <1>1. IInv => RowsAreBallots
    <2> SUFFICES ASSUME IInv PROVE RowsAreBallots
      OBVIOUS
    <2>1. ASSUME NEW n \in Voters, NEW x \in Spellings, rows[<<n, x>>] # NoVote
          PROVE  rows[<<n, x>>] = ballots[n]
      <3>1. PICK h \in VoteReqs : /\ call[h] = "ok"
                                  /\ NullifierHex(body[h]) = <<n, x>>
                                  /\ rows[<<n, x>>] = body[h].choice
        BY <2>1 DEF IInv, RowInv
      <3>2. Called(h)
        BY <3>1 DEF IInv, RequestInv
      <3>3. body[h].nullifier = n
        BY <3>1 DEF NullifierHex
      <3> QED BY <3>1, <3>2, <3>3 DEF Called
    <2>2. \A h \in VoteReqs : pc[h] = "done" => rows[NullifierHex(body[h])] = body[h].choice
      BY DEF IInv, RequestInv
    <2> QED BY <2>1, <2>2 DEF RowsAreBallots
  <1> QED BY <1>1, VotingInvariant, PTL

\* The UNIQUE (round_id, nullifier_hex) is never met, in any spelling: the
\* contract has spent the nullifier once, for one request.
THEOREM InsertIsFree == Spec => []InsertNeverConflicts
  <1>1. IInv => InsertNeverConflicts
    <2> SUFFICES ASSUME IInv, NEW h \in VoteReqs, pc[h] = "casting", call[h] = "ok",
                        NEW x \in Spellings, rows[<<body[h].nullifier, x>>] # NoVote
                 PROVE  FALSE
      BY DEF InsertNeverConflicts
    <2>1. PICK n \in Voters : n = body[h].nullifier
      BY DEF IInv, TypeOK
    <2>2. PICK g \in VoteReqs : /\ call[g] = "ok" /\ pc[g] = "done"
                                /\ NullifierHex(body[g]) = <<n, x>>
      BY <2>1 DEF IInv, RowInv
    <2>3. body[g].nullifier = body[h].nullifier
      BY <2>1, <2>2 DEF NullifierHex
    <2> QED BY <2>2, <2>3 DEF IInv, OnceInv
  <1> QED BY <1>1, VotingInvariant, PTL

\* A proof made by the server is never refused for being a bad one: the root it
\* was made for, read by get_round before, is the contract's still.
THEOREM ProofIsCurrent == Spec => []ServerProofIsCurrent
  <1>1. IInv => ServerProofIsCurrent
    <2> SUFFICES ASSUME IInv, NEW h \in VoteReqs,
                        body[h].kind = "witness", call[h] = "refused"
                 PROVE  ballots[body[h].nullifier] # NoVote \/ chainPhase = "Finalized"
      BY DEF ServerProofIsCurrent
    <2>1. Called(h)
      BY DEF IInv, RequestInv
    <2> QED BY <2>1 DEF Called, Proof
  <1> QED BY <1>1, VotingInvariant, PTL

\* Without faults, a request that failed has no call that was or will be
\* included (each ? of cast_vote comes before the call or reports its refusal;
\* the one behind it, of the INSERT, never does).
THEOREM ErrorIsNotCast == Faulty = FALSE => (Spec => []ErrorMeansNotCast)
  <1> SUFFICES ASSUME Faulty = FALSE PROVE Spec => []ErrorMeansNotCast
    OBVIOUS
  <1> DEFINE FailedInv == \A h \in VoteReqs : pc[h] = "failed" => call[h] \in {"none", "refused"}
  <1>1. Init => FailedInv
    BY DEF Init
  <1>2. IInv /\ InsertNeverConflicts /\ FailedInv /\ [Next]_vars => FailedInv'
    <2> SUFFICES ASSUME IInv, InsertNeverConflicts, FailedInv, [Next]_vars,
                        NEW g \in VoteReqs, pc'[g] = "failed"
                 PROVE  call'[g] \in {"none", "refused"}
      OBVIOUS
    <2> USE DEF Goto
    <2>1. /\ pc \in [VoteReqs -> PcLabels] /\ call \in [VoteReqs -> CallStatus]
          /\ RequestInv(g)
          /\ body[g].spelling \in Spellings
      BY DEF IInv, TypeOK
    <2>2. CASE AnyBegin(g) \/ Vote(g) \/ LandBallot(g)
      <3>1. ASSUME NEW b, Begin(g, b) PROVE call'[g] = "none"
        BY <2>1, <3>1 DEF Begin, RequestInv
      <3>2. CASE ReadRoot(g) \/ Solve(g) \/ Prove(g)
        BY <2>1, <3>2 DEF ReadRoot, Solve, Prove, RequestInv, Proving
      <3>3. ~Insert(g)
        <4>1. pc[g] = "casting" /\ call[g] = "ok" => rows[NullifierHex(body[g])] = NoVote
          BY <2>1 DEF InsertNeverConflicts, NullifierHex
        <4> QED BY <2>1, <4>1 DEF Insert, InsertRow, SeesOk
      <3>4. CASE Fail(g)
        BY <2>1, <3>4 DEF Fail, SeesErr
      <3>5. CASE LandBallot(g)
        BY <2>1, <3>5 DEF LandBallot, Land
      <3> QED BY <2>2, <3>1, <3>2, <3>3, <3>4, <3>5 DEF AnyBegin, Vote
    <2>3. ASSUME NEW h \in VoteReqs, AnyBegin(h) \/ Vote(h) \/ LandBallot(h), g # h
          PROVE  call'[g] \in {"none", "refused"}
      BY <2>3, OneRequestMoves DEF OnlyMoves
    <2>4. UNCHANGED <<call, workspace, rows, pc, body, proof>> => call'[g] \in {"none", "refused"}
      OBVIOUS
    <2> QED BY <2>2, <2>3, <2>4 DEF Next, Environment, vars
  <1>3. FailedInv => ErrorMeansNotCast
    BY DEF ErrorMeansNotCast
  <1> HIDE DEF FailedInv
  <1> QED BY <1>1, <1>2, <1>3, VotingInvariant, InsertIsFree, PTL DEF Spec

\* Without faults, a good vote is answered with an error for four reasons only
\* (cast_vote reads the row before and the root after it is asked, prove works on
\* the root that get_round gave it, and the call on the proof prove made).  That
\* it is answered at all, GoodVoteIsCounted, is liveness, and TLC's.
THEOREM GoodVoteGoesThrough == Faulty = FALSE => (Spec => GoodVoteIsNotRefused)
  <1> SUFFICES ASSUME Faulty = FALSE PROVE Spec => GoodVoteIsNotRefused
    OBVIOUS
  <1> DEFINE Reason(h) == \/ pc[h] = "new" /\ dbPhase # "voting"
                          \/ ballots[body'[h].nullifier] # NoVote
                          \/ chainPhase = "Finalized"
                          \/ \E doc \in workspace[Dir(h)] : ~Readable(doc.form)
             NotRefused == \A h \in VoteReqs :
               pc[h] # "failed" /\ pc'[h] = "failed" /\ GoodVote(body'[h]) => Reason(h)
  <1>1. IInv /\ InsertNeverConflicts /\ [Next]_vars => NotRefused
    <2> SUFFICES ASSUME IInv, InsertNeverConflicts, [Next]_vars, NEW g \in VoteReqs,
                        pc[g] # "failed", pc'[g] = "failed", GoodVote(body'[g])
                 PROVE  Reason(g)
      OBVIOUS
    <2> USE DEF Goto
    <2>1. /\ pc \in [VoteReqs -> PcLabels] /\ RequestInv(g)
          /\ body \in [VoteReqs -> [nullifier : Voters, spelling : Spellings,
                                    choice : AnyChoice, secret : Voters,
                                    path : Seq(Voters), kind : AllKinds]]
      BY DEF IInv, TypeOK
    <2>2. ASSUME NEW b, Begin(g, b) PROVE Reason(g)
      <3>1. pc[g] = "new" /\ body'[g] = b
        BY <2>1, <2>2 DEF Begin
      <3>2. ~Acceptable(b)
        BY <2>1, <2>2 DEF Begin
      <3>3. dbPhase # "voting"
        BY <3>1, <3>2 DEF Acceptable, GoodVote, HexEq, ComputeNullifier
      <3> QED BY <3>1, <3>3
    <2>3. CASE ReadRoot(g) \/ Prove(g)
      BY <2>1, <2>3 DEF ReadRoot, Prove
    <2>4. CASE Solve(g)
      <3>1. pc[g] = "solving" /\ body' = body /\ ~(\E doc \in workspace[g] : Solvable(doc))
        BY <2>1, <2>4 DEF Solve, Dir
      <3>2. Proving(g)
        BY <2>1, <3>1 DEF RequestInv
      <3>3. PICK form \in RootForms : workspace[g] = {DocOf(g, form)}
        BY <3>1, <3>2 DEF Proving
      <3>4. ~Readable(form)
        BY <3>1, <3>2, <3>3
        DEF Proving, GoodVote, Solvable, DocOf, Registered, ComputeNullifier
      <3>5. DocOf(g, form) \in workspace[Dir(g)] /\ DocOf(g, form).form = form
        BY <3>3 DEF DocOf, Dir
      <3> QED BY <3>4, <3>5
    <2>5. ~Insert(g)
      <3>1. pc[g] = "casting" /\ call[g] = "ok" => rows[NullifierHex(body[g])] = NoVote
        BY <2>1 DEF InsertNeverConflicts, NullifierHex
      <3> QED BY <2>1, <3>1 DEF Insert, InsertRow, SeesOk
    <2>6. CASE Fail(g)
      <3>1. call[g] = "refused" /\ body' = body
        BY <2>6 DEF Fail, SeesErr
      <3>2. Called(g)
        BY <2>1, <3>1 DEF RequestInv
      <3>3. proof[g].root = leaves /\ body[g].nullifier \in Registered
        BY <3>1, <3>2 DEF Called, GoodVote, Proof
      <3> QED BY <3>1, <3>2, <3>3 DEF Called
    <2>7. CASE LandBallot(g)
      BY <2>7 DEF LandBallot
    <2>8. ASSUME NEW h \in VoteReqs, AnyBegin(h) \/ Vote(h) \/ LandBallot(h), g # h
          PROVE  FALSE
      BY <2>8, OneRequestMoves DEF OnlyMoves
    <2> HIDE DEF Reason
    <2> QED BY <2>2, <2>3, <2>4, <2>5, <2>6, <2>7, <2>8
        DEF Next, AnyBegin, Vote, Environment, vars
  <1>2. NotRefused => [NotRefused]_vars
    OBVIOUS
  <1> HIDE DEF NotRefused
  <1>3. Spec => [][NotRefused]_vars
    BY <1>1, VotingInvariant, InsertIsFree, PTL DEF Spec
  <1> QED BY <1>3 DEF NotRefused, GoodVoteIsNotRefused

\* If the CLI prints the root without 0x, as soroban_client.rs says it prints a
\* BytesN, no request that brings a witness ever casts a vote, with faults or
\* without (write_prover_toml hands the root to nargo as it came).
THEOREM BareRootIsNeverProved == RootForms = {"bare"} => (Spec => []WitnessIsNotCast)
  <1> SUFFICES ASSUME RootForms = {"bare"} PROVE Spec => []WitnessIsNotCast
    OBVIOUS
  <1>1. IInv => WitnessIsNotCast
    BY DEF IInv, RequestInv, Called, WitnessIsNotCast
  <1> QED BY <1>1, VotingInvariant, PTL
=============================================================================
