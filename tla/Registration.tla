---------------------------- MODULE Registration ----------------------------
(***************************************************************************)
(* POST /voters/register (src/routes/voters.rs) for one round: the relay   *)
(* of a transaction the voter's wallet signed, the leaf index read back    *)
(* from registered_count, and the voter_registrations table, the leaf list *)
(* that GET /rounds/{id}/registrations serves.                             *)
(*                                                                         *)
(* A request carries the envelope its voter signed for this round.  Voters *)
(* also register without this backend, which has no part in the contract's *)
(* register; and they repeat a request, with the same envelope, when they  *)
(* got no answer.                                                          *)
(***************************************************************************)
EXTENDS RoundMirror, SorobanClient, Integers

CONSTANT RegReqs  \* the POST /voters/register requests

VARIABLES
  leafIndex,  \* voter_registrations: voter -> leaf_index, or NoRow
  pc,         \* where each request is
  who,        \* the voter of each request
  count       \* the registered_count a request has read back

vars == <<chain, call, dbPhase, leafIndex, pc, who, count>>

NoRow == -1

Listed == {v \in Voters : leafIndex[v] # NoRow}

\* leaf_index of the contract's Registered event.
Position(v) == (CHOOSE i \in 1 .. Len(leaves) : leaves[i] = v) - 1

Goto(h, label) == pc' = [pc EXCEPT ![h] = label]

InFlight(h) == pc[h] \in {"relaying", "inserting"}

Init ==
  /\ MirrorInit
  /\ call = [h \in RegReqs |-> "none"]
  /\ leafIndex = [v \in Voters |-> NoRow]
  /\ pc = [h \in RegReqs |-> "new"]
  /\ who \in [RegReqs -> Voters]
  /\ count = [h \in RegReqs |-> 0]

----------------------------------------------------------------------------
(* Mistakes that the properties tell from the code: none is part of Next.  *)

\* The count is taken for the index.
IndexIsCount(n) == n

\* leaf_index is not unique.
UpsertNotUnique(h) ==
  /\ pc[h] = "inserting"
  /\ leafIndex' = [leafIndex EXCEPT ![who[h]] = IF count[h] = 0 THEN 0 ELSE count[h] - 1]
  /\ Goto(h, "done")
  /\ UNCHANGED <<chain, call, dbPhase, who, count>>

----------------------------------------------------------------------------
(* register.                                                               *)

\* fetch_round, then 409 unless the row is in registration; else the relay.
CheckPhase(h) ==
  /\ pc[h] = "new"
  /\ IF dbPhase = "registration"
       THEN Spawn(h) /\ Goto(h, "relaying")
       ELSE UNCHANGED call /\ Goto(h, "failed")
  /\ UNCHANGED <<chain, dbPhase, leafIndex, who, count>>

LandRelay(h) ==
  /\ Land(h, MayRegister(who[h]), Register(who[h]), chain)
  /\ UNCHANGED <<dbPhase, leafIndex, pc, who, count>>

\* The network knows the envelope, included before, and calls it sent.
LandAgain(h) ==
  /\ call[h] = "running"
  /\ who[h] \in Registered
  /\ call' = [call EXCEPT ![h] = "ok"]
  /\ UNCHANGED <<chain, dbPhase, leafIndex, pc, who, count>>

\* The relay succeeded; then get_round, in a call of its own.
ReadCount(h) ==
  /\ pc[h] = "relaying"
  /\ SeesOk(h)
  /\ count' = [count EXCEPT ![h] = RegisteredCount]
  /\ Goto(h, "inserting")
  /\ UNCHANGED <<chain, call, dbPhase, leafIndex, who>>

\* registered_count.saturating_sub(1)
IndexFrom(n) == IF n = 0 THEN 0 ELSE n - 1

\* INSERT .. ON CONFLICT (round_id, voter_address) DO UPDATE: the voter's own
\* row is replaced, but UNIQUE (round_id, leaf_index) of another is an error.
Upsert(h) ==
  LET index == IndexFrom(count[h]) IN
  /\ pc[h] = "inserting"
  /\ IF \E u \in Voters \ {who[h]} : leafIndex[u] = index
       THEN UNCHANGED leafIndex /\ Goto(h, "failed")
       ELSE leafIndex' = [leafIndex EXCEPT ![who[h]] = index] /\ Goto(h, "done")
  /\ UNCHANGED <<chain, call, dbPhase, who, count>>

----------------------------------------------------------------------------
(* Errors (?) and hang-ups, which include a crash of the server.           *)

Fail(h) ==
  /\ \/ pc[h] = "relaying" /\ SeesErr(h)
     \/ pc[h] = "inserting" /\ Faulty
  /\ Goto(h, "failed")
  /\ UNCHANGED <<chain, call, dbPhase, leafIndex, who, count>>

HangUp(h) ==
  /\ Faulty
  /\ InFlight(h)
  /\ Goto(h, "gone")
  /\ UNCHANGED <<chain, call, dbPhase, leafIndex, who, count>>

----------------------------------------------------------------------------
(* The rest of the system, as far as it can disturb a registration: votes  *)
(* cannot, and a finalized round is one that is no longer in registration. *)

Environment ==
  /\ \/ \E v \in Voters : VoterRegisters(v)
     \/ \E v \in Voters, mark \in BOOLEAN : AdminMarks(v, mark)
     \/ RowAppears
     \/ ChainOpens
     \/ RowIsMarked("voting")
  /\ UNCHANGED <<call, leafIndex, pc, who, count>>

RegisterRequest(h) ==
  \/ CheckPhase(h)
  \/ LandRelay(h)
  \/ LandAgain(h)
  \/ ReadCount(h)
  \/ Upsert(h)

Next ==
  \/ \E h \in RegReqs : RegisterRequest(h) \/ Fail(h) \/ HangUp(h)
  \/ Environment

Spec == Init /\ [][Next]_vars

\* What voters.rs:41 takes for safe: no registration lands in the window between
\* one that was relayed and its get_round, and no envelope is sent again.
UndisturbedNext ==
  /\ Next
  /\ leaves' # leaves => \A h \in RegReqs : ~(pc[h] = "relaying" /\ SeesOk(h))
  /\ \A h \in RegReqs : ~LandAgain(h)

UndisturbedSpec == Init /\ [][UndisturbedNext]_vars

----------------------------------------------------------------------------
(* Properties.                                                             *)

PcLabels == {"new", "relaying", "inserting", "done", "failed", "gone"}

\* Every variable keeps its type.
TypeOK ==
  /\ ChainTypeOK
  /\ call \in [RegReqs -> CallStatus]
  /\ dbPhase \in DbPhases
  /\ leafIndex \in [Voters -> Nat \cup {NoRow}]
  /\ pc \in [RegReqs -> PcLabels]
  /\ who \in [RegReqs -> Voters]
  /\ count \in [RegReqs -> Nat]

\* A row is of a voter the contract has registered, although the phase was
\* checked before the relay and not with it; its leaf_index may be too high, as
\* other registrations came in before the count was read, but never too low and
\* never that of a leaf which does not exist yet.
IndexNotBeforeLeaf ==
  \A v \in Listed :
    /\ v \in Registered
    /\ Position(v) <= leafIndex[v]
    /\ leafIndex[v] < RegisteredCount

\* A leaf list that is complete is correct.  Rows are unique in their leaf_index
\* and none is too low, so when there are as many rows as registrations every
\* row has its voter's own leaf: once registration is closed, a client that finds
\* registered_count rows in GET /rounds/{id}/registrations can rely on the Merkle
\* path it builds from them.
CompleteMirrorIsExact ==
  Listed = Registered => \A v \in Listed : leafIndex[v] = Position(v)

\* The index read back is right when nothing lands in the same window, whatever
\* fails before and after (voters.rs:41: which is safe here because Soroban
\* orders transactions and this read happens immediately after).
IndexIsExact == \A v \in Listed : leafIndex[v] = Position(v)

\* A voter whose registration this backend relayed is in its table once the
\* request is answered (migrations/0001_init.sql:39: the API can answer "did
\* this address register").  It takes that nothing fails, and that nothing lands
\* in the window of IndexIsExact.
RelayedVoterIsListed ==
  \A h \in RegReqs : call[h] = "ok" /\ pc[h] \in {"done", "failed"} => who[h] \in Listed
=============================================================================
