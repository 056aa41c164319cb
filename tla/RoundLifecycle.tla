--------------------------- MODULE RoundLifecycle ---------------------------
(***************************************************************************)
(* The phase of one round, on the chain and in the rounds table, and the   *)
(* handlers of src/routes/rounds.rs that move or report it:                *)
(*                                                                         *)
(*   POST /rounds/{id}/open      open_voting                               *)
(*   POST /rounds/{id}/finalize  finalize_round                            *)
(*   GET  /rounds/{id}/tally     get_tally                                 *)
(*                                                                         *)
(* Handlers run concurrently; a step is what one of them does between two  *)
(* awaits.  Each request is served once; a retry is another request.  The  *)
(* server keeps no state between requests, so a restart is a hang-up of    *)
(* every request in flight.                                                *)
(***************************************************************************)
EXTENDS RoundMirror, SorobanClient, Functions

CONSTANTS OpenReqs, FinalizeReqs, TallyReqs

Reqs == OpenReqs \cup FinalizeReqs \cup TallyReqs

ASSUME RequestsAssumption ==
  /\ OpenReqs \cap FinalizeReqs = {}
  /\ OpenReqs \cap TallyReqs = {}
  /\ FinalizeReqs \cap TallyReqs = {}

VARIABLES
  pc,    \* where each request is
  view   \* what a request has read of the chain so far

vars == <<chain, call, dbPhase, pc, view>>

\* The proposals rows of the round: written in one transaction with its row.
ProposalRows == IF dbPhase = "absent" THEN {} ELSE Choices

NoView == [phase |-> "Registration", count |-> 0, votes |-> [c \in {} |-> 0]]

InFlight(h) == pc[h] \in {"invoking", "reading", "counting"}

Goto(h, label) == pc' = [pc EXCEPT ![h] = label]

\* zip_tally: the votes of each proposal the table lists.
ZipTally(votes) == [c \in ProposalRows |-> votes[c]]

TotalVotes(h) == SumFunction(view[h].votes)

Init ==
  /\ MirrorInit
  /\ eligible = Voters
  /\ call = [h \in OpenReqs \cup FinalizeReqs |-> "none"]
  /\ pc = [h \in Reqs |-> "new"]
  /\ view = [h \in Reqs |-> NoView]

----------------------------------------------------------------------------
(* Mistakes that the properties tell from the code: none is part of Next.  *)

\* The row gets the contract's spelling of the phase.
MarkVotingInChainSpelling(h) ==
  /\ pc[h] = "invoking"
  /\ SeesOk(h)
  /\ IF dbPhase = "absent"
       THEN Goto(h, "failed") /\ UNCHANGED dbPhase
       ELSE Goto(h, "done") /\ dbPhase' = "Voting"
  /\ UNCHANGED <<chain, call, view>>

\* A request that fails undoes what it may have written.
FailAndReset(h) ==
  /\ \/ pc[h] = "invoking" /\ SeesErr(h)
     \/ pc[h] \in {"reading", "counting"} /\ Faulty
  /\ Goto(h, "failed")
  /\ dbPhase' = IF dbPhase = "absent" THEN "absent" ELSE "registration"
  /\ UNCHANGED <<chain, call, view>>

\* The row is marked without waiting for the call.
MarkVotingAtOnce(h) ==
  /\ pc[h] = "invoking"
  /\ IF dbPhase = "absent"
       THEN Goto(h, "failed") /\ UNCHANGED dbPhase
       ELSE Goto(h, "done") /\ dbPhase' = "voting"
  /\ UNCHANGED <<chain, call, view>>

\* The phase is refreshed with the tally, the count is not.
ReadTallyAndPhase(h) ==
  /\ pc[h] = "counting"
  /\ view' = [view EXCEPT ![h] = [phase |-> chainPhase,
                                  count |-> @.count,
                                  votes |-> ZipTally(Tally)]]
  /\ Goto(h, "done")
  /\ UNCHANGED <<chain, call, dbPhase>>

\* The tally is read before the round.
ReadTallyFirst(h) ==
  /\ pc[h] = "reading"
  /\ view' = [view EXCEPT ![h].votes = ZipTally(Tally)]
  /\ Goto(h, "counting")
  /\ UNCHANGED <<chain, call, dbPhase>>

ReadRoundLast(h) ==
  /\ pc[h] = "counting"
  /\ view' = [view EXCEPT ![h] = [phase |-> chainPhase,
                                  count |-> RegisteredCount,
                                  votes |-> @.votes]]
  /\ Goto(h, "done")
  /\ UNCHANGED <<chain, call, dbPhase>>

----------------------------------------------------------------------------
(* open_voting: invoke, then UPDATE the row and return it (404 if none).   *)

StartOpen(h) ==
  /\ pc[h] = "new"
  /\ Spawn(h)
  /\ Goto(h, "invoking")
  /\ UNCHANGED <<chain, dbPhase, view>>

LandOpen(h) ==
  /\ Land(h, MayOpenVoting, OpenVoting, chain)
  /\ UNCHANGED <<dbPhase, pc, view>>

MarkVoting(h) ==
  /\ pc[h] = "invoking"
  /\ SeesOk(h)
  /\ IF dbPhase = "absent"
       THEN Goto(h, "failed") /\ UNCHANGED dbPhase
       ELSE Goto(h, "done") /\ dbPhase' = "voting"
  /\ UNCHANGED <<chain, call, view>>

----------------------------------------------------------------------------
(* finalize_round: invoke (its value is the tally), UPDATE the row if      *)
(* there is one, read get_round, reply.                                    *)

StartFinalize(h) == StartOpen(h)

LandFinalize(h) ==
  /\ Land(h, MayFinalize, FinalizeRound, chain)
  /\ view' = IF MayFinalize THEN [view EXCEPT ![h].votes = Tally] ELSE view
  /\ UNCHANGED <<dbPhase, pc>>

MarkFinalized(h) ==
  /\ pc[h] = "invoking"
  /\ SeesOk(h)
  /\ dbPhase' = IF dbPhase = "absent" THEN "absent" ELSE "finalized"
  /\ Goto(h, "reading")
  /\ UNCHANGED <<chain, call, view>>

ReplyFinalized(h) ==
  /\ pc[h] = "reading"
  /\ view' = [view EXCEPT ![h] = [phase |-> "Finalized",
                                  count |-> RegisteredCount,
                                  votes |-> ZipTally(@.votes)]]
  /\ Goto(h, "done")
  /\ UNCHANGED <<chain, call, dbPhase>>

----------------------------------------------------------------------------
(* get_tally: 404 without proposals, else two reads, get_round then tally. *)

StartTally(h) ==
  /\ pc[h] = "new"
  /\ Goto(h, IF ProposalRows = {} THEN "failed" ELSE "reading")
  /\ UNCHANGED <<chain, call, dbPhase, view>>

ReadRound(h) ==
  /\ pc[h] = "reading"
  /\ view' = [view EXCEPT ![h] = [phase |-> chainPhase,
                                  count |-> RegisteredCount,
                                  votes |-> @.votes]]
  /\ Goto(h, "counting")
  /\ UNCHANGED <<chain, call, dbPhase>>

ReadTally(h) ==
  /\ pc[h] = "counting"
  /\ view' = [view EXCEPT ![h].votes = ZipTally(Tally)]
  /\ Goto(h, "done")
  /\ UNCHANGED <<chain, call, dbPhase>>

----------------------------------------------------------------------------
(* Any handler: an error from the call, a read or the UPDATE ends it (?),  *)
(* and it is dropped where it stands when its client hangs up.             *)

Fail(h) ==
  /\ \/ pc[h] = "invoking" /\ SeesErr(h)
     \/ pc[h] \in {"reading", "counting"} /\ Faulty
  /\ Goto(h, "failed")
  /\ UNCHANGED <<chain, call, dbPhase, view>>

HangUp(h) ==
  /\ Faulty
  /\ InFlight(h)
  /\ Goto(h, "gone")
  /\ UNCHANGED <<chain, call, dbPhase, view>>

----------------------------------------------------------------------------
(* Voters act on the chain through other requests, or without this         *)
(* backend, and create_round may be slower than the first of these         *)
(* handlers; the contract admits no one else to open and finalize.         *)

Environment == (VotersAct \/ RowAppears) /\ UNCHANGED <<call, pc, view>>

Open(h) == StartOpen(h) \/ LandOpen(h) \/ MarkVoting(h)

Finalize(h) ==
  StartFinalize(h) \/ LandFinalize(h) \/ MarkFinalized(h) \/ ReplyFinalized(h)

GetTallySwapped(h) == StartTally(h) \/ ReadTallyFirst(h) \/ ReadRoundLast(h)

GetTally(h) == StartTally(h) \/ ReadRound(h) \/ ReadTally(h)

Next ==
  \/ \E h \in OpenReqs : Open(h)
  \/ \E h \in FinalizeReqs : Finalize(h)
  \/ \E h \in TallyReqs : GetTally(h)
  \/ \E h \in Reqs : Fail(h) \/ HangUp(h)
  \/ Environment

Spec == Init /\ [][Next]_vars

\* The same with an operator who asks to open or finalize a round only once it
\* is in the table, and when no such request of theirs is in flight.
SerialNext ==
  /\ Next
  /\ \A h \in OpenReqs \cup FinalizeReqs : pc[h] = "new" /\ pc'[h] # "new" =>
       /\ dbPhase # "absent"
       /\ \A other \in OpenReqs \cup FinalizeReqs : ~InFlight(other)

SerialSpec == Init /\ [][SerialNext]_vars

----------------------------------------------------------------------------
(* Properties.                                                             *)

PcLabels == {"new", "invoking", "reading", "counting", "done", "failed", "gone"}

\* Every variable keeps its type; a reply lists the choices of the proposals
\* table, or none.
TypeOK ==
  /\ ChainTypeOK
  /\ call \in [OpenReqs \cup FinalizeReqs -> CallStatus]
  /\ dbPhase \in DbPhases
  /\ pc \in [Reqs -> PcLabels]
  /\ view \in [Reqs -> [phase : Phases, count : Nat,
                        votes : [Choices -> Nat] \cup [{} -> Nat]]]

\* The rounds table never runs ahead of the chain: whatever handlers are in
\* flight, late or dropped, a row marked voting or finalized is of a round the
\* contract has already opened or finalized.  POST /votes and POST
\* /payouts/execute rely on it: they look at the row and not at the chain.
DbPhaseNotAhead == Rank(dbPhase) <= Rank(chainPhase)

\* A 200 reply that calls the round Finalized, from finalize or from tally,
\* carries the final tally and the final number of registrations, although
\* each of the two handlers reads them in separate calls.
FinalizedReplyIsFinal ==
  \A h \in FinalizeReqs \cup TallyReqs :
    pc[h] = "done" /\ view[h].phase = "Finalized" =>
      /\ chainPhase = "Finalized"
      /\ view[h].count = RegisteredCount
      /\ \A c \in DOMAIN view[h].votes : view[h].votes[c] = Tally[c]

\* Once a reply says that registration is closed, its total_votes is within
\* its registered_count: the votes were read after the electorate was frozen.
VotesWithinElectorate ==
  \A h \in FinalizeReqs \cup TallyReqs :
    pc[h] = "done" /\ view[h].phase # "Registration" => TotalVotes(h) <= view[h].count

\* The handlers keep the promise of RoundMirror, on which the other handlers
\* rely.  Whatever fails, each of their steps leaves the contract's round and
\* its row alone, moves the contract forward, or lets the row follow it: a row
\* never returns to registration, and none is marked on the strength of a call
\* that the contract refused.
ImplementsMirror == MirrorSpec

\* A row that finalize has marked finalized stays so: the payouts it allows
\* remain allowed (rounds.rs:169: required before POST /payouts/execute will
\* run for this round).  It takes an operator who sends one request after the
\* other: then even an open that was given up, and lands late, marks nothing.
FinalizedRowIsFinal == [][dbPhase = "finalized" => dbPhase' = "finalized"]_vars

\* Once every request to open the round has been answered, none of their calls is
\* still on its way and the contract has it open, the table says so too and POST
\* /votes takes ballots (rounds.rs:146: closes registration and opens voting).  It
\* takes that nothing fails, and that the round was in the table before.
OpenedRoundIsMarked ==
  /\ chainPhase = "Voting"
  /\ dbPhase # "absent"
  /\ \A h \in OpenReqs : pc[h] \in {"done", "failed"} /\ call[h] # "running"
  /\ \A h \in FinalizeReqs : pc[h] = "new"
  => dbPhase = "voting"
=============================================================================
