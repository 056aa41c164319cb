--------------------------- MODULE SorobanClient ---------------------------
(***************************************************************************)
(* A transaction handed to the network through a `stellar` subprocess      *)
(* (src/soroban_client.rs), as the handler that awaits it sees it.         *)
(*                                                                         *)
(* The subprocess is an actor of its own.  A handler that is dropped (its  *)
(* client hung up, the server was killed) does not stop it, because the    *)
(* Command is not kill_on_drop, and a CLI that reports an error may have   *)
(* submitted a transaction that is included later.  So the transaction of  *)
(* a call is "running" until the ledger includes or refuses it, whoever    *)
(* still waits for the answer:                                             *)
(*                                                                         *)
(*   "none"     not started                                                *)
(*   "running"  spawned, not yet on the ledger; it may stay so for ever    *)
(*   "ok"       included, its effect has happened                          *)
(*   "refused"  rejected by the contract, without effect                   *)
(*                                                                         *)
(* A transaction that never gets on the ledger stays running: the network  *)
(* drops it, or refuses it (txBadSeq) because a concurrent call of the     *)
(* same account has used its sequence number.  Its handler is told of an   *)
(* error, which is a fault here; OperatorAccount has the numbers.          *)
(***************************************************************************)

CONSTANT Faulty  \* BOOLEAN: may calls, reads and writes fail, calls collide in their
                 \* sequence number, and clients hang up?

ASSUME FaultyAssumption == Faulty \in BOOLEAN

VARIABLE call    \* the calls made, by call id

CallStatus == {"none", "running", "ok", "refused"}

\* The handler spawns the CLI and starts to wait for it.
Spawn(k) ==
  /\ call[k] = "none"
  /\ call' = [call EXCEPT ![k] = "running"]

\* The ledger takes up the transaction: its effect if the contract allows it.
Land(k, allowed, effect, unchanged) ==
  /\ call[k] = "running"
  /\ \/ allowed /\ effect /\ call' = [call EXCEPT ![k] = "ok"]
     \/ ~allowed /\ UNCHANGED unchanged /\ call' = [call EXCEPT ![k] = "refused"]

\* What the waiting handler may be told: Ok(value) ...
SeesOk(k) == call[k] = "ok"

\* ... or Err: the call was refused, or the CLI failed before the transaction
\* was on the ledger (or without getting it there: see above), or it failed (or
\* printed what does not decode) after.
SeesErr(k) ==
  \/ call[k] = "refused"
  \/ Faulty /\ call[k] \in {"running", "ok"}
=============================================================================
