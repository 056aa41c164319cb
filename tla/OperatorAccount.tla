--------------------------- MODULE OperatorAccount ---------------------------
(***************************************************************************)
(* The calls the backend makes as its operator (soroban_client.rs,         *)
(* invoke_as_operator), down to the sequence number of the operator's      *)
(* account.  Each call is a `stellar` subprocess of its own, and no lock   *)
(* is held around it: it simulates the call, takes the number after the    *)
(* account's, signs, sends and waits.  The ledger includes a transaction   *)
(* only if its number is the account's next one.                           *)
(*                                                                         *)
(*   "none"      not started                                               *)
(*   "started"   the subprocess runs, and has not signed yet               *)
(*   "signed"    signed and sent: it may be included later, or never       *)
(*   "ok"        included, with its effect                                 *)
(*   "reverted"  included, but the contract refused it                     *)
(*   "refused"   given up before it was sent, or its number was used       *)
(***************************************************************************)
EXTENDS Naturals

CONSTANT Faulty  \* BOOLEAN: may calls and queries fail, and clients hang up?

ASSUME FaultyAssumption == Faulty \in BOOLEAN

VARIABLES
  seq,    \* the account's sequence number
  op,     \* the status of each call, by call id
  number  \* the number each call has signed, 0 before

account == <<seq, op, number>>

OpStatus == {"none", "started", "signed", "ok", "reverted", "refused"}

Included(k) == op[k] \in {"ok", "reverted"}

----------------------------------------------------------------------------

\* The handler spawns the CLI and waits for its output.
Start(k) ==
  /\ op[k] = "none"
  /\ op' = [op EXCEPT ![k] = "started"]
  /\ UNCHANGED <<seq, number>>

\* The simulation succeeds and the transaction is sent, or the CLI ends here.
Sign(k, allowed) ==
  /\ op[k] = "started"
  /\ \/ /\ allowed
        /\ op' = [op EXCEPT ![k] = "signed"]
        /\ number' = [number EXCEPT ![k] = seq + 1]
     \/ /\ ~allowed \/ Faulty
        /\ op' = [op EXCEPT ![k] = "refused"]
        /\ UNCHANGED number
  /\ UNCHANGED seq

Include(k, allowed, effect, unchanged) ==
  /\ op[k] = "signed"
  /\ number[k] = seq + 1
  /\ seq' = seq + 1
  /\ \/ allowed  /\ effect              /\ op' = [op EXCEPT ![k] = "ok"]
     \/ ~allowed /\ UNCHANGED unchanged /\ op' = [op EXCEPT ![k] = "reverted"]
  /\ UNCHANGED number

\* txBadSeq: another call of the account was included with the number.
Outrun(k) ==
  /\ op[k] = "signed"
  /\ number[k] <= seq
  /\ op' = [op EXCEPT ![k] = "refused"]
  /\ UNCHANGED <<seq, number>>

\* What the handler is told.  An error may be of a transaction that is still on
\* its way (the CLI gave up waiting) or was included (its output did not decode).
SeesOk(k) == op[k] = "ok"

SeesErr(k) ==
  \/ op[k] \in {"reverted", "refused"}
  \/ Faulty /\ op[k] \in {"signed", "ok"}
=============================================================================
