------------------------------ MODULE Settlement ------------------------------
(***************************************************************************)
(* What POST /payouts/execute promises of one round, whoever calls it, how *)
(* often and whatever fails: which payments are sent, which are made, and  *)
(* what the payouts table says of them.  Payouts implements it.            *)
(*                                                                         *)
(* The first proposal is where callers race: any of them may pay it.  The  *)
(* one whose row for it is taken up settles the rest alone, in order, and  *)
(* may stop anywhere.                                                      *)
(***************************************************************************)
EXTENDS Naturals

CONSTANTS Payers, Proposals

VARIABLES
  sent,   \* payments handed to the network: <<payer, proposal>>
  made,   \* those it has made
  table   \* what the payouts row of each proposal says

NoSettlement ==
  /\ sent = {}
  /\ made = {}
  /\ table = [p \in Proposals |-> "none"]

\* All proposals before p have their row.
Reached(p) == \A q \in Proposals : q < p => table[q] # "none"

\* A payment behind the first is sent once, by the one payer that got there,
\* before its row; none is sent for a proposal that is recorded as having no
\* share.
Send(h, p) ==
  /\ <<h, p>> \notin sent
  /\ Reached(p)
  /\ table[p] # "confirmed"
  /\ p # 0 =>
       /\ table[p] = "none"
       /\ \A g \in Payers, q \in Proposals \ {0} : <<g, q>> \in sent => g = h
  /\ sent' = sent \cup {<<h, p>>}
  /\ UNCHANGED <<made, table>>

Pay(h, p) ==
  /\ <<h, p>> \in sent \ made
  /\ made' = made \cup {<<h, p>>}
  /\ UNCHANGED <<sent, table>>

\* A row is written once, in order.  It says submitted of a payment that was
\* made, failed of one that was sent, and confirmed only where there is none.
Record(p, status) ==
  /\ table[p] = "none"
  /\ Reached(p)
  /\ status = "submitted" => \E h \in Payers : <<h, p>> \in made
  /\ status = "failed"    => \E h \in Payers : <<h, p>> \in sent
  /\ status = "confirmed" => \A h \in Payers : <<h, p>> \notin sent
  /\ table' = [table EXCEPT ![p] = status]
  /\ UNCHANGED <<sent, made>>

SettlementNext ==
  \/ \E h \in Payers, p \in Proposals : Send(h, p) \/ Pay(h, p)
  \/ \E p \in Proposals, status \in {"submitted", "failed", "confirmed"} : Record(p, status)

SettlementSpec == NoSettlement /\ [][SettlementNext]_<<sent, made, table>>
=============================================================================
