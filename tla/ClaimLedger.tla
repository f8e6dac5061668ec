----------------------------- MODULE ClaimLedger -----------------------------
(***************************************************************************)
(* What the on-device processing queue promises, without tokens' secrecy,  *)
(* clocks, requests or database rows: a message has at most one owner at a  *)
(* time, every ownership is a new claim, and a result set is accepted only  *)
(* from the claim that owns the message, which thereby ends.               *)
(*                                                                         *)
(* ProcessingLease implements this specification.                          *)
(***************************************************************************)
EXTENDS Naturals

CONSTANT Messages           \* the recordings of the open installation

VARIABLES
  issued,     \* number of claims handed out so far; claim ids are 1..issued
  owner,      \* owner[m]: the claim that owns message m, 0 for none
  accepted    \* the <<message, claim>> pairs whose result set was stored

ledgerVars == <<issued, owner, accepted>>

LInit ==
  /\ issued = 0
  /\ owner = [m \in Messages |-> 0]
  /\ accepted = {}

(* A claim is handed out. An abandoned claim is superseded by a newer one.  *)
Grant(m) ==
  /\ issued' = issued + 1
  /\ owner' = [owner EXCEPT ![m] = issued + 1]
  /\ UNCHANGED accepted

(* The owner gives the message back, reports a failure, or it is deleted.   *)
GiveUp(m) ==
  /\ owner[m] # 0
  /\ owner' = [owner EXCEPT ![m] = 0]
  /\ UNCHANGED <<issued, accepted>>

(* The owner's result set is stored, once, and its ownership ends.          *)
Accept(m) ==
  /\ owner[m] # 0
  /\ accepted' = accepted \cup {<<m, owner[m]>>}
  /\ owner' = [owner EXCEPT ![m] = 0]
  /\ UNCHANGED issued

LNext == \E m \in Messages : Grant(m) \/ GiveUp(m) \/ Accept(m)

LedgerSpec == LInit /\ [][LNext]_ledgerVars
=============================================================================
