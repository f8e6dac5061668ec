----------------------------- MODULE MCLeaseDocs -----------------------------
(* What docs/message-processing.md and the comments of the routes say of    *)
(* the queue, with the history it takes to say it: which messages a device  *)
(* could claim during the whole of its POST /claim, and how often a message *)
(* was reported as failed. Only the properties below read the history.      *)
EXTENDS MCProcessingLease

VARIABLES
  waiting,    \* waiting[d]: messages d could claim ever since its scan began
  failures    \* failures[m]: POST /fail requests that succeeded for m

docVars == <<vars, waiting, failures>>

DocInit ==
  /\ Init
  /\ waiting = [d \in Devices |-> {}]
  /\ failures = [m \in Messages |-> 0]

Failing(m) ==
  \E d \in Devices : call[d].op = "fail" /\ call[d].claim.m = m /\ call'[d].op = "none"

DocNext ==
  /\ Next
  /\ waiting' = [d \in Devices |->
       {m \in IF scan[d].on THEN waiting[d] ELSE Messages :
          scan'[d].on /\ Claimable(d, m)'}]
  /\ failures' = [m \in Messages |->
       IF Failing(m) /\ row'[m] # row[m] THEN failures[m] + 1 ELSE failures[m]]

DocSpec == DocInit /\ [][DocNext]_docVars

(* POST /claim "returns {claim: null} when no compatible work is available" *)
(* and pages past older rows "rather than starving newer eligible work".    *)
NullMeansNoWork ==
  [][\A d \in Devices : ClaimNull(d) => waiting[d] = {}]_docVars

(* "A failed lease increments the message attempt counter; the third        *)
(* failure is terminal": POST /fail gives a message up at the MaxAttempts-th *)
(* failure and not before.                                                 *)
ThirdFailureIsTerminal ==
  \A m \in Messages : row[m].failed <=> failures[m] >= MaxAttempts
=============================================================================
