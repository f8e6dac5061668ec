------------------------------- MODULE MCEras -------------------------------
(***************************************************************************)
(* Rollovers of the installation, seen by the recordings and by the calls. *)
(* The two share no rows, so each behaviour follows one of them.  The      *)
(* calls are explored three times: with whole batches of events, with the  *)
(* most reports, and with reports that carry no time.                      *)
(***************************************************************************)
EXTENDS MCInstallation, BoothCalls

VARIABLE focus   \* the part this behaviour exercises

FewReports ==
    MapThenSumSet(LAMBDA i : accepted[i], BoothEras)
      + Cardinality({o \in Deliveries : req[o].at = "folding"}) < MaxReports

SingleEvents == \A p \in Deliveries : Cardinality(req[p].batch) <= 1

NoDigits == \A p \in Deliveries : \A e \in req[p].batch : e[2] # "digit"
Dated == UNCHANGED undated

ErasInit ==
    /\ focus \in {"recordings", "batches", "reports", "undated"}
    /\ Init /\ CallsInit

ErasNext ==
    /\ UNCHANGED focus
    /\ \/ focus = "recordings" /\ Next /\ UNCHANGED callVars
       \/ focus = "batches" /\ CallsNext /\ Dated /\ FewReports' /\ UNCHANGED vars
       \/ focus = "reports" /\ CallsNext /\ Dated /\ SingleEvents' /\ UNCHANGED vars
       \/ focus = "undated" /\ CallsNext /\ FewReports' /\ SingleEvents' /\ NoDigits'
            /\ UNCHANGED vars

ErasSpec == ErasInit /\ [][ErasNext]_<<focus, vars, callVars>>
=============================================================================
