----------------------------- MODULE ReviewLedger -----------------------------
(***************************************************************************)
(* What the pipeline promises whoever reviews a message, without attempts, *)
(* providers, jobs or rows that are pending: there is a text under review,  *)
(* of the newest transcript or of its translation, and a verdict counts     *)
(* only while the text it was reached on is that text.  A verdict counts    *)
(* once, and what is over stays over.                                      *)
(*                                                                         *)
(* Pipeline implements this specification.                                 *)
(***************************************************************************)
EXTENDS Naturals

CONSTANTS
  Words,     \* what a text may say
  Empty,     \* the text before there is one
  Verdicts   \* the verdicts there may ever be

VARIABLES
  latest,      \* the number of the newest transcript, 0 before there is one
  translated,  \* it has a finished translation
  text,        \* the text under review
  verdict      \* "open" until it is reached, then "counts", then "over"

reviewVars == <<latest, translated, text, verdict>>

RInit ==
  /\ latest = 0 /\ translated = FALSE /\ text = Empty
  /\ verdict = [m \in Verdicts |-> "open"]

(* No verdict counts any more; some that were to come need not come now.    *)
Withdraw ==
  /\ verdict' \in [Verdicts -> {"open", "over"}]
  /\ \A m \in Verdicts : verdict'[m] \in {verdict[m], "over"}

(* A newer transcript is put up for review.                                *)
Transcribe ==
  /\ latest' \in Nat /\ latest' > latest
  /\ translated' = FALSE /\ text' \in Words
  /\ Withdraw

(* The transcript is translated, for the first time or again. Either the     *)
(* text under review stays what it was or nothing counts.                   *)
Translate ==
  /\ latest # 0 /\ UNCHANGED latest
  /\ translated' = TRUE
  /\ \/ text' \in Words /\ Withdraw
     \/ UNCHANGED <<text, verdict>>

(* A verdict on the text under review is reached, or will not be.           *)
Reach(m, standing) ==
  /\ verdict[m] = "open"
  /\ verdict' = [verdict EXCEPT ![m] = standing]
  /\ UNCHANGED <<latest, translated, text>>

RNext ==
  \/ Transcribe \/ Translate
  \/ \E m \in Verdicts, standing \in {"counts", "over"} : Reach(m, standing)

ReviewSpec == RInit /\ [][RNext]_reviewVars
=============================================================================
