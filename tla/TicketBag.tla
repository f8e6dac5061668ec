------------------------------ MODULE TicketBag ------------------------------
(***************************************************************************)
(* What the question draw promises, without locks, transactions, requests  *)
(* or cycle counters: a bag holds as many tickets of an active question as *)
(* it weighs; a draw takes one ticket, never of the question drawn last    *)
(* while another has one; the bag is refilled when it is empty and at no   *)
(* other time; and a draw id that was answered is told the same again.     *)
(*                                                                         *)
(* QuestionDraw implements this specification.                             *)
(***************************************************************************)
EXTENDS Naturals, Sequences

CONSTANTS Questions, Weights, DrawIds, NoDrawId, NoQuestion, HistoryLimit

VARIABLES
  card,       \* status and weight of each question
  open,       \* the installation takes draws and edits
  taken,      \* tickets of each question taken from the present bag
  last,       \* the question drawn last
  answered,   \* the newest draws that carried an id, HistoryLimit at most
  told        \* what each draw id was told last

bagVars == <<card, open, taken, last, answered, told>>

BagInit ==
  /\ card = [q \in Questions |-> [status |-> "absent", weight |-> 1]]
  /\ open = TRUE
  /\ taken = [q \in Questions |-> 0]
  /\ last = NoQuestion
  /\ answered = <<>>
  /\ told = [i \in DrawIds |-> NoQuestion]

(* The console writes or rewrites a question; its tickets stay taken.       *)
Edit(q) ==
  /\ open
  /\ \E s \in {"draft", "active", "archived"}, w \in Weights \cup {card[q].weight} :
       card' = [card EXCEPT ![q] = [status |-> s, weight |-> w]]
  /\ UNCHANGED <<open, taken, last, answered, told>>

Close ==
  /\ open
  /\ open' = FALSE
  /\ card' = [q \in Questions |->
                IF card[q].status = "active" THEN [card[q] EXCEPT !.status = "archived"]
                ELSE card[q]]
  /\ UNCHANGED <<taken, last, answered, told>>

(* The questions with a ticket in the bag from which t were taken.          *)
Stocked(t) == {q \in Questions : card[q].status = "active" /\ t[q] < card[q].weight}
Preferred(S) == IF S \ {last} # {} THEN S \ {last} ELSE S

(* The bag a draw takes its ticket from: a full one when this one is empty. *)
Present == IF Stocked(taken) # {} THEN taken ELSE [q \in Questions |-> 0]

Newest(s) == SubSeq(s, IF Len(s) > HistoryLimit THEN Len(s) - HistoryLimit + 1 ELSE 1, Len(s))

Take(q, i) ==
  /\ open
  /\ \A k \in DOMAIN answered : answered[k].id # i
  /\ q \in Preferred(Stocked(Present))
  /\ taken' = [Present EXCEPT ![q] = @ + 1]
  /\ last' = q
  /\ IF i = NoDrawId THEN UNCHANGED <<answered, told>>
     ELSE /\ answered' = Newest(Append(answered, [id |-> i, question |-> q]))
          /\ told' = [told EXCEPT ![i] = q]
  /\ UNCHANGED <<card, open>>

(* A retry is told the answer that is kept, and takes no ticket.            *)
TellAgain(i) ==
  /\ open
  /\ \E k \in DOMAIN answered :
       answered[k].id = i /\ told' = [told EXCEPT ![i] = answered[k].question]
  /\ UNCHANGED <<card, open, taken, last, answered>>

BagNext ==
  \/ \E q \in Questions : Edit(q) \/ \E i \in DrawIds \cup {NoDrawId} : Take(q, i)
  \/ \E i \in DrawIds : TellAgain(i)
  \/ Close

BagSpec == BagInit /\ [][BagNext]_bagVars
=============================================================================
