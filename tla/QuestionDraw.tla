---------------------------- MODULE QuestionDraw ----------------------------
(***************************************************************************)
(* The ticket bag of an installation (routes/questions.ts): the booth      *)
(* draws a question, every active question giving as many tickets per      *)
(* cycle as it weighs; the bag is refilled when it is empty.  A draw is    *)
(* one transaction under the exclusive lock of the installation, whose     *)
(* reads and writes are separate statements; the console's changes take    *)
(* the same lock shared.  A draw that carries an id can be retried.        *)
(***************************************************************************)
EXTENDS Integers, Sequences, FiniteSets

CONSTANTS
    Questions,      \* questions that may be created
    Weights,        \* the weights the console may give
    DrawIds,        \* ids a booth may send with a draw
    NoDrawId,       \* the header is absent
    Draws,          \* draw requests that may be in flight at once
    NoQuestion,
    HistoryLimit,   \* QUESTION_DRAW_HISTORY_LIMIT
    CycleMax        \* QUESTION_TICKET_COUNTER_MAX

ASSUME DrawAssumption ==
    /\ Weights \subseteq Nat \ {0} /\ HistoryLimit \in Nat /\ CycleMax \in Nat \ {0}
    /\ NoDrawId \notin Draws \cup DrawIds

VARIABLES
    question,   \* the question rows
    bag,        \* the installation's cycle, last question and recent draws
    eraOpen,    \* the installation has not ended
    holder,     \* the draw that holds the exclusive lock, if any
    draw,       \* draws in flight: what their transaction read and chose
    drawn,      \* tickets really drawn from each question since the refill
    answer      \* the last answer to each draw id, and the ids answered since

drawVars == <<question, bag, eraOpen, holder, draw, drawn, answer>>

NoRow == [status |-> "absent", weight |-> 1, last |-> -1, used |-> 0]
NoDraw == [at |-> "idle", id |-> NoDrawId, pick |-> NoQuestion, cycle |-> 0, reset |-> FALSE]

DrawInit ==
    /\ question = [q \in Questions |-> NoRow]
    /\ bag = [cycle |-> 0, last |-> NoQuestion, recent |-> <<>>]
    /\ eraOpen = TRUE
    /\ holder = NoDrawId
    /\ draw = [d \in Draws |-> NoDraw]
    /\ drawn = [q \in Questions |-> 0]
    /\ answer = [i \in DrawIds |-> [question |-> NoQuestion, since |-> 0]]

-----------------------------------------------------------------------------
(* The console: create, reweigh, activate, deactivate, archive, all under  *)
(* the shared lock, and the close-out of the installation.                 *)

Console(q, row) ==
    /\ eraOpen /\ holder = NoDrawId
    /\ question' = [question EXCEPT ![q] = row]
    /\ UNCHANGED <<bag, eraOpen, holder, draw, drawn, answer>>

CreateQuestion(q, w, status) ==
    /\ question[q].status = "absent"
    /\ Console(q, [status |-> status, weight |-> w, last |-> -1, used |-> 0])

UpdateQuestion(q, w) ==
    /\ question[q].status \in {"draft", "active"}
    /\ Console(q, [question[q] EXCEPT !.weight = w])

SetStatus(q, status) ==
    /\ question[q].status # "absent"
    /\ status = "archived" => question[q].status # "archived"
    /\ Console(q, [question[q] EXCEPT !.status = status])

CloseOut ==
    /\ eraOpen /\ holder = NoDrawId
    /\ eraOpen' = FALSE
    /\ question' = [q \in Questions |->
                      IF question[q].status = "active"
                      THEN [question[q] EXCEPT !.status = "archived"] ELSE question[q]]
    /\ UNCHANGED <<bag, holder, draw, drawn, answer>>

-----------------------------------------------------------------------------
(* GET /random.                                                            *)

Active == {q \in Questions : question[q].status = "active"}

(* remainingTickets: consumption counts only in the cycle it happened in.  *)
Consumed(q, cycle) == IF question[q].last = cycle THEN question[q].used ELSE 0
Remaining(q, cycle) ==
    IF question[q].weight > Consumed(q, cycle) THEN question[q].weight - Consumed(q, cycle)
    ELSE 0

(* drawQuestion: any question with a ticket left, but not the one drawn    *)
(* last while another has one.                                             *)
(* Mutant: the last question has to wait for the next bag. *)
PoolWithoutLast(left) == {q \in Active : left[q] > 0} \ {bag.last}
Pool(left) ==
    LET available == {q \in Active : left[q] > 0}
        others == available \ {bag.last}
    IN  IF others # {} THEN others ELSE available

(* The bag the draw takes its ticket from: the present one, or the next.   *)
(* At the top of the counter the cycles start over and the consumption of  *)
(* every question of the installation is forgotten.                        *)
Bag ==
    LET left == [q \in Questions |-> Remaining(q, bag.cycle)]
        wrap == bag.cycle = CycleMax
        next == IF wrap THEN 0 ELSE bag.cycle + 1
    IN  IF Pool(left) # {}
        THEN [cycle |-> bag.cycle, reset |-> FALSE, pool |-> Pool(left)]
        ELSE [cycle |-> next, reset |-> wrap,
              pool |-> Pool([q \in Questions |->
                               IF wrap THEN question[q].weight ELSE Remaining(q, next)])]

Recent(id) == {i \in DOMAIN bag.recent : bag.recent[i].id = id}

(* A draw id seen before gets the question it got then.                    *)
ReplayDraw(d, id) ==
    /\ draw[d] = NoDraw /\ holder = NoDrawId /\ eraOpen
    /\ Recent(id) # {}
    /\ answer' = [answer EXCEPT ![id].question = bag.recent[CHOOSE i \in Recent(id) : TRUE].question]
    /\ UNCHANGED <<question, bag, eraOpen, holder, draw, drawn>>

(* The reads of the transaction, under the lock.                           *)
DrawRead(d, id) ==
    /\ draw[d] = NoDraw /\ holder = NoDrawId /\ eraOpen
    /\ Recent(id) = {} /\ Active # {}
    /\ holder' = d
    /\ \E q \in Bag.pool :
         draw' = [draw EXCEPT ![d] = [at |-> "picked", id |-> id, pick |-> q,
                                      cycle |-> Bag.cycle, reset |-> Bag.reset]]
    /\ UNCHANGED <<question, bag, eraOpen, drawn, answer>>

(* Its writes and the commit.                                              *)
(* Mutant: the oldest draws of the history are kept, not the newest. *)
RememberOldest(id, q) ==
    IF id = NoDrawId \/ Len(bag.recent) >= HistoryLimit THEN bag.recent
    ELSE Append(bag.recent, [id |-> id, question |-> q])
Remember(id, q) ==
    LET grown == Append(bag.recent, [id |-> id, question |-> q])
    IN  IF id = NoDrawId THEN bag.recent
        ELSE SubSeq(grown, IF Len(grown) > HistoryLimit
                           THEN Len(grown) - HistoryLimit + 1 ELSE 1, Len(grown))

(* The consumption every question starts the draw's cycle with.            *)
(* Mutant: only the questions that are active start over. *)
RefilledIfActive(reset) ==
    [q \in Questions |-> IF reset /\ question[q].status = "active"
                         THEN [question[q] EXCEPT !.last = -1, !.used = 0] ELSE question[q]]
Refilled(reset) ==
    [q \in Questions |-> IF reset THEN [question[q] EXCEPT !.last = -1, !.used = 0]
                         ELSE question[q]]

DrawWrite(d) ==
    LET p == draw[d]
        rows == Refilled(p.reset)
        used == IF rows[p.pick].last = p.cycle THEN rows[p.pick].used + 1 ELSE 1
    IN  /\ p.at = "picked"
        /\ question' = [rows EXCEPT ![p.pick].last = p.cycle, ![p.pick].used = used]
        /\ bag' = [cycle |-> p.cycle, last |-> p.pick, recent |-> Remember(p.id, p.pick)]
        /\ drawn' = IF p.cycle = bag.cycle THEN [drawn EXCEPT ![p.pick] = @ + 1]
                    ELSE [q \in Questions |-> IF q = p.pick THEN 1 ELSE 0]
        /\ answer' = IF p.id = NoDrawId THEN answer
                     ELSE [i \in DrawIds |->
                             IF i = p.id THEN [question |-> p.pick, since |-> 0]
                             ELSE IF answer[i].since < HistoryLimit
                             THEN [answer[i] EXCEPT !.since = @ + 1] ELSE answer[i]]
        /\ holder' = NoDrawId
        /\ draw' = [draw EXCEPT ![d] = NoDraw]
        /\ UNCHANGED eraOpen

(* Lock or transaction timeout: 503, and nothing was written.              *)
DrawBusy(d) ==
    /\ draw[d].at = "picked"
    /\ holder' = NoDrawId
    /\ draw' = [draw EXCEPT ![d] = NoDraw]
    /\ UNCHANGED <<question, bag, eraOpen, drawn, answer>>

DrawNext ==
    \/ \E q \in Questions, w \in Weights :
         \/ UpdateQuestion(q, w)
         \/ \E s \in {"draft", "active"} : CreateQuestion(q, w, s)
    \/ \E q \in Questions, s \in {"draft", "active", "archived"} : SetStatus(q, s)
    \/ CloseOut
    \/ \E d \in Draws : \/ DrawWrite(d) \/ DrawBusy(d)
                        \/ \E i \in DrawIds : ReplayDraw(d, i)
                        \/ \E i \in DrawIds \cup {NoDrawId} : DrawRead(d, i)

DrawSpec == DrawInit /\ [][DrawNext]_drawVars

-----------------------------------------------------------------------------
(* The bag's books agree with what was drawn: what a question's row counts *)
(* as consumed in the present cycle is exactly the tickets drawn from it   *)
(* since the refill, whatever the console did to it in between and         *)
(* although the cycle counter starts over.  So no ticket is drawn twice    *)
(* and none is lost (remainingTickets, GET /random).                       *)
TicketsAreExact ==
    \A q \in Questions : Consumed(q, bag.cycle) = drawn[q]

(* A booth that lost the answer may retry: until HistoryLimit other ids    *)
(* have been answered it gets the question it got before, and the retry    *)
(* takes no ticket (QUESTION_DRAW_ID_HEADER, recentQuestionDraws).         *)
SameAnswerAgain ==
    \A i \in DrawIds :
      answer[i].question # NoQuestion /\ answer[i].since < HistoryLimit /\ eraOpen
      => /\ answer'[i].question = answer[i].question
         /\ \A d \in Draws : draw'[d].id # i

(* The draws keep the promise of the ticket bag: although the reads and    *)
(* the writes of a draw are separate statements, a transaction may be       *)
(* given up between them and the cycle counter starts over, each draw      *)
(* takes one ticket out of a bag that is refilled when it is empty, at the  *)
(* moment it commits (GET /random).                                        *)
Tickets == INSTANCE TicketBag WITH
    card <- [q \in Questions |-> [status |-> question[q].status, weight |-> question[q].weight]],
    open <- eraOpen,
    taken <- [q \in Questions |-> Consumed(q, bag.cycle)],
    last <- bag.last,
    answered <- bag.recent,
    told <- [i \in DrawIds |-> answer[i].question]

DrawsAreTickets == Tickets!BagSpec
=============================================================================
