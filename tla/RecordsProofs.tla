---------------------------- MODULE RecordsProofs ---------------------------
(***************************************************************************)
(* What the instance keeps: proofs about QuestionDraw (the books of the    *)
(* ticket bag), AudioFiling (what is filed can be played) and DataArchive  *)
(* (what is exported fits together again), for any number of rows and any  *)
(* values of the constants.  The three share no variable.                  *)
(***************************************************************************)
EXTENDS QuestionDraw, AudioFiling, DataArchive, FiniteSetTheorems, SequenceTheorems, TLAPS

-----------------------------------------------------------------------------
Statuses == {"absent", "draft", "active", "archived"}
QuestionRow == [status : Statuses, weight : Nat, last : Nat \cup {-1}, used : Nat]

BooksTypeOK ==
    /\ question \in [Questions -> QuestionRow]
    /\ bag.cycle \in 0 .. CycleMax
    /\ drawn \in [Questions -> Nat]
    /\ draw \in [Draws -> [at : {"idle", "picked"}, id : DrawIds \cup {NoDrawId},
                           pick : Questions \cup {NoQuestion}, cycle : 0 .. CycleMax,
                           reset : BOOLEAN]]

(* The exclusive lock: one draw at most is between its reads and its       *)
(* writes.                                                                 *)
LockIsHeld == \A d \in Draws : draw[d].at = "picked" => holder = d

(* No row counts tickets of a cycle to come, so that a refill by moving to *)
(* the next cycle starts every question afresh.                            *)
LastIsPast == \A q \in Questions : question[q].last <= bag.cycle

(* A row that was never created has no ticket drawn.                       *)
AbsentIsFresh == \A q \in Questions : question[q].status = "absent" => question[q].last = -1

(* What a draw read is still so: its question exists, and its ticket is of *)
(* the present cycle, of the next, or of the first after the counter ran   *)
(* out.                                                                    *)
PickIsCurrent ==
    \A d \in Draws :
      draw[d].at = "picked" =>
        /\ draw[d].pick \in Questions /\ question[draw[d].pick].status # "absent"
        /\ \/ draw[d].cycle = bag.cycle /\ ~draw[d].reset
           \/ draw[d].cycle = bag.cycle + 1 /\ ~draw[d].reset
           \/ draw[d].cycle = 0 /\ bag.cycle = CycleMax /\ draw[d].reset

BooksInv ==
    /\ BooksTypeOK /\ LockIsHeld /\ LastIsPast /\ AbsentIsFresh /\ PickIsCurrent
    /\ TicketsAreExact

-----------------------------------------------------------------------------
LEMMA DrawInitInv == DrawInit => BooksInv
  BY DrawAssumption
  DEF DrawInit, BooksInv, BooksTypeOK, LockIsHeld, LastIsPast, AbsentIsFresh, PickIsCurrent,
      TicketsAreExact, Consumed, QuestionRow, Statuses, NoRow, NoDraw

(* The console, under the shared lock, leaves the tickets of every row as  *)
(* they are; a row it creates has none.                                    *)
LEMMA ConsoleInv ==
  ASSUME BooksInv, holder = NoDrawId, UNCHANGED <<bag, holder, draw, drawn>>,
         question' \in [Questions -> QuestionRow],
         \A q \in Questions :
           \/ /\ question'[q].last = question[q].last
              /\ question'[q].used = question[q].used
              /\ question'[q].status = "absent" => question[q].status = "absent"
           \/ question[q].status = "absent" /\ question'[q].last = -1
  PROVE  BooksInv'
<1>1. \A d \in Draws : draw[d].at # "picked"
  BY DrawAssumption DEF BooksInv, LockIsHeld
<1>2. BooksTypeOK' /\ LockIsHeld' /\ PickIsCurrent'
  BY <1>1 DEF BooksInv, BooksTypeOK, LockIsHeld, PickIsCurrent
<1>3. bag'.cycle = bag.cycle /\ bag.cycle \in Nat /\ -1 <= bag.cycle
  BY DrawAssumption DEF BooksInv, BooksTypeOK
<1>5. LastIsPast'
  BY <1>3 DEF BooksInv, LastIsPast, AbsentIsFresh
<1>6. AbsentIsFresh'
  BY DEF BooksInv, AbsentIsFresh
<1>4. TicketsAreExact'
  BY DEF BooksInv, BooksTypeOK, AbsentIsFresh, TicketsAreExact, Consumed
<1> QED
  BY <1>2, <1>4, <1>5, <1>6 DEF BooksInv

LEMMA EditInv ==
  ASSUME BooksInv, NEW q \in Questions,
         \/ \E w \in Weights : UpdateQuestion(q, w)
         \/ \E w \in Weights, s \in {"draft", "active"} : CreateQuestion(q, w, s)
         \/ \E s \in {"draft", "active", "archived"} : SetStatus(q, s)
  PROVE  BooksInv'
<1> USE DEF Console, Statuses
<1>1. holder = NoDrawId /\ UNCHANGED <<bag, holder, draw, drawn>>
  BY DEF UpdateQuestion, CreateQuestion, SetStatus
<1>2. Weights \subseteq Nat
  BY DrawAssumption
<1>3. question \in [Questions -> QuestionRow]
  BY DEF BooksInv, BooksTypeOK
<1>4. CASE \E w \in Weights : UpdateQuestion(q, w)
  BY <1>1, <1>2, <1>3, <1>4, ConsoleInv DEF UpdateQuestion, QuestionRow
<1>5. CASE \E w \in Weights, s \in {"draft", "active"} : CreateQuestion(q, w, s)
  BY <1>1, <1>2, <1>3, <1>5, ConsoleInv DEF CreateQuestion, QuestionRow, NoRow
<1>6. CASE \E s \in {"draft", "active", "archived"} : SetStatus(q, s)
  BY <1>1, <1>3, <1>6, ConsoleInv DEF SetStatus, QuestionRow
<1> QED
  BY <1>4, <1>5, <1>6

LEMMA CloseOutInv ==
  ASSUME BooksInv, CloseOut
  PROVE  BooksInv'
<1>1. question \in [Questions -> QuestionRow]
  BY DEF BooksInv, BooksTypeOK
<1> QED
  BY <1>1, ConsoleInv DEF CloseOut, QuestionRow, Statuses

-----------------------------------------------------------------------------
(* The bag chosen, and the question chosen from it.                        *)
LEMMA BagIsCurrent ==
  ASSUME BooksInv
  PROVE  /\ Bag.pool \subseteq Active
         /\ \/ Bag.cycle = bag.cycle /\ Bag.reset = FALSE
            \/ Bag.cycle = bag.cycle + 1 /\ bag.cycle < CycleMax /\ Bag.reset = FALSE
            \/ Bag.cycle = 0 /\ bag.cycle = CycleMax /\ Bag.reset = TRUE
<1>1. \A left : Pool(left) \subseteq Active
  BY DEF Pool
<1>2. bag.cycle \in 0 .. CycleMax
  BY DEF BooksInv, BooksTypeOK
<1> DEFINE left == [q \in Questions |-> Remaining(q, bag.cycle)]
           fresh == [q \in Questions |->
                       IF bag.cycle = CycleMax THEN question[q].weight
                       ELSE Remaining(q, IF bag.cycle = CycleMax THEN 0 ELSE bag.cycle + 1)]
<1>4. CASE Pool(left) # {}
  <2>1. Bag = [cycle |-> bag.cycle, reset |-> FALSE, pool |-> Pool(left)]
    BY <1>4 DEF Bag
  <2> HIDE DEF left
  <2>2. Pool(left) \subseteq Active
    BY <1>1
  <2> QED
    BY <2>1, <2>2
<1>5. CASE Pool(left) = {} /\ bag.cycle = CycleMax
  <2>1. Bag = [cycle |-> 0, reset |-> TRUE, pool |-> Pool(fresh)]
    BY <1>5 DEF Bag
  <2> HIDE DEF left, fresh
  <2>2. Pool(fresh) \subseteq Active
    BY <1>1
  <2> QED
    BY <1>5, <2>1, <2>2
<1>6. CASE Pool(left) = {} /\ bag.cycle # CycleMax
  <2>1. Bag = [cycle |-> bag.cycle + 1, reset |-> FALSE, pool |-> Pool(fresh)]
    BY <1>6 DEF Bag
  <2> HIDE DEF left, fresh
  <2>2. Pool(fresh) \subseteq Active
    BY <1>1
  <2>3. bag.cycle < CycleMax
    BY <1>2, <1>6, DrawAssumption
  <2> QED
    BY <2>1, <2>2, <2>3
<1> QED
  BY <1>4, <1>5, <1>6

LEMMA DrawReadInv ==
  ASSUME BooksInv, NEW d \in Draws, NEW i \in DrawIds \cup {NoDrawId}, DrawRead(d, i)
  PROVE  BooksInv'
<1>1. PICK q \in Bag.pool :
        draw' = [draw EXCEPT ![d] = [at |-> "picked", id |-> i, pick |-> q,
                                     cycle |-> Bag.cycle, reset |-> Bag.reset]]
  BY DEF DrawRead
<1>2. holder = NoDrawId /\ holder' = d /\ UNCHANGED <<question, bag, drawn>>
  BY DEF DrawRead
<1>3. q \in Questions /\ question[q].status = "active"
  BY <1>1, BagIsCurrent DEF Active
<1>4. Bag.cycle \in 0 .. CycleMax /\ Bag.reset \in BOOLEAN
  <2>1. CycleMax \in Nat /\ bag.cycle \in 0 .. CycleMax
    BY DrawAssumption DEF BooksInv, BooksTypeOK
  <2>2. Bag.reset \in BOOLEAN
    BY BagIsCurrent
  <2>3. \/ Bag.cycle = bag.cycle
        \/ Bag.cycle = bag.cycle + 1 /\ bag.cycle < CycleMax
        \/ Bag.cycle = 0
    BY BagIsCurrent
  <2> QED
    BY <2>1, <2>2, <2>3
<1>5. \A e \in Draws : draw[e].at # "picked"
  BY <1>2, DrawAssumption DEF BooksInv, LockIsHeld
<1>6. BooksTypeOK'
  BY <1>1, <1>2, <1>3, <1>4 DEF BooksInv, BooksTypeOK
<1>7. LockIsHeld' /\ LastIsPast' /\ AbsentIsFresh'
  BY <1>1, <1>2, <1>5 DEF BooksInv, BooksTypeOK, LockIsHeld, LastIsPast, AbsentIsFresh
<1>8. PickIsCurrent'
  BY <1>1, <1>2, <1>3, <1>5, BagIsCurrent DEF BooksInv, BooksTypeOK, PickIsCurrent
<1>9. TicketsAreExact'
  BY <1>2 DEF BooksInv, TicketsAreExact, Consumed
<1> QED
  BY <1>6, <1>7, <1>8, <1>9 DEF BooksInv

(* A row that starts over keeps its status and has no cycle to count in.   *)
LEMMA RefilledRow ==
  ASSUME NEW r \in QuestionRow
  PROVE  LET fresh == [r EXCEPT !.last = -1, !.used = 0]
         IN  fresh \in QuestionRow /\ fresh.status = r.status /\ fresh.last = -1
  BY DEF QuestionRow

(* The writes: the ticket is counted on the row and in the cycle it was    *)
(* drawn in; a new cycle starts all other rows at none.                    *)
LEMMA DrawWriteInv ==
  ASSUME BooksInv, NEW d \in Draws, DrawWrite(d)
  PROVE  BooksInv'
<1> DEFINE p == draw[d]
           rows == Refilled(p.reset)
           tickets == IF rows[p.pick].last = p.cycle THEN rows[p.pick].used + 1 ELSE 1
<1>1. /\ p.at = "picked"
      /\ question' = [rows EXCEPT ![p.pick].last = p.cycle, ![p.pick].used = tickets]
      /\ bag'.cycle = p.cycle
      /\ drawn' = IF p.cycle = bag.cycle THEN [drawn EXCEPT ![p.pick] = @ + 1]
                  ELSE [q \in Questions |-> IF q = p.pick THEN 1 ELSE 0]
      /\ holder' = NoDrawId /\ draw' = [draw EXCEPT ![d] = NoDraw]
  BY DEF DrawWrite
<1>2. /\ p.cycle \in 0 .. CycleMax /\ p.reset \in BOOLEAN
      /\ p.pick \in Questions /\ question[p.pick].status # "absent"
      /\ \/ p.cycle = bag.cycle /\ ~p.reset
         \/ p.cycle = bag.cycle + 1 /\ ~p.reset
         \/ p.cycle = 0 /\ bag.cycle = CycleMax /\ p.reset
  BY <1>1 DEF BooksInv, BooksTypeOK, PickIsCurrent
<1>3. /\ rows \in [Questions -> QuestionRow]
      /\ \A q \in Questions : /\ rows[q].status = question[q].status
                              /\ ~p.reset => rows[q] = question[q]
                              /\ p.reset => rows[q].last = -1
  <2>1. question \in [Questions -> QuestionRow]
    BY DEF BooksInv, BooksTypeOK
  <2>2. CASE p.reset
    <3>1. rows = [q \in Questions |-> [question[q] EXCEPT !.last = -1, !.used = 0]]
      BY <2>2 DEF Refilled
    <3> HIDE DEF rows, p
    <3>2. ASSUME NEW q \in Questions
          PROVE  rows[q] \in QuestionRow /\ rows[q].status = question[q].status
                 /\ rows[q].last = -1
      <4>1. question[q] \in QuestionRow
        BY <2>1
      <4>2. rows[q] = [question[q] EXCEPT !.last = -1, !.used = 0]
        BY <3>1
      <4> QED
        BY <4>1, <4>2, RefilledRow
    <3>3. rows \in [Questions -> QuestionRow]
      BY <3>1, <3>2
    <3> QED
      BY <2>2, <3>2, <3>3
  <2>3. CASE ~p.reset
    <3>1. rows = [q \in Questions |-> question[q]]
      BY <2>3 DEF Refilled
    <3> HIDE DEF rows, p
    <3> QED
      BY <2>1, <2>3, <3>1
  <2> QED
    BY <1>2, <2>2, <2>3
<1> HIDE DEF rows
<1>4. tickets \in Nat
  BY <1>2, <1>3 DEF QuestionRow
<1> HIDE DEF tickets
<1>5. /\ question' \in [Questions -> QuestionRow]
      /\ question'[p.pick].last = p.cycle /\ question'[p.pick].used = tickets
      /\ question'[p.pick].status = rows[p.pick].status
      /\ \A q \in Questions \ {p.pick} : question'[q] = rows[q]
  BY <1>1, <1>2, <1>3, <1>4 DEF QuestionRow
<1>6. \A e \in Draws : draw'[e].at # "picked"
  BY <1>1 DEF BooksInv, BooksTypeOK, LockIsHeld, NoDraw
<1>7. BooksTypeOK'
  <2>1. drawn' \in [Questions -> Nat]
    BY <1>1, <1>2 DEF BooksInv, BooksTypeOK
  <2>2. NoDraw \in [at : {"idle", "picked"}, id : DrawIds \cup {NoDrawId},
                    pick : Questions \cup {NoQuestion}, cycle : 0 .. CycleMax, reset : BOOLEAN]
    BY DrawAssumption DEF NoDraw
  <2> QED
    BY <1>1, <1>2, <1>5, <2>1, <2>2 DEF BooksInv, BooksTypeOK
<1>8. LockIsHeld' /\ PickIsCurrent'
  BY <1>6 DEF LockIsHeld, PickIsCurrent
<1>9. LastIsPast' /\ AbsentIsFresh'
  BY <1>1, <1>2, <1>3, <1>5
  DEF BooksInv, BooksTypeOK, LastIsPast, AbsentIsFresh, QuestionRow
<1>10. TicketsAreExact'
  <2>1. CASE p.cycle = bag.cycle
    <3>1. \A q \in Questions : rows[q] = question[q]
      BY <1>2, <1>3, <2>1, DrawAssumption
    <3>2. tickets = Consumed(p.pick, bag.cycle) + 1
      BY <1>2, <2>1, <3>1 DEF tickets, Consumed, BooksInv, BooksTypeOK, QuestionRow
    <3> QED
      BY <1>1, <1>2, <1>5, <2>1, <3>1, <3>2
      DEF BooksInv, BooksTypeOK, TicketsAreExact, Consumed
  <2>2. CASE p.cycle # bag.cycle
    <3>1. \A q \in Questions : rows[q].last # p.cycle
      BY <1>2, <1>3, <2>2 DEF BooksInv, BooksTypeOK, LastIsPast, QuestionRow
    <3>2. tickets = 1
      BY <1>2, <3>1 DEF tickets
    <3> QED
      BY <1>1, <1>2, <1>5, <2>2, <3>1, <3>2 DEF TicketsAreExact, Consumed
  <2> QED
    BY <2>1, <2>2
<1> QED
  BY <1>7, <1>8, <1>9, <1>10 DEF BooksInv

LEMMA DrawBusyInv ==
  ASSUME BooksInv, NEW d \in Draws, DrawBusy(d)
  PROVE  BooksInv'
<1>1. UNCHANGED <<question, bag, drawn>> /\ draw' = [draw EXCEPT ![d] = NoDraw]
  BY DEF DrawBusy
<1>2. NoDraw \in [at : {"idle", "picked"}, id : DrawIds \cup {NoDrawId},
                  pick : Questions \cup {NoQuestion}, cycle : 0 .. CycleMax, reset : BOOLEAN]
  BY DrawAssumption DEF NoDraw
<1>3. \A e \in Draws : draw'[e].at # "picked"
  BY <1>1 DEF DrawBusy, BooksInv, BooksTypeOK, LockIsHeld, NoDraw
<1>4. BooksTypeOK'
  BY <1>1, <1>2 DEF BooksInv, BooksTypeOK
<1> QED
  BY <1>1, <1>3, <1>4 DEF BooksInv, LockIsHeld, PickIsCurrent, LastIsPast, AbsentIsFresh,
                          TicketsAreExact, Consumed

-----------------------------------------------------------------------------
LEMMA DrawNextInv ==
  ASSUME BooksInv, [DrawNext]_drawVars
  PROVE  BooksInv'
<1>1. CASE \E q \in Questions :
             \/ \E w \in Weights : UpdateQuestion(q, w)
             \/ \E w \in Weights, s \in {"draft", "active"} : CreateQuestion(q, w, s)
             \/ \E s \in {"draft", "active", "archived"} : SetStatus(q, s)
  BY <1>1, EditInv
<1>2. CASE CloseOut
  BY <1>2, CloseOutInv
<1>3. CASE \E d \in Draws : DrawWrite(d)
  BY <1>3, DrawWriteInv
<1>4. CASE \E d \in Draws : DrawBusy(d)
  BY <1>4, DrawBusyInv
<1>5. CASE \E d \in Draws, i \in DrawIds \cup {NoDrawId} : DrawRead(d, i)
  BY <1>5, DrawReadInv
<1>6. CASE UNCHANGED <<question, bag, holder, draw, drawn>>
  BY <1>6 DEF BooksInv, BooksTypeOK, LockIsHeld, LastIsPast, AbsentIsFresh, PickIsCurrent,
              TicketsAreExact, Consumed
<1>7. (\E d \in Draws, i \in DrawIds : ReplayDraw(d, i)) \/ UNCHANGED drawVars
      => UNCHANGED <<question, bag, holder, draw, drawn>>
  BY DEF ReplayDraw, drawVars
<1> QED
  BY <1>1, <1>2, <1>3, <1>4, <1>5, <1>6, <1>7 DEF DrawNext

(* What the rows count as consumed in the present cycle is what was drawn  *)
(* since the refill, whatever the console does between draws and although  *)
(* the cycle counter starts over: no ticket is drawn twice and none is     *)
(* lost (remainingTickets, GET /random).                                   *)
THEOREM TicketsExact == DrawSpec => []TicketsAreExact
<1>1. DrawInit => BooksInv
  BY DrawInitInv
<1>2. BooksInv /\ [DrawNext]_drawVars => BooksInv'
  BY DrawNextInv
<1>3. BooksInv => TicketsAreExact
  BY DEF BooksInv
<1> QED
  BY <1>1, <1>2, <1>3, PTL DEF DrawSpec

-----------------------------------------------------------------------------
(* A retried draw is answered as before: the history and the answers agree.*)

AnswersGiven == [question : Questions \cup {NoQuestion}, since : Nat]
Past == [id : DrawIds, question : Questions]

(* Every remembered draw is the last answer to its id, and as many ids     *)
(* were answered since as stand behind it.                                 *)
HistoryIsTrue ==
    /\ bag.recent \in Seq(Past) /\ Len(bag.recent) <= HistoryLimit
    /\ \A k \in 1 .. Len(bag.recent) :
         /\ answer[bag.recent[k].id].question = bag.recent[k].question
         /\ answer[bag.recent[k].id].since = Len(bag.recent) - k

AnswersAreKept ==
    /\ answer \in [DrawIds -> AnswersGiven]
    /\ \A i \in DrawIds :
         answer[i].question # NoQuestion /\ answer[i].since < HistoryLimit =>
           \E k \in 1 .. Len(bag.recent) : bag.recent[k].id = i

(* A draw that is under way answers an id the history does not hold.       *)
PickIsNew ==
    \A d \in Draws :
      IF draw[d].at = "picked" THEN \A k \in 1 .. Len(bag.recent) : bag.recent[k].id # draw[d].id
      ELSE draw[d].id = NoDrawId

RetryInv == HistoryIsTrue /\ AnswersAreKept /\ PickIsNew

LEMMA RecentIsHeld ==
  ASSUME RetryInv, NEW i
  PROVE  Recent(i) = {k \in 1 .. Len(bag.recent) : bag.recent[k].id = i}
  BY DEF RetryInv, HistoryIsTrue, Recent

LEMMA RetryInitInv == DrawInit => RetryInv
<1> SUFFICES ASSUME DrawInit PROVE RetryInv
  OBVIOUS
<1>1. bag.recent = <<>> /\ Len(bag.recent) = 0 /\ bag.recent \in Seq(Past)
  BY DEF DrawInit
<1>2. HistoryIsTrue
  BY <1>1, DrawAssumption DEF HistoryIsTrue
<1>3. AnswersAreKept
  BY DEF DrawInit, AnswersAreKept, AnswersGiven
<1>4. PickIsNew
  BY DEF DrawInit, PickIsNew, NoDraw
<1> QED
  BY <1>2, <1>3, <1>4 DEF RetryInv

(* What is remembered: the new draw, behind the newest of the old ones.    *)
LEMMA NewestDraws ==
  ASSUME NEW g \in Seq(Past), NEW n \in Nat, Len(g) = n + 1, NEW b \in 1 .. n + 2,
         \/ n + 1 > HistoryLimit /\ b = n + 2 - HistoryLimit
         \/ n + 1 <= HistoryLimit /\ b = 1
  PROVE  LET t == SubSeq(g, b, n + 1)
         IN  /\ t \in Seq(Past) /\ Len(t) = n + 2 - b
             /\ \A k \in 1 .. n + 2 - b : t[k] = g[b + k - 1]
<1>1. \A k \in b .. n + 1 : g[k] \in Past
  OBVIOUS
<1>2. n + 1 - b + 1 = n + 2 - b /\ (IF b <= n + 1 THEN n + 1 - b + 1 ELSE 0) = n + 2 - b
  OBVIOUS
<1>3. b \in Int /\ n + 1 \in Int
  OBVIOUS
<1> QED
  BY <1>1, <1>2, <1>3, SubSeqProperties

(* A replay answers what was answered: it changes nothing.                 *)
LEMMA ReplayIsTrue ==
  ASSUME RetryInv, NEW d \in Draws, NEW i \in DrawIds, ReplayDraw(d, i)
  PROVE  answer' = answer
<1> DEFINE k == CHOOSE j \in Recent(i) : TRUE
<1>1. k \in Recent(i)
  BY DEF ReplayDraw
<1>2. k \in 1 .. Len(bag.recent) /\ bag.recent[k].id = i
  BY <1>1, RecentIsHeld
<1>3. answer' = [answer EXCEPT ![i].question = bag.recent[k].question]
  BY DEF ReplayDraw
<1> HIDE DEF k
<1>4. answer[i].question = bag.recent[k].question
  BY <1>2 DEF RetryInv, HistoryIsTrue
<1>5. answer \in [DrawIds -> AnswersGiven] /\ answer[i] \in AnswersGiven
  BY DEF RetryInv, AnswersAreKept
<1>6. [answer[i] EXCEPT !.question = bag.recent[k].question] = answer[i]
  BY <1>4, <1>5 DEF AnswersGiven
<1>7. answer' = [answer EXCEPT ![i] = answer[i]]
  BY <1>3, <1>6
<1> QED
  BY <1>5, <1>7

LEMMA DrawReadRetry ==
  ASSUME RetryInv, NEW d \in Draws, NEW i \in DrawIds \cup {NoDrawId}, DrawRead(d, i)
  PROVE  RetryInv'
<1>1. UNCHANGED <<bag, answer>> /\ Recent(i) = {}
  BY DEF DrawRead
<1>2. PICK q, c, r : draw' = [draw EXCEPT ![d] = [at |-> "picked", id |-> i, pick |-> q,
                                                  cycle |-> c, reset |-> r]]
  BY DEF DrawRead
<1>3. \A k \in 1 .. Len(bag.recent) : bag.recent[k].id # i
  BY <1>1, RecentIsHeld
<1>4. \A e \in Draws : \/ draw'[e] = draw[e]
                       \/ draw'[e].at = "picked" /\ draw'[e].id = i
  BY <1>2
<1>5. PickIsNew'
  <2> SUFFICES ASSUME NEW e \in Draws
               PROVE  IF draw'[e].at = "picked"
                      THEN \A k \in 1 .. Len(bag.recent) : bag.recent[k].id # draw'[e].id
                      ELSE draw'[e].id = NoDrawId
    BY <1>1 DEF PickIsNew
  <2> QED
    BY <1>3, <1>4 DEF RetryInv, PickIsNew
<1> QED
  BY <1>1, <1>5 DEF RetryInv, HistoryIsTrue, AnswersAreKept

LEMMA DrawWriteRetry ==
  ASSUME BooksInv, RetryInv, NEW d \in Draws, DrawWrite(d)
  PROVE  RetryInv'
<1> DEFINE p == draw[d]
           s == bag.recent
           n == Len(s)
           x == [id |-> p.id, question |-> p.pick]
           g == Append(s, x)
           b == IF n + 1 > HistoryLimit THEN n + 1 - HistoryLimit + 1 ELSE 1
           t == SubSeq(g, b, n + 1)
<1>1. /\ p.at = "picked" /\ draw' = [draw EXCEPT ![d] = NoDraw]
      /\ bag'.recent = Remember(p.id, p.pick)
      /\ answer' = IF p.id = NoDrawId THEN answer
                   ELSE [i \in DrawIds |->
                           IF i = p.id THEN [question |-> p.pick, since |-> 0]
                           ELSE IF answer[i].since < HistoryLimit
                           THEN [answer[i] EXCEPT !.since = answer[i].since + 1] ELSE answer[i]]
  BY DEF DrawWrite
<1>2. p.id \in DrawIds \cup {NoDrawId} /\ p.pick \in Questions
  BY <1>1 DEF BooksInv, BooksTypeOK, PickIsCurrent
<1>3. \A k \in 1 .. n : s[k].id # p.id
  BY <1>1 DEF RetryInv, PickIsNew
<1>4. PickIsNew'
  <2>1. \A e \in Draws : draw'[e].at # "picked" /\ draw'[e].id = NoDrawId
    <3>1. draw'[d] = NoDraw /\ \A e \in Draws \ {d} : draw'[e] = draw[e]
      BY <1>1 DEF BooksInv, BooksTypeOK
    <3>2. \A e \in Draws \ {d} : draw[e].at # "picked"
      BY <1>1 DEF BooksInv, LockIsHeld
    <3> QED
      BY <3>1, <3>2 DEF NoDraw, RetryInv, PickIsNew
  <2> QED
    BY <2>1 DEF PickIsNew
<1>5. CASE p.id = NoDrawId
  <2>1. bag'.recent = bag.recent /\ answer' = answer
    BY <1>1, <1>5 DEF Remember
  <2> QED
    BY <1>4, <2>1 DEF RetryInv, HistoryIsTrue, AnswersAreKept
<1>6. CASE p.id # NoDrawId
  <2>1. s \in Seq(Past) /\ n \in Nat /\ n <= HistoryLimit /\ HistoryLimit \in Nat
    BY DrawAssumption DEF RetryInv, HistoryIsTrue
  <2>2. x \in Past
    BY <1>2, <1>6 DEF Past
  <2>3. /\ g \in Seq(Past) /\ Len(g) = n + 1 /\ g[n + 1] = x
        /\ \A k \in 1 .. n : g[k] = s[k]
    BY <2>1, <2>2
  <2>4. bag'.recent = t
    <3>1. /\ g = Append(bag.recent, [id |-> p.id, question |-> p.pick]) /\ n + 1 = Len(g)
          /\ b = IF n + 1 > HistoryLimit THEN n + 1 - HistoryLimit + 1 ELSE 1
          /\ t = SubSeq(g, b, n + 1)
      BY <2>3
    <3> HIDE DEF g, b, t, n, p
    <3>2. Remember(p.id, p.pick) = t
      <4>1. Remember(p.id, p.pick)
            = LET grown == Append(bag.recent, [id |-> p.id, question |-> p.pick])
              IN  SubSeq(grown, IF Len(grown) > HistoryLimit
                                THEN Len(grown) - HistoryLimit + 1 ELSE 1, Len(grown))
        BY <1>6 DEF Remember
      <4>2. Remember(p.id, p.pick)
            = SubSeq(g, IF Len(g) > HistoryLimit THEN Len(g) - HistoryLimit + 1 ELSE 1, Len(g))
        BY <3>1, <4>1, Zenon
      <4>3. b = IF Len(g) > HistoryLimit THEN Len(g) - HistoryLimit + 1 ELSE 1
        <5> HIDE DEF s, x
        <5>1. n \in Nat /\ HistoryLimit \in Nat
          BY <2>1
        <5>2. ASSUME NEW m, m = Len(g)
              PROVE  m = n + 1 /\ b = IF m > HistoryLimit THEN m - HistoryLimit + 1 ELSE 1
          BY <3>1, <5>1, <5>2
        <5> QED
          BY <5>2, Zenon
      <4> QED
        BY <3>1, <4>2, <4>3, Zenon
    <3> QED
      BY <1>1, <3>2
  <2>5. /\ b \in 1 .. n + 2
        /\ \/ n + 1 > HistoryLimit /\ b = n + 2 - HistoryLimit
           \/ n + 1 <= HistoryLimit /\ b = 1
    BY <2>1
  <2>6. x.id = p.id /\ x.question = p.pick
    OBVIOUS
  <2> HIDE DEF g, b, n, s, x, p
  <2>7. /\ t \in Seq(Past) /\ Len(t) = n + 2 - b
        /\ \A k \in 1 .. n + 2 - b : t[k] = g[b + k - 1]
    BY <2>1, <2>3, <2>5, NewestDraws
  <2> HIDE DEF t
  <2>8. /\ Len(t) <= HistoryLimit /\ n + 1 - Len(t) = b - 1
        /\ HistoryLimit > 0 => Len(t) > 0 /\ t[Len(t)] = x
        /\ \A k \in 1 .. Len(t) : k < Len(t) => k + b - 1 \in 1 .. n /\ t[k] = s[k + b - 1]
        /\ \A k \in 1 .. Len(t) : ~(k < Len(t)) => k = Len(t) /\ t[k] = x
        /\ \A j \in 1 .. n : n - j + 1 < HistoryLimit =>
             j - b + 1 \in 1 .. Len(t) /\ t[j - b + 1] = s[j]
    <3>1. n \in Nat /\ b \in 1 .. n + 2
      BY <2>1, <2>5
    <3>2. g[n + 1] = x /\ \A k \in 1 .. n : g[k] = s[k]
      BY <2>3
    <3>3. Len(t) = n + 2 - b /\ \A k \in 1 .. n + 2 - b : t[k] = g[b + k - 1]
      BY <2>7
    <3>4. \/ n + 1 > HistoryLimit /\ b = n + 2 - HistoryLimit
          \/ n + 1 <= HistoryLimit /\ b = 1
      BY <2>5
    <3>5. HistoryLimit \in Nat /\ Len(t) \in Nat
      BY <2>1, <3>1, <3>3
    <3>6. Len(t) <= HistoryLimit /\ n + 1 - Len(t) = b - 1
      BY <3>1, <3>3, <3>4, <3>5
    <3>7. ASSUME NEW k \in 1 .. Len(t), k < Len(t)
          PROVE  k + b - 1 \in 1 .. n /\ t[k] = s[k + b - 1]
      <4>1. k \in 1 .. n + 2 - b /\ b + k - 1 \in 1 .. n /\ b + k - 1 = k + b - 1
        BY <3>1, <3>3, <3>5, <3>7
      <4> QED
        BY <3>2, <3>3, <4>1
    <3>8. ASSUME NEW k \in 1 .. Len(t), ~(k < Len(t))
          PROVE  k = Len(t) /\ t[k] = x
      <4>1. k = Len(t) /\ k \in 1 .. n + 2 - b /\ b + k - 1 = n + 1
        BY <3>1, <3>3, <3>5, <3>8
      <4> QED
        BY <3>2, <3>3, <4>1
    <3>9. HistoryLimit > 0 => Len(t) > 0 /\ t[Len(t)] = x
      <4>1. HistoryLimit > 0 => Len(t) \in 1 .. Len(t) /\ Len(t) > 0
        BY <3>1, <3>3, <3>4, <3>5
      <4> QED
        BY <3>5, <3>8, <4>1
    <3>10. ASSUME NEW j \in 1 .. n, n - j + 1 < HistoryLimit
           PROVE  j - b + 1 \in 1 .. Len(t) /\ t[j - b + 1] = s[j]
      <4>1. j - b + 1 \in 1 .. n + 2 - b /\ b + (j - b + 1) - 1 = j
        BY <3>1, <3>4, <3>5, <3>10
      <4>2. t[j - b + 1] = g[j]
        BY <3>3, <4>1
      <4> QED
        BY <3>2, <3>3, <4>1, <4>2
    <3> QED
      BY <3>6, <3>7, <3>8, <3>9, <3>10
  <2>9. /\ answer \in [DrawIds -> AnswersGiven]
        /\ \A i \in DrawIds : answer[i].since \in Nat /\ answer[i] \in AnswersGiven
    BY DEF RetryInv, AnswersAreKept, AnswersGiven
  <2>10. /\ answer' \in [DrawIds -> AnswersGiven]
         /\ answer'[p.id].question = p.pick /\ answer'[p.id].since = 0
         /\ \A i \in DrawIds : i # p.id /\ answer[i].since < HistoryLimit =>
              /\ answer'[i].question = answer[i].question
              /\ answer'[i].since = answer[i].since + 1
         /\ \A i \in DrawIds : i # p.id /\ ~(answer[i].since < HistoryLimit) =>
              answer'[i] = answer[i]
    <3> DEFINE new(i) == IF i = p.id THEN [question |-> p.pick, since |-> 0]
                         ELSE IF answer[i].since < HistoryLimit
                         THEN [answer[i] EXCEPT !.since = answer[i].since + 1] ELSE answer[i]
    <3>1. answer' = [i \in DrawIds |-> new(i)]
      BY <1>1, <1>6
    <3>2. ASSUME NEW i \in DrawIds
          PROVE  /\ new(i) \in AnswersGiven
                 /\ i = p.id => new(i).question = p.pick /\ new(i).since = 0
                 /\ i # p.id /\ answer[i].since < HistoryLimit =>
                      /\ new(i).question = answer[i].question
                      /\ new(i).since = answer[i].since + 1
                 /\ i # p.id /\ ~(answer[i].since < HistoryLimit) => new(i) = answer[i]
      BY <1>2, <2>9 DEF AnswersGiven
    <3> HIDE DEF new
    <3>3. p.id \in DrawIds
      BY <1>2, <1>6
    <3> QED
      BY <3>1, <3>2, <3>3
  <2>11. \A k \in 1 .. n : /\ s[k].id \in DrawIds /\ s[k].id # p.id
                           /\ answer[s[k].id].question = s[k].question
                           /\ answer[s[k].id].since = n - k
    <3>1. \A k \in 1 .. n : s[k] \in Past
      BY <2>1 DEF n
    <3> QED
      BY <1>3, <3>1 DEF RetryInv, HistoryIsTrue, Past, n, s
  <2>12. HistoryIsTrue'
    <3> SUFFICES ASSUME NEW k \in 1 .. Len(t)
                 PROVE  /\ answer'[t[k].id].question = t[k].question
                        /\ answer'[t[k].id].since = Len(t) - k
      BY <2>4, <2>7, <2>8 DEF HistoryIsTrue
    <3>1. CASE k < Len(t)
      <4> DEFINE m == k + b - 1
      <4>1. m \in 1 .. n /\ t[k] = s[m]
        BY <2>8, <3>1
      <4>2. n - m < HistoryLimit /\ n - m + 1 = Len(t) - k
        BY <2>1, <2>5, <2>7, <4>1
      <4> HIDE DEF m
      <4>3. answer[s[m].id].since = n - m /\ s[m].id \in DrawIds /\ s[m].id # p.id
        BY <2>11, <4>1
      <4> QED
        BY <2>10, <2>11, <4>1, <4>2, <4>3
    <3>2. CASE ~(k < Len(t))
      <4>1. k = Len(t) /\ t[k] = x /\ Len(t) \in Nat
        BY <2>8, <3>2, <2>1, <2>5, <2>7
      <4> QED
        BY <2>6, <2>10, <4>1
    <3> QED
      BY <3>1, <3>2
  <2>13. AnswersAreKept'
    <3> SUFFICES ASSUME NEW i \in DrawIds, answer'[i].question # NoQuestion,
                        answer'[i].since < HistoryLimit
                 PROVE  \E k \in 1 .. Len(t) : t[k].id = i
      BY <2>4, <2>10 DEF AnswersAreKept
    <3>1. CASE i = p.id
      <4>1. HistoryLimit > 0
        BY <2>1, <2>10, <3>1
      <4>2. Len(t) \in 1 .. Len(t) /\ t[Len(t)] = x
        BY <2>1, <2>5, <2>7, <2>8, <4>1
      <4> QED
        BY <2>6, <3>1, <4>2
    <3>2. CASE i # p.id
      <4>1. /\ answer[i].since < HistoryLimit /\ answer'[i].question = answer[i].question
            /\ answer'[i].since = answer[i].since + 1
        BY <2>10, <3>2
      <4>2. PICK j \in 1 .. n : s[j].id = i
        BY <4>1 DEF RetryInv, AnswersAreKept, n, s
      <4>3. n - j + 1 < HistoryLimit
        BY <2>11, <4>1, <4>2
      <4> QED
        BY <2>8, <4>2, <4>3
    <3> QED
      BY <3>1, <3>2
  <2> QED
    BY <1>4, <2>12, <2>13 DEF RetryInv
<1> QED
  BY <1>5, <1>6

LEMMA RetryNextInv ==
  ASSUME BooksInv, RetryInv, [DrawNext]_drawVars
  PROVE  RetryInv'
<1>1. CASE \E d \in Draws : DrawWrite(d)
  BY <1>1, DrawWriteRetry
<1>2. CASE \E d \in Draws, i \in DrawIds \cup {NoDrawId} : DrawRead(d, i)
  BY <1>2, DrawReadRetry
<1>3. CASE UNCHANGED <<bag, draw, answer>>
  BY <1>3 DEF RetryInv, HistoryIsTrue, AnswersAreKept, PickIsNew
<1>4. CASE \E d \in Draws, i \in DrawIds : ReplayDraw(d, i)
  <2>1. UNCHANGED <<bag, draw, answer>>
    BY <1>4, ReplayIsTrue DEF ReplayDraw
  <2> QED
    BY <2>1, <1>3
<1>5. CASE \E d \in Draws : DrawBusy(d)
  <2>1. PICK d \in Draws : DrawBusy(d)
    BY <1>5
  <2>2. UNCHANGED <<bag, answer>> /\ draw' = [draw EXCEPT ![d] = NoDraw]
    BY <2>1 DEF DrawBusy
  <2>3. \A e \in Draws : draw'[e] = NoDraw \/ draw'[e] = draw[e]
    BY <2>2 DEF BooksInv, BooksTypeOK
  <2>4. PickIsNew'
    BY <2>2, <2>3 DEF RetryInv, PickIsNew, NoDraw
  <2> QED
    BY <2>2, <2>4 DEF RetryInv, HistoryIsTrue, AnswersAreKept
<1>6. (\E q \in Questions :
          \/ \E w \in Weights : UpdateQuestion(q, w)
          \/ \E w \in Weights, s \in {"draft", "active"} : CreateQuestion(q, w, s)
          \/ \E s \in {"draft", "active", "archived"} : SetStatus(q, s))
      \/ CloseOut \/ UNCHANGED drawVars => UNCHANGED <<bag, draw, answer>>
  BY DEF UpdateQuestion, CreateQuestion, SetStatus, Console, CloseOut, drawVars
<1> QED
  BY <1>1, <1>2, <1>3, <1>4, <1>5, <1>6 DEF DrawNext

(* While an answer is kept no draw of its id takes a ticket: none is under *)
(* way, and none begins.                                                   *)
LEMMA KeptIsNotDrawn ==
  ASSUME BooksInv, RetryInv, [DrawNext]_drawVars, NEW i \in DrawIds,
         answer[i].question # NoQuestion, answer[i].since < HistoryLimit
  PROVE  \A e \in Draws : draw[e].id # i /\ draw'[e].id # i
<1>1. PICK k \in 1 .. Len(bag.recent) : bag.recent[k].id = i
  BY DEF RetryInv, AnswersAreKept
<1>2. i # NoDrawId
  BY DrawAssumption
<1>3. \A e \in Draws : draw[e].id # i
  BY <1>1, <1>2 DEF RetryInv, PickIsNew
<1>4. Recent(i) # {}
  BY <1>1, RecentIsHeld
<1>5. CASE UNCHANGED draw
  BY <1>3, <1>5
<1>6. CASE \E d \in Draws : draw' = [draw EXCEPT ![d] = NoDraw]
  BY <1>2, <1>3, <1>6 DEF BooksInv, BooksTypeOK, NoDraw
<1>7. ASSUME NEW d \in Draws, NEW j \in DrawIds \cup {NoDrawId}, DrawRead(d, j)
      PROVE  \A e \in Draws : draw'[e].id # i
  <2>1. j # i
    BY <1>4, <1>7 DEF DrawRead
  <2>2. PICK q, c, r : draw' = [draw EXCEPT ![d] = [at |-> "picked", id |-> j, pick |-> q,
                                                    cycle |-> c, reset |-> r]]
    BY <1>7 DEF DrawRead
  <2> QED
    BY <1>3, <2>1, <2>2 DEF BooksInv, BooksTypeOK
<1>8. \/ UNCHANGED draw \/ \E d \in Draws : draw' = [draw EXCEPT ![d] = NoDraw]
      \/ \E d \in Draws, j \in DrawIds \cup {NoDrawId} : DrawRead(d, j)
  BY DEF DrawNext, UpdateQuestion, CreateQuestion, SetStatus, Console, CloseOut, DrawWrite,
         DrawBusy, ReplayDraw, drawVars
<1> QED
  BY <1>3, <1>5, <1>6, <1>7, <1>8

LEMMA RetryAgrees ==
  ASSUME BooksInv, RetryInv, [DrawNext]_drawVars
  PROVE  SameAnswerAgain
<1> SUFFICES ASSUME NEW i \in DrawIds, answer[i].question # NoQuestion,
                    answer[i].since < HistoryLimit
             PROVE  /\ answer'[i].question = answer[i].question
                    /\ \A d \in Draws : draw'[d].id # i
  BY DEF SameAnswerAgain
<1>1. \A e \in Draws : draw[e].id # i /\ draw'[e].id # i
  BY KeptIsNotDrawn
<1>2. CASE UNCHANGED answer
  BY <1>2, <1>1
<1>3. ASSUME NEW d \in Draws, DrawWrite(d)
      PROVE  answer'[i].question = answer[i].question
  <2>1. draw[d].id # i /\ answer[i] \in AnswersGiven
    BY <1>1 DEF RetryInv, AnswersAreKept
  <2>2. answer' = answer \/ answer'[i] = [answer[i] EXCEPT !.since = answer[i].since + 1]
    BY <1>3, <2>1 DEF DrawWrite
  <2> QED
    BY <2>1, <2>2 DEF AnswersGiven
<1>4. (\E d \in Draws, j \in DrawIds : ReplayDraw(d, j)) => UNCHANGED answer
  BY ReplayIsTrue
<1>5. \/ UNCHANGED answer \/ \E d \in Draws : DrawWrite(d)
      \/ \E d \in Draws, j \in DrawIds : ReplayDraw(d, j)
  BY DEF DrawNext, UpdateQuestion, CreateQuestion, SetStatus, Console, CloseOut,
         DrawBusy, DrawRead, drawVars
<1> QED
  BY <1>1, <1>2, <1>3, <1>4, <1>5

(* A booth that lost the answer may retry: until HistoryLimit other ids    *)
(* were answered it gets the question it got before, and the retry takes   *)
(* no ticket (recentQuestionDraws, GET /random).                           *)
THEOREM RetriesAgree == DrawSpec => [][SameAnswerAgain]_drawVars
<1>1. DrawInit => BooksInv /\ RetryInv
  BY DrawInitInv, RetryInitInv
<1>2. BooksInv /\ RetryInv /\ [DrawNext]_drawVars => BooksInv' /\ RetryInv'
  BY DrawNextInv, RetryNextInv
<1>3. BooksInv /\ RetryInv /\ [DrawNext]_drawVars => SameAnswerAgain
  BY RetryAgrees
<1> QED
  BY <1>1, <1>2, <1>3, PTL DEF DrawSpec

-----------------------------------------------------------------------------
(* The draws are tickets taken out of one bag, each at its commit.         *)

(* What a draw read under the exclusive lock is what it would read still:  *)
(* nobody edits a question or ends the installation, and the bag it chose  *)
(* from is the bag its ticket is taken out of.                             *)
PickStands ==
    \A d \in Draws :
      draw[d].at = "picked" =>
        /\ eraOpen /\ Recent(draw[d].id) = {}
        /\ draw[d].pick \in Bag.pool
        /\ draw[d].cycle = Bag.cycle /\ draw[d].reset = Bag.reset

LEMMA PickStandsInit == DrawInit => PickStands
  BY DEF DrawInit, PickStands, NoDraw

LEMMA PickStandsNext ==
  ASSUME BooksInv, PickStands, [DrawNext]_drawVars
  PROVE  PickStands'
<1>1. CASE UNCHANGED <<question, bag, eraOpen, draw>>
  <2>1. Bag' = Bag /\ \A j : Recent(j)' = Recent(j)
    BY <1>1 DEF Recent, Bag, Pool, Active, Remaining, Consumed
  <2> QED
    BY <1>1, <2>1 DEF PickStands
<1>2. CASE holder = NoDrawId /\ UNCHANGED draw
  BY <1>2, DrawAssumption DEF BooksInv, LockIsHeld, PickStands
<1>3. ASSUME NEW d \in Draws, draw[d].at = "picked", draw' = [draw EXCEPT ![d] = NoDraw]
      PROVE  PickStands'
  BY <1>3 DEF BooksInv, BooksTypeOK, LockIsHeld, PickStands, NoDraw
<1>4. ASSUME NEW d \in Draws, NEW i \in DrawIds \cup {NoDrawId}, DrawRead(d, i)
      PROVE  PickStands'
  <2>1. /\ holder = NoDrawId /\ eraOpen /\ Recent(i) = {}
        /\ UNCHANGED <<question, bag, eraOpen>>
    BY <1>4 DEF DrawRead
  <2>2. PICK q \in Bag.pool :
          draw' = [draw EXCEPT ![d] = [at |-> "picked", id |-> i, pick |-> q,
                                       cycle |-> Bag.cycle, reset |-> Bag.reset]]
    BY <1>4 DEF DrawRead
  <2>3. \A e \in Draws : draw[e].at # "picked"
    BY <2>1, DrawAssumption DEF BooksInv, LockIsHeld
  <2>4. Bag' = Bag /\ \A j : Recent(j)' = Recent(j)
    BY <2>1 DEF Recent, Bag, Pool, Active, Remaining, Consumed
  <2>5. \A e \in Draws : draw'[e].at = "picked" => e = d
    BY <2>2, <2>3 DEF BooksInv, BooksTypeOK
  <2>6. /\ draw'[d].id = i /\ draw'[d].pick = q
        /\ draw'[d].cycle = Bag.cycle /\ draw'[d].reset = Bag.reset
    BY <2>2 DEF BooksInv, BooksTypeOK
  <2> QED
    BY <2>1, <2>4, <2>5, <2>6 DEF PickStands
<1>5. \/ UNCHANGED <<question, bag, eraOpen, draw>>
      \/ holder = NoDrawId /\ UNCHANGED draw
      \/ \E d \in Draws : draw[d].at = "picked" /\ draw' = [draw EXCEPT ![d] = NoDraw]
      \/ \E d \in Draws, i \in DrawIds \cup {NoDrawId} : DrawRead(d, i)
  BY DEF DrawNext, UpdateQuestion, CreateQuestion, SetStatus, Console, CloseOut, ReplayDraw,
         DrawWrite, DrawBusy, drawVars
<1> QED
  BY <1>1, <1>2, <1>3, <1>4, <1>5

(* The bag the code computes, of the rows and the cycle, is the bag of     *)
(* tickets, and it moves to another cycle exactly when that is empty.      *)
Taken == [q \in Questions |-> Consumed(q, bag.cycle)]

LEMMA PoolIsPreferred ==
  ASSUME BooksInv, NEW left, NEW t,
         \A q \in Questions : left[q] > 0 <=> t[q] < question[q].weight
  PROVE  /\ Pool(left) = Tickets!Preferred(Tickets!Stocked(t))
         /\ Pool(left) = {} <=> Tickets!Stocked(t) = {}
<1>1. Tickets!Stocked(t) = {q \in Active : left[q] > 0}
  BY DEF Tickets!Stocked, Active
<1>2. Tickets!Preferred(Tickets!Stocked(t)) =
        IF Tickets!Stocked(t) \ {bag.last} # {} THEN Tickets!Stocked(t) \ {bag.last}
        ELSE Tickets!Stocked(t)
  BY DEF Tickets!Preferred
<1>3. Pool(left) = IF {q \in Active : left[q] > 0} \ {bag.last} # {}
                   THEN {q \in Active : left[q] > 0} \ {bag.last}
                   ELSE {q \in Active : left[q] > 0}
  BY DEF Pool
<1> QED
  BY <1>1, <1>2, <1>3

LEMMA BagIsTickets ==
  ASSUME BooksInv
  PROVE  /\ Bag.pool = Tickets!Preferred(Tickets!Stocked(Tickets!Present))
         /\ Tickets!Present = IF Bag.cycle = bag.cycle THEN Taken ELSE [q \in Questions |-> 0]
<1> DEFINE left == [q \in Questions |-> Remaining(q, bag.cycle)]
           none == [q \in Questions |-> 0]
           next == IF bag.cycle = CycleMax THEN 0 ELSE bag.cycle + 1
           fresh == [q \in Questions |->
                       IF bag.cycle = CycleMax THEN question[q].weight ELSE Remaining(q, next)]
<1>1. /\ bag.cycle \in 0 .. CycleMax /\ CycleMax \in Nat \ {0}
      /\ question \in [Questions -> QuestionRow]
      /\ \A q \in Questions : question[q].last <= bag.cycle
  BY DrawAssumption DEF BooksInv, BooksTypeOK, LastIsPast
<1>2. \A q \in Questions : question[q].weight \in Nat /\ question[q].used \in Nat
                           /\ question[q].last \in Nat \cup {-1}
  BY <1>1 DEF QuestionRow
<1>3. \A q \in Questions : left[q] > 0 <=> Taken[q] < question[q].weight
  BY <1>2 DEF Remaining, Consumed, Taken
<1>4. \A q \in Questions : fresh[q] > 0 <=> none[q] < question[q].weight
  BY <1>1, <1>2 DEF Remaining, Consumed
<1>5. Tickets!Present = IF Tickets!Stocked(Taken) # {} THEN Taken ELSE none
  BY DEF Tickets!Present, Taken
<1>6. Bag = IF Pool(left) # {}
            THEN [cycle |-> bag.cycle, reset |-> FALSE, pool |-> Pool(left)]
            ELSE [cycle |-> next, reset |-> bag.cycle = CycleMax, pool |-> Pool(fresh)]
  BY DEF Bag
<1>7. next # bag.cycle
  BY <1>1
<1> HIDE DEF left, none, next, fresh
<1>8. /\ Pool(left) = Tickets!Preferred(Tickets!Stocked(Taken))
      /\ Pool(left) = {} <=> Tickets!Stocked(Taken) = {}
  BY <1>3, PoolIsPreferred
<1>9. Pool(fresh) = Tickets!Preferred(Tickets!Stocked(none))
  BY <1>4, PoolIsPreferred
<1>10. CASE Pool(left) # {}
  BY <1>5, <1>6, <1>8, <1>10
<1>11. CASE Pool(left) = {}
  <2>1. Tickets!Present = none
    BY <1>5, <1>8, <1>11
  <2>2. Bag.pool = Pool(fresh) /\ Bag.cycle = next
    BY <1>6, <1>11
  <2> QED
    BY <1>7, <1>9, <2>1, <2>2 DEF none
<1> QED
  BY <1>10, <1>11

(* The commit of a draw takes its ticket.                                  *)
LEMMA WriteTakes ==
  ASSUME BooksInv, BooksInv', RetryInv, PickStands, NEW d \in Draws, DrawWrite(d),
         NEW q, NEW i, q = draw[d].pick, i = draw[d].id
  PROVE  Tickets!Take(q, i)
<1> DEFINE p == draw[d]
<1>1. /\ eraOpen /\ UNCHANGED eraOpen /\ Recent(p.id) = {}
      /\ p.pick \in Bag.pool /\ p.cycle = Bag.cycle /\ p.pick \in Questions
      /\ p.id \in DrawIds \cup {NoDrawId}
  BY DEF DrawWrite, PickStands, BooksInv, BooksTypeOK, PickIsCurrent
<1>2. \A k \in DOMAIN bag.recent : bag.recent[k].id # p.id
  BY <1>1 DEF Recent
<1>3. bag'.last = p.pick /\ bag'.cycle = p.cycle /\ bag'.recent = Remember(p.id, p.pick)
  BY DEF DrawWrite
<1>4. p.pick \in Tickets!Preferred(Tickets!Stocked(Tickets!Present))
  BY <1>1, BagIsTickets
<1>5. Taken' = [Tickets!Present EXCEPT ![p.pick] = Tickets!Present[p.pick] + 1]
  <2>1. /\ Taken = [x \in Questions |-> drawn[x]] /\ Taken' = [x \in Questions |-> drawn'[x]]
        /\ drawn \in [Questions -> Nat]
    BY DEF BooksInv, BooksTypeOK, TicketsAreExact, Taken
  <2>2. drawn' = IF p.cycle = bag.cycle THEN [drawn EXCEPT ![p.pick] = drawn[p.pick] + 1]
                 ELSE [x \in Questions |-> IF x = p.pick THEN 1 ELSE 0]
    BY DEF DrawWrite
  <2>3. CASE p.cycle = bag.cycle
    <3>1. Tickets!Present = Taken
      BY <1>1, <2>3, BagIsTickets
    <3> QED
      BY <1>1, <2>1, <2>2, <2>3, <3>1
  <2>4. CASE p.cycle # bag.cycle
    <3>1. Tickets!Present = [x \in Questions |-> 0]
      BY <1>1, <2>4, BagIsTickets
    <3> QED
      BY <1>1, <2>1, <2>2, <2>4, <3>1
  <2> QED
    BY <2>3, <2>4
<1>6. [x \in Questions |-> [status |-> question'[x].status, weight |-> question'[x].weight]]
        = [x \in Questions |-> [status |-> question[x].status, weight |-> question[x].weight]]
  <2>1. \A x \in Questions : /\ question'[x].status = question[x].status
                             /\ question'[x].weight = question[x].weight
    <3> DEFINE rows == Refilled(p.reset)
    <3>1. \A x \in Questions : /\ rows[x].status = question[x].status
                               /\ rows[x].weight = question[x].weight
      <4>1. question \in [Questions -> QuestionRow]
        BY DEF BooksInv, BooksTypeOK
      <4> QED
        BY <4>1 DEF Refilled, QuestionRow
    <3>2. rows \in [Questions -> QuestionRow]
      <4>1. question \in [Questions -> QuestionRow]
        BY DEF BooksInv, BooksTypeOK
      <4>2. \A x \in Questions : [question[x] EXCEPT !.last = -1, !.used = 0] \in QuestionRow
        BY <4>1, RefilledRow
      <4>3. rows = [x \in Questions |-> IF p.reset
                                        THEN [question[x] EXCEPT !.last = -1, !.used = 0]
                                        ELSE question[x]]
        BY DEF Refilled
      <4> QED
        BY <4>1, <4>2, <4>3
    <3>3. PICK n : question' = [rows EXCEPT ![p.pick].last = p.cycle, ![p.pick].used = n]
      BY DEF DrawWrite
    <3> HIDE DEF rows, p
    <3> QED
      BY <3>1, <3>2, <3>3 DEF QuestionRow
  <2> QED
    BY <2>1
<1>7. IF p.id = NoDrawId
      THEN bag'.recent = bag.recent /\ answer' = answer
      ELSE /\ bag'.recent = Tickets!Newest(Append(bag.recent, [id |-> p.id, question |-> p.pick]))
           /\ [j \in DrawIds |-> answer'[j].question]
                = [[j \in DrawIds |-> answer[j].question] EXCEPT ![p.id] = p.pick]
  <2>1. CASE p.id = NoDrawId
    BY <1>3, <2>1 DEF DrawWrite, Remember
  <2>2. CASE p.id # NoDrawId
    <3>1. bag'.recent = Tickets!Newest(Append(bag.recent, [id |-> p.id, question |-> p.pick]))
      BY <1>3, <2>2 DEF Remember, Tickets!Newest
    <3>2. answer' = [j \in DrawIds |->
                       IF j = p.id THEN [question |-> p.pick, since |-> 0]
                       ELSE IF answer[j].since < HistoryLimit
                       THEN [answer[j] EXCEPT !.since = answer[j].since + 1] ELSE answer[j]]
      BY <2>2 DEF DrawWrite
    <3>3. answer \in [DrawIds -> AnswersGiven]
      BY DEF RetryInv, AnswersAreKept
    <3>4. ASSUME NEW j \in DrawIds
          PROVE  answer'[j].question = IF j = p.id THEN p.pick ELSE answer[j].question
      BY <3>2, <3>3 DEF AnswersGiven
    <3> QED
      BY <2>2, <3>1, <3>4
  <2> QED
    BY <2>1, <2>2
<1> QED
  BY <1>1, <1>2, <1>3, <1>4, <1>5, <1>6, <1>7 DEF Tickets!Take, Taken

(* A change of the console is an edit: it leaves the tickets taken.        *)
LEMMA EditKeepsTickets ==
  ASSUME BooksInv, NEW q \in Questions,
         \/ \E w \in Weights : UpdateQuestion(q, w)
         \/ \E w \in Weights, s \in {"draft", "active"} : CreateQuestion(q, w, s)
         \/ \E s \in {"draft", "active", "archived"} : SetStatus(q, s)
  PROVE  Tickets!Edit(q)
<1>1. eraOpen /\ UNCHANGED <<bag, eraOpen, answer>>
  BY DEF UpdateQuestion, CreateQuestion, SetStatus, Console
<1>2. PICK r : /\ question' = [question EXCEPT ![q] = r]
               /\ r.status \in {"draft", "active", "archived"}
               /\ r.weight \in Weights \cup {question[q].weight}
               /\ \/ r.last = question[q].last /\ r.used = question[q].used
                  \/ r.last = -1 /\ question[q].status = "absent"
  <2>1. question[q] \in QuestionRow
    BY DEF BooksInv, BooksTypeOK
  <2>2. CASE \E w \in Weights : UpdateQuestion(q, w)
    BY <2>1, <2>2 DEF UpdateQuestion, Console, QuestionRow
  <2>3. CASE \E w \in Weights, s \in {"draft", "active"} : CreateQuestion(q, w, s)
    BY <2>1, <2>3 DEF CreateQuestion, Console
  <2>4. CASE \E s \in {"draft", "active", "archived"} : SetStatus(q, s)
    BY <2>1, <2>4 DEF SetStatus, Console, QuestionRow
  <2> QED
    BY <2>2, <2>3, <2>4
<1>3. DOMAIN question = Questions /\ -1 # bag.cycle
      /\ (question[q].status = "absent" => question[q].last = -1)
  BY DrawAssumption DEF BooksInv, BooksTypeOK, AbsentIsFresh
<1>4. Taken' = Taken
  BY <1>1, <1>2, <1>3 DEF Taken, Consumed
<1>5. [x \in Questions |-> [status |-> question'[x].status, weight |-> question'[x].weight]]
        = [[x \in Questions |-> [status |-> question[x].status, weight |-> question[x].weight]]
             EXCEPT ![q] = [status |-> r.status, weight |-> r.weight]]
  BY <1>2, <1>3
<1> QED
  BY <1>1, <1>2, <1>4, <1>5 DEF Tickets!Edit, Taken

LEMMA CloseOutCloses ==
  ASSUME BooksInv, CloseOut
  PROVE  Tickets!Close
<1>1. question \in [Questions -> QuestionRow]
  BY DEF BooksInv, BooksTypeOK
<1>2. /\ eraOpen /\ eraOpen' = FALSE /\ UNCHANGED <<bag, answer>>
      /\ question' = [q \in Questions |->
                        IF question[q].status = "active"
                        THEN [question[q] EXCEPT !.status = "archived"] ELSE question[q]]
  BY DEF CloseOut
<1>3. \A q \in Questions :
        /\ question'[q].last = question[q].last /\ question'[q].used = question[q].used
        /\ question'[q].weight = question[q].weight
        /\ question'[q].status = IF question[q].status = "active" THEN "archived"
                                 ELSE question[q].status
  BY <1>1, <1>2 DEF QuestionRow
<1>4. Taken' = Taken
  BY <1>2, <1>3 DEF Taken, Consumed
<1> QED
  BY <1>2, <1>3, <1>4 DEF Tickets!Close, Taken

LEMMA ReplayTellsAgain ==
  ASSUME RetryInv, NEW d \in Draws, NEW i \in DrawIds, ReplayDraw(d, i)
  PROVE  Tickets!TellAgain(i)
<1>1. eraOpen /\ UNCHANGED <<question, bag, eraOpen>> /\ answer' = answer
  BY ReplayIsTrue DEF ReplayDraw
<1>2. PICK k \in Recent(i) : TRUE
  BY DEF ReplayDraw
<1>3. k \in DOMAIN bag.recent /\ bag.recent[k].id = i
  BY <1>2 DEF Recent
<1>4. answer[i].question = bag.recent[k].question
  <2>1. k \in 1 .. Len(bag.recent)
    BY <1>3 DEF RetryInv, HistoryIsTrue
  <2> QED
    BY <1>3, <2>1 DEF RetryInv, HistoryIsTrue
<1> QED
  BY <1>1, <1>3, <1>4 DEF Tickets!TellAgain, Consumed

(* Every step of the draws is one of the bag, or changes nothing of it.    *)
LEMMA DrawsRefine ==
  ASSUME BooksInv, BooksInv', RetryInv, PickStands, [DrawNext]_drawVars
  PROVE  [Tickets!BagNext]_(Tickets!bagVars)
<1>1. CASE UNCHANGED <<question, bag, eraOpen, answer>>
  BY <1>1 DEF Tickets!bagVars, Consumed
<1>2. ASSUME NEW d \in Draws, DrawWrite(d)
      PROVE  Tickets!BagNext
  <2>1. PICK q \in Questions, i \in DrawIds \cup {NoDrawId} :
          q = draw[d].pick /\ i = draw[d].id
    BY <1>2 DEF DrawWrite, BooksInv, BooksTypeOK, PickIsCurrent
  <2>2. Tickets!Take(q, i)
    BY <1>2, <2>1, WriteTakes
  <2> QED
    BY <2>1, <2>2 DEF Tickets!BagNext
<1>3. ASSUME NEW q \in Questions,
             \/ \E w \in Weights : UpdateQuestion(q, w)
             \/ \E w \in Weights, s \in {"draft", "active"} : CreateQuestion(q, w, s)
             \/ \E s \in {"draft", "active", "archived"} : SetStatus(q, s)
      PROVE  Tickets!BagNext
  BY <1>3, EditKeepsTickets DEF Tickets!BagNext
<1>4. CASE CloseOut
  BY <1>4, CloseOutCloses DEF Tickets!BagNext
<1>5. ASSUME NEW d \in Draws, NEW i \in DrawIds, ReplayDraw(d, i)
      PROVE  Tickets!BagNext
  BY <1>5, ReplayTellsAgain DEF Tickets!BagNext
<1>6. (\E d \in Draws : DrawBusy(d) \/ \E i \in DrawIds \cup {NoDrawId} : DrawRead(d, i))
      \/ UNCHANGED drawVars => UNCHANGED <<question, bag, eraOpen, answer>>
  BY DEF DrawBusy, DrawRead, drawVars
<1> QED
  BY <1>1, <1>2, <1>3, <1>4, <1>5, <1>6 DEF DrawNext

LEMMA DrawsBeginAsBag == DrawInit => Tickets!BagInit
  BY DrawAssumption DEF DrawInit, NoRow, Consumed, Tickets!BagInit

(* A draw is a ticket taken out of one bag at the moment it commits,       *)
(* although its reads and writes are separate statements, may be given up  *)
(* between them and count in cycles that start over: so no two draws share *)
(* a ticket, the bag is refilled only when it is empty, and a retry is     *)
(* told what was told before (GET /random).                                *)
THEOREM DrawsImplementTickets == DrawSpec => DrawsAreTickets
<1>1. DrawInit => BooksInv /\ RetryInv /\ PickStands /\ Tickets!BagInit
  BY DrawInitInv, RetryInitInv, PickStandsInit, DrawsBeginAsBag
<1>2. BooksInv /\ RetryInv /\ PickStands /\ [DrawNext]_drawVars
        => /\ BooksInv' /\ RetryInv' /\ PickStands'
           /\ [Tickets!BagNext]_(Tickets!bagVars)
  BY DrawNextInv, RetryNextInv, PickStandsNext, DrawsRefine
<1> QED
  BY <1>1, <1>2, PTL DEF DrawSpec, DrawsAreTickets, Tickets!BagSpec

-----------------------------------------------------------------------------
Keys == {"messages", "questions", "instructions"}

FilingTypeOK ==
    /\ fileKey \in [Audio -> Keys \cup {"none"}]
    /\ sub \in [Submissions ->
                  [at : {"idle", "hashed", "unknown", "ticket", "sent"},
                   kind : {"question", "instruction"},
                   audio : Audio \cup {NoAudio}, key : Keys \cup {"none"},
                   row : BOOLEAN]]
    /\ \A s \in Submissions : sub[s].at # "idle" => sub[s].audio \in Audio
    /\ cards \subseteq Audio
    /\ clip \in [Clips -> [status : {"absent", "active", "inactive"},
                           audio : Audio \cup {NoAudio, "other"}]]
    /\ ask \in [at : {"idle", "counted", "missed", "answered"}, skip : Int,
                steady : SUBSET Clips, answer : {"nothing", "clip", "none"}]
    /\ purge \in [Audio -> [at : {"none", "rows", "blob", "checked"},
                            key : Keys \cup {"none"}]]
    /\ muted \subseteq Audio

(* The content has a file row, and its audio is stored where the row says, *)
(* unless a purge deleted it under the row.                                *)
Playable(a) == fileKey[a] \in Keys /\ (<<fileKey[a], a>> \in blobs \/ a \in muted)

(* A new row gets the key that its submission was told.                    *)
KeyIsChosen == \A s \in Submissions : sub[s].at = "unknown" => sub[s].key \in Keys

(* An upload URL is for the key of the content's row, for rows keep their  *)
(* key, as long as the row is there that the submission was given.         *)
TicketIsForRow ==
    \A s \in Submissions :
      sub[s].at = "ticket" /\ sub[s].row
        => sub[s].key \in Keys /\ sub[s].key = fileKey[sub[s].audio]

SentIsPlayable ==
    \A s \in Submissions : sub[s].at = "sent" /\ sub[s].row => Playable(sub[s].audio)

CardsArePlayable ==
    \A a \in cards \cup (Audio \cap {clip[c].audio : c \in Clips}) : Playable(a)

(* While the booth's request is under way the clips in steady are active.  *)
SteadyIsActive ==
    /\ ask.at \in {"counted", "missed"} => ask.steady \subseteq ActiveClips
    /\ ask.answer = "none" => ask.steady = {}

FilingInv ==
    /\ FilingTypeOK /\ KeyIsChosen /\ TicketIsForRow /\ SentIsPlayable
    /\ CardsArePlayable /\ SteadyIsActive

-----------------------------------------------------------------------------
LEMMA FilingInitInv == FilingInit => FilingInv
<1> SUFFICES ASSUME FilingInit PROVE FilingInv
  OBVIOUS
<1> USE FilingAssumption DEF FilingInit, Keys, Unused, NoClip, OldClip, NoAsk, NoPurge
<1>1. FilingTypeOK
  BY DEF FilingTypeOK
<1>2. KeyIsChosen /\ TicketIsForRow /\ SentIsPlayable
  BY DEF KeyIsChosen, TicketIsForRow, SentIsPlayable
<1>3. CardsArePlayable
  <2>1. \A c \in Clips : clip[c].audio \notin Audio
    OBVIOUS
  <2> QED
    BY <2>1 DEF CardsArePlayable
<1>4. SteadyIsActive
  BY DEF SteadyIsActive
<1> QED
  BY <1>1, <1>2, <1>3, <1>4 DEF FilingInv

-----------------------------------------------------------------------------
(* Steps that touch only the submissions, for a submission s.              *)

LEMMA SubmitInv ==
  ASSUME FilingInv, NEW s \in Submissions, NEW kind \in {"question", "instruction"},
         NEW a \in Audio, Submit(s, kind, a)
  PROVE  FilingInv'
<1> USE DEF FilingInv, Submit, Unused, Keys, purgeVars
<1>1. FilingTypeOK'
  BY DEF FilingTypeOK
<1>2. KeyIsChosen' /\ TicketIsForRow' /\ SentIsPlayable'
  BY DEF KeyIsChosen, TicketIsForRow, SentIsPlayable, Playable, FilingTypeOK
<1>3. CardsArePlayable' /\ SteadyIsActive'
  BY DEF CardsArePlayable, Playable, SteadyIsActive, ActiveClips
<1> QED
  BY <1>1, <1>2, <1>3

LEMMA RequestFailsInv ==
  ASSUME FilingInv, NEW s \in Submissions, RequestFails(s)
  PROVE  FilingInv'
<1> USE DEF FilingInv, RequestFails, Failed, Unused, Keys, purgeVars
<1>1. FilingTypeOK'
  BY DEF FilingTypeOK
<1>2. KeyIsChosen' /\ TicketIsForRow' /\ SentIsPlayable'
  BY DEF KeyIsChosen, TicketIsForRow, SentIsPlayable, Playable, FilingTypeOK
<1>3. CardsArePlayable' /\ SteadyIsActive'
  BY DEF CardsArePlayable, Playable, SteadyIsActive, ActiveClips
<1> QED
  BY <1>1, <1>2, <1>3

(* The URL is made for the key of the row that was found, or for the name  *)
(* that a new row will get.                                                *)
LEMMA FindFileInv ==
  ASSUME FilingInv, NEW s \in Submissions, FindFile(s)
  PROVE  FilingInv'
<1> DEFINE known == fileKey[sub[s].audio]
<1> USE DEF FilingInv, FindFile, BlobName, BlobNameFor, Keys, purgeVars
<1>1. sub[s].audio \in Audio /\ known \in Keys \cup {"none"}
  BY DEF FilingTypeOK
<1>2. FilingTypeOK'
  BY <1>1 DEF FilingTypeOK
<1>3. KeyIsChosen' /\ TicketIsForRow'
  BY <1>1 DEF KeyIsChosen, TicketIsForRow, FilingTypeOK
<1>4. SentIsPlayable'
  BY DEF SentIsPlayable, Playable, FilingTypeOK
<1>5. CardsArePlayable' /\ SteadyIsActive'
  BY DEF CardsArePlayable, Playable, SteadyIsActive, ActiveClips
<1> QED
  BY <1>2, <1>3, <1>4, <1>5

(* The insert changes the key of no content that had a row: tickets and    *)
(* uploads of that content keep their key.                                 *)
LEMMA CreateFileInv ==
  ASSUME FilingInv, NEW s \in Submissions, CreateFile(s)
  PROVE  FilingInv'
<1> USE DEF FilingInv, CreateFile, Failed, Unused, Keys, purgeVars
<1>1. sub[s].audio \in Audio /\ sub[s].key \in Keys
  BY DEF FilingTypeOK, KeyIsChosen
<1>2. FilingTypeOK'
  <2>1. CASE fileKey[sub[s].audio] # "none"
    <3>1. /\ sub' = [sub EXCEPT ![s] = Unused]
          /\ UNCHANGED <<fileKey, cards, clip, ask, purge, muted>>
      BY <2>1
    <3>2. Unused \in [at : {"idle", "hashed", "unknown", "ticket", "sent"},
                      kind : {"question", "instruction"},
                      audio : Audio \cup {NoAudio}, key : Keys \cup {"none"},
                      row : BOOLEAN]
      OBVIOUS
    <3> QED
      BY <3>1, <3>2 DEF FilingTypeOK
  <2>2. CASE fileKey[sub[s].audio] = "none"
    <3>1. fileKey' \in [Audio -> Keys \cup {"none"}]
      BY <1>1, <2>2 DEF FilingTypeOK
    <3>2. /\ sub' = [sub EXCEPT ![s].at = "ticket", ![s].row = TRUE]
          /\ UNCHANGED <<cards, clip, ask, purge, muted>>
      BY <2>2
    <3>3. /\ sub' \in [Submissions ->
                         [at : {"idle", "hashed", "unknown", "ticket", "sent"},
                          kind : {"question", "instruction"},
                          audio : Audio \cup {NoAudio}, key : Keys \cup {"none"},
                          row : BOOLEAN]]
          /\ \A u \in Submissions : sub'[u].at # "idle" => sub'[u].audio \in Audio
      BY <1>1, <3>2 DEF FilingTypeOK
    <3> QED
      BY <3>1, <3>2, <3>3 DEF FilingTypeOK
  <2> QED
    BY <2>1, <2>2
<1>3. \A a \in Audio : fileKey[a] # "none" => fileKey'[a] = fileKey[a]
  BY <1>1 DEF FilingTypeOK
<1>4. KeyIsChosen'
  BY DEF KeyIsChosen, FilingTypeOK
<1>5. TicketIsForRow'
  BY <1>1, <1>3 DEF TicketIsForRow, FilingTypeOK
<1>6. \A a \in Audio : Playable(a) => Playable(a)'
  BY <1>3 DEF Playable
<1>7. SentIsPlayable'
  BY <1>6 DEF SentIsPlayable, FilingTypeOK
<1>8. CardsArePlayable'
  BY <1>6 DEF CardsArePlayable, FilingTypeOK
<1>9. SteadyIsActive'
  BY DEF SteadyIsActive, ActiveClips
<1> QED
  BY <1>2, <1>4, <1>5, <1>7, <1>8, <1>9

(* The audio arrives under the key of its row.                             *)
LEMMA UploadBlobInv ==
  ASSUME FilingInv, NEW s \in Submissions, UploadBlob(s)
  PROVE  FilingInv'
<1> USE DEF FilingInv, UploadBlob, Keys
<1>0. sub[s].audio \in Audio
  BY DEF FilingTypeOK
<1>1. FilingTypeOK'
  BY DEF FilingTypeOK
<1>2. KeyIsChosen' /\ TicketIsForRow'
  BY DEF KeyIsChosen, TicketIsForRow, FilingTypeOK
<1>3. \A a \in Audio : Playable(a) => Playable(a)'
  BY <1>0 DEF Playable
<1>4. SentIsPlayable'
  BY <1>0, <1>3 DEF SentIsPlayable, TicketIsForRow, Playable, FilingTypeOK
<1>5. CardsArePlayable' /\ SteadyIsActive'
  BY <1>3 DEF CardsArePlayable, FilingTypeOK, SteadyIsActive, ActiveClips
<1> QED
  BY <1>1, <1>2, <1>4, <1>5

-----------------------------------------------------------------------------
(* Steps that file a card.                                                 *)

LEMMA CreateQuestionCardInv ==
  ASSUME FilingInv, NEW s \in Submissions, CreateQuestionCard(s)
  PROVE  FilingInv'
<1> USE DEF FilingInv, CreateQuestionCard, Unused, Keys, purgeVars
<1>1. FilingTypeOK'
  BY DEF FilingTypeOK
<1>2. KeyIsChosen' /\ TicketIsForRow' /\ SentIsPlayable'
  BY DEF KeyIsChosen, TicketIsForRow, SentIsPlayable, Playable, FilingTypeOK
<1>3. CardsArePlayable'
  BY DEF CardsArePlayable, SentIsPlayable, Playable, FilingTypeOK
<1>4. SteadyIsActive'
  BY DEF SteadyIsActive, ActiveClips
<1> QED
  BY <1>1, <1>2, <1>3, <1>4

LEMMA CreateInstructionInv ==
  ASSUME FilingInv, NEW s \in Submissions, NEW c \in Clips, CreateInstruction(s, c)
  PROVE  FilingInv'
<1> USE DEF FilingInv, CreateInstruction, Unused, Keys, purgeVars
<1>1. FilingTypeOK'
  BY DEF FilingTypeOK
<1>2. KeyIsChosen' /\ TicketIsForRow' /\ SentIsPlayable'
  BY DEF KeyIsChosen, TicketIsForRow, SentIsPlayable, Playable, FilingTypeOK
<1>3. \A d \in Clips : clip'[d].audio = clip[d].audio \/ clip'[d].audio = sub[s].audio
  BY DEF FilingTypeOK
<1>4. CardsArePlayable'
  BY <1>3 DEF CardsArePlayable, SentIsPlayable, Playable, FilingTypeOK
<1>5. ActiveClips \subseteq ActiveClips'
  BY DEF ActiveClips, FilingTypeOK
<1>6. SteadyIsActive'
  BY <1>5 DEF SteadyIsActive
<1> QED
  BY <1>1, <1>2, <1>4, <1>6

-----------------------------------------------------------------------------
(* Steps of a purge.                                                       *)

LEMMA PurgeRowsInv ==
  ASSUME FilingInv, NEW a \in Audio, PurgeRows(a)
  PROVE  FilingInv'
<1> USE DEF FilingInv, PurgeRows, NoPurge, Keys
<1>1. FilingTypeOK'
  BY DEF FilingTypeOK
<1>2. KeyIsChosen' /\ TicketIsForRow' /\ SentIsPlayable'
  BY DEF KeyIsChosen, TicketIsForRow, SentIsPlayable, Playable, FilingTypeOK
<1>3. CardsArePlayable' /\ SteadyIsActive'
  BY DEF CardsArePlayable, Playable, SteadyIsActive, ActiveClips
<1> QED
  BY <1>1, <1>2, <1>3

(* Only a content that no card refers to loses its row, and with it every  *)
(* submission that was given the row.                                      *)
LEMMA PurgeFileInv ==
  ASSUME FilingInv, NEW a \in Audio, PurgeFile(a)
  PROVE  FilingInv'
<1> USE DEF FilingInv, PurgeFile, Keys
<1>1. FilingTypeOK'
  <2>1. /\ fileKey' \in [Audio -> Keys \cup {"none"}]
        /\ purge' \in [Audio -> [at : {"none", "rows", "blob", "checked"},
                                 key : Keys \cup {"none"}]]
        /\ muted' \subseteq Audio
    BY DEF FilingTypeOK
  <2>2. ASSUME NEW s \in Submissions
        PROVE  /\ sub'[s] \in [at : {"idle", "hashed", "unknown", "ticket", "sent"},
                               kind : {"question", "instruction"},
                               audio : Audio \cup {NoAudio}, key : Keys \cup {"none"},
                               row : BOOLEAN]
               /\ sub'[s].at # "idle" => sub'[s].audio \in Audio
    <3>1. sub'[s] = IF sub[s].audio = a THEN [sub[s] EXCEPT !.row = FALSE] ELSE sub[s]
      OBVIOUS
    <3>2. /\ sub[s] \in [at : {"idle", "hashed", "unknown", "ticket", "sent"},
                          kind : {"question", "instruction"},
                          audio : Audio \cup {NoAudio}, key : Keys \cup {"none"},
                          row : BOOLEAN]
          /\ sub[s].at # "idle" => sub[s].audio \in Audio
      BY DEF FilingTypeOK
    <3> HIDE DEF PurgeFile, FilingInv
    <3>3. CASE sub[s].audio = a
      BY <3>1, <3>2, <3>3
    <3>4. CASE sub[s].audio # a
      BY <3>1, <3>2, <3>4
    <3> QED
      BY <3>3, <3>4
  <2>3. sub' = [s \in Submissions |-> sub'[s]]
    OBVIOUS
  <2> QED
    BY <2>1, <2>2, <2>3 DEF FilingTypeOK
<1>2. \A b \in Audio : b # a /\ Playable(b) => Playable(b)'
  BY DEF Playable, FilingTypeOK
<1>3. \A s \in Submissions : /\ sub'[s].at = sub[s].at /\ sub'[s].key = sub[s].key
                            /\ sub'[s].audio = sub[s].audio
                            /\ sub'[s].row => sub[s].row /\ sub[s].audio # a
  BY DEF FilingTypeOK
<1>4. KeyIsChosen' /\ TicketIsForRow'
  BY <1>3 DEF KeyIsChosen, TicketIsForRow, FilingTypeOK
<1>5. SentIsPlayable'
  BY <1>2, <1>3 DEF SentIsPlayable, FilingTypeOK
<1>6. CardsArePlayable'
  BY <1>2 DEF CardsArePlayable, Referenced, FilingTypeOK
<1>7. SteadyIsActive'
  BY DEF SteadyIsActive, ActiveClips
<1> QED
  BY <1>1, <1>4, <1>5, <1>6, <1>7

(* Audio that a row names is muted when it is deleted.                     *)
LEMMA PurgeBlobInv ==
  ASSUME FilingInv, NEW a \in Audio, PurgeBlob(a)
  PROVE  FilingInv'
<1> USE DEF FilingInv, PurgeBlob, NoPurge, Keys
<1>1. FilingTypeOK'
  BY DEF FilingTypeOK
<1>2. \A b \in Audio : Playable(b) => Playable(b)'
  BY DEF Playable, FilingTypeOK
<1>3. KeyIsChosen' /\ TicketIsForRow'
  BY DEF KeyIsChosen, TicketIsForRow
<1>4. SentIsPlayable' /\ CardsArePlayable'
  BY <1>2 DEF SentIsPlayable, CardsArePlayable, FilingTypeOK
<1>5. SteadyIsActive'
  BY DEF SteadyIsActive, ActiveClips
<1> QED
  BY <1>1, <1>3, <1>4, <1>5

LEMMA PurgeWaitsInv ==
  ASSUME FilingInv, NEW a \in Audio, PurgeChecksBlob(a) \/ PurgeRetains(a)
  PROVE  FilingInv'
<1> USE DEF FilingInv, PurgeChecksBlob, PurgeRetains, NoPurge, Keys
<1>1. FilingTypeOK'
  BY DEF FilingTypeOK
<1>2. KeyIsChosen' /\ TicketIsForRow' /\ SentIsPlayable'
  BY DEF KeyIsChosen, TicketIsForRow, SentIsPlayable, Playable
<1>3. CardsArePlayable' /\ SteadyIsActive'
  BY DEF CardsArePlayable, Playable, SteadyIsActive, ActiveClips
<1> QED
  BY <1>1, <1>2, <1>3

-----------------------------------------------------------------------------
(* Steps of the library and of the booth's request: files, blobs and       *)
(* submissions stay as they are.                                           *)

LEMMA UploadsUnchanged ==
  ASSUME FilingInv, UNCHANGED <<fileKey, blobs, sub, purgeVars>>
  PROVE  /\ KeyIsChosen' /\ TicketIsForRow' /\ SentIsPlayable'
         /\ \A a \in Audio : Playable(a) => Playable(a)'
  BY DEF FilingInv, KeyIsChosen, TicketIsForRow, SentIsPlayable, Playable,
         purgeVars

(* A clip keeps its audio while it exists.                                 *)
LEMMA ClipsStayPlayable ==
  ASSUME FilingInv, UNCHANGED <<fileKey, blobs, sub, cards, purgeVars>>,
         \A c \in Clips : clip'[c].audio \in {clip[c].audio, NoAudio}
  PROVE  CardsArePlayable'
<1>1. NoAudio \notin Audio
  BY FilingAssumption
<1> QED
  BY <1>1, UploadsUnchanged DEF FilingInv, CardsArePlayable, FilingTypeOK

LEMMA ActivateInstructionInv ==
  ASSUME FilingInv, NEW c \in Clips, ActivateInstruction(c)
  PROVE  FilingInv'
<1> USE DEF ActivateInstruction, purgeVars
<1>1. FilingTypeOK'
  BY DEF FilingInv, FilingTypeOK
<1>2. CardsArePlayable'
  BY ClipsStayPlayable DEF FilingInv, FilingTypeOK
<1>3. ActiveClips \subseteq ActiveClips'
  BY DEF FilingInv, ActiveClips, FilingTypeOK
<1>4. SteadyIsActive'
  BY <1>3 DEF FilingInv, SteadyIsActive
<1> QED
  BY <1>1, <1>2, <1>4, UploadsUnchanged DEF FilingInv

(* A clip that is no longer active leaves steady with it.                  *)
LEMMA DeactivateInstructionInv ==
  ASSUME FilingInv, NEW c \in Clips, DeactivateInstruction(c)
  PROVE  FilingInv'
<1> USE DEF DeactivateInstruction, Still, purgeVars
<1>1. FilingTypeOK'
  BY DEF FilingInv, FilingTypeOK
<1>2. CardsArePlayable'
  BY ClipsStayPlayable DEF FilingInv, FilingTypeOK
<1>3. ActiveClips \ {c} \subseteq ActiveClips'
  BY DEF FilingInv, ActiveClips, FilingTypeOK
<1>4. SteadyIsActive'
  BY <1>3 DEF FilingInv, SteadyIsActive, FilingTypeOK
<1> QED
  BY <1>1, <1>2, <1>4, UploadsUnchanged DEF FilingInv

LEMMA DeleteInstructionInv ==
  ASSUME FilingInv, NEW c \in Clips, DeleteInstruction(c)
  PROVE  FilingInv'
<1> USE DEF DeleteInstruction, Still, NoClip, purgeVars
<1>1. FilingTypeOK'
  BY DEF FilingInv, FilingTypeOK
<1>2. CardsArePlayable'
  BY ClipsStayPlayable DEF FilingInv, FilingTypeOK
<1>3. ActiveClips \ {c} \subseteq ActiveClips'
  BY DEF FilingInv, ActiveClips, FilingTypeOK
<1>4. SteadyIsActive'
  BY <1>3 DEF FilingInv, SteadyIsActive, FilingTypeOK
<1> QED
  BY <1>1, <1>2, <1>4, UploadsUnchanged DEF FilingInv

(* The request is told "none" only by the second look, which finds the     *)
(* library empty: then steady, a part of it, is empty too.                 *)
LEMMA AskInv ==
  ASSUME FilingInv, CountInstructions \/ SkipToInstruction \/ FirstInstruction \/ Hear
  PROVE  FilingInv'
<1> USE DEF CountInstructions, SkipToInstruction, FirstInstruction, Hear, Answered, NoAsk, purgeVars
<1>1. UNCHANGED <<fileKey, blobs, sub, cards, clip, purgeVars>>
  OBVIOUS
<1>2. ActiveClips' = ActiveClips
  BY <1>1 DEF ActiveClips
<1>3. ActiveClips \subseteq Clips
  BY DEF ActiveClips
<1>4. CASE CountInstructions
  <2>1. PICK k \in 0 .. Cardinality(ActiveClips) - 1 :
          ask' = [at |-> "counted", skip |-> k, steady |-> ActiveClips, answer |-> "nothing"]
    BY <1>4
  <2>2. k \in Int
    OBVIOUS
  <2> QED
    BY <1>1, <1>2, <1>3, <2>1, <2>2, UploadsUnchanged, ClipsStayPlayable
    DEF FilingInv, FilingTypeOK, SteadyIsActive
<1>5. CASE SkipToInstruction
  BY <1>1, <1>2, <1>5, UploadsUnchanged, ClipsStayPlayable
  DEF FilingInv, FilingTypeOK, SteadyIsActive
<1>6. CASE FirstInstruction
  BY <1>1, <1>2, <1>6, UploadsUnchanged, ClipsStayPlayable
  DEF FilingInv, FilingTypeOK, SteadyIsActive
<1>7. CASE Hear
  BY <1>1, <1>2, <1>7, UploadsUnchanged, ClipsStayPlayable
  DEF FilingInv, FilingTypeOK, SteadyIsActive
<1> QED
  BY <1>4, <1>5, <1>6, <1>7

-----------------------------------------------------------------------------
LEMMA FilingNextInv ==
  ASSUME FilingInv, [FilingNext]_filingVars
  PROVE  FilingInv'
<1>1. CASE \E s \in Submissions : \E kind \in {"question", "instruction"}, a \in Audio :
             Submit(s, kind, a)
  BY <1>1, SubmitInv
<1>2. CASE \E s \in Submissions : RequestFails(s)
  BY <1>2, RequestFailsInv
<1>3. CASE \E s \in Submissions : FindFile(s)
  BY <1>3, FindFileInv
<1>4. CASE \E s \in Submissions : CreateFile(s)
  BY <1>4, CreateFileInv
<1>5. CASE \E s \in Submissions : UploadBlob(s)
  BY <1>5, UploadBlobInv
<1>6. CASE \E s \in Submissions : CreateQuestionCard(s)
  BY <1>6, CreateQuestionCardInv
<1>7. CASE \E s \in Submissions, c \in Clips : CreateInstruction(s, c)
  BY <1>7, CreateInstructionInv
<1>8. CASE \E c \in Clips : ActivateInstruction(c)
  BY <1>8, ActivateInstructionInv
<1>9. CASE \E c \in Clips : DeactivateInstruction(c)
  BY <1>9, DeactivateInstructionInv
<1>10. CASE \E c \in Clips : DeleteInstruction(c)
  BY <1>10, DeleteInstructionInv
<1>11. CASE CountInstructions \/ SkipToInstruction \/ FirstInstruction \/ Hear
  BY <1>11, AskInv
<1>12. CASE \E a \in Audio : \/ PurgeRows(a) \/ PurgeFile(a) \/ PurgeChecksBlob(a)
                             \/ PurgeBlob(a) \/ PurgeRetains(a)
  BY <1>12, PurgeRowsInv, PurgeFileInv, PurgeBlobInv, PurgeWaitsInv
<1>13. CASE UNCHANGED filingVars
  BY <1>13 DEF filingVars, purgeVars, FilingInv, FilingTypeOK, KeyIsChosen, TicketIsForRow, SentIsPlayable,
               CardsArePlayable, Playable, SteadyIsActive, ActiveClips
<1> QED
  BY <1>1, <1>2, <1>3, <1>4, <1>5, <1>6, <1>7, <1>8, <1>9, <1>10, <1>11, <1>12, <1>13
  DEF FilingNext

LEMMA FilingAlways == FilingSpec => []FilingInv
<1>1. FilingInit => FilingInv
  BY FilingInitInv
<1>2. FilingInv /\ [FilingNext]_filingVars => FilingInv'
  BY FilingNextInv
<1> QED
  BY <1>1, <1>2, PTL DEF FilingSpec

(* Every question and every instruction names a file whose audio is stored *)
(* under the file's key, however many submissions of whichever kind        *)
(* overlap, fail or are abandoned and whatever purges run beside them,     *)
(* except audio that a purge deletes after a row has named it again        *)
(* (POST /uploads/sas, the dialogs, DELETE /installations/:id).            *)
THEOREM CardsCanBePlayed == FilingSpec => []CardsHaveAudio
<1>1. FilingInv => CardsHaveAudio
  BY DEF FilingInv, CardsArePlayable, Playable, CardsHaveAudio
<1> QED
  BY <1>1, FilingAlways, PTL

(* The booth is told that there is no instruction only if none was active  *)
(* throughout its request (randomActiveInstruction).                       *)
THEOREM InstructionFound == FilingSpec => []InstructionIsFound
<1>1. FilingInv => InstructionIsFound
  BY DEF FilingInv, SteadyIsActive, InstructionIsFound
<1> QED
  BY <1>1, FilingAlways, PTL

-----------------------------------------------------------------------------
Person == Staff \cup {NoStaff}
EraRow == [state : {"absent", "open", "ended"}, summary : {Unfrozen} \cup SUBSET Recs,
           endedBy : Person]
RecRow == [status : {"absent", "pending", "decided"}, era : EraIds, asked : EraIds,
           decidedBy : Person, classifiedBy : Person]
Dump == [era : [EraIds -> EraRow], rec : [Recs -> RecRow], staff : SUBSET Staff]

OneOpenEra(d) == \A e, f \in OpenEras(d) : e = f

(* Rows are in order: a recording that exists is filed in an installation  *)
(* that exists, the one of legacy rows included, and no reference dangles. *)
Filed(d) == \A r \in Recs : d.rec[r].status # "absent" => d.era[d.rec[r].era].state # "absent"
AbsentIsEmpty(d) ==
    /\ \A e \in EraIds : d.era[e].state = "absent" => d.era[e] = NoEraRow
    /\ \A r \in Recs : d.rec[r].status = "absent" => d.rec[r] = NoRec
Asked(d) ==
    \A r \in Recs : d.rec[r].asked # 0 => d.era[d.rec[r].asked].state # "absent"
InOrder(d) == d \in Dump /\ OneOpenEra(d) /\ AbsentIsEmpty(d) /\ Filed(d) /\ Asked(d)

(* An archive: rows in order, of one installation or of all; or rows older *)
(* than installations.                                                     *)
Legacy(a) ==
    /\ a.dump \in Dump /\ a.partial = {}
    /\ \A e \in EraIds : a.dump.era[e] = NoEraRow
    /\ \A r \in Recs : \/ a.dump.rec[r] = NoRec
                       \/ /\ a.dump.rec[r].status # "absent"
                          /\ a.dump.rec[r].era = 0 /\ a.dump.rec[r].asked = 0
                          /\ a.dump.rec[r].decidedBy = NoStaff
                          /\ a.dump.rec[r].classifiedBy = NoStaff
Modern(a) ==
    /\ InOrder(a.dump)
    /\ \A r \in Recs : a.dump.rec[r].status # "absent" => a.dump.rec[r].era \notin a.partial
    /\ a.scope = "all" => People(a.dump) \subseteq a.dump.staff
Archived(a) == IF a.scope = "legacy" THEN Legacy(a) ELSE Modern(a) /\ a.scope \in {"all", "era"}

ArchiveInv ==
    /\ InOrder(store) /\ People(store) \subseteq store.staff
    /\ \A a \in DOMAIN archive : Archived(archive[a])

LEMMA ArchiveConstants ==
  /\ 0 \in EraIds /\ NoStaff \notin Staff /\ \A S \in SUBSET Recs : S # Unfrozen
  /\ NoEraRow \in EraRow /\ NoRec \in RecRow
  BY ArchiveAssumption DEF EraIds, NoEraRow, NoRec, EraRow, RecRow, Person

(* At most one is what the constraint on the database counts.              *)
LEMMA OneIsCounted ==
  ASSUME NEW d, OneOpenEra(d)
  PROVE  Cardinality(OpenEras(d)) <= 1
<1>1. CASE OpenEras(d) = {}
  BY <1>1, FS_EmptySet
<1>2. CASE OpenEras(d) # {}
  <2>1. PICK e \in OpenEras(d) : OpenEras(d) = {e}
    BY <1>2 DEF OneOpenEra
  <2>2. Cardinality({e}) = 1
    BY FS_Singleton
  <2>3. Cardinality(OpenEras(d)) = 1
    BY <2>1, <2>2
  <2> QED
    BY <2>3
<1> QED
  BY <1>1, <1>2

LEMMA InOrderRefers ==
  ASSUME NEW d, InOrder(d)
  PROVE  RefersToRows(d)
<1> SUFFICES ASSUME NEW r \in Recs, NEW e \in {d.rec[r].era, d.rec[r].asked} \ {0}
             PROVE  d.era[e] # NoEraRow
  BY DEF RefersToRows
<1>1. d.rec[r].status # "absent" \/ d.rec[r] = NoRec
  BY DEF InOrder, AbsentIsEmpty
<1>2. d.era[e].state # "absent"
  BY <1>1 DEF InOrder, Filed, Asked, NoRec
<1> QED
  BY <1>2 DEF NoEraRow

(* Installations: one closes, and its queue is emptied.                    *)
ClosesOut(c, d, e, o) ==
    /\ c \in Dump /\ c.staff = d.staff
    /\ c.era[e].state = "ended" /\ c.era[e].summary = RecsOf(d, e) /\ c.era[e].endedBy = o
    /\ \A f \in EraIds \ {e} : c.era[f] = d.era[f]
    /\ \A r \in Recs :
         IF r \in RecsOf(d, e) /\ d.rec[r].status = "pending"
         THEN /\ c.rec[r].status = "decided" /\ c.rec[r].decidedBy = NoStaff
              /\ c.rec[r].era = d.rec[r].era /\ c.rec[r].asked = d.rec[r].asked
              /\ c.rec[r].classifiedBy = d.rec[r].classifiedBy
         ELSE c.rec[r] = d.rec[r]

LEMMA ClosedOutEffect ==
  ASSUME NEW d \in Dump, NEW e \in EraIds, NEW o \in Person
  PROVE  ClosesOut(ClosedOut(d, e, o), d, e, o)
<1> DEFINE c == ClosedOut(d, e, o)
           row == [state |-> "ended", summary |-> RecsOf(d, e), endedBy |-> o]
           recs == [r \in Recs |->
                      IF r \in RecsOf(d, e) /\ d.rec[r].status = "pending"
                      THEN [d.rec[r] EXCEPT !.status = "decided", !.decidedBy = NoStaff]
                      ELSE d.rec[r]]
<1>1. c = [d EXCEPT !.era[e] = row, !.rec = recs]
  BY DEF ClosedOut
<1>2. row \in EraRow
  BY DEF EraRow, RecsOf
<1>3. recs \in [Recs -> RecRow]
  <2>1. \A r \in Recs : [d.rec[r] EXCEPT !.status = "decided", !.decidedBy = NoStaff] \in RecRow
    BY DEF Dump, RecRow, Person
  <2>2. \A r \in Recs : d.rec[r] \in RecRow
    BY DEF Dump
  <2> QED
    BY <2>1, <2>2
<1>4. \A r \in Recs :
        IF r \in RecsOf(d, e) /\ d.rec[r].status = "pending"
        THEN recs[r] = [d.rec[r] EXCEPT !.status = "decided", !.decidedBy = NoStaff]
        ELSE recs[r] = d.rec[r]
  OBVIOUS
<1> HIDE DEF c, row, recs
<1>5. /\ c \in Dump /\ c.staff = d.staff /\ c.rec = recs /\ c.era[e] = row
      /\ \A f \in EraIds \ {e} : c.era[f] = d.era[f]
  BY <1>1, <1>2, <1>3 DEF Dump
<1>6. \A r \in Recs :
         IF r \in RecsOf(d, e) /\ d.rec[r].status = "pending"
         THEN /\ recs[r].status = "decided" /\ recs[r].decidedBy = NoStaff
              /\ recs[r].era = d.rec[r].era /\ recs[r].asked = d.rec[r].asked
              /\ recs[r].classifiedBy = d.rec[r].classifiedBy
         ELSE recs[r] = d.rec[r]
  <2>1. \A r \in Recs : d.rec[r] \in RecRow
    BY DEF Dump
  <2> QED
    BY <1>4, <2>1 DEF RecRow
<1>7. c.era[e].state = "ended" /\ c.era[e].summary = RecsOf(d, e) /\ c.era[e].endedBy = o
  BY <1>5 DEF row
<1>8. ClosesOut(c, d, e, o)
  BY <1>5, <1>6, <1>7 DEF ClosesOut
<1> QED
  BY <1>8 DEF c

(* Nobody is referred to who is not an operator here.                      *)
Known(d) ==
    /\ \A e \in EraIds : d.era[e].endedBy \in d.staff \cup {NoStaff}
    /\ \A r \in Recs : {d.rec[r].decidedBy, d.rec[r].classifiedBy} \subseteq d.staff \cup {NoStaff}

LEMMA KnownPeople == \A d : Known(d) <=> People(d) \subseteq d.staff
  BY DEF Known, People, ReferencedOperators

LEMMA ClosedOutInOrder ==
  ASSUME NEW d \in Dump, OneOpenEra(d), AbsentIsEmpty(d), Asked(d),
         NEW e \in EraIds, NEW o \in Person,
         \A r \in Recs : d.rec[r].status # "absent" /\ d.rec[r].era # e =>
                           d.era[d.rec[r].era].state # "absent"
  PROVE  /\ InOrder(ClosedOut(d, e, o))
         /\ OpenEras(ClosedOut(d, e, o)) = OpenEras(d) \ {e}
<1> DEFINE c == ClosedOut(d, e, o)
<1>1. ClosesOut(c, d, e, o)
  BY ClosedOutEffect
<1> HIDE DEF c
<1>2. \A r \in Recs : d.rec[r] \in RecRow /\ d.rec[r].era \in EraIds /\ d.rec[r].asked \in EraIds
  BY DEF Dump, RecRow
<1>3. \A r \in Recs : /\ c.rec[r].era = d.rec[r].era /\ c.rec[r].asked = d.rec[r].asked
                      /\ c.rec[r].status = "absent" <=> d.rec[r].status = "absent"
                      /\ c.rec[r].status = "absent" => c.rec[r] = d.rec[r]
  BY <1>1, <1>2 DEF RecRow, ClosesOut
<1>9. c.era[e].state = "ended" /\ \A f \in EraIds \ {e} : c.era[f] = d.era[f]
  BY <1>1 DEF ClosesOut
<1>4. OpenEras(c) = OpenEras(d) \ {e}
  BY <1>9 DEF OpenEras
<1>5. OneOpenEra(c)
  BY <1>4 DEF OneOpenEra
<1>6. AbsentIsEmpty(c)
  BY <1>9, <1>3 DEF AbsentIsEmpty
<1>7. Filed(c)
  BY <1>9, <1>2, <1>3 DEF Filed
<1>8. Asked(c)
  BY <1>9, <1>2, <1>3 DEF Asked
<1> QED
  BY <1>1, <1>4, <1>5, <1>6, <1>7, <1>8 DEF InOrder, ClosesOut, c

LEMMA ClosedOutKnown ==
  ASSUME NEW d \in Dump, Known(d), NEW e \in EraIds, NEW o \in d.staff \cup {NoStaff}
  PROVE  Known(ClosedOut(d, e, o))
<1> DEFINE c == ClosedOut(d, e, o)
<1>1. o \in Person
  BY DEF Dump, Person
<1>2. ClosesOut(c, d, e, o)
  BY <1>1, ClosedOutEffect
<1> HIDE DEF c
<1>3. \A r \in Recs : d.rec[r] \in RecRow
  BY DEF Dump
<1>4. \A r \in Recs : /\ c.rec[r].decidedBy \in {d.rec[r].decidedBy, NoStaff}
                      /\ c.rec[r].classifiedBy = d.rec[r].classifiedBy
  BY <1>2, <1>3 DEF RecRow, ClosesOut
<1>5. c.staff = d.staff /\ c.era[e].endedBy = o /\ \A f \in EraIds \ {e} : c.era[f] = d.era[f]
  BY <1>2 DEF ClosesOut
<1>6. Known(c)
  BY <1>4, <1>5 DEF Known
<1> QED
  BY <1>6 DEF c

-----------------------------------------------------------------------------
(* A restore.                                                              *)

(* The open installation yields to the archive's.                          *)
LEMMA ReconciledInOrder ==
  ASSUME NEW d, InOrder(d), NEW a
  PROVE  LET c == ReconciledStore(d, a)
         IN  /\ InOrder(c) /\ (Known(d) => Known(c))
             /\ OpenEras(a.dump) = {} \/ OpenEras(c) \subseteq OpenEras(a.dump)
<1> DEFINE incoming == OpenEras(a.dump)
           yielding == OpenEras(d) \ incoming
           e == CHOOSE e \in yielding : TRUE
<1>1. CASE incoming = {} \/ yielding = {}
  <2>1. ReconciledStore(d, a) = d
    BY <1>1 DEF ReconciledStore
  <2> QED
    BY <1>1, <2>1
<1>2. CASE incoming # {} /\ yielding # {}
  <2>1. ReconciledStore(d, a) = ClosedOut(d, e, NoStaff)
    BY <1>2 DEF ReconciledStore
  <2>2. e \in yielding
    BY <1>2
  <2>3. e \in EraIds /\ e \in OpenEras(d)
    BY <2>2 DEF OpenEras
  <2> HIDE DEF e
  <2>4. NoStaff \in Person
    BY DEF Person
  <2>5. InOrder(ClosedOut(d, e, NoStaff)) /\ OpenEras(ClosedOut(d, e, NoStaff)) = OpenEras(d) \ {e}
    BY <2>3, <2>4, ClosedOutInOrder DEF InOrder, Filed
  <2>6. OpenEras(d) \ {e} = {}
    BY <2>3 DEF InOrder, OneOpenEra
  <2>7. Known(d) => Known(ClosedOut(d, e, NoStaff))
    BY <2>3, ClosedOutKnown DEF InOrder
  <2> QED
    BY <2>1, <2>5, <2>6, <2>7
<1> QED
  BY <1>1, <1>2

LEMMA UpsertedRows ==
  ASSUME NEW d \in Dump, NEW a, a.dump \in Dump
  PROVE  LET u == Upserted(d, a)
         IN  /\ u \in Dump /\ u.staff = d.staff \cup a.dump.staff
             /\ \A e \in EraIds :
                  u.era[e] = IF KeepsEraRow(d, a, e) THEN d.era[e] ELSE a.dump.era[e]
             /\ \A r \in Recs :
                  u.rec[r] = IF a.dump.rec[r] = NoRec THEN d.rec[r] ELSE a.dump.rec[r]
<1> DEFINE era == [e \in EraIds |-> IF KeepsEraRow(d, a, e) THEN d.era[e] ELSE a.dump.era[e]]
           rec == [r \in Recs |-> IF a.dump.rec[r] = NoRec THEN d.rec[r] ELSE a.dump.rec[r]]
<1>1. era \in [EraIds -> EraRow] /\ rec \in [Recs -> RecRow]
  BY DEF Dump
<1>2. d.staff \cup a.dump.staff \in SUBSET Staff
  BY DEF Dump
<1>3. Upserted(d, a) = [era |-> era, rec |-> rec, staff |-> d.staff \cup a.dump.staff]
  BY DEF Upserted
<1>4. /\ \A e \in EraIds : era[e] = IF KeepsEraRow(d, a, e) THEN d.era[e] ELSE a.dump.era[e]
      /\ \A r \in Recs : rec[r] = IF a.dump.rec[r] = NoRec THEN d.rec[r] ELSE a.dump.rec[r]
  OBVIOUS
<1> HIDE DEF era, rec
<1> QED
  BY <1>1, <1>2, <1>3, <1>4 DEF Dump

LEMMA UpsertedKnown ==
  ASSUME NEW d \in Dump, NEW a, a.dump \in Dump, Known(d), Known(a.dump)
  PROVE  Known(Upserted(d, a))
  BY UpsertedRows DEF Known

(* An archive of today: what it refers to it brings along, or it is here.  *)
LEMMA UpsertedInOrder ==
  ASSUME NEW d, InOrder(d), NEW a, Modern(a),
         OpenEras(a.dump) = {} \/ OpenEras(d) \subseteq OpenEras(a.dump)
  PROVE  InOrder(Upserted(d, a))
<1> DEFINE u == Upserted(d, a)
<1>1. /\ u \in Dump
      /\ \A e \in EraIds :
           u.era[e] = IF KeepsEraRow(d, a, e) THEN d.era[e] ELSE a.dump.era[e]
      /\ \A r \in Recs :
           u.rec[r] = IF a.dump.rec[r] = NoRec THEN d.rec[r] ELSE a.dump.rec[r]
  BY UpsertedRows DEF InOrder, Modern
<1> HIDE DEF u
<1>2. \A e \in EraIds : a.dump.era[e].state = "absent" <=> a.dump.era[e] = NoEraRow
  BY DEF Modern, InOrder, AbsentIsEmpty, NoEraRow
<1>3. \A e \in EraIds : d.era[e].state = "absent" <=> d.era[e] = NoEraRow
  BY DEF InOrder, AbsentIsEmpty, NoEraRow
<1>4. \A e \in EraIds : d.era[e].state # "absent" \/ a.dump.era[e].state # "absent" =>
                          u.era[e].state # "absent"
  BY <1>1, <1>2, <1>3 DEF KeepsEraRow
<1>5. OpenEras(u) \subseteq OpenEras(d) \cup OpenEras(a.dump)
  BY <1>1 DEF OpenEras
<1>6. OneOpenEra(u)
  BY <1>5 DEF OneOpenEra, Modern, InOrder
<1>7. AbsentIsEmpty(u)
  BY <1>1 DEF Modern, InOrder, AbsentIsEmpty, NoRec
<1>8. \A r \in Recs : /\ a.dump.rec[r].era \in EraIds /\ a.dump.rec[r].asked \in EraIds
                      /\ d.rec[r].era \in EraIds /\ d.rec[r].asked \in EraIds
  BY DEF Modern, InOrder, Dump, RecRow
<1>9. Filed(u)
  BY <1>1, <1>4, <1>8 DEF Modern, InOrder, Filed, AbsentIsEmpty
<1>10. Asked(u)
  BY <1>1, <1>4, <1>8 DEF Modern, InOrder, Asked
<1> QED
  BY <1>1, <1>6, <1>7, <1>9, <1>10 DEF InOrder, u

(* Legacy rows are adopted by an installation that has ended.              *)
Adopts(b, d, a) ==
    /\ b \in Dump /\ b.staff = d.staff \cup a.dump.staff
    /\ \A e \in EraIds : b.era[e] = d.era[e]
    /\ \A r \in Recs : IF a.dump.rec[r] = NoRec THEN b.rec[r] = d.rec[r]
                       ELSE /\ b.rec[r].era = 0 /\ b.rec[r].asked = 0
                            /\ b.rec[r].status # "absent"
                            /\ b.rec[r].decidedBy = NoStaff /\ b.rec[r].classifiedBy = NoStaff

LEMMA AdoptedEffect ==
  ASSUME NEW d \in Dump, NEW a, Legacy(a), a.scope = "legacy"
  PROVE  \E b : Adopts(b, d, a) /\ Adopted(Upserted(d, a), a) = ClosedOut(b, 0, NoStaff)
<1> DEFINE u == Upserted(d, a)
           recs == [r \in Recs |-> IF a.dump.rec[r] = NoRec THEN u.rec[r]
                                   ELSE [u.rec[r] EXCEPT !.era = 0]]
           b == [u EXCEPT !.rec = recs]
<1>1. Adopted(u, a) = ClosedOut(b, 0, NoStaff)
  BY DEF Adopted
<1>2. /\ u \in Dump /\ u.staff = d.staff \cup a.dump.staff
      /\ \A e \in EraIds :
           u.era[e] = IF KeepsEraRow(d, a, e) THEN d.era[e] ELSE a.dump.era[e]
      /\ \A r \in Recs :
           u.rec[r] = IF a.dump.rec[r] = NoRec THEN d.rec[r] ELSE a.dump.rec[r]
  BY UpsertedRows DEF Legacy
<1>3. \A e \in EraIds : u.era[e] = d.era[e]
  BY <1>2 DEF KeepsEraRow, Legacy
<1>4. \A r \in Recs : u.rec[r] \in RecRow
  BY <1>2 DEF Dump
<1>5. recs \in [Recs -> RecRow]
  BY <1>4, ArchiveConstants DEF RecRow
<1>6. \A r \in Recs : IF a.dump.rec[r] = NoRec THEN recs[r] = d.rec[r]
                      ELSE /\ recs[r].era = 0
                           /\ recs[r].asked = 0 /\ recs[r].status # "absent"
                           /\ recs[r].decidedBy = NoStaff /\ recs[r].classifiedBy = NoStaff
  BY <1>2, <1>4 DEF Legacy, RecRow
<1> HIDE DEF u, recs
<1>7. b \in Dump /\ b.rec = recs /\ b.staff = u.staff /\ b.era = u.era
  BY <1>2, <1>5 DEF Dump
<1> HIDE DEF b
<1>8. Adopts(b, d, a)
  BY <1>2, <1>3, <1>6, <1>7 DEF Adopts
<1> QED
  BY <1>1, <1>8 DEF u

LEMMA AdoptedInOrder ==
  ASSUME NEW d, InOrder(d), NEW a, Legacy(a), a.scope = "legacy"
  PROVE  /\ InOrder(Adopted(Upserted(d, a), a))
         /\ Known(d) => Known(Adopted(Upserted(d, a), a))
<1>1. PICK b : Adopts(b, d, a) /\ Adopted(Upserted(d, a), a) = ClosedOut(b, 0, NoStaff)
  BY AdoptedEffect DEF InOrder
<1>2. b \in Dump /\ OneOpenEra(b)
  BY <1>1 DEF Adopts, OneOpenEra, OpenEras, InOrder
<1>3. \A r \in Recs : d.rec[r].era \in EraIds /\ d.rec[r].asked \in EraIds
  BY DEF InOrder, Dump, RecRow
<1>4. AbsentIsEmpty(b)
  BY <1>1 DEF Adopts, AbsentIsEmpty, InOrder
<1>5. Asked(b)
  BY <1>1, <1>3 DEF Adopts, Asked, InOrder
<1>6. \A r \in Recs : b.rec[r].status # "absent" /\ b.rec[r].era # 0 =>
                         b.era[b.rec[r].era].state # "absent"
  BY <1>1, <1>3 DEF Adopts, Filed, InOrder
<1>7. NoStaff \in Person /\ 0 \in EraIds
  BY ArchiveConstants DEF Person
<1>8. InOrder(ClosedOut(b, 0, NoStaff))
  BY <1>2, <1>4, <1>5, <1>6, <1>7, ClosedOutInOrder
<1>9. ASSUME Known(d) PROVE Known(ClosedOut(b, 0, NoStaff))
  <2>1. Known(b)
    BY <1>1, <1>9 DEF Adopts, Known
  <2> QED
    BY <1>2, <1>7, <2>1, ClosedOutKnown
<1> QED
  BY <1>1, <1>8, <1>9

LEMMA RestoredInOrder ==
  ASSUME NEW d, InOrder(d), NEW a, Archived(a)
  PROVE  /\ InOrder(Restored(d, a))
         /\ a.scope # "era" /\ Known(d) => Known(Restored(d, a))
<1> DEFINE c == ReconciledStore(d, a)
<1>1. /\ InOrder(c) /\ (Known(d) => Known(c))
      /\ OpenEras(a.dump) = {} \/ OpenEras(c) \subseteq OpenEras(a.dump)
  BY ReconciledInOrder
<1>2. Restored(d, a) = Adopted(Upserted(c, a), a)
  BY DEF Restored
<1> HIDE DEF c
<1>3. CASE a.scope = "legacy"
  BY <1>1, <1>2, <1>3, AdoptedInOrder DEF Archived
<1>4. CASE a.scope # "legacy"
  <2>1. Restored(d, a) = Upserted(c, a)
    BY <1>2, <1>4 DEF Adopted
  <2>2. Modern(a) /\ a.scope \in {"all", "era"}
    BY <1>4 DEF Archived
  <2>3. InOrder(Upserted(c, a))
    BY <1>1, <2>2, UpsertedInOrder
  <2>4. ASSUME a.scope # "era", Known(d)
        PROVE  Known(Upserted(c, a))
    <3>1. Known(a.dump) /\ a.dump \in Dump
      BY <2>2, <2>4, KnownPeople DEF Modern, InOrder
    <3> QED
      BY <1>1, <2>4, <3>1, UpsertedKnown DEF InOrder
  <2> QED
    BY <2>1, <2>3, <2>4
<1> QED
  BY <1>3, <1>4

-----------------------------------------------------------------------------
(* The instance goes on.                                                   *)

LEMMA SignInInOrder ==
  ASSUME NEW d, InOrder(d), Known(d), NEW o \in Staff
  PROVE  LET c == [d EXCEPT !.staff = @ \cup {o}] IN InOrder(c) /\ Known(c)
<1> DEFINE c == [d EXCEPT !.staff = @ \cup {o}]
<1>1. c \in Dump /\ c.era = d.era /\ c.rec = d.rec /\ c.staff = d.staff \cup {o}
  BY DEF InOrder, Dump
<1> HIDE DEF c
<1>2. InOrder(c)
  BY <1>1 DEF InOrder, OneOpenEra, OpenEras, AbsentIsEmpty, Filed, Asked
<1>3. Known(c)
  BY <1>1 DEF Known
<1> QED
  BY <1>2, <1>3 DEF c

LEMMA BeginEraInOrder ==
  ASSUME NEW d, InOrder(d), Known(d), NEW e \in EraIds, OpenEras(d) = {}
  PROVE  LET c == [d EXCEPT !.era[e].state = "open"] IN InOrder(c) /\ Known(c)
<1> DEFINE c == [d EXCEPT !.era[e].state = "open"]
           row == [d.era[e] EXCEPT !.state = "open"]
<1>1. row \in EraRow /\ row.state = "open" /\ row.endedBy = d.era[e].endedBy
  BY DEF InOrder, Dump, EraRow
<1>2. c = [d EXCEPT !.era[e] = row]
  BY DEF InOrder, Dump
<1> HIDE DEF c, row
<1>3. /\ c \in Dump /\ c.rec = d.rec /\ c.staff = d.staff /\ c.era[e] = row
      /\ \A f \in EraIds \ {e} : c.era[f] = d.era[f]
  BY <1>1, <1>2 DEF InOrder, Dump
<1>4. OpenEras(c) = {e}
  BY <1>1, <1>3 DEF OpenEras
<1>5. \A r \in Recs : d.rec[r].era \in EraIds /\ d.rec[r].asked \in EraIds
  BY DEF InOrder, Dump, RecRow
<1>6. OneOpenEra(c)
  BY <1>4 DEF OneOpenEra
<1>7. AbsentIsEmpty(c) /\ Filed(c) /\ Asked(c)
  BY <1>1, <1>3, <1>5 DEF InOrder, AbsentIsEmpty, Filed, Asked
<1>8. InOrder(c)
  BY <1>3, <1>6, <1>7 DEF InOrder
<1>9. Known(c)
  BY <1>1, <1>3 DEF Known
<1> QED
  BY <1>8, <1>9 DEF c

(* A recording is filed, decided or classified.                            *)
LEMMA RowInOrder ==
  ASSUME NEW d, InOrder(d), Known(d), NEW r \in Recs, NEW row \in RecRow,
         row.status # "absent", d.era[row.era].state # "absent",
         row.asked # 0 => d.era[row.asked].state # "absent",
         {row.decidedBy, row.classifiedBy} \subseteq d.staff \cup {NoStaff}
  PROVE  LET c == [d EXCEPT !.rec[r] = row] IN InOrder(c) /\ Known(c)
<1> DEFINE c == [d EXCEPT !.rec[r] = row]
<1>1. /\ c \in Dump /\ c.era = d.era /\ c.staff = d.staff /\ c.rec[r] = row
      /\ \A q \in Recs \ {r} : c.rec[q] = d.rec[q]
  BY DEF InOrder, Dump
<1> HIDE DEF c
<1>2. OneOpenEra(c)
  BY <1>1 DEF InOrder, OneOpenEra, OpenEras
<1>3. AbsentIsEmpty(c) /\ Filed(c) /\ Asked(c)
  BY <1>1 DEF InOrder, AbsentIsEmpty, Filed, Asked
<1>4. InOrder(c)
  BY <1>1, <1>2, <1>3 DEF InOrder
<1>5. Known(c)
  BY <1>1 DEF Known
<1> QED
  BY <1>4, <1>5 DEF c

LEMMA PurgedInOrder ==
  ASSUME NEW d, InOrder(d), Known(d), NEW e \in EraIds
  PROVE  LET c == [d EXCEPT !.era[e] = NoEraRow,
                            !.rec = [r \in Recs |-> IF r \in RecsOf(d, e) THEN NoRec
                                                    ELSE IF d.rec[r].asked = e
                                                    THEN [d.rec[r] EXCEPT !.asked = 0]
                                                    ELSE d.rec[r]]]
         IN  InOrder(c) /\ Known(c)
<1> DEFINE recs == [r \in Recs |-> IF r \in RecsOf(d, e) THEN NoRec
                                   ELSE IF d.rec[r].asked = e
                                   THEN [d.rec[r] EXCEPT !.asked = 0] ELSE d.rec[r]]
           c == [d EXCEPT !.era[e] = NoEraRow, !.rec = recs]
<1>1. \A r \in Recs : d.rec[r] \in RecRow /\ [d.rec[r] EXCEPT !.asked = 0] \in RecRow
  BY ArchiveConstants DEF InOrder, Dump, RecRow
<1>2. recs \in [Recs -> RecRow]
  BY <1>1, ArchiveConstants
<1>3. \A r \in Recs :
        IF r \in RecsOf(d, e) THEN recs[r] = NoRec
        ELSE /\ recs[r].status = d.rec[r].status /\ recs[r].era = d.rec[r].era
             /\ recs[r].decidedBy = d.rec[r].decidedBy
             /\ recs[r].classifiedBy = d.rec[r].classifiedBy
             /\ IF d.rec[r].asked = e THEN recs[r].asked = 0 ELSE recs[r] = d.rec[r]
  BY <1>1 DEF RecRow
<1> HIDE DEF recs
<1>4. /\ c \in Dump /\ c.rec = recs /\ c.staff = d.staff /\ c.era[e] = NoEraRow
      /\ \A f \in EraIds \ {e} : c.era[f] = d.era[f]
  BY <1>2, ArchiveConstants DEF InOrder, Dump
<1> HIDE DEF c
<1>5. OneOpenEra(c)
  BY <1>4 DEF InOrder, OneOpenEra, OpenEras, NoEraRow
<1>6. AbsentIsEmpty(c)
  <2>1. \A f \in EraIds : c.era[f].state = "absent" => c.era[f] = NoEraRow
    BY <1>4 DEF InOrder, AbsentIsEmpty
  <2>2. ASSUME NEW r \in Recs, c.rec[r].status = "absent"
        PROVE  c.rec[r] = NoRec
    <3>1. CASE r \in RecsOf(d, e)
      BY <1>3, <1>4, <3>1
    <3>2. CASE r \notin RecsOf(d, e)
      <4>1. d.rec[r] = NoRec
        BY <1>3, <1>4, <2>2, <3>2 DEF InOrder, AbsentIsEmpty
      <4>2. c.rec[r] = [NoRec EXCEPT !.asked = 0] \/ c.rec[r] = NoRec
        BY <1>3, <1>4, <3>2, <4>1, <1>2 DEF RecRow, NoRec
      <4> QED
        BY <4>2 DEF NoRec
    <3> QED
      BY <3>1, <3>2
  <2> QED
    BY <2>1, <2>2 DEF AbsentIsEmpty
<1>11. \A r \in Recs : d.rec[r].era \in EraIds /\ d.rec[r].asked \in EraIds
  BY <1>1 DEF RecRow
<1>7. Filed(c)
  <2> SUFFICES ASSUME NEW r \in Recs, c.rec[r].status # "absent"
               PROVE  c.era[c.rec[r].era].state # "absent"
    BY DEF Filed
  <2>1. r \notin RecsOf(d, e)
    BY <1>3, <1>4 DEF NoRec
  <2>2. d.rec[r].status # "absent" /\ c.rec[r].era = d.rec[r].era
    BY <1>3, <1>4, <2>1
  <2>3. d.rec[r].era # e
    BY <2>1, <2>2 DEF RecsOf
  <2> QED
    BY <1>4, <1>11, <2>2, <2>3 DEF InOrder, Filed
<1>8. Asked(c)
  <2> SUFFICES ASSUME NEW r \in Recs, c.rec[r].asked # 0
               PROVE  c.era[c.rec[r].asked].state # "absent"
    BY DEF Asked
  <2>1. r \notin RecsOf(d, e)
    BY <1>3, <1>4 DEF NoRec
  <2>2. d.rec[r].asked # e /\ c.rec[r] = d.rec[r]
    BY <1>3, <1>4, <2>1
  <2> QED
    BY <1>4, <1>11, <2>2 DEF InOrder, Asked
<1>9. InOrder(c)
  BY <1>4, <1>5, <1>6, <1>7, <1>8 DEF InOrder
<1>10. Known(c)
  BY <1>3, <1>4 DEF Known, NoRec, NoEraRow
<1> QED
  BY <1>9, <1>10 DEF c, recs

LEMMA EmptyInOrder == InOrder(EmptyDump) /\ Known(EmptyDump)
<1>1. /\ EmptyDump \in Dump /\ EmptyDump.staff = {}
      /\ \A e \in EraIds : EmptyDump.era[e] = NoEraRow
      /\ \A r \in Recs : EmptyDump.rec[r] = NoRec
  BY ArchiveConstants DEF EmptyDump, Dump
<1>2. OneOpenEra(EmptyDump)
  BY <1>1 DEF OneOpenEra, OpenEras, NoEraRow
<1>3. AbsentIsEmpty(EmptyDump) /\ Filed(EmptyDump) /\ Asked(EmptyDump)
  BY <1>1 DEF AbsentIsEmpty, Filed, Asked, NoRec
<1> QED
  BY <1>1, <1>2, <1>3 DEF InOrder, Known, NoRec, NoEraRow

(* An export of one installation brings the installations that it refers   *)
(* to, and no recording of theirs.                                         *)
LEMMA ScopedIsModern ==
  ASSUME InOrder(store), NEW e \in EraIds
  PROVE  Archived([dump |-> ScopedDump(e), scope |-> "era", partial |-> ScopedEras(e) \ {e}])
<1> DEFINE eras == [x \in EraIds |->
                      IF x = e THEN store.era[x]
                      ELSE IF x \in ScopedEras(e)
                      THEN [store.era[x] EXCEPT !.summary = Unfrozen] ELSE NoEraRow]
           recs == [r \in Recs |-> IF r \in RecsOf(store, e) THEN store.rec[r] ELSE NoRec]
           rows == [era |-> eras, rec |-> recs, staff |-> {}]
           c == ScopedDump(e)
           a == [dump |-> c, scope |-> "era", partial |-> ScopedEras(e) \ {e}]
<1>1. c = [rows EXCEPT !.staff = ReferencedOperators(rows)]
  BY DEF ScopedDump
<1>2. \A x \in EraIds : store.era[x] \in EraRow
                        /\ [store.era[x] EXCEPT !.summary = Unfrozen] \in EraRow
  BY DEF InOrder, Dump, EraRow
<1>3. eras \in [EraIds -> EraRow]
  BY <1>2, ArchiveConstants
<1>4. \A r \in Recs : store.rec[r] \in RecRow
  BY DEF InOrder, Dump
<1>5. recs \in [Recs -> RecRow]
  BY <1>4, ArchiveConstants
<1>6. \A x \in EraIds :
        /\ eras[x].state = "absent" => eras[x] = NoEraRow
        /\ eras[x].state \in {store.era[x].state, "absent"}
        /\ x \in {e} \cup ScopedEras(e) => eras[x].state = store.era[x].state
        /\ eras[x].endedBy \in Person
  <2> SUFFICES ASSUME NEW x \in EraIds
               PROVE  /\ eras[x].state = "absent" => eras[x] = NoEraRow
                      /\ eras[x].state \in {store.era[x].state, "absent"}
                      /\ x \in {e} \cup ScopedEras(e) => eras[x].state = store.era[x].state
                      /\ eras[x].endedBy \in Person
    OBVIOUS
  <2>1. eras[x].endedBy \in Person
    BY <1>3 DEF EraRow
  <2>2. store.era[x].state = "absent" => store.era[x] = NoEraRow
    BY DEF InOrder, AbsentIsEmpty
  <2>3. CASE x = e
    BY <2>1, <2>2, <2>3
  <2>4. CASE x # e /\ x \in ScopedEras(e)
    <3>1. eras[x] = [store.era[x] EXCEPT !.summary = Unfrozen]
      BY <2>4
    <3>2. eras[x].state = store.era[x].state
      BY <1>2, <3>1 DEF EraRow
    <3>3. store.era[x] = NoEraRow => eras[x] = NoEraRow
      BY <3>1 DEF NoEraRow
    <3> QED
      BY <2>1, <2>2, <3>2, <3>3
  <2>5. CASE x # e /\ x \notin ScopedEras(e)
    <3>1. eras[x] = NoEraRow
      BY <2>5
    <3> QED
      BY <2>1, <2>5, <3>1 DEF NoEraRow
  <2> QED
    BY <2>3, <2>4, <2>5
<1>7. \A r \in Recs : IF r \in RecsOf(store, e) THEN recs[r] = store.rec[r] ELSE recs[r] = NoRec
  OBVIOUS
<1>8. ReferencedOperators(rows) \in SUBSET Staff
  <2>1. rows.era = eras /\ rows.rec = recs
    OBVIOUS
  <2> HIDE DEF rows, eras, recs
  <2>2. \A r \in Recs : recs[r].decidedBy \in Person
    BY <1>5 DEF RecRow
  <2> QED
    BY <1>6, <2>1, <2>2 DEF ReferencedOperators, Person
<1>9. c \in Dump /\ c.era = eras /\ c.rec = recs
  BY <1>1, <1>3, <1>5, <1>8 DEF Dump
<1> HIDE DEF c, rows, eras, recs
<1>10. OneOpenEra(c)
  BY <1>6, <1>9 DEF InOrder, OneOpenEra, OpenEras
<1>11. AbsentIsEmpty(c)
  BY <1>6, <1>7, <1>9 DEF InOrder, AbsentIsEmpty
<1>12. \A r \in Recs : c.rec[r].status # "absent" => r \in RecsOf(store, e) /\ c.rec[r].era = e
  BY <1>7, <1>9 DEF RecsOf, NoRec
<1>13. Filed(c)
  <2> SUFFICES ASSUME NEW r \in Recs, c.rec[r].status # "absent"
               PROVE  c.era[e].state # "absent"
    BY <1>12 DEF Filed
  <2>1. store.rec[r].status # "absent" /\ store.rec[r].era = e
    BY <1>12 DEF RecsOf
  <2> QED
    BY <1>6, <1>9, <2>1 DEF InOrder, Filed
<1>14. Asked(c)
  <2> SUFFICES ASSUME NEW r \in Recs, c.rec[r].asked # 0
               PROVE  c.era[c.rec[r].asked].state # "absent"
    BY DEF Asked
  <2>1. r \in RecsOf(store, e) /\ c.rec[r] = store.rec[r]
    BY <1>7, <1>9 DEF NoRec
  <2>2. store.rec[r].asked \in EraIds /\ store.rec[r].asked \in ScopedEras(e)
    BY <1>4, <2>1 DEF RecRow, ScopedEras
  <2> QED
    BY <1>6, <1>9, <2>1, <2>2 DEF InOrder, Asked
<1>15. InOrder(c)
  BY <1>9, <1>10, <1>11, <1>13, <1>14 DEF InOrder
<1>16. a.dump = c /\ a.scope = "era" /\ a.partial = ScopedEras(e) \ {e}
  OBVIOUS
<1>17. Archived(a)
  BY <1>12, <1>15, <1>16 DEF Archived, Modern
<1> QED
  BY <1>17 DEF c

LEMMA WholeIsModern ==
  ASSUME InOrder(store), Known(store)
  PROVE  Archived([dump |-> store, scope |-> "all", partial |-> {}])
BY KnownPeople DEF Archived, Modern

LEMMA KeepsArchived ==
  ASSUME NEW a, NEW x, Archived(x), \A b \in DOMAIN archive : Archived(archive[b]), Keep(a, x)
  PROVE  \A b \in DOMAIN archive' : Archived(archive'[b])
BY DEF Keep

-----------------------------------------------------------------------------
LEMMA ArchiveInitInv == ArchiveInit => ArchiveInv
<1> SUFFICES ASSUME ArchiveInit PROVE ArchiveInv
  OBVIOUS
<1>1. InOrder(store) /\ People(store) \subseteq store.staff
  BY EmptyInOrder, KnownPeople DEF ArchiveInit
<1>2. ASSUME NEW a \in LegacyArchives PROVE Archived(a)
  <2>1. PICK status \in {"pending", "decided"} :
          a = [dump |-> [EmptyDump EXCEPT !.rec = [r \in Recs |-> [NoRec EXCEPT !.status = status]]],
               scope |-> "legacy", partial |-> {}]
    BY <1>2 DEF LegacyArchives
  <2> DEFINE row == [NoRec EXCEPT !.status = status]
  <2>2. /\ row \in RecRow /\ row.status # "absent" /\ row.era = 0 /\ row.asked = 0
        /\ row.decidedBy = NoStaff /\ row.classifiedBy = NoStaff
    BY ArchiveConstants DEF NoRec, RecRow, Person
  <2>3. EmptyDump \in Dump /\ \A e \in EraIds : EmptyDump.era[e] = NoEraRow
    BY EmptyInOrder DEF InOrder, EmptyDump
  <2>4. /\ a.scope = "legacy" /\ a.partial = {}
        /\ a.dump = [EmptyDump EXCEPT !.rec = [r \in Recs |-> row]]
    BY <2>1
  <2> HIDE DEF row
  <2>5. a.dump \in Dump /\ a.dump.era = EmptyDump.era /\ \A r \in Recs : a.dump.rec[r] = row
    BY <2>2, <2>3, <2>4 DEF Dump
  <2> QED
    BY <2>2, <2>3, <2>4, <2>5 DEF Archived, Legacy
<1>3. \A a \in DOMAIN archive : archive[a] \in LegacyArchives
  BY DEF ArchiveInit
<1> QED
  BY <1>1, <1>2, <1>3 DEF ArchiveInv

LEMMA ArchiveNextInv == ArchiveInv /\ [ArchiveNext]_archiveVars => ArchiveInv'
<1> SUFFICES ASSUME ArchiveInv, [ArchiveNext]_archiveVars
             PROVE  ArchiveInv'
  OBVIOUS
<1>1. InOrder(store) /\ Known(store) /\ \A a \in DOMAIN archive : Archived(archive[a])
  BY KnownPeople DEF ArchiveInv
<1>2. ASSUME InOrder(store'), Known(store'), UNCHANGED archive
      PROVE  ArchiveInv'
  BY <1>1, <1>2, KnownPeople DEF ArchiveInv
<1>3. ASSUME NEW a, NEW x, Archived(x), Keep(a, x), UNCHANGED store
      PROVE  ArchiveInv'
  BY <1>1, <1>3, KnownPeople, KeepsArchived DEF ArchiveInv
<1>4. \A r \in Recs : store.rec[r] \in RecRow
  BY <1>1 DEF InOrder, Dump
<1>5. store.staff \subseteq Staff /\ store.staff \subseteq Person
  BY <1>1 DEF InOrder, Dump, Person
<1>6. ASSUME NEW o \in Staff, SignIn(o) PROVE ArchiveInv'
  BY <1>1, <1>2, <1>6, SignInInOrder DEF SignIn
<1>7. ASSUME NEW e \in EraIds, BeginEra(e) PROVE ArchiveInv'
  BY <1>1, <1>2, <1>7, BeginEraInOrder DEF BeginEra
<1>8. ASSUME NEW e \in EraIds, PurgeEra(e) PROVE ArchiveInv'
  BY <1>1, <1>2, <1>8, PurgedInOrder DEF PurgeEra
<1>9. ASSUME NEW e \in EraIds, NEW a \in Shelf, ExportEra(a, e) PROVE ArchiveInv'
  BY <1>1, <1>3, <1>9, ScopedIsModern DEF ExportEra
<1>10. ASSUME NEW e \in EraIds, NEW o \in Staff, FinishEra(e, o) PROVE ArchiveInv'
  <2>1. o \in store.staff \cup {NoStaff} /\ o \in Person
    BY <1>10, <1>5 DEF FinishEra
  <2>2. InOrder(ClosedOut(store, e, o))
    BY <1>1, <2>1, ClosedOutInOrder DEF InOrder, Filed
  <2>3. Known(ClosedOut(store, e, o))
    BY <1>1, <2>1, ClosedOutKnown DEF InOrder
  <2> QED
    BY <1>2, <1>10, <2>2, <2>3 DEF FinishEra
<1>11. ASSUME NEW e \in EraIds, NEW r \in Recs, NEW asked \in EraIds, FileRec(r, e, asked)
       PROVE  ArchiveInv'
  <2> DEFINE row == [NoRec EXCEPT !.status = "pending", !.era = e, !.asked = asked]
  <2>1. /\ row \in RecRow /\ row.status # "absent" /\ row.era = e /\ row.asked = asked
        /\ row.decidedBy = NoStaff /\ row.classifiedBy = NoStaff
    BY DEF NoRec, RecRow, Person
  <2>2. store' = [store EXCEPT !.rec[r] = row]
    BY <1>11 DEF FileRec
  <2> HIDE DEF row
  <2>3. store.era[e].state # "absent" /\ store.era[asked].state # "absent"
    BY <1>11 DEF FileRec, OpenEras, Ended
  <2> QED
    BY <1>1, <1>2, <1>11, <2>1, <2>2, <2>3, RowInOrder DEF FileRec
<1>12. ASSUME NEW r \in Recs, NEW o \in Staff, DecideRec(r, o) PROVE ArchiveInv'
  <2> DEFINE row == [store.rec[r] EXCEPT !.status = "decided", !.decidedBy = o]
  <2>1. /\ row \in RecRow /\ row.status # "absent"
        /\ row.era = store.rec[r].era /\ row.asked = store.rec[r].asked
        /\ row.decidedBy = o /\ row.classifiedBy = store.rec[r].classifiedBy
    BY <1>4 DEF RecRow, Person
  <2>2. store' = [store EXCEPT !.rec[r] = row]
    BY <1>12, <1>1 DEF DecideRec, InOrder, Dump
  <2> HIDE DEF row
  <2>3. store.era[row.era].state # "absent"
    BY <1>1, <1>12, <2>1 DEF DecideRec, InOrder, Filed
  <2>4. row.asked # 0 => store.era[row.asked].state # "absent"
    BY <1>1, <2>1 DEF InOrder, Asked
  <2>5. {row.decidedBy, row.classifiedBy} \subseteq store.staff \cup {NoStaff}
    BY <1>1, <1>12, <2>1 DEF DecideRec, Known
  <2>6. InOrder([store EXCEPT !.rec[r] = row]) /\ Known([store EXCEPT !.rec[r] = row])
    BY <1>1, <2>1, <2>3, <2>4, <2>5, RowInOrder
  <2> QED
    BY <1>2, <1>12, <2>2, <2>6 DEF DecideRec
<1>13. ASSUME NEW r \in Recs, NEW o \in Staff, ClassifyRec(r, o) PROVE ArchiveInv'
  <2> DEFINE row == [store.rec[r] EXCEPT !.classifiedBy = o]
  <2>1. /\ row \in RecRow /\ row.status = store.rec[r].status
        /\ row.era = store.rec[r].era /\ row.asked = store.rec[r].asked
        /\ row.decidedBy = store.rec[r].decidedBy /\ row.classifiedBy = o
    BY <1>4 DEF RecRow, Person
  <2>2. store' = [store EXCEPT !.rec[r] = row]
    BY <1>13, <1>1 DEF ClassifyRec, InOrder, Dump
  <2> HIDE DEF row
  <2>3. row.status # "absent" /\ store.era[row.era].state # "absent"
    BY <1>1, <1>13, <2>1 DEF ClassifyRec, InOrder, Filed
  <2>4. row.asked # 0 => store.era[row.asked].state # "absent"
    BY <1>1, <2>1 DEF InOrder, Asked
  <2>5. {row.decidedBy, row.classifiedBy} \subseteq store.staff \cup {NoStaff}
    BY <1>1, <1>13, <2>1 DEF ClassifyRec, Known
  <2> QED
    BY <1>1, <1>2, <1>13, <2>1, <2>2, <2>3, <2>4, <2>5, RowInOrder DEF ClassifyRec
<1>14. ASSUME FreshInstance PROVE ArchiveInv'
  BY <1>2, <1>14, EmptyInOrder DEF FreshInstance
<1>15. ASSUME NEW a \in Shelf, ExportAll(a) PROVE ArchiveInv'
  BY <1>1, <1>3, <1>15, WholeIsModern DEF ExportAll
<1>16. ASSUME NEW a \in Shelf, Restore(a) PROVE ArchiveInv'
  <2>1. InOrder(Restored(store, archive[a]))
    BY <1>1, <1>16, RestoredInOrder DEF Restore
  <2>2. Known(Restored(store, archive[a]))
    BY <1>16, KnownPeople DEF Restore, Acceptable
  <2> QED
    BY <1>2, <1>16, <2>1, <2>2 DEF Restore
<1>17. CASE UNCHANGED archiveVars
  BY <1>1, <1>2, <1>17 DEF archiveVars
<1> QED
  BY <1>6, <1>7, <1>8, <1>9, <1>10, <1>11, <1>12, <1>13, <1>14, <1>15, <1>16, <1>17
     DEF ArchiveNext

LEMMA AnyRestoreFits ==
  ASSUME ArchiveInv
  PROVE  RestoredRowsFit
<1> SUFFICES ASSUME NEW a \in DOMAIN archive, NEW d \in {store, EmptyDump}
             PROVE  LET after == Restored(d, archive[a])
                    IN  /\ Cardinality(OpenEras(after)) <= 1
                        /\ RefersToRows(after)
                        /\ archive[a].scope = "era" \/ People(after) \subseteq after.staff
  BY DEF RestoredRowsFit
<1>1. InOrder(d) /\ Known(d) /\ Archived(archive[a])
  BY EmptyInOrder, KnownPeople DEF ArchiveInv
<1>2. /\ InOrder(Restored(d, archive[a]))
      /\ archive[a].scope # "era" => Known(Restored(d, archive[a]))
  BY <1>1, RestoredInOrder
<1>3. OneOpenEra(Restored(d, archive[a]))
  BY <1>2 DEF InOrder
<1> QED
  BY <1>2, <1>3, OneIsCounted, InOrderRefers, KnownPeople

(* Whatever happened since an export, here or on a fresh instance, the     *)
(* rows of the archive fit those it is restored over, whether or not the   *)
(* database client takes each of them (lib/data-archive.ts,                *)
(* restoreImportArchive).                                                  *)
THEOREM RestoresFit == ArchiveSpec => []RestoredRowsFit
  BY AnyRestoreFits, ArchiveInitInv, ArchiveNextInv, PTL DEF ArchiveSpec

-----------------------------------------------------------------------------
(* What has ended is settled.                                              *)
EraSettled(d, e) ==
    /\ \A r \in RecsOf(d, e) : d.rec[r].status = "decided"
    /\ RecsOf(d, e) # {} => d.era[e].summary # Unfrozen

(* Closing an installation settles it, and no other is touched.            *)
LEMMA ClosedOutSettles ==
  ASSUME NEW d \in Dump, NEW e \in EraIds, NEW o \in Person,
         \A f \in Ended(d) \ {e} : EraSettled(d, f)
  PROVE  WellFormed(ClosedOut(d, e, o))
<1> DEFINE c == ClosedOut(d, e, o)
<1>1. ClosesOut(c, d, e, o)
  BY ClosedOutEffect
<1> HIDE DEF c
<1>2. \A r \in Recs : d.rec[r] \in RecRow
  BY DEF Dump
<1>3. \A r \in Recs : /\ c.rec[r].era = d.rec[r].era
                      /\ c.rec[r].status = "absent" <=> d.rec[r].status = "absent"
  BY <1>1, <1>2 DEF RecRow, ClosesOut
<1>4. \A f \in EraIds : RecsOf(c, f) = RecsOf(d, f)
  BY <1>3 DEF RecsOf
<1>5. \A r \in RecsOf(d, e) : c.rec[r].status = "decided"
  BY <1>1, <1>2 DEF RecRow, ClosesOut, RecsOf
<1>6. c.era[e].summary # Unfrozen
  BY <1>1, ArchiveConstants DEF ClosesOut, RecsOf
<1>7. EraSettled(c, e)
  BY <1>4, <1>5, <1>6 DEF EraSettled
<1>8. ASSUME NEW f \in Ended(c) \ {e} PROVE EraSettled(c, f)
  <2>1. f \in Ended(d) \ {e} /\ f \in EraIds /\ c.era[f] = d.era[f]
    BY <1>1 DEF ClosesOut, Ended
  <2>2. \A r \in RecsOf(d, f) : c.rec[r] = d.rec[r]
    BY <1>1, <2>1 DEF ClosesOut, RecsOf
  <2> QED
    BY <1>4, <2>1, <2>2 DEF EraSettled
<1>9. WellFormed(c)
  BY <1>7, <1>8 DEF WellFormed, EraSettled
<1> QED
  BY <1>9 DEF c

LEMMA ReconciledSettles ==
  ASSUME NEW d, InOrder(d), WellFormed(d), NEW a
  PROVE  LET c == ReconciledStore(d, a)
         IN  WellFormed(c) /\ OpenEras(c) \subseteq OpenEras(d)
<1> DEFINE yielding == OpenEras(d) \ OpenEras(a.dump)
           e == CHOOSE e \in yielding : TRUE
<1>1. CASE ReconciledStore(d, a) = d
  BY <1>1
<1>2. CASE ReconciledStore(d, a) # d
  <2>1. yielding # {} /\ ReconciledStore(d, a) = ClosedOut(d, e, NoStaff)
    BY <1>2 DEF ReconciledStore
  <2>2. e \in yielding
    BY <2>1
  <2>3. e \in EraIds
    BY <2>2 DEF OpenEras
  <2> HIDE DEF e
  <2>4. NoStaff \in Person
    BY DEF Person
  <2>5. OpenEras(ClosedOut(d, e, NoStaff)) = OpenEras(d) \ {e}
    BY <2>3, <2>4, ClosedOutInOrder DEF InOrder, Filed
  <2>6. WellFormed(ClosedOut(d, e, NoStaff))
    BY <2>3, <2>4, ClosedOutSettles DEF InOrder, WellFormed, EraSettled
  <2> QED
    BY <2>1, <2>5, <2>6
<1> QED
  BY <1>1, <1>2

LEMMA UpsertedSettles ==
  ASSUME NEW d, InOrder(d), WellFormed(d), NEW a, Modern(a), BringsSettled(a),
         OpenEras(d) \cap Ended(a.dump) = {}
  PROVE  WellFormed(Upserted(d, a))
<1> DEFINE u == Upserted(d, a)
<1>1. /\ \A e \in EraIds :
           u.era[e] = IF KeepsEraRow(d, a, e) THEN d.era[e] ELSE a.dump.era[e]
      /\ \A r \in Recs :
           u.rec[r] = IF a.dump.rec[r] = NoRec THEN d.rec[r] ELSE a.dump.rec[r]
  BY UpsertedRows DEF InOrder, Modern
<1> HIDE DEF u
<1>2. \A r \in Recs : a.dump.rec[r] # NoRec =>
                        /\ a.dump.rec[r].status # "absent"
                        /\ a.dump.rec[r].era \notin a.partial
                        /\ a.dump.era[a.dump.rec[r].era] # NoEraRow
  BY DEF Modern, InOrder, AbsentIsEmpty, Filed, NoEraRow
<1>3. SUFFICES ASSUME NEW f \in Ended(u) PROVE EraSettled(u, f)
  BY DEF WellFormed, EraSettled, u
<1>4. f \in EraIds /\ u.era[f].state = "ended"
  BY DEF Ended
<1>5. \A r \in RecsOf(u, f) :
        \/ /\ a.dump.rec[r] = NoRec /\ r \in RecsOf(d, f) /\ u.rec[r] = d.rec[r]
        \/ /\ a.dump.rec[r] # NoRec /\ r \in RecsOf(a.dump, f) /\ u.rec[r] = a.dump.rec[r]
           /\ f \notin a.partial /\ a.dump.era[f] # NoEraRow
  BY <1>1, <1>2 DEF RecsOf
<1>6. CASE KeepsEraRow(d, a, f)
  <2>1. u.era[f] = d.era[f] /\ f \in Ended(d)
    BY <1>1, <1>4, <1>6 DEF Ended
  <2>2. \A r \in RecsOf(u, f) : r \in RecsOf(d, f) /\ u.rec[r] = d.rec[r]
    BY <1>5, <1>6 DEF KeepsEraRow
  <2> QED
    BY <2>1, <2>2 DEF WellFormed, EraSettled
<1>7. CASE ~KeepsEraRow(d, a, f) /\ f \in a.partial
  <2>1. d.era[f].state = "absent"
    BY <1>7 DEF KeepsEraRow, NoEraRow
  <2>2. RecsOf(d, f) = {}
    BY <2>1 DEF RecsOf, InOrder, Filed
  <2> QED
    BY <1>5, <1>7, <2>2 DEF EraSettled
<1>8. CASE ~KeepsEraRow(d, a, f) /\ f \notin a.partial
  <2>1. u.era[f] = a.dump.era[f] /\ f \in Ended(a.dump) \ a.partial
    BY <1>1, <1>4, <1>8 DEF Ended
  <2>2. u.era[f].summary # Unfrozen
    BY <2>1 DEF BringsSettled
  <2>3. \A r \in RecsOf(a.dump, f) : a.dump.rec[r].status = "decided"
    BY <2>1 DEF BringsSettled
  <2>4. ASSUME NEW r \in RecsOf(d, f) PROVE d.rec[r].status = "decided"
    <3>1. d.era[f].state # "absent" /\ d.era[f] \in EraRow
      BY <1>4 DEF RecsOf, InOrder, Filed, Dump
    <3>2. f \notin OpenEras(d)
      BY <2>1
    <3>3. f \in Ended(d)
      BY <1>4, <3>1, <3>2 DEF OpenEras, Ended, EraRow
    <3> QED
      BY <3>3 DEF WellFormed
  <2> QED
    BY <1>5, <2>2, <2>3, <2>4 DEF EraSettled
<1> QED
  BY <1>6, <1>7, <1>8

LEMMA AdoptedSettles ==
  ASSUME NEW d, InOrder(d), WellFormed(d), NEW a, Legacy(a), a.scope = "legacy"
  PROVE  WellFormed(Adopted(Upserted(d, a), a))
<1>1. PICK b : Adopts(b, d, a) /\ Adopted(Upserted(d, a), a) = ClosedOut(b, 0, NoStaff)
  BY AdoptedEffect DEF InOrder
<1>2. ASSUME NEW f \in Ended(b) \ {0} PROVE EraSettled(b, f)
  <2>1. f \in Ended(d) /\ b.era[f] = d.era[f]
    BY <1>1 DEF Adopts, Ended
  <2>2. \A r \in RecsOf(b, f) : r \in RecsOf(d, f) /\ b.rec[r] = d.rec[r]
    BY <1>1, <1>2 DEF Adopts, RecsOf
  <2> QED
    BY <2>1, <2>2 DEF WellFormed, EraSettled
<1>3. b \in Dump /\ NoStaff \in Person /\ 0 \in EraIds
  BY <1>1, ArchiveConstants DEF Adopts, Person
<1>4. WellFormed(ClosedOut(b, 0, NoStaff))
  BY <1>2, <1>3, ClosedOutSettles
<1> QED
  BY <1>1, <1>4

LEMMA AnyRestoreSettles ==
  ASSUME ArchiveInv
  PROVE  RestoreSettles
<1> SUFFICES ASSUME NEW a \in DOMAIN archive, WellFormed(store), BringsSettled(archive[a]),
                    OpenEras(store) \cap Ended(archive[a].dump) = {}
             PROVE  WellFormed(Restored(store, archive[a]))
  BY DEF RestoreSettles
<1> DEFINE x == archive[a]
           c == ReconciledStore(store, x)
<1>1. InOrder(store) /\ Archived(x)
  BY DEF ArchiveInv
<1>2. InOrder(c)
  BY <1>1, ReconciledInOrder
<1>3. WellFormed(c) /\ OpenEras(c) \cap Ended(x.dump) = {}
  BY <1>1, ReconciledSettles
<1>4. Restored(store, x) = Adopted(Upserted(c, x), x)
  BY DEF Restored
<1> HIDE DEF c, x
<1>5. CASE x.scope = "legacy"
  BY <1>1, <1>2, <1>3, <1>4, <1>5, AdoptedSettles DEF Archived, x
<1>6. CASE x.scope # "legacy"
  <2>1. Restored(store, x) = Upserted(c, x)
    BY <1>4, <1>6 DEF Adopted
  <2> QED
    BY <1>1, <1>2, <1>3, <1>6, <2>1, UpsertedSettles DEF Archived, x
<1> QED
  BY <1>5, <1>6

(* A restore leaves every installation that has ended settled, with the    *)
(* exceptions named at RestoreSettles (reconcileActiveInstallation,        *)
(* adoptLegacyRows and the upserts of restoreImportArchive).               *)
THEOREM RestoresSettle == ArchiveSpec => [][RestoreSettles]_archiveVars
  BY AnyRestoreSettles, ArchiveInitInv, ArchiveNextInv, PTL DEF ArchiveSpec

=============================================================================
