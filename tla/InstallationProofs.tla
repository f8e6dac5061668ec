-------------------------- MODULE InstallationProofs --------------------------
(***************************************************************************)
(* Proofs about Installation, for any number of recordings, requests,       *)
(* purges and installations.                                               *)
(*                                                                         *)
(* The argument: a row enters an installation only while that is open       *)
(* (Evolves), and an installation that ended never opens again. So a row a   *)
(* request read in the installation that is open now is still filed there    *)
(* (Follows), a purge that has moved the uploads it found finds no others    *)
(* (PurgeFits), and what an ended installation holds does not change. All of *)
(* it holds as long as no purge has misfiled a recording.                   *)
(***************************************************************************)
EXTENDS Installation, FiniteSetTheorems, TLAPS

-----------------------------------------------------------------------------
(* The inductive invariant                                                 *)

Message == [id : Nat, status : {"none", "uploading"} \cup Landed, era : Nat]
Call == [pc : {"idle", "upsert", "find", "insert", "reinsert", "slot", "head", "land"},
         rec : Recordings, file : Nat, id : Nat, era : Nat]
Op == [pc : {"idle", "decide", "delete"}, rec : Recordings, id : Nat, era : Nat]
Purge == [pc : {"idle", "open", "move", "files", "rows", "refs", "filerows", "each", "blobs"},
          era : Nat, to : Nat, inFlight : SUBSET (Recordings \X Nat),
          owned : SUBSET (Recordings \X Nat), gone : SUBSET Recordings,
          checked : SUBSET Recordings]

BooksTyped ==
  /\ era \in [Eras -> {"unused", "open", "ended", "purged"}]
  /\ DOMAIN summary = Eras
  /\ msg \in [Recordings -> Message] /\ nmsg \in Nat
  /\ misfiled \in BOOLEAN

RestTyped ==
  /\ file \in [Recordings -> Nat] /\ nfile \in Nat
  /\ call \in [Requests -> Call] /\ op \in Op /\ purge \in [Purgers -> Purge]

(* At most one installation is open.                                        *)
OneOpen == \A e, f \in Eras : era[e] = "open" /\ era[f] = "open" => e = f

(* A row that exists has a number that was given out, a status, and an       *)
(* installation that was started.                                          *)
RowsFiled ==
  \A r \in Recordings :
    /\ msg[r].id = 0 => msg[r] = NoMessage
    /\ msg[r].id # 0 => /\ msg[r].id <= nmsg /\ msg[r].status # "none"
                        /\ msg[r].era \in Eras /\ era[msg[r].era] # "unused"

BooksInv == BooksTyped /\ OneOpen /\ RowsFiled /\ EndedIsSettled

(* What was read of a row: if the installation it was in is open, the row is *)
(* still there.                                                            *)
Follows(c, eras, rows, last, bad) ==
  /\ c.id \in 1 .. last /\ c.era \in Eras /\ eras[c.era] # "unused"
  /\ ~bad /\ rows[c.rec].id = c.id /\ eras[c.era] = "open" => rows[c.rec].era = c.era

CallFits(c, eras, rows, last, bad) ==
  c.pc \in {"head", "land"} => Follows(c, eras, rows, last, bad)
OpFits(o, eras, rows, last, bad) ==
  o.pc # "idle" => Follows(o, eras, rows, last, bad)

(* What a purge knows of the uploads of the installation it deletes: all are *)
(* in its list, and once it has moved those there are none.                 *)
PurgeFits(p, eras, rows, bad) ==
  p.pc # "idle" =>
    /\ p.era \in Eras /\ eras[p.era] \in {"ended", "purged"}
    /\ p.pc = "move" => p.to \in Eras /\ eras[p.to] # "unused"
    /\ \A f \in p.inFlight : f[2] # 0
    /\ ~bad => \A r \in Recordings :
         rows[r].status = "uploading" /\ rows[r].era = p.era =>
           /\ p.pc \notin {"files", "rows"}
           /\ p.pc \in {"open", "move"} => <<r, rows[r].id>> \in p.inFlight

InFlightInv ==
  /\ \A q \in Requests : CallFits(call[q], era, msg, nmsg, misfiled)
  /\ OpFits(op, era, msg, nmsg, misfiled)
  /\ \A p \in Purgers : PurgeFits(purge[p], era, msg, misfiled)

InstallationInv == BooksInv /\ RestTyped /\ InFlightInv

-----------------------------------------------------------------------------
(* The books: installations, counters and message rows                     *)

(* How the books change while no purge has misfiled: an installation does    *)
(* not open twice, and a row stays, moves into the open one, is created      *)
(* there, or is deleted.                                                   *)
RowMoves(r) ==
  \/ /\ msg'[r].id = msg[r].id /\ msg'[r].era = msg[r].era
     /\ msg'[r].status = "uploading" => msg[r].status = "uploading"
  \/ msg'[r].id = msg[r].id /\ era'[msg'[r].era] = "open"
  \/ msg'[r].id > nmsg /\ era'[msg'[r].era] = "open"
  \/ msg'[r] = NoMessage

Evolves ==
  /\ nmsg <= nmsg' /\ (misfiled => misfiled')
  /\ \A e \in Eras :
       /\ era[e] # "unused" => era'[e] # "unused"
       /\ era[e] \in {"ended", "purged"} => era'[e] \in {"ended", "purged"}
  /\ ~misfiled' => \A r \in Recordings : RowMoves(r)

(* Counts depend on the rows they count.                                    *)
LEMMA CountSame ==
  ASSUME NEW m, NEW n, NEW e, NEW S,
         \A r \in Recordings : (m[r].era = e /\ m[r].status \in S) <=> (n[r].era = e /\ n[r].status \in S)
  PROVE  Count(m, e, S) = Count(n, e, S)
<1>1. {r \in Recordings : m[r].era = e /\ m[r].status \in S}
        = {r \in Recordings : n[r].era = e /\ n[r].status \in S}
  OBVIOUS
<1> QED
  BY <1>1 DEF Count

LEMMA CountNone ==
  ASSUME NEW m, NEW e, NEW S
  PROVE  Count(m, e, S) = 0 <=> \A r \in Recordings : ~(m[r].era = e /\ m[r].status \in S)
<1> DEFINE C == {r \in Recordings : m[r].era = e /\ m[r].status \in S}
<1>1. IsFiniteSet(C)
  BY InstallationConstants, FS_Subset
<1>2. Cardinality(C) = 0 <=> C = {}
  BY <1>1, FS_EmptySet
<1> QED
  BY <1>2 DEF Count

(* An ended installation whose landed recordings stay as they are stays     *)
(* settled.                                                                *)
LEMMA StaysSettled ==
  ASSUME NEW m, NEW n, NEW e,
         \A r \in Recordings :
           \/ m[r].era = e /\ m[r].status \in Landed
           \/ n[r].era = e /\ n[r].status \in Landed
           => m[r].era = n[r].era /\ m[r].status = n[r].status
  PROVE  /\ Summarize(m, e) = Summarize(n, e)
         /\ Count(m, e, {"pending"}) = Count(n, e, {"pending"})
<1>1. ASSUME NEW S \in SUBSET Landed
      PROVE  Count(m, e, S) = Count(n, e, S)
  BY CountSame
<1>2. Landed \in SUBSET Landed /\ {"pending"} \in SUBSET Landed
      /\ {"approved"} \in SUBSET Landed /\ {"rejected"} \in SUBSET Landed
  BY DEF Landed
<1> QED
  BY <1>1, <1>2 DEF Summarize

(* What is not touched stays right.                                        *)
LEMMA BooksKept ==
  ASSUME BooksInv, UNCHANGED <<era, summary, msg, nmsg, misfiled>>
  PROVE  BooksInv' /\ Evolves
<1>1. BooksInv'
  BY DEF BooksInv, BooksTyped, OneOpen, RowsFiled, EndedIsSettled
<1>2. Evolves
  BY DEF Evolves, RowMoves, BooksInv, BooksTyped
<1> QED
  BY <1>1, <1>2

(* A row changes, of a recording that no ended installation counts.          *)
LEMMA RowWritten ==
  ASSUME BooksInv, UNCHANGED <<era, summary>>, misfiled' \in BOOLEAN, misfiled => misfiled',
         nmsg' \in Nat, nmsg <= nmsg', msg' \in [Recordings -> Message],
         RowsFiled',
         ~misfiled' => \A r \in Recordings :
           /\ RowMoves(r)
           /\ msg'[r] # msg[r] =>
                /\ msg[r].era \in Eras /\ era[msg[r].era] = "ended" => msg[r].status \notin Landed
                /\ msg'[r].era \in Eras /\ era[msg'[r].era] = "ended" => msg'[r].status \notin Landed
  PROVE  BooksInv' /\ Evolves
<1>1. BooksTyped' /\ OneOpen'
  BY DEF BooksInv, BooksTyped, OneOpen
<1>2. EndedIsSettled'
  <2> SUFFICES ASSUME ~misfiled', NEW e \in Eras, era[e] = "ended"
               PROVE  summary[e] = Summarize(msg', e) /\ Count(msg', e, {"pending"}) = 0
    BY DEF EndedIsSettled
  <2>1. summary[e] = Summarize(msg, e) /\ Count(msg, e, {"pending"}) = 0
    BY DEF BooksInv, EndedIsSettled, BooksTyped
  <2>2. \A r \in Recordings :
          \/ msg[r].era = e /\ msg[r].status \in Landed
          \/ msg'[r].era = e /\ msg'[r].status \in Landed
          => msg[r].era = msg'[r].era /\ msg[r].status = msg'[r].status
    OBVIOUS
  <2> QED
    BY <2>1, <2>2, StaysSettled
<1>3. Evolves
  BY DEF Evolves
<1> QED
  BY <1>1, <1>2, <1>3 DEF BooksInv

(* The close-out of the open installation o, with or without the start of    *)
(* the next one.                                                           *)
LEMMA ClosedOut ==
  ASSUME BooksInv, NEW o \in Eras, era[o] = "open", CloseOut(o), UNCHANGED <<nmsg, misfiled>>,
         era' \in [Eras -> {"unused", "open", "ended", "purged"}], era'[o] = "ended",
         \A e \in Eras \ {o} : era'[e] = era[e] \/ (era[e] = "unused" /\ era'[e] = "open"),
         OneOpen'
  PROVE  BooksInv' /\ Evolves
<1>1. msg \in [Recordings -> Message] /\ msg' = Drained(o)
  BY DEF BooksInv, BooksTyped, CloseOut
<1>2. \A r \in Recordings :
        /\ msg'[r].id = msg[r].id /\ msg'[r].era = msg[r].era /\ msg'[r] \in Message
        /\ ~(msg[r].era = o /\ msg[r].status = "pending") => msg'[r] = msg[r]
        /\ msg[r].era = o /\ msg[r].status = "pending" => msg'[r].status = "rejected"
  BY <1>1 DEF Drained, Message, Landed
<1>3. msg' \in [Recordings -> Message] /\ BooksTyped'
  BY <1>1, <1>2 DEF Drained, CloseOut, BooksInv, BooksTyped
<1>4. RowsFiled'
  BY <1>2 DEF BooksInv, RowsFiled, NoMessage
<1>5. EndedIsSettled'
  <2> SUFFICES ASSUME ~misfiled, NEW e \in Eras, era'[e] = "ended"
               PROVE  summary'[e] = Summarize(msg', e) /\ Count(msg', e, {"pending"}) = 0
    BY DEF EndedIsSettled
  <2>1. CASE e = o
    <3>1. summary'[e] = Summarize(msg', e)
      BY <1>1, <2>1 DEF CloseOut, BooksInv, BooksTyped
    <3>2. \A r \in Recordings : ~(msg'[r].era = e /\ msg'[r].status \in {"pending"})
      BY <1>2, <2>1
    <3> QED
      BY <3>1, <3>2, CountNone
  <2>2. CASE e # o
    <3>1. era[e] = "ended"
      BY <2>2
    <3>2. summary[e] = Summarize(msg, e) /\ Count(msg, e, {"pending"}) = 0
      BY <3>1 DEF BooksInv, EndedIsSettled
    <3>3. summary'[e] = summary[e]
      BY <2>2 DEF CloseOut, BooksInv, BooksTyped
    <3>4. \A r \in Recordings :
            \/ msg[r].era = e /\ msg[r].status \in Landed
            \/ msg'[r].era = e /\ msg'[r].status \in Landed
            => msg[r].era = msg'[r].era /\ msg[r].status = msg'[r].status
      BY <1>2, <2>2
    <3> QED
      BY <3>2, <3>3, <3>4, StaysSettled
  <2> QED
    BY <2>1, <2>2
<1>6. Evolves
  <2>1. \A r \in Recordings : RowMoves(r)
    BY <1>2 DEF RowMoves
  <2>2. \A e \in Eras :
          /\ era[e] # "unused" => era'[e] # "unused"
          /\ era[e] \in {"ended", "purged"} => era'[e] \in {"ended", "purged"}
    OBVIOUS
  <2> QED
    BY <2>1, <2>2 DEF Evolves, BooksInv, BooksTyped
<1> QED
  BY <1>3, <1>4, <1>5, <1>6 DEF BooksInv

(* An installation is started while none is open.                          *)
LEMMA EraStarted ==
  ASSUME BooksInv, NEW e \in Eras, era[e] = "unused", NoneOpen, era' = [era EXCEPT ![e] = "open"],
         UNCHANGED <<msg, summary, nmsg, misfiled>>
  PROVE  BooksInv' /\ Evolves
<1>1. /\ era' \in [Eras -> {"unused", "open", "ended", "purged"}]
      /\ \A f \in Eras : era'[f] = IF f = e THEN "open" ELSE era[f]
  BY DEF BooksInv, BooksTyped
<1>2. BooksTyped' /\ OneOpen'
  BY <1>1 DEF BooksInv, BooksTyped, OneOpen, NoneOpen
<1>3. RowsFiled' /\ EndedIsSettled'
  BY <1>1 DEF BooksInv, RowsFiled, EndedIsSettled
<1>4. Evolves
  BY <1>1 DEF Evolves, RowMoves, BooksInv, BooksTyped
<1> QED
  BY <1>2, <1>3, <1>4 DEF BooksInv

(* The rows of installation e are deleted, and e with them.                 *)
LEMMA RowsPurged ==
  ASSUME BooksInv, NEW e \in Eras, era[e] \in {"ended", "purged"}, era' = [era EXCEPT ![e] = "purged"],
         msg' = [r \in Recordings |-> IF msg[r].era = e THEN NoMessage ELSE msg[r]],
         UNCHANGED <<summary, nmsg, misfiled>>
  PROVE  BooksInv' /\ Evolves
<1>1. NoMessage \in Message
  BY DEF NoMessage, Message
<1>2. /\ era' \in [Eras -> {"unused", "open", "ended", "purged"}]
      /\ \A f \in Eras : era'[f] = IF f = e THEN "purged" ELSE era[f]
  BY DEF BooksInv, BooksTyped
<1>3. BooksTyped' /\ OneOpen'
  BY <1>1, <1>2 DEF BooksInv, BooksTyped, OneOpen
<1>4. RowsFiled'
  BY <1>2 DEF BooksInv, RowsFiled, NoMessage
<1>5. EndedIsSettled'
  <2> SUFFICES ASSUME ~misfiled, NEW f \in Eras, f # e, era[f] = "ended"
               PROVE  summary[f] = Summarize(msg', f) /\ Count(msg', f, {"pending"}) = 0
    BY <1>2 DEF EndedIsSettled
  <2>1. summary[f] = Summarize(msg, f) /\ Count(msg, f, {"pending"}) = 0
    BY DEF BooksInv, EndedIsSettled
  <2>2. \A r \in Recordings :
          \/ msg[r].era = f /\ msg[r].status \in Landed
          \/ msg'[r].era = f /\ msg'[r].status \in Landed
          => msg[r].era = msg'[r].era /\ msg[r].status = msg'[r].status
    BY DEF NoMessage, Landed
  <2> QED
    BY <2>1, <2>2, StaysSettled
<1>6. Evolves
  BY <1>2 DEF Evolves, RowMoves, BooksInv, BooksTyped
<1> QED
  BY <1>3, <1>4, <1>5, <1>6 DEF BooksInv

-----------------------------------------------------------------------------
(* What is in flight                                                       *)

(* What a request read is good as long as the installation is open.         *)
LEMMA FollowsOn ==
  ASSUME BooksInv, BooksInv', Evolves, NEW c, c.rec \in Recordings,
         Follows(c, era, msg, nmsg, misfiled)
  PROVE  Follows(c, era', msg', nmsg', misfiled')
<1>1. c.id \in 1 .. nmsg' /\ c.era \in Eras /\ era'[c.era] # "unused"
  BY DEF Follows, Evolves, BooksInv, BooksTyped
<1>2. ASSUME ~misfiled', msg'[c.rec].id = c.id, era'[c.era] = "open"
      PROVE  msg'[c.rec].era = c.era
  <2>1. RowMoves(c.rec) /\ ~misfiled
    BY <1>2 DEF Evolves, BooksInv, BooksTyped
  <2>2. era[c.era] = "open"
    BY <1>1, <1>2 DEF Evolves, Follows, BooksInv, BooksTyped
  <2>3. c.id # 0 /\ c.id \in 1 .. nmsg /\ nmsg \in Nat /\ ~(c.id > nmsg)
    BY DEF Follows, BooksInv, BooksTyped
  <2>a. NoMessage.id = 0
    BY DEF NoMessage
  <2>b. ~(msg'[c.rec].id > nmsg) /\ msg'[c.rec] # NoMessage
    BY <1>2, <2>3, <2>a
  <2>4. msg'[c.rec].id = msg[c.rec].id
    BY <2>1, <2>b DEF RowMoves
  <2>5. msg[c.rec].era = c.era
    BY <1>2, <2>1, <2>2, <2>4 DEF Follows
  <2>6. msg'[c.rec].era \in Eras
    BY <1>2, <2>3 DEF BooksInv, RowsFiled
  <2>7. msg'[c.rec].era = msg[c.rec].era \/ era'[msg'[c.rec].era] = "open"
    BY <1>2, <2>1, <2>3 DEF RowMoves, NoMessage
  <2> QED
    BY <1>1, <1>2, <2>5, <2>6, <2>7 DEF BooksInv, OneOpen
<1> QED
  BY <1>1, <1>2 DEF Follows

(* What a purge knows stays true: no upload enters an ended installation.    *)
LEMMA PurgeFitsOn ==
  ASSUME BooksInv, BooksInv', Evolves, NEW p, PurgeFits(p, era, msg, misfiled)
  PROVE  PurgeFits(p, era', msg', misfiled')
<1>1. ASSUME p.pc # "idle"
      PROVE  /\ p.era \in Eras /\ era'[p.era] \in {"ended", "purged"}
             /\ p.pc = "move" => p.to \in Eras /\ era'[p.to] # "unused"
  BY <1>1 DEF PurgeFits, Evolves
<1>2. ASSUME p.pc # "idle", ~misfiled', NEW r \in Recordings,
             msg'[r].status = "uploading", msg'[r].era = p.era
      PROVE  msg[r].status = "uploading" /\ msg[r].era = p.era /\ msg[r].id = msg'[r].id /\ ~misfiled
  <2>1. RowMoves(r) /\ ~misfiled
    BY <1>2 DEF Evolves, BooksInv, BooksTyped
  <2>2. era'[msg'[r].era] # "open" /\ msg'[r] # NoMessage
    BY <1>1, <1>2 DEF NoMessage
  <2> QED
    BY <1>2, <2>1, <2>2 DEF RowMoves
<1> QED
  BY <1>1, <1>2 DEF PurgeFits

LEMMA InFlightOn ==
  ASSUME BooksInv, BooksInv', Evolves, RestTyped, InFlightInv
  PROVE  /\ \A q \in Requests : CallFits(call[q], era', msg', nmsg', misfiled')
         /\ OpFits(op, era', msg', nmsg', misfiled')
         /\ \A p \in Purgers : PurgeFits(purge[p], era', msg', misfiled')
<1>1. ASSUME NEW q \in Requests
      PROVE  CallFits(call[q], era', msg', nmsg', misfiled')
  <2>1. call[q].rec \in Recordings /\ CallFits(call[q], era, msg, nmsg, misfiled)
    BY DEF RestTyped, Call, InFlightInv
  <2> QED
    BY <2>1, FollowsOn DEF CallFits
<1>2. OpFits(op, era', msg', nmsg', misfiled')
  <2>1. op.rec \in Recordings /\ OpFits(op, era, msg, nmsg, misfiled)
    BY DEF RestTyped, Op, InFlightInv
  <2> QED
    BY <2>1, FollowsOn DEF OpFits
<1>3. \A p \in Purgers : PurgeFits(purge[p], era', msg', misfiled')
  BY PurgeFitsOn DEF InFlightInv
<1> QED
  BY <1>1, <1>2, <1>3

(* A request of the booth takes a step,                                     *)
LEMMA CallMoves ==
  ASSUME InstallationInv, BooksInv', Evolves, UNCHANGED <<op, purge>>,
         file' \in [Recordings -> Nat], nfile' \in Nat,
         NEW q \in Requests, NEW c \in Call, Goto(q, c),
         CallFits(c, era', msg', nmsg', misfiled')
  PROVE  InstallationInv'
<1>1. /\ call' \in [Requests -> Call]
      /\ \A o \in Requests : call'[o] = IF o = q THEN c ELSE call[o]
  BY DEF Goto, InstallationInv, RestTyped
<1>2. /\ \A o \in Requests : CallFits(call[o], era', msg', nmsg', misfiled')
      /\ OpFits(op, era', msg', nmsg', misfiled')
      /\ \A p \in Purgers : PurgeFits(purge[p], era', msg', misfiled')
  BY InFlightOn DEF InstallationInv
<1>3. InFlightInv'
  BY <1>1, <1>2 DEF InFlightInv
<1>4. RestTyped'
  BY <1>1 DEF InstallationInv, RestTyped
<1> QED
  BY <1>3, <1>4 DEF InstallationInv

(* or a purge does,                                                        *)
LEMMA PurgeMoves ==
  ASSUME InstallationInv, BooksInv', Evolves, UNCHANGED <<op, call, nfile>>,
         file' \in [Recordings -> Nat],
         NEW p \in Purgers, NEW x \in Purge, Proceed(p, x), PurgeFits(x, era', msg', misfiled')
  PROVE  InstallationInv'
<1>1. /\ purge' \in [Purgers -> Purge]
      /\ \A o \in Purgers : purge'[o] = IF o = p THEN x ELSE purge[o]
  BY DEF Proceed, InstallationInv, RestTyped
<1>2. /\ \A q \in Requests : CallFits(call[q], era', msg', nmsg', misfiled')
      /\ OpFits(op, era', msg', nmsg', misfiled')
      /\ \A o \in Purgers : PurgeFits(purge[o], era', msg', misfiled')
  BY InFlightOn DEF InstallationInv
<1>3. InFlightInv'
  BY <1>1, <1>2 DEF InFlightInv
<1>4. RestTyped'
  BY <1>1 DEF InstallationInv, RestTyped
<1> QED
  BY <1>3, <1>4 DEF InstallationInv

(* or an operator's request does, or an admin's.                            *)
LEMMA OpMoves ==
  ASSUME InstallationInv, BooksInv', Evolves, UNCHANGED <<file, nfile, call, purge>>,
         op' \in Op, OpFits(op', era', msg', nmsg', misfiled')
  PROVE  InstallationInv'
<1>1. /\ \A q \in Requests : CallFits(call[q], era', msg', nmsg', misfiled')
      /\ \A o \in Purgers : PurgeFits(purge[o], era', msg', misfiled')
  BY InFlightOn DEF InstallationInv
<1>2. InFlightInv'
  BY <1>1 DEF InFlightInv
<1>3. RestTyped'
  BY DEF InstallationInv, RestTyped
<1> QED
  BY <1>2, <1>3 DEF InstallationInv

LEMMA AdminMoves ==
  ASSUME InstallationInv, BooksInv', Evolves, UNCHANGED <<file, nfile, call, op, purge>>
  PROVE  InstallationInv'
<1>1. op \in Op /\ OpFits(op, era', msg', nmsg', misfiled')
  BY InFlightOn DEF InstallationInv, RestTyped
<1> QED
  BY <1>1, OpMoves

(* Requests at rest are values of their types.                              *)
LEMMA AtRest ==
  /\ Someone \in Recordings
  /\ NoCall \in Call /\ NoCall.pc = "idle"
  /\ NoOp \in Op /\ NoOp.pc = "idle"
  /\ NoPurge \in Purge /\ NoPurge.pc = "idle"
<1>1. Someone \in Recordings
  BY InstallationConstants DEF Someone
<1>2. NoCall \in Call /\ NoCall.pc = "idle" /\ NoOp \in Op /\ NoOp.pc = "idle"
  BY <1>1 DEF NoCall, Call, NoOp, Op
<1>3. NoPurge \in Purge /\ NoPurge.pc = "idle"
  BY DEF NoPurge, Purge
<1> QED
  BY <1>1, <1>2, <1>3

-----------------------------------------------------------------------------
(* The booth's requests                                                    *)

(* A request goes on without writing a row or ending an installation.       *)
LEMMA CallGoesOn ==
  ASSUME InstallationInv, UNCHANGED <<era, summary, msg, op, purge, nmsg, misfiled>>,
         file' \in [Recordings -> Nat], nfile' \in Nat,
         NEW q \in Requests, NEW c \in Call, Goto(q, c), CallFits(c, era, msg, nmsg, misfiled)
  PROVE  InstallationInv'
<1>1. BooksInv' /\ Evolves
  BY BooksKept DEF InstallationInv
<1>2. CallFits(c, era', msg', nmsg', misfiled')
  OBVIOUS
<1> QED
  BY <1>1, <1>2, CallMoves

LEMMA CallEnds ==
  ASSUME InstallationInv, UNCHANGED <<era, summary, msg, file, op, purge, nmsg, nfile, misfiled>>,
         NEW q \in Requests, EndCall(q)
  PROVE  InstallationInv'
<1>1. CallFits(NoCall, era, msg, nmsg, misfiled)
  BY AtRest DEF CallFits
<1> QED
  BY <1>1, AtRest, CallGoesOn DEF EndCall, InstallationInv, RestTyped

LEMMA Resumed ==
  ASSUME InstallationInv, UNCHANGED <<era, summary, msg, file, op, purge, nmsg, nfile, misfiled>>,
         NEW q \in Requests, NEW r \in Recordings, Resume(q, r)
  PROVE  InstallationInv'
<1>1. CASE msg[r].status = "uploading"
  <2> DEFINE c == [NoCall EXCEPT !.pc = "slot", !.rec = r, !.id = msg[r].id]
  <2>1. msg[r].id \in Nat
    BY DEF InstallationInv, BooksInv, BooksTyped, Message
  <2>2. c \in Call /\ c.pc = "slot"
    BY <2>1, AtRest DEF Call
  <2>3. Goto(q, c) /\ CallFits(c, era, msg, nmsg, misfiled)
    BY <1>1, <2>2 DEF Resume, CallFits
  <2> HIDE DEF c
  <2> QED
    BY <2>2, <2>3, CallGoesOn DEF InstallationInv, RestTyped
<1>2. CASE msg[r].status # "uploading"
  BY <1>2, CallEnds DEF Resume
<1> QED
  BY <1>1, <1>2

LEMMA FileUpserted ==
  ASSUME InstallationInv, UNCHANGED <<era, summary, msg, op, purge, nmsg, misfiled>>,
         NEW q \in Requests, NEW pc \in {"find", "reinsert"}, UpsertFile(q, pc)
  PROVE  InstallationInv'
<1> DEFINE r == call[q].rec
           c(f) == [call[q] EXCEPT !.pc = pc, !.file = f]
<1>1. call[q] \in Call /\ r \in Recordings /\ file \in [Recordings -> Nat] /\ nfile \in Nat
  BY DEF InstallationInv, RestTyped, Call
<1>2. \A f \in Nat : c(f) \in Call /\ c(f).pc = pc
  BY <1>1 DEF Call
<1>3. \A f \in Nat : CallFits(c(f), era, msg, nmsg, misfiled)
  BY <1>2 DEF CallFits
<1>4. CASE /\ file[r] # 0
           /\ Goto(q, c(file[r])) /\ UNCHANGED <<file, nfile>>
  BY <1>1, <1>2, <1>3, <1>4, CallGoesOn
<1>5. CASE /\ nfile' = nfile + 1 /\ file' = [file EXCEPT ![r] = nfile + 1]
           /\ Goto(q, c(nfile + 1))
  <2>1. nfile + 1 \in Nat /\ file' \in [Recordings -> Nat]
    BY <1>1, <1>5
  <2> QED
    BY <1>2, <1>3, <1>5, <2>1, CallGoesOn
<1> QED
  BY <1>4, <1>5 DEF UpsertFile

LEMMA CreateSteps ==
  ASSUME InstallationInv, NEW q \in Requests, NEW r \in Recordings,
         CreateStart(q, r) \/ CreateFile(q) \/ CreateFind(q) \/ CreateRaced(q) \/ CreateRetry(q)
           \/ CreateFail(q)
  PROVE  InstallationInv'
<1>1. call[q] \in Call /\ call[q].rec \in Recordings
  BY DEF InstallationInv, RestTyped, Call
<1>2. CASE CreateStart(q, r)
  <2> DEFINE c == [NoCall EXCEPT !.pc = "upsert", !.rec = r]
  <2>1. c \in Call /\ CallFits(c, era, msg, nmsg, misfiled)
    BY AtRest DEF Call, CallFits, NoCall
  <2>2. CASE Goto(q, c)
    <3> HIDE DEF c
    <3> QED
      BY <1>2, <2>1, <2>2, CallGoesOn DEF CreateStart, InstallationInv, RestTyped
  <2> QED
    BY <1>2, <2>2, Resumed DEF CreateStart
<1>3. CASE CreateFile(q)
  BY <1>3, FileUpserted DEF CreateFile
<1>4. CASE CreateFind(q)
  <2> DEFINE c == [call[q] EXCEPT !.pc = "insert"]
  <2>1. c \in Call /\ CallFits(c, era, msg, nmsg, misfiled)
    BY <1>1 DEF Call, CallFits
  <2>2. CASE Goto(q, c)
    <3> HIDE DEF c
    <3> QED
      BY <1>4, <2>1, <2>2, CallGoesOn DEF CreateFind, InstallationInv, RestTyped
  <2> QED
    BY <1>1, <1>4, <2>2, Resumed DEF CreateFind
<1>5. CASE CreateRaced(q)
  BY <1>1, <1>5, Resumed DEF CreateRaced
<1>6. CASE CreateRetry(q)
  BY <1>6, FileUpserted DEF CreateRetry
<1>7. CASE CreateFail(q)
  BY <1>7, CallEnds DEF CreateFail
<1> QED
  BY <1>2, <1>3, <1>4, <1>5, <1>6, <1>7

(* The row of a new recording: there was none, and it is in the open era.    *)
LEMMA CreateInsertStep ==
  ASSUME InstallationInv, NEW q \in Requests, CreateInsert(q)
  PROVE  InstallationInv' /\ Evolves
<1> DEFINE r == call[q].rec
           c == [call[q] EXCEPT !.pc = "slot", !.id = nmsg + 1]
<1>1. /\ call[q] \in Call /\ r \in Recordings /\ nmsg \in Nat
      /\ msg \in [Recordings -> Message] /\ misfiled \in BOOLEAN
  BY DEF InstallationInv, RestTyped, Call, BooksInv, BooksTyped
<1>2. msg[r].id = 0 /\ msg[r] = NoMessage
  BY <1>1 DEF CreateInsert, Taken, InstallationInv, BooksInv, RowsFiled
<1>3. PICK e \in Eras : /\ era[e] = "open"
                        /\ msg' = [msg EXCEPT ![r] = [id |-> nmsg + 1, status |-> "uploading", era |-> e]]
  BY DEF CreateInsert, Open
<1>4. /\ msg'[r] = [id |-> nmsg + 1, status |-> "uploading", era |-> e]
      /\ \A s \in Recordings \ {r} : msg'[s] = msg[s]
  BY <1>1, <1>3
<1>5. msg' \in [Recordings -> Message]
  BY <1>1, <1>3, InstallationConstants DEF Message, Eras
<1>6. nmsg' = nmsg + 1 /\ UNCHANGED <<era, summary, misfiled>>
  BY DEF CreateInsert
<1>7. RowsFiled'
  BY <1>1, <1>3, <1>4, <1>6 DEF InstallationInv, BooksInv, RowsFiled, Message
<1>8. \A s \in Recordings :
        /\ RowMoves(s)
        /\ msg'[s] # msg[s] => /\ msg[s].status \notin Landed /\ msg'[s].status \notin Landed
  BY <1>1, <1>2, <1>3, <1>4, <1>6 DEF RowMoves, NoMessage, Landed
<1>9. BooksInv' /\ Evolves
  BY <1>1, <1>5, <1>6, <1>7, <1>8, RowWritten DEF InstallationInv
<1>10. c \in Call /\ CallFits(c, era', msg', nmsg', misfiled')
  <2>1. nmsg + 1 \in Nat
    BY <1>1
  <2>2. c \in Call /\ c.pc = "slot"
    BY <1>1, <2>1 DEF Call
  <2> QED
    BY <2>2 DEF CallFits
<1>11. Goto(q, c) /\ UNCHANGED <<op, purge, file, nfile>>
  BY DEF CreateInsert
<1> HIDE DEF c
<1> QED
  BY <1>9, <1>10, <1>11, CallMoves DEF InstallationInv, RestTyped

(* The upload URL and the head of the blob are read only.                   *)
LEMMA UploadSteps ==
  ASSUME InstallationInv, NEW q \in Requests, NEW r \in Recordings,
         OpenSlot(q) \/ CompleteRead(q, r) \/ CompleteHead(q)
  PROVE  InstallationInv'
<1>1. call[q] \in Call /\ call[q].rec \in Recordings /\ CallFits(call[q], era, msg, nmsg, misfiled)
  BY DEF InstallationInv, RestTyped, Call, InFlightInv
<1>2. CASE OpenSlot(q)
  BY <1>2, CallEnds DEF OpenSlot
<1>4. CASE CompleteRead(q, r)
  <2> DEFINE c == [NoCall EXCEPT !.pc = "head", !.rec = r, !.id = msg[r].id, !.era = msg[r].era]
  <2>1. msg[r] \in Message /\ msg[r].id \in Nat /\ msg[r].era \in Nat
    BY DEF InstallationInv, BooksInv, BooksTyped, Message
  <2>2. c \in Call /\ c.rec = r /\ c.id = msg[r].id /\ c.era = msg[r].era
    BY <2>1, AtRest DEF Call, NoCall
  <2>3. msg[r].id # 0
    BY <1>4 DEF CompleteRead, InstallationInv, BooksInv, RowsFiled, NoMessage
  <2>4. Follows(c, era, msg, nmsg, misfiled)
    BY <2>1, <2>2, <2>3 DEF Follows, InstallationInv, BooksInv, BooksTyped, RowsFiled
  <2>5. CallFits(c, era, msg, nmsg, misfiled) /\ Goto(q, c)
    BY <1>4, <2>4 DEF CallFits, CompleteRead
  <2> HIDE DEF c
  <2> QED
    BY <1>4, <2>2, <2>5, CallGoesOn DEF CompleteRead, InstallationInv, RestTyped
<1>5. CASE CompleteHead(q)
  <2> DEFINE c == [call[q] EXCEPT !.pc = "land"]
  <2>1. CASE call[q].rec \in blob
    <3>1. c \in Call /\ c.rec = call[q].rec /\ c.id = call[q].id /\ c.era = call[q].era
      BY <1>1 DEF Call
    <3>2. CallFits(c, era, msg, nmsg, misfiled) /\ Goto(q, c)
      BY <1>1, <1>5, <2>1, <3>1 DEF CallFits, CompleteHead, Follows
    <3> HIDE DEF c
    <3> QED
      BY <1>5, <3>1, <3>2, CallGoesOn DEF CompleteHead, InstallationInv, RestTyped
  <2>2. CASE call[q].rec \notin blob
    BY <1>5, <2>2, CallEnds DEF CompleteHead
  <2> QED
    BY <2>1, <2>2
<1> QED
  BY <1>2, <1>4, <1>5

(* A recording lands in the open installation, whose row it is or becomes.   *)
LEMMA CompleteLandStep ==
  ASSUME InstallationInv, NEW q \in Requests, CompleteLand(q)
  PROVE  InstallationInv' /\ Evolves
<1> DEFINE r == call[q].rec
<1>1. /\ call[q] \in Call /\ r \in Recordings /\ nmsg \in Nat
      /\ msg \in [Recordings -> Message] /\ misfiled \in BOOLEAN
      /\ Follows(call[q], era, msg, nmsg, misfiled)
  BY DEF InstallationInv, RestTyped, Call, BooksInv, BooksTyped, InFlightInv, CallFits, CompleteLand
<1>2. BooksInv' /\ Evolves
  <2>1. CASE UNCHANGED msg
    BY <2>1, BooksKept DEF CompleteLand, InstallationInv
  <2>2. CASE \E e \in Eras :
               /\ Open(e) /\ StillUploading(q)
               /\ msg' = [msg EXCEPT ![r] =
                    [@ EXCEPT !.status = "pending", !.era = IF e = call[q].era THEN msg[r].era ELSE e]]
    <3>1. PICK e \in Eras :
             /\ era[e] = "open" /\ msg[r].id = call[q].id /\ msg[r].status = "uploading"
             /\ msg' = [msg EXCEPT ![r] =
                  [@ EXCEPT !.status = "pending", !.era = IF e = call[q].era THEN msg[r].era ELSE e]]
      BY <2>2 DEF Open, StillUploading
    <3>2. msg[r] \in Message /\ e \in Nat /\ e # 0
      BY <1>1, InstallationConstants DEF Eras
    <3>3. /\ msg'[r].id = msg[r].id /\ msg'[r].status = "pending" /\ msg'[r] \in Message
          /\ msg'[r].era = IF e = call[q].era THEN msg[r].era ELSE e
          /\ \A s \in Recordings \ {r} : msg'[s] = msg[s]
      <4> DEFINE n == IF e = call[q].era THEN msg[r].era ELSE e
      <4>1. n \in Nat
        BY <3>2 DEF Message
      <4>2. msg' = [msg EXCEPT ![r] = [msg[r] EXCEPT !.status = "pending", !.era = n]]
        BY <3>1
      <4> HIDE DEF n
      <4>3. msg'[r] = [msg[r] EXCEPT !.status = "pending", !.era = n]
            /\ \A s \in Recordings \ {r} : msg'[s] = msg[s]
        BY <1>1, <4>2
      <4>4. msg'[r].id = msg[r].id /\ msg'[r].status = "pending" /\ msg'[r] \in Message
            /\ msg'[r].era = n
        BY <3>2, <4>1, <4>3 DEF Message, Landed
      <4> QED
        BY <4>3, <4>4 DEF n
    <3>4. msg' \in [Recordings -> Message]
      BY <1>1, <3>1, <3>3
    <3>5. UNCHANGED <<era, summary, nmsg, misfiled>>
      BY DEF CompleteLand
    <3>6. msg[r].id # 0 /\ msg[r].era \in Eras /\ era[msg[r].era] # "unused" /\ msg[r].id <= nmsg
      BY <1>1, <3>1 DEF Follows, InstallationInv, BooksInv, RowsFiled
    <3>7. RowsFiled'
      <4>1. msg'[r].id # 0 /\ msg'[r].id <= nmsg' /\ msg'[r].status # "none"
            /\ msg'[r].era \in Eras /\ era'[msg'[r].era] # "unused"
        BY <3>1, <3>3, <3>5, <3>6
      <4> QED
        BY <3>3, <3>5, <4>1 DEF InstallationInv, BooksInv, RowsFiled
    <3>8. ~misfiled => msg'[r].era = e
      BY <1>1, <3>1, <3>3 DEF Follows
    <3>9. ~misfiled' => \A s \in Recordings :
            /\ RowMoves(s)
            /\ msg'[s] # msg[s] =>
                 /\ msg[s].era \in Eras /\ era[msg[s].era] = "ended" => msg[s].status \notin Landed
                 /\ msg'[s].era \in Eras /\ era[msg'[s].era] = "ended" => msg'[s].status \notin Landed
      BY <3>1, <3>3, <3>5, <3>8 DEF RowMoves, Landed
    <3> QED
      BY <1>1, <3>4, <3>5, <3>7, <3>9, RowWritten DEF InstallationInv
  <2> QED
    BY <2>1, <2>2 DEF CompleteLand
<1>3. CallFits(NoCall, era', msg', nmsg', misfiled') /\ Goto(q, NoCall)
  BY AtRest DEF CallFits, CompleteLand, EndCall
<1> QED
  BY <1>2, <1>3, AtRest, CallMoves DEF CompleteLand, InstallationInv, RestTyped

-----------------------------------------------------------------------------
(* The operator's request                                                  *)

LEMMA OpReadStep ==
  ASSUME InstallationInv, NEW r \in Recordings, NEW what \in {"decide", "delete"}, OpRead(r, what)
  PROVE  InstallationInv'
<1>1. BooksInv' /\ Evolves
  BY BooksKept DEF InstallationInv, OpRead
<1>2. msg[r].id \in Nat /\ msg[r].era \in Nat
  BY DEF InstallationInv, BooksInv, BooksTyped, Message
<1>3. op' \in Op /\ op'.rec = r /\ op'.id = msg[r].id /\ op'.era = msg[r].era
  BY <1>2 DEF OpRead, Op
<1>4. Follows(op', era, msg, nmsg, misfiled)
  BY <1>2, <1>3 DEF OpRead, Follows, InstallationInv, BooksInv, BooksTyped, RowsFiled
<1>5. OpFits(op', era', msg', nmsg', misfiled')
  BY <1>4 DEF OpRead, OpFits
<1> QED
  BY <1>1, <1>3, <1>5, OpMoves DEF OpRead

(* The decision and the deletion touch a row of the open installation.      *)
LEMMA OpWriteStep ==
  ASSUME InstallationInv, OpWrite
  PROVE  InstallationInv' /\ Evolves
<1> DEFINE r == op.rec
<1>1. /\ r \in Recordings /\ nmsg \in Nat /\ misfiled \in BOOLEAN
      /\ msg \in [Recordings -> Message]
      /\ Follows(op, era, msg, nmsg, misfiled) /\ UNCHANGED <<era, summary, nmsg, misfiled>>
  BY DEF InstallationInv, RestTyped, Op, BooksInv, BooksTyped, InFlightInv, OpFits, OpWrite
<1>2. ASSUME era[op.era] = "open", op.era \in Eras, msg[r].id = op.id, msg' \in [Recordings -> Message],
             \A s \in Recordings \ {r} : msg'[s] = msg[s],
             \/ msg'[r] = NoMessage
             \/ /\ msg'[r].id = msg[r].id /\ msg'[r].era = msg[r].era
                /\ msg'[r].status \in {"approved", "rejected"}
      PROVE  BooksInv' /\ Evolves
  <2>1. msg[r].id # 0 /\ msg[r].id <= nmsg /\ msg[r].era \in Eras /\ era[msg[r].era] # "unused"
    BY <1>1, <1>2 DEF Follows, InstallationInv, BooksInv, RowsFiled
  <2>2. RowsFiled'
    <3>1. /\ msg'[r].id = 0 => msg'[r] = NoMessage
          /\ msg'[r].id # 0 => /\ msg'[r].id <= nmsg /\ msg'[r].status # "none"
                               /\ msg'[r].era \in Eras /\ era[msg'[r].era] # "unused"
      BY <1>2, <2>1 DEF NoMessage
    <3> QED
      BY <1>1, <1>2, <3>1 DEF InstallationInv, BooksInv, RowsFiled
  <2>3. ~misfiled => msg[r].era = op.era
    BY <1>1, <1>2 DEF Follows
  <2>4. ~misfiled' => \A s \in Recordings :
          /\ RowMoves(s)
          /\ msg'[s] # msg[s] =>
               /\ msg[s].era \in Eras /\ era[msg[s].era] = "ended" => msg[s].status \notin Landed
               /\ msg'[s].era \in Eras /\ era[msg'[s].era] = "ended" => msg'[s].status \notin Landed
    <3>1. RowMoves(r)
      BY <1>2 DEF RowMoves
    <3>2. NoMessage.era \notin Eras
      BY InstallationConstants DEF NoMessage, Eras
    <3> QED
      BY <1>1, <1>2, <2>3, <3>1, <3>2 DEF RowMoves
  <2> QED
    BY <1>1, <1>2, <2>2, <2>4, RowWritten DEF InstallationInv
<1>3. BooksInv' /\ Evolves
  <2>1. CASE UNCHANGED msg
    BY <1>1, <2>1, BooksKept DEF InstallationInv
  <2>2. CASE Open(op.era) /\ msg[r].id = op.id /\ msg' = [msg EXCEPT ![r] = NoMessage]
    <3>1. NoMessage \in Message
      BY DEF NoMessage, Message
    <3> QED
      BY <1>1, <1>2, <2>2, <3>1 DEF Open
  <2>3. CASE /\ Open(op.era) /\ msg[r].id = op.id
             /\ \E s \in {"approved", "rejected"} : msg' = [msg EXCEPT ![r] = [@ EXCEPT !.status = s]]
    <3>1. PICK s \in {"approved", "rejected"} : msg' = [msg EXCEPT ![r] = [@ EXCEPT !.status = s]]
      BY <2>3
    <3>2. /\ msg'[r].id = msg[r].id /\ msg'[r].era = msg[r].era /\ msg'[r].status = s
          /\ msg'[r] \in Message
      BY <1>1, <3>1 DEF Message, Landed
    <3>3. msg' \in [Recordings -> Message] /\ \A x \in Recordings \ {r} : msg'[x] = msg[x]
      BY <1>1, <3>1, <3>2
    <3> QED
      BY <1>2, <2>3, <3>2, <3>3 DEF Open
  <2> QED
    BY <2>1, <2>2, <2>3 DEF OpWrite
<1>4. op' \in Op /\ OpFits(op', era', msg', nmsg', misfiled')
  BY AtRest DEF OpWrite, OpFits
<1> QED
  BY <1>3, <1>4, OpMoves DEF OpWrite

-----------------------------------------------------------------------------
(* Installations start and end                                             *)

LEMMA EraSteps ==
  ASSUME InstallationInv, NEW e \in Eras, StartEra(e) \/ EndEra(e)
  PROVE  InstallationInv' /\ Evolves
<1>1. era \in [Eras -> {"unused", "open", "ended", "purged"}] /\ OneOpen
  BY DEF InstallationInv, BooksInv, BooksTyped
<1>2. CASE EndEra(e)
  <2>1. era[e] = "open" /\ CloseOut(e) /\ era' = [era EXCEPT ![e] = "ended"]
        /\ UNCHANGED <<nmsg, misfiled>>
    BY <1>2 DEF EndEra, Open
  <2>2. /\ era' \in [Eras -> {"unused", "open", "ended", "purged"}] /\ era'[e] = "ended"
        /\ \A f \in Eras \ {e} : era'[f] = era[f]
    BY <1>1, <2>1
  <2>3. OneOpen'
    BY <1>1, <2>2 DEF OneOpen
  <2>4. BooksInv' /\ Evolves
    BY <2>1, <2>2, <2>3, ClosedOut DEF InstallationInv
  <2> QED
    BY <1>2, <2>4, AdminMoves DEF EndEra
<1>3. CASE StartEra(e)
  <2>1. ASSUME NoneOpen, era' = [era EXCEPT ![e] = "open"], UNCHANGED <<msg, summary>>
        PROVE  BooksInv' /\ Evolves
    <3>1. era[e] = "unused" /\ UNCHANGED <<nmsg, misfiled>> /\ BooksInv
      BY <1>3 DEF StartEra, InstallationInv
    <3> QED
      BY <2>1, <3>1, EraStarted
  <2>2. ASSUME \E o \in Eras : /\ Open(o) /\ CloseOut(o)
                              /\ era' = [era EXCEPT ![o] = "ended", ![e] = "open"]
        PROVE  BooksInv' /\ Evolves
    <3>1. PICK o \in Eras : /\ era[o] = "open" /\ CloseOut(o)
                            /\ era' = [era EXCEPT ![o] = "ended", ![e] = "open"]
      BY <2>2 DEF Open
    <3>2. era[e] = "unused" /\ e # o /\ UNCHANGED <<nmsg, misfiled>>
      BY <1>3, <3>1 DEF StartEra
    <3>3. /\ era' \in [Eras -> {"unused", "open", "ended", "purged"}]
          /\ era'[o] = "ended" /\ era'[e] = "open"
          /\ \A f \in Eras \ {o, e} : era'[f] = era[f]
      BY <1>1, <3>1, <3>2
    <3>4. OneOpen'
      BY <1>1, <3>1, <3>3 DEF OneOpen
    <3>5. \A f \in Eras \ {o} : era'[f] = era[f] \/ (era[f] = "unused" /\ era'[f] = "open")
      BY <3>2, <3>3
    <3> QED
      BY <3>1, <3>2, <3>3, <3>4, <3>5, ClosedOut DEF InstallationInv
  <2>3. \/ NoneOpen /\ era' = [era EXCEPT ![e] = "open"] /\ UNCHANGED <<msg, summary>>
        \/ \E o \in Eras :
             /\ Open(o) /\ CloseOut(o)
             /\ era' = [era EXCEPT ![o] = "ended", ![e] = "open"]
    BY <1>3 DEF StartEra
  <2>4. BooksInv' /\ Evolves
    BY <2>1, <2>2, <2>3
  <2> QED
    BY <1>3, <2>4, AdminMoves DEF StartEra
<1> QED
  BY <1>2, <1>3

-----------------------------------------------------------------------------
(* Purges                                                                  *)

(* A purge goes on without writing a row or an installation.                *)
LEMMA PurgeGoesOn ==
  ASSUME InstallationInv, UNCHANGED <<era, summary, msg, call, op, nmsg, nfile, misfiled>>,
         file' \in [Recordings -> Nat],
         NEW p \in Purgers, NEW x \in Purge, Proceed(p, x), PurgeFits(x, era, msg, misfiled)
  PROVE  InstallationInv'
<1>1. BooksInv' /\ Evolves
  BY BooksKept DEF InstallationInv
<1>2. PurgeFits(x, era', msg', misfiled')
  OBVIOUS
<1> QED
  BY <1>1, <1>2, PurgeMoves

(* The rows of an installation are gone: what is left is to delete files     *)
(* and blobs, which no property here is about.                             *)
LEMMA CleanupFits ==
  ASSUME InstallationInv, NEW p \in Purgers, NEW x,
         purge[p].pc \in {"rows", "refs", "filerows", "each", "blobs"},
         x.pc \in {"refs", "filerows", "each", "blobs"}, x.era = purge[p].era,
         x.inFlight = purge[p].inFlight
  PROVE  PurgeFits(x, era, msg, misfiled)
BY DEF InstallationInv, InFlightInv, PurgeFits

LEMMA PurgeStops ==
  ASSUME InstallationInv, UNCHANGED <<era, summary, msg, file, call, op, nmsg, nfile, misfiled>>,
         NEW p \in Purgers, Proceed(p, NoPurge)
  PROVE  InstallationInv'
<1>1. PurgeFits(NoPurge, era, msg, misfiled)
  BY AtRest DEF PurgeFits
<1> QED
  BY <1>1, AtRest, PurgeGoesOn DEF InstallationInv, RestTyped

(* The uploads of an ended installation are listed,                         *)
LEMMA PurgeReadStep ==
  ASSUME InstallationInv, NEW p \in Purgers, NEW e \in Eras, PurgeRead(p, e)
  PROVE  InstallationInv'
<1> DEFINE up == {r \in Recordings : msg[r].era = e /\ msg[r].status = "uploading"}
           pc == IF up = {} THEN "files" ELSE "open"
           listed == {<<r, msg[r].id>> : r \in up}
           x == [NoPurge EXCEPT !.pc = pc, !.era = e, !.inFlight = listed]
<1>1. \A r \in Recordings : msg[r].id \in Nat
  BY DEF InstallationInv, BooksInv, BooksTyped, Message
<1>2. \A r \in up : msg[r].id # 0
  BY <1>1 DEF InstallationInv, BooksInv, RowsFiled, NoMessage
<1>3. listed \in SUBSET (Recordings \X Nat) /\ \A f \in listed : f[2] # 0
  BY <1>1, <1>2
<1>4. e \in Nat
  BY InstallationConstants DEF Eras
<1>5. pc \in {"files", "open"} /\ (up # {} => pc = "open")
  OBVIOUS
<1>6. \A r \in Recordings : msg[r].status = "uploading" /\ msg[r].era = e =>
        pc = "open" /\ <<r, msg[r].id>> \in listed
  OBVIOUS
<1>7. Proceed(p, x) /\ era[e] = "ended" /\ UNCHANGED <<era, summary, msg, file, call, op, nmsg, nfile, misfiled>>
  BY DEF PurgeRead
<1> HIDE DEF up, pc, listed
<1>8. x \in Purge /\ x.pc = pc /\ x.era = e /\ x.inFlight = listed
  BY <1>3, <1>4, <1>5, AtRest DEF Purge
<1> HIDE DEF x
<1>9. PurgeFits(x, era, msg, misfiled)
  BY <1>3, <1>5, <1>6, <1>7, <1>8 DEF PurgeFits
<1> QED
  BY <1>7, <1>8, <1>9, PurgeGoesOn DEF InstallationInv, RestTyped

(* the open one is looked up,                                               *)
LEMMA PurgeOpenStep ==
  ASSUME InstallationInv, NEW p \in Purgers, PurgeOpen(p)
  PROVE  InstallationInv'
<1>1. purge[p] \in Purge /\ PurgeFits(purge[p], era, msg, misfiled)
  BY DEF InstallationInv, RestTyped, InFlightInv
<1>2. ASSUME NEW e \in Eras, era[e] = "open", Proceed(p, [purge[p] EXCEPT !.pc = "move", !.to = e])
      PROVE  InstallationInv'
  <2> DEFINE x == [purge[p] EXCEPT !.pc = "move", !.to = e]
  <2>1. e \in Nat
    BY InstallationConstants DEF Eras
  <2>2. /\ x \in Purge /\ x.pc = "move" /\ x.to = e /\ x.era = purge[p].era
        /\ x.inFlight = purge[p].inFlight
    BY <1>1, <2>1 DEF Purge
  <2>3. Proceed(p, x)
    BY <1>2
  <2> HIDE DEF x
  <2>4. PurgeFits(x, era, msg, misfiled)
    BY <1>1, <1>2, <2>2 DEF PurgeFits, PurgeOpen
  <2> QED
    BY <2>2, <2>3, <2>4, PurgeGoesOn DEF PurgeOpen, InstallationInv, RestTyped
<1>3. CASE Proceed(p, NoPurge)
  BY <1>3, PurgeStops DEF PurgeOpen
<1> QED
  BY <1>2, <1>3 DEF PurgeOpen, Open

(* and what was listed is moved there: unless that misfiles a recording, no  *)
(* upload is left.                                                         *)
LEMMA PurgeMoveStep ==
  ASSUME InstallationInv, NEW p \in Purgers, PurgeMove(p)
  PROVE  InstallationInv' /\ Evolves
<1> DEFINE to == purge[p].to
           moved == {r \in Recordings : <<r, msg[r].id>> \in purge[p].inFlight}
           x == [purge[p] EXCEPT !.pc = "files"]
<1>1. /\ purge[p] \in Purge /\ purge[p].pc = "move" /\ PurgeFits(purge[p], era, msg, misfiled)
      /\ UNCHANGED <<era, summary, file, call, op, nmsg, nfile>>
      /\ msg \in [Recordings -> Message] /\ misfiled \in BOOLEAN /\ nmsg \in Nat
  BY DEF InstallationInv, RestTyped, InFlightInv, PurgeMove, BooksInv, BooksTyped
<1>2. /\ to \in Eras /\ era[to] # "unused" /\ to \in Nat
      /\ purge[p].era \in Eras /\ era[purge[p].era] \in {"ended", "purged"}
      /\ \A r \in moved : msg[r].id # 0
      /\ ~misfiled => \A r \in Recordings :
           msg[r].status = "uploading" /\ msg[r].era = purge[p].era => r \in moved
  BY <1>1, InstallationConstants DEF PurgeFits, Eras
<1>3. CASE Proceed(p, NoPurge) /\ UNCHANGED <<msg, misfiled>>
  <2>1. BooksInv' /\ Evolves
    BY <1>1, <1>3, BooksKept DEF InstallationInv
  <2> QED
    BY <1>1, <1>3, <2>1, PurgeStops
<1>4. CASE /\ era[to] # "purged"
           /\ msg' = [r \in Recordings |->
                        IF r \in moved THEN [msg[r] EXCEPT !.era = to] ELSE msg[r]]
           /\ misfiled' = (misfiled \/ era[to] = "ended"
                            \/ \E r \in moved : msg[r].status \in Landed /\ msg[r].era # to)
           /\ Proceed(p, x)
  <2>1. \A r \in Recordings :
          /\ r \in moved => /\ msg'[r].id = msg[r].id /\ msg'[r].status = msg[r].status
                            /\ msg'[r].era = to /\ msg'[r] \in Message
          /\ r \notin moved => msg'[r] = msg[r]
    BY <1>1, <1>2, <1>4 DEF Message
  <2>2. msg' \in [Recordings -> Message]
    BY <1>1, <1>4, <2>1
  <2>3. misfiled' \in BOOLEAN /\ (misfiled => misfiled')
    BY <1>4
  <2>4. ~misfiled' => /\ ~misfiled /\ era[to] = "open"
                      /\ \A r \in moved : msg[r].status \in Landed => msg[r].era = to
    BY <1>1, <1>2, <1>4 DEF InstallationInv, BooksInv, BooksTyped
  <2>5. RowsFiled'
    BY <1>1, <1>2, <2>1 DEF InstallationInv, BooksInv, RowsFiled
  <2>6. \A r \in moved : msg[r].status # "none" /\ msg[r] \in Message
    BY <1>1, <1>2 DEF InstallationInv, BooksInv, RowsFiled
  <2>7. ~misfiled' => \A r \in Recordings :
          /\ RowMoves(r)
          /\ msg'[r] # msg[r] =>
               /\ msg[r].era \in Eras /\ era[msg[r].era] = "ended" => msg[r].status \notin Landed
               /\ msg'[r].era \in Eras /\ era[msg'[r].era] = "ended" => msg'[r].status \notin Landed
    BY <1>1, <2>1, <2>4 DEF RowMoves
  <2>8. BooksInv' /\ Evolves
    BY <1>1, <2>2, <2>3, <2>5, <2>7, RowWritten DEF InstallationInv
  <2>9. /\ x \in Purge /\ x.pc = "files" /\ x.era = purge[p].era /\ x.inFlight = purge[p].inFlight
    BY <1>1 DEF Purge
  <2>10. Proceed(p, x)
    BY <1>4
  <2> HIDE DEF x
  <2>11. ~misfiled' => \A r \in Recordings : ~(msg'[r].status = "uploading" /\ msg'[r].era = x.era)
    BY <1>1, <1>2, <2>1, <2>4, <2>9
  <2>12. PurgeFits(x, era', msg', misfiled')
    BY <1>1, <1>2, <2>9, <2>11 DEF PurgeFits
  <2> QED
    BY <1>1, <2>8, <2>9, <2>10, <2>12, PurgeMoves DEF InstallationInv, RestTyped
<1> QED
  BY <1>3, <1>4 DEF PurgeMove

(* The files of the installation are listed,                                *)
LEMMA PurgeFilesStep ==
  ASSUME InstallationInv, NEW p \in Purgers, PurgeFiles(p)
  PROVE  InstallationInv'
<1> DEFINE mine == {<<r, file[r]>> : r \in {s \in Recordings : msg[s].era = purge[p].era}}
           x == [purge[p] EXCEPT !.pc = "rows", !.owned = mine]
<1>1. purge[p] \in Purge /\ PurgeFits(purge[p], era, msg, misfiled) /\ file \in [Recordings -> Nat]
  BY DEF InstallationInv, RestTyped, InFlightInv
<1>2. mine \in SUBSET (Recordings \X Nat)
  BY <1>1
<1>3. Proceed(p, x) /\ purge[p].pc = "files"
  BY DEF PurgeFiles
<1> HIDE DEF mine
<1>4. /\ x \in Purge /\ x.pc = "rows" /\ x.era = purge[p].era /\ x.inFlight = purge[p].inFlight
  BY <1>1, <1>2 DEF Purge
<1> HIDE DEF x
<1>5. PurgeFits(x, era, msg, misfiled)
  BY <1>1, <1>3, <1>4 DEF PurgeFits
<1> QED
  BY <1>1, <1>3, <1>4, <1>5, PurgeGoesOn DEF PurgeFiles

(* and its rows are deleted.                                                *)
LEMMA PurgeRowsStep ==
  ASSUME InstallationInv, NEW p \in Purgers, PurgeRows(p)
  PROVE  InstallationInv' /\ Evolves
<1> DEFINE e == purge[p].era
           x == [purge[p] EXCEPT !.pc = "refs"]
<1>1. /\ purge[p] \in Purge /\ PurgeFits(purge[p], era, msg, misfiled) /\ purge[p].pc = "rows"
      /\ UNCHANGED <<summary, file, call, op, nmsg, nfile, misfiled>>
  BY DEF InstallationInv, RestTyped, InFlightInv, PurgeRows
<1>2. e \in Eras /\ era[e] \in {"ended", "purged"}
  BY <1>1 DEF PurgeFits
<1>3. CASE Proceed(p, NoPurge) /\ UNCHANGED <<msg, era>>
  <2>1. BooksInv' /\ Evolves
    BY <1>1, <1>3, BooksKept DEF InstallationInv
  <2> QED
    BY <1>1, <1>3, <2>1, PurgeStops
<1>4. CASE /\ msg' = [r \in Recordings |-> IF msg[r].era = e THEN NoMessage ELSE msg[r]]
           /\ era' = [era EXCEPT ![e] = "purged"]
           /\ Proceed(p, x)
  <2>1. BooksInv' /\ Evolves
    BY <1>1, <1>2, <1>4, RowsPurged DEF InstallationInv
  <2>2. /\ x \in Purge /\ x.pc = "refs" /\ x.era = e /\ x.inFlight = purge[p].inFlight
    BY <1>1 DEF Purge
  <2>3. Proceed(p, x)
    BY <1>4
  <2>4. era'[e] = "purged"
    BY <1>2, <1>4 DEF InstallationInv, BooksInv, BooksTyped
  <2> HIDE DEF x
  <2>5. PurgeFits(x, era', msg', misfiled')
    BY <1>1, <1>2, <2>2, <2>4 DEF PurgeFits
  <2> QED
    BY <1>1, <2>1, <2>2, <2>3, <2>5, PurgeMoves DEF InstallationInv, RestTyped
<1> QED
  BY <1>3, <1>4 DEF PurgeRows

(* Then the files, and the blobs, that nothing refers to.                   *)
LEMMA CleanupGoesOn ==
  ASSUME InstallationInv, UNCHANGED <<era, summary, msg, call, op, nmsg, nfile, misfiled>>,
         file' \in [Recordings -> Nat], NEW p \in Purgers, NEW x \in Purge, Proceed(p, x),
         purge[p].pc \in {"refs", "filerows", "each", "blobs"},
         x.pc \in {"filerows", "each", "blobs"}, x.era = purge[p].era,
         x.inFlight = purge[p].inFlight
  PROVE  InstallationInv'
BY CleanupFits, PurgeGoesOn

LEMMA PurgeFileSteps ==
  ASSUME InstallationInv, NEW p \in Purgers, PurgeRefs(p) \/ PurgeFileRows(p) \/ PurgeFileRow(p)
  PROVE  InstallationInv'
<1> DEFINE owned == purge[p].owned
           x(pc, o, g) == [purge[p] EXCEPT !.pc = pc, !.owned = o, !.gone = g]
<1>1. /\ purge[p] \in Purge /\ file \in [Recordings -> Nat]
      /\ owned \in SUBSET (Recordings \X Nat) /\ purge[p].gone \in SUBSET Recordings
      /\ purge[p] = x(purge[p].pc, owned, purge[p].gone)
  BY DEF InstallationInv, RestTyped, Purge
<1>2. ASSUME NEW pc \in {"filerows", "each", "blobs"}, NEW o \in SUBSET owned,
             NEW g \in SUBSET Recordings
      PROVE  /\ x(pc, o, g) \in Purge /\ x(pc, o, g).pc = pc
             /\ x(pc, o, g).era = purge[p].era /\ x(pc, o, g).inFlight = purge[p].inFlight
  BY <1>1 DEF Purge
<1>3. CASE PurgeRefs(p)
  <2> DEFINE left == {f \in owned : ~Referenced(f)}
             y == [purge[p] EXCEPT !.pc = "filerows", !.owned = left]
  <2>1. left \in SUBSET owned /\ Proceed(p, y) /\ purge[p].pc = "refs"
    BY <1>3 DEF PurgeRefs
  <2> HIDE DEF left
  <2>2. y \in Purge /\ y.pc = "filerows" /\ y.era = purge[p].era /\ y.inFlight = purge[p].inFlight
    BY <1>1, <2>1 DEF Purge
  <2> HIDE DEF y
  <2> QED
    BY <1>1, <1>3, <2>1, <2>2, CleanupGoesOn DEF PurgeRefs
<1>4. CASE PurgeFileRows(p)
  <2>1. CASE /\ file' = [r \in Recordings |-> IF <<r, file[r]>> \in owned THEN 0 ELSE file[r]]
             /\ Proceed(p, [purge[p] EXCEPT !.pc = "blobs", !.gone = {f[1] : f \in owned}])
    <3> DEFINE g == {f[1] : f \in owned}
               y == [purge[p] EXCEPT !.pc = "blobs", !.gone = g]
    <3>1. g \in SUBSET Recordings /\ Proceed(p, y) /\ file' \in [Recordings -> Nat]
      BY <1>1, <2>1
    <3> HIDE DEF g
    <3>2. y \in Purge /\ y.pc = "blobs" /\ y.era = purge[p].era /\ y.inFlight = purge[p].inFlight
      BY <1>1, <3>1 DEF Purge
    <3> HIDE DEF y
    <3> QED
      BY <1>4, <3>1, <3>2, CleanupGoesOn DEF PurgeFileRows
  <2>2. CASE Proceed(p, [purge[p] EXCEPT !.pc = "each"]) /\ UNCHANGED file
    <3> DEFINE y == [purge[p] EXCEPT !.pc = "each"]
    <3>1. y \in Purge /\ y.pc = "each" /\ y.era = purge[p].era /\ y.inFlight = purge[p].inFlight
      BY <1>1 DEF Purge
    <3>2. Proceed(p, y)
      BY <2>2
    <3> HIDE DEF y
    <3> QED
      BY <1>1, <1>4, <2>2, <3>1, <3>2, CleanupGoesOn DEF PurgeFileRows
  <2> QED
    BY <1>4, <2>1, <2>2 DEF PurgeFileRows
<1>5. CASE PurgeFileRow(p)
  <2>1. PICK f \in owned :
          LET r == f[1]
              deleted == file[r] = f[2] /\ ~Referenced(f)
              left == owned \ {f}
          IN
          /\ file' = IF deleted THEN [file EXCEPT ![r] = 0] ELSE file
          /\ Proceed(p, [purge[p] EXCEPT !.pc = IF left = {} THEN "blobs" ELSE "each", !.owned = left,
                                         !.gone = IF deleted THEN @ \cup {r} ELSE @])
    BY <1>5 DEF PurgeFileRow
  <2> DEFINE deleted == file[f[1]] = f[2] /\ ~Referenced(f)
             left == owned \ {f}
             pc == IF left = {} THEN "blobs" ELSE "each"
             g == IF deleted THEN purge[p].gone \cup {f[1]} ELSE purge[p].gone
             y == [purge[p] EXCEPT !.pc = pc, !.owned = left, !.gone = g]
  <2>2. f[1] \in Recordings /\ file' \in [Recordings -> Nat]
    BY <1>1, <2>1
  <2>3. Proceed(p, y)
    BY <2>1
  <2>4. pc \in {"each", "blobs"} /\ left \in SUBSET owned /\ g \in SUBSET Recordings
    BY <1>1, <2>2
  <2> HIDE DEF pc, left, g
  <2>5. y \in Purge /\ y.pc = pc /\ y.era = purge[p].era /\ y.inFlight = purge[p].inFlight
    BY <1>1, <2>4 DEF Purge
  <2> HIDE DEF y
  <2> QED
    BY <1>5, <2>2, <2>3, <2>4, <2>5, CleanupGoesOn DEF PurgeFileRow
<1> QED
  BY <1>3, <1>4, <1>5

LEMMA PurgeBlobSteps ==
  ASSUME InstallationInv, NEW p \in Purgers, PurgeCheck(p) \/ PurgeBlob(p) \/ PurgeEnd(p)
  PROVE  InstallationInv'
<1>1. /\ purge[p] \in Purge /\ file \in [Recordings -> Nat]
      /\ purge[p].gone \in SUBSET Recordings /\ purge[p].checked \in SUBSET Recordings
  BY DEF InstallationInv, RestTyped, Purge
<1>2. ASSUME NEW g \in SUBSET Recordings, NEW c \in SUBSET Recordings, purge[p].pc = "blobs",
             Proceed(p, [purge[p] EXCEPT !.gone = g, !.checked = c]),
             UNCHANGED <<era, summary, msg, file, call, op, nmsg, nfile, misfiled>>
      PROVE  InstallationInv'
  <2> DEFINE y == [purge[p] EXCEPT !.gone = g, !.checked = c]
  <2>1. y \in Purge /\ y.pc = "blobs" /\ y.era = purge[p].era /\ y.inFlight = purge[p].inFlight
    BY <1>1, <1>2 DEF Purge
  <2>2. Proceed(p, y)
    BY <1>2
  <2> HIDE DEF y
  <2> QED
    BY <1>1, <1>2, <2>1, <2>2, CleanupGoesOn
<1>3. CASE PurgeCheck(p)
  <2>1. PICK r \in purge[p].gone :
          Proceed(p, [purge[p] EXCEPT !.gone = @ \ {r},
            !.checked = IF file[r] = 0 THEN @ \cup {r} ELSE @])
    BY <1>3 DEF PurgeCheck
  <2> DEFINE g == purge[p].gone \ {r}
             c == IF file[r] = 0 THEN purge[p].checked \cup {r} ELSE purge[p].checked
  <2>2. g \in SUBSET Recordings /\ c \in SUBSET Recordings
    BY <1>1
  <2>3. Proceed(p, [purge[p] EXCEPT !.gone = g, !.checked = c])
    BY <2>1
  <2> HIDE DEF g, c
  <2> QED
    BY <1>2, <1>3, <2>2, <2>3 DEF PurgeCheck
<1>4. CASE PurgeBlob(p)
  <2>1. PICK r \in purge[p].checked : Proceed(p, [purge[p] EXCEPT !.checked = @ \ {r}])
    BY <1>4 DEF PurgeBlob
  <2> DEFINE c == purge[p].checked \ {r}
  <2>2. c \in SUBSET Recordings
    BY <1>1
  <2>3. [purge[p] EXCEPT !.gone = purge[p].gone, !.checked = c] = [purge[p] EXCEPT !.checked = c]
    BY <1>1 DEF Purge
  <2>4. Proceed(p, [purge[p] EXCEPT !.gone = purge[p].gone, !.checked = c])
    BY <2>1, <2>3
  <2> HIDE DEF c
  <2> QED
    BY <1>1, <1>2, <1>4, <2>2, <2>4 DEF PurgeBlob
<1>5. CASE PurgeEnd(p)
  BY <1>5, PurgeStops DEF PurgeEnd
<1> QED
  BY <1>3, <1>4, <1>5

-----------------------------------------------------------------------------
(* The theorems                                                            *)

LEMMA InstallationInit == Init => InstallationInv
<1> SUFFICES ASSUME Init PROVE InstallationInv
  OBVIOUS
<1>1. NoMessage \in Message /\ NoMessage.id = 0 /\ NoMessage.era = 0
  BY DEF NoMessage, Message
<1>2. BooksTyped /\ OneOpen /\ RowsFiled /\ EndedIsSettled
  BY <1>1 DEF Init, BooksTyped, OneOpen, RowsFiled, EndedIsSettled
<1>3. RestTyped /\ InFlightInv
  BY AtRest DEF Init, RestTyped, InFlightInv, CallFits, OpFits, PurgeFits
<1> QED
  BY <1>2, <1>3 DEF InstallationInv, BooksInv

LEMMA InstallationStep == InstallationInv /\ [Next]_vars => InstallationInv'
<1> SUFFICES ASSUME InstallationInv, [Next]_vars PROVE InstallationInv'
  OBVIOUS
<1>1. CASE \E e \in Eras : StartEra(e) \/ EndEra(e)
  BY <1>1, EraSteps
<1>2. CASE \E q \in Requests : BoothStep(q)
  <2> SUFFICES ASSUME NEW q \in Requests, BoothStep(q) PROVE InstallationInv'
    BY <1>2
  <2>1. CASE CreateInsert(q)
    BY <2>1, CreateInsertStep
  <2>2. CASE CompleteLand(q)
    BY <2>2, CompleteLandStep
  <2>3. CASE \E r \in Recordings : CreateStart(q, r) \/ CompleteRead(q, r)
    BY <2>3, CreateSteps, UploadSteps
  <2>4. CASE CreateFile(q) \/ CreateFind(q) \/ CreateRaced(q) \/ CreateRetry(q) \/ CreateFail(q)
    BY <2>4, AtRest, CreateSteps
  <2>5. CASE OpenSlot(q) \/ CompleteHead(q)
    BY <2>5, AtRest, UploadSteps
  <2> QED
    BY <2>1, <2>2, <2>3, <2>4, <2>5 DEF BoothStep
<1>3. CASE \E r \in Recordings : Upload(r) \/ \E what \in {"decide", "delete"} : OpRead(r, what)
  <2>1. ASSUME NEW r \in Recordings, Upload(r) PROVE InstallationInv'
    <3>1. BooksInv' /\ Evolves
      BY <2>1, BooksKept DEF InstallationInv, Upload
    <3> QED
      BY <2>1, <3>1, AdminMoves DEF Upload
  <2> QED
    BY <1>3, <2>1, OpReadStep
<1>4. CASE OpWrite
  BY <1>4, OpWriteStep
<1>5. CASE \E p \in Purgers : PurgeStep(p)
  <2> SUFFICES ASSUME NEW p \in Purgers, PurgeStep(p) PROVE InstallationInv'
    BY <1>5
  <2>1. CASE \E e \in Eras : PurgeRead(p, e)
    BY <2>1, PurgeReadStep
  <2>2. CASE PurgeOpen(p) \/ PurgeMove(p) \/ PurgeFiles(p) \/ PurgeRows(p)
    BY <2>2, PurgeOpenStep, PurgeMoveStep, PurgeFilesStep, PurgeRowsStep
  <2>3. CASE PurgeRefs(p) \/ PurgeFileRows(p) \/ PurgeFileRow(p)
    BY <2>3, PurgeFileSteps
  <2>4. CASE PurgeCheck(p) \/ PurgeBlob(p) \/ PurgeEnd(p)
    BY <2>4, PurgeBlobSteps
  <2> QED
    BY <2>1, <2>2, <2>3, <2>4 DEF PurgeStep
<1>6. CASE UNCHANGED vars
  <2>1. BooksInv' /\ Evolves
    BY <1>6, BooksKept DEF vars, InstallationInv
  <2> QED
    BY <1>6, <2>1, AdminMoves DEF vars
<1> QED
  BY <1>1, <1>2, <1>3, <1>4, <1>5, <1>6 DEF Next

LEMMA InstallationCorrect == Spec => []InstallationInv
<1> QED
  BY InstallationInit, InstallationStep, PTL DEF Spec

(* An installation that ended is settled: no upload, decision, deletion,     *)
(* roll-over or purge, however many of them and however interleaved, leaves  *)
(* a recording waiting in it or its counters wrong.                         *)
THEOREM EndedStaysSettled == Spec => []EndedIsSettled
<1>1. InstallationInv => EndedIsSettled
  BY DEF InstallationInv, BooksInv
<1> QED
  BY <1>1, InstallationCorrect, PTL

(* A purge deletes rows only when it has moved every upload out of its way.   *)
LEMMA UploadKept ==
  ASSUME InstallationInv, Next, NEW r \in Recordings, msg[r].status = "uploading",
         msg'[r].id # msg[r].id, ~misfiled
  PROVE  OpWrite
<1> SUFFICES ASSUME ~OpWrite PROVE FALSE
  OBVIOUS
<1>1. msg \in [Recordings -> Message]
  BY DEF InstallationInv, BooksInv, BooksTyped
<1>2. ASSUME NEW e \in Eras, CloseOut(e) PROVE FALSE
  BY <1>1, <1>2 DEF CloseOut, Drained, Message
<1>3. CASE \E e \in Eras : StartEra(e) \/ EndEra(e)
  BY <1>2, <1>3 DEF StartEra, EndEra, Open
<1>4. CASE \E q \in Requests : BoothStep(q)
  <2> SUFFICES ASSUME NEW q \in Requests, BoothStep(q) PROVE FALSE
    BY <1>4
  <2>1. CASE CreateInsert(q)
    <3>1. msg[call[q].rec].id = 0 /\ call[q].rec \in Recordings
      BY <2>1 DEF CreateInsert, Taken, InstallationInv, RestTyped, Call
    <3>2. r # call[q].rec
      BY <3>1 DEF InstallationInv, BooksInv, RowsFiled, NoMessage
    <3>3. PICK m : msg' = [msg EXCEPT ![call[q].rec] = m]
      BY <2>1 DEF CreateInsert
    <3> QED
      BY <1>1, <3>2, <3>3
  <2>2. CASE CompleteLand(q)
    <3>1. PICK e, n : msg' = [msg EXCEPT ![call[q].rec] = [@ EXCEPT !.status = "pending", !.era = n]]
      BY <2>2 DEF CompleteLand
    <3> QED
      BY <1>1, <3>1 DEF Message
  <2>3. CASE UNCHANGED msg
    BY <2>3
  <2> QED
    BY <2>1, <2>2, <2>3 DEF BoothStep, CreateStart, CompleteRead, CreateFile, CreateFind, CreateRaced,
       CreateRetry, CreateFail, OpenSlot, CompleteHead
<1>5. CASE \E x \in Recordings : Upload(x) \/ \E what \in {"decide", "delete"} : OpRead(x, what)
  BY <1>5 DEF Upload, OpRead
<1>6. CASE \E p \in Purgers : PurgeStep(p)
  <2> SUFFICES ASSUME NEW p \in Purgers, PurgeStep(p) PROVE FALSE
    BY <1>6
  <2>1. CASE PurgeMove(p)
    BY <1>1, <2>1 DEF PurgeMove, Message
  <2>2. CASE PurgeRows(p)
    <3>1. purge[p].pc = "rows" /\ PurgeFits(purge[p], era, msg, misfiled)
      BY <2>2 DEF PurgeRows, InstallationInv, InFlightInv
    <3>2. msg[r].era # purge[p].era
      BY <3>1 DEF PurgeFits
    <3> QED
      BY <2>2, <3>2 DEF PurgeRows
  <2>3. CASE UNCHANGED msg
    BY <2>3
  <2> QED
    BY <2>1, <2>2, <2>3 DEF PurgeStep, PurgeRead, PurgeOpen, PurgeFiles, PurgeRefs, PurgeFileRows,
       PurgeFileRow, PurgeCheck, PurgeBlob, PurgeEnd
<1> QED
  BY <1>3, <1>4, <1>5, <1>6 DEF Next

(* A recording that is still being sent outlives any purge: only an          *)
(* operator's deletion takes its row.                                      *)
THEOREM UploadsOutlivePurges == Spec => UploadsSurvive
<1>1. ASSUME InstallationInv, [Next]_vars
      PROVE  [\A r \in Recordings :
                msg[r].status = "uploading" /\ msg'[r].id # msg[r].id => misfiled \/ OpWrite]_vars
  <2>1. CASE Next
    BY <1>1, <2>1, UploadKept
  <2>2. CASE UNCHANGED vars
    BY <2>2
  <2> QED
    BY <1>1, <2>1, <2>2
<1> QED
  BY <1>1, InstallationCorrect, PTL DEF Spec, UploadsSurvive

=============================================================================
