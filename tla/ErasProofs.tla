------------------------------ MODULE ErasProofs ------------------------------
(***************************************************************************)
(* Proofs about BoothCalls, and about its runs beside Installation, for any *)
(* number of calls, deliveries and installations.                          *)
(*                                                                         *)
(* The argument: a session is filed once, in the installation that is open  *)
(* while its writer holds it, so what a batch read of a session it found     *)
(* stays true (RequestFits), whatever rolls over before it writes. And a run *)
(* of the status only holds moments at which the phone was as the run says,  *)
(* or a report without a time of its own had it be (RunsFit), so a run of    *)
(* idle moments that began after a call did reaches past the call's end, or   *)
(* to the arrival of such a report. The counts add up because a fold adds one report to  *)
(* one run, or starts a run with one (Tallied).                            *)
(***************************************************************************)
EXTENDS MCEras, InstallationProofs

-----------------------------------------------------------------------------
(* The inductive invariant                                                 *)

Session == [era : Nat, started : Nat, ended : Nat \cup {-1},
            outcome : {"none", "reported", "aborted", "rollover"}]
Run == [era : Nat, state : {"busy", "idle"}, first : Nat, upd : Nat, count : Nat]
Request == [at : {"none", "read", "checked", "writing", "folding"},
            batch : SUBSET (Calls \X Kinds), known : [Calls -> Nat], frozen : SUBSET Calls,
            era : Nat, state : {"busy", "idle"}, time : Nat, run : Nat, first : Nat, upd : Nat, count : Nat]

CallsTyped ==
  /\ now \in Nat /\ eraNo \in Nat \ {0} /\ eraIsOpen \in BOOLEAN
  /\ session \in [Calls -> Session] /\ event \in [Calls \X Kinds -> Nat]
  /\ runs \in Seq(Run) /\ req \in [Deliveries -> Request]

(* The phone was in that state at that time, or a report arriving without a   *)
(* time was taken to say so.                                               *)
Said(state, t, u) == PhoneAt(t) = state \/ <<state, t>> \in u

(* A session is filed when it is created, and does not begin before its call. *)
SessionFits(s, c) ==
  /\ s.era = NoEra => s = NoSession
  /\ s.era # NoEra => Started(c) <= s.started
  /\ s.outcome = "reported" => s.ended # -1
  /\ s.outcome = "aborted" => Ended(c) <= s.ended \/ <<"idle", s.ended>> \in undated

SessionsFit == \A c \in Calls : SessionFits(session[c], c)

RunsFit == \A i \in DOMAIN runs : Said(runs[i].state, runs[i].upd, undated)

(* What a request read of the sessions and of its run is still so, and the    *)
(* installation it holds is the open one.                                   *)
KnowsSessions(r, s) == \A c \in Calls : r.known[c] # NoEra => s[c].era = r.known[c]
KnowsRun(r, rs, u) ==
  r.at = "folding" =>
    /\ r.run \in 0 .. Len(rs) /\ Said(r.state, r.upd, u)
    /\ r.run # 0 => rs[r.run].state = r.state /\ rs[r.run].era = r.era
HoldsOpen(r, no, open) == r.at \in {"writing", "folding"} => r.era = no /\ open

RequestsFit ==
  \A p \in Deliveries : /\ req[p].batch \subseteq Happened
                        /\ KnowsSessions(req[p], session)
                        /\ KnowsRun(req[p], runs, undated)
                        /\ HoldsOpen(req[p], eraNo, eraIsOpen)

CallsInv == CallsTyped /\ SessionsFit /\ RunsFit /\ RequestsFit /\ EventsFollowTheirCall

-----------------------------------------------------------------------------
(* Steps of a request                                                      *)

(* What a request has read is not disturbed by the step of another, as long   *)
(* as sessions stay filed and runs stay what they are.                      *)
SessionsStay == \A c \in Calls : session[c].era # NoEra => session'[c].era = session[c].era
RunsStay == /\ Len(runs) <= Len(runs')
            /\ \A i \in 1 .. Len(runs) : runs'[i].state = runs[i].state /\ runs'[i].era = runs[i].era

LEMMA RequestsStay ==
  ASSUME CallsInv, UNCHANGED <<now, eraNo, eraIsOpen>>, SessionsStay, RunsStay, runs' \in Seq(Run),
         undated \subseteq undated', NEW p \in Deliveries, NEW r \in Request, req' = [req EXCEPT ![p] = r],
         r.batch \subseteq Happened, KnowsSessions(r, session'), KnowsRun(r, runs', undated'),
         HoldsOpen(r, eraNo, eraIsOpen)
  PROVE  RequestsFit' /\ req' \in [Deliveries -> Request]
<1>1. req \in [Deliveries -> Request] /\ runs \in Seq(Run)
  BY DEF CallsInv, CallsTyped
<1>2. /\ req' \in [Deliveries -> Request] /\ req'[p] = r
      /\ \A o \in Deliveries \ {p} : req'[o] = req[o]
  BY <1>1
<1>3. Happened' = Happened
  BY DEF Happened
<1>4. ASSUME NEW o \in Deliveries \ {p}
      PROVE  /\ req'[o].batch \subseteq Happened' /\ KnowsSessions(req'[o], session')
             /\ KnowsRun(req'[o], runs', undated') /\ HoldsOpen(req'[o], eraNo', eraIsOpen')
  <2>1. /\ req[o] \in Request /\ req[o].batch \subseteq Happened /\ KnowsSessions(req[o], session)
        /\ KnowsRun(req[o], runs, undated) /\ HoldsOpen(req[o], eraNo, eraIsOpen)
    BY <1>1 DEF CallsInv, RequestsFit
  <2>2. KnowsSessions(req[o], session')
    BY <2>1 DEF KnowsSessions, SessionsStay
  <2>3. KnowsRun(req[o], runs', undated')
    <3>1. Len(runs) \in Nat /\ Len(runs') \in Nat
      BY <1>1
    <3>2. Said(req[o].state, req[o].upd, undated) => Said(req[o].state, req[o].upd, undated')
      BY DEF Said
    <3>3. req[o].run \in 0 .. Len(runs) /\ req[o].run # 0 => req[o].run \in 1 .. Len(runs)
      BY <2>1, <3>1 DEF Request
    <3>4. /\ req[o].run \in 0 .. Len(runs) => req[o].run \in 0 .. Len(runs')
          /\ \A i \in 1 .. Len(runs) : runs'[i].state = runs[i].state /\ runs'[i].era = runs[i].era
      BY <3>1 DEF RunsStay
    <3> QED
      BY <2>1, <3>2, <3>3, <3>4 DEF KnowsRun
  <2> QED
    BY <1>2, <1>3, <2>1, <2>2, <2>3
<1> QED
  BY <1>2, <1>3, <1>4 DEF RequestsFit

LEMMA CallsAtRest ==
  /\ NoSession \in Session /\ NoSession.era = NoEra /\ NoRequest \in Request
  /\ NoRequest.at = "none" /\ NoRequest.batch = {}
  /\ NoRequest.known = [c \in Calls |-> NoEra]
BY DEF NoSession, Session, NoRequest, Request, NoEra

(* The clock of the phone: a call is on the line at odd moments only.        *)
LEMMA PhoneAtMoments ==
  /\ \A t \in Nat : PhoneAt(t) \in {"busy", "idle"}
  /\ \A c \in Calls : c \in Nat /\ Started(c) \in Nat /\ Ended(c) \in Nat /\ Started(c) <= Ended(c)
  /\ \A c \in Calls, t \in Nat : Started(c) <= t /\ PhoneAt(t) = "idle" => Ended(c) <= t
<1>1. \A c \in Calls : c \in Nat \ {0}
  BY CallsAssumption DEF Calls
<1>2. \A c \in Nat \ {0} : (2 * c - 1) % 2 = 1 /\ 2 * c - 1 \in Nat /\ 2 * c \in Nat
  OBVIOUS
<1>3. ASSUME NEW c \in Nat \ {0}, NEW t \in Nat, 2 * c - 1 <= t, t % 2 # 1
      PROVE  2 * c <= t
  <2>1. t # 2 * c - 1
    BY <1>2, <1>3
  <2> QED
    BY <1>3, <2>1
<1> QED
  BY <1>1, <1>2, <1>3 DEF PhoneAt, Started, Ended

(* POST /events, up to the write                                           *)
LEMMA ReadSteps ==
  ASSUME CallsInv, NEW p \in Deliveries,
         \/ \E b \in Batches : ReadSessions(p, b)
         \/ ReadEndedEras(p) \/ LockOpenEra(p)
  PROVE  CallsInv'
<1>1. /\ req[p] \in Request /\ req[p].batch \subseteq Happened /\ KnowsSessions(req[p], session)
      /\ session \in [Calls -> Session] /\ runs \in Seq(Run) /\ eraNo \in Nat \ {0}
  BY DEF CallsInv, CallsTyped, RequestsFit
<1>2. UNCHANGED <<now, eraNo, eraIsOpen, session, event, runs, undated>>
  BY DEF ReadSessions, ReadEndedEras, LockOpenEra
<1>3. SessionsStay /\ RunsStay
  BY <1>1, <1>2 DEF SessionsStay, RunsStay
<1>4. ASSUME NEW r \in Request, req' = [req EXCEPT ![p] = r], r.batch \subseteq Happened,
             KnowsSessions(r, session), r.at # "folding", HoldsOpen(r, eraNo, eraIsOpen)
      PROVE  CallsInv'
  <2>1. KnowsRun(r, runs', undated') /\ KnowsSessions(r, session') /\ runs' \in Seq(Run)
    BY <1>1, <1>2, <1>4 DEF KnowsRun
  <2>2. RequestsFit' /\ req' \in [Deliveries -> Request]
    BY <1>2, <1>3, <1>4, <2>1, RequestsStay
  <2> QED
    BY <1>2, <2>2 DEF CallsInv, CallsTyped, SessionsFit, SessionFits, RunsFit, Said, EventsFollowTheirCall
<1>5. CASE \E b \in Batches : ReadSessions(p, b)
  <2>1. PICK b \in Batches : ReadSessions(p, b)
    BY <1>5
  <2> DEFINE known == [c \in Calls |-> IF \E e \in b : e[1] = c THEN session[c].era ELSE NoEra]
             r == [NoRequest EXCEPT !.at = "read", !.batch = b, !.known = known]
  <2>2. b \subseteq Happened /\ b \in SUBSET (Calls \X Kinds)
    BY DEF Batches, Happened
  <2>3. known \in [Calls -> Nat] /\ \A c \in Calls : known[c] # NoEra => session[c].era = known[c]
    BY <1>1 DEF Session, NoEra
  <2>4. req' = [req EXCEPT ![p] = r]
    BY <2>1 DEF ReadSessions
  <2> HIDE DEF known
  <2>5. r \in Request /\ r.at = "read" /\ r.batch = b /\ r.known = known
    BY <2>2, <2>3, CallsAtRest DEF Request
  <2> HIDE DEF r
  <2>6. KnowsSessions(r, session) /\ HoldsOpen(r, eraNo, eraIsOpen)
    BY <2>3, <2>5 DEF KnowsSessions, HoldsOpen
  <2> QED
    BY <1>4, <2>2, <2>4, <2>5, <2>6
<1>6. CASE ReadEndedEras(p)
  <2> DEFINE frozen == {c \in Calls : /\ req[p].known[c] # NoEra
                                      /\ ~EraIsOpen(req[p].known[c])}
             r == [req[p] EXCEPT !.at = "checked", !.frozen = frozen]
  <2>1. frozen \in SUBSET Calls
    OBVIOUS
  <2>2. req' = [req EXCEPT ![p] = r]
    BY <1>6 DEF ReadEndedEras
  <2> HIDE DEF frozen
  <2>3. r \in Request /\ r.at = "checked" /\ r.batch = req[p].batch /\ r.known = req[p].known
    BY <1>1, <2>1 DEF Request
  <2> HIDE DEF r
  <2>4. KnowsSessions(r, session) /\ HoldsOpen(r, eraNo, eraIsOpen)
    BY <1>1, <2>3 DEF KnowsSessions, HoldsOpen
  <2> QED
    BY <1>1, <1>4, <2>2, <2>3, <2>4
<1>7. CASE LockOpenEra(p)
  <2> DEFINE r == [req[p] EXCEPT !.at = "writing", !.era = eraNo]
  <2>1. CASE eraIsOpen
    <3>1. req' = [req EXCEPT ![p] = r]
      BY <1>7, <2>1 DEF LockOpenEra
    <3>2. r \in Request /\ r.at = "writing" /\ r.batch = req[p].batch /\ r.known = req[p].known
          /\ r.era = eraNo
      BY <1>1 DEF Request
    <3> HIDE DEF r
    <3>3. KnowsSessions(r, session) /\ HoldsOpen(r, eraNo, eraIsOpen)
      BY <1>1, <2>1, <3>2 DEF KnowsSessions, HoldsOpen
    <3> QED
      BY <1>1, <1>4, <3>1, <3>2, <3>3
  <2>2. CASE ~eraIsOpen
    <3>1. req' = [req EXCEPT ![p] = NoRequest]
      BY <1>7, <2>2 DEF LockOpenEra
    <3>2. KnowsSessions(NoRequest, session) /\ HoldsOpen(NoRequest, eraNo, eraIsOpen)
      BY CallsAtRest DEF KnowsSessions, HoldsOpen
    <3> QED
      BY <1>4, <3>1, <3>2, CallsAtRest
  <2> QED
    BY <2>1, <2>2
<1> QED
  BY <1>5, <1>6, <1>7

-----------------------------------------------------------------------------
(* The writes                                                              *)

(* A session that a step may leave behind in the place of the one there was. *)
Settles(c) ==
  /\ session[c].era # NoEra => session'[c].era = session[c].era
  /\ session[c].era # NoEra /\ ~EraIsOpen(session[c].era) => session'[c] = session[c]
  /\ session[c].era = NoEra /\ session'[c].era # NoEra => EraIsOpen(session'[c].era)
  /\ session[c].outcome = "reported" => session'[c].outcome = "reported"

SessionMoves(c) == session'[c] \in Session /\ SessionFits(session'[c], c) /\ Settles(c)

LEMMA SessionsMoved ==
  ASSUME CallsInv, DOMAIN session' = Calls, session' = [c \in Calls |-> session'[c]],
         \A c \in Calls : SessionMoves(c), UNCHANGED undated
  PROVE  /\ session' \in [Calls -> Session] /\ SessionsFit' /\ SessionsStay
         /\ UNCHANGED event => EventsFollowTheirCall'
<1>1. session' \in [Calls -> Session] /\ SessionsFit' /\ SessionsStay
  BY DEF SessionMoves, SessionsFit, SessionFits, SessionsStay, Settles
<1>2. ASSUME UNCHANGED event, NEW e \in Calls \X Kinds, event[e] # NoEra
      PROVE  event[e] = session'[e[1]].era
  BY <1>1, <1>2 DEF CallsInv, EventsFollowTheirCall, SessionsStay
<1> QED
  BY <1>1, <1>2 DEF EventsFollowTheirCall

(* POST /events: what becomes of the session of call c                      *)
LEMMA DerivedFits ==
  ASSUME CallsInv, NEW p \in Deliveries, req[p].at = "writing", NEW c \in Calls,
         NEW s, s = Derived(req[p], c)
  PROVE  /\ s \in Session /\ SessionFits(s, c)
         /\ session[c].era # NoEra => s.era = session[c].era
         /\ session[c].era # NoEra /\ ~EraIsOpen(session[c].era) => s = session[c]
         /\ session[c].era = NoEra /\ s.era # NoEra => EraIsOpen(s.era)
         /\ session[c].outcome = "reported" => s.outcome = "reported"
         /\ s # NoSession => s.era = EraFor(req[p], c) /\ s.era # NoEra
<1> DEFINE r == req[p]
<1>1. /\ r \in Request /\ session[c] \in Session /\ SessionFits(session[c], c)
      /\ r.batch \subseteq Happened /\ KnowsSessions(r, session)
      /\ HoldsOpen(r, eraNo, eraIsOpen) /\ now \in Nat /\ eraNo \in Nat \ {0}
  BY DEF CallsInv, CallsTyped, SessionsFit, RequestsFit
<1>2. r.era = eraNo /\ eraIsOpen /\ r.era \in Nat \ {0}
  BY <1>1 DEF HoldsOpen
<1>3. /\ c \in Nat /\ Started(c) \in Nat /\ Ended(c) \in Nat /\ Started(c) <= Ended(c)
  BY PhoneAtMoments
<1>4. session[c].era # NoEra => EraFor(r, c) = session[c].era
  BY <1>1 DEF EraFor, KnownEra, KnowsSessions
<1>5. session[c].era = NoEra => EraFor(r, c) = eraNo /\ session[c] = NoSession
  BY <1>1, <1>2 DEF EraFor, KnownEra, KnowsSessions, SessionFits
<1>6. Carries(r, c, "ended") => Ended(c) <= now
  BY <1>1 DEF Carries, Happened
<1> HIDE DEF r
<1>7. CASE s = session[c]
  BY <1>1, <1>4, <1>5, <1>7, CallsAtRest DEF r, SessionFits
<1>8. CASE session[c] = NoSession /\ Describes(r, c) /\ s = Created(r, c)
  <2>1. session[c].era = NoEra /\ NoEra = 0 /\ session[c].outcome = "none"
    BY <1>8 DEF NoSession, NoEra
  <2>2. s.era = eraNo /\ EraIsOpen(s.era) /\ s.era # NoEra
    BY <1>1, <1>2, <1>5, <1>8, <2>1 DEF Created, EraIsOpen
  <2>3. /\ s.started \in Nat /\ Started(c) <= s.started
    BY <1>1, <1>3, <1>6, <1>8 DEF Created, Describes
  <2>4. /\ s.outcome \in {"none", "reported"} /\ s.ended \in Nat \cup {-1}
        /\ s.outcome = "reported" => s.ended # -1
    BY <1>3, <1>8 DEF Created
  <2>5. s \in Session
    <3>1. s = [era |-> s.era, started |-> s.started, ended |-> s.ended, outcome |-> s.outcome]
      BY <1>8 DEF Created
    <3>2. s.era \in Nat
      BY <1>1, <2>2
    <3> QED
      BY <2>3, <2>4, <3>1, <3>2 DEF Session
  <2> QED
    BY <1>5, <2>1, <2>2, <2>3, <2>4, <2>5 DEF SessionFits, r
<1>9. CASE session[c] # NoSession /\ MayUpdate(c) /\ s = Patched(r, c)
  <2>1. session[c].era # NoEra /\ EraIsOpen(session[c].era)
    BY <1>1, <1>9 DEF SessionFits, MayUpdate
  <2>2. CASE ~Carries(r, c, "ended")
    <3>1. s = session[c]
      BY <1>9, <2>2 DEF Patched
    <3> QED
      BY <1>7, <3>1
  <2>3. CASE Carries(r, c, "ended")
    <3>1. s = [session[c] EXCEPT !.ended = Ended(c), !.outcome = "reported"]
      BY <1>9, <2>3 DEF Patched
    <3>2. /\ s \in Session /\ s.era = session[c].era /\ s.started = session[c].started
          /\ s.ended = Ended(c) /\ s.outcome = "reported"
      BY <1>1, <1>3, <3>1 DEF Session
    <3> QED
      BY <1>1, <1>3, <1>4, <2>1, <3>2 DEF SessionFits, r
  <2> QED
    BY <2>2, <2>3
<1> QED
  BY <1>7, <1>8, <1>9 DEF Derived, r

LEMMA WriteBatchStep ==
  ASSUME CallsInv, NEW p \in Deliveries, WriteBatch(p)
  PROVE  CallsInv' /\ \A c \in Calls : Settles(c)
<1> DEFINE r == req[p]
           after == [c \in Calls |-> Derived(r, c)]
           refused == \E e \in r.batch : after[e[1]] = NoSession
<1>1. /\ r.at = "writing" /\ req' = [req EXCEPT ![p] = NoRequest]
      /\ UNCHANGED <<now, eraNo, eraIsOpen, runs, undated>>
      /\ session' = IF refused THEN session ELSE after
      /\ event' = [e \in Calls \X Kinds |->
                     IF e \in r.batch /\ event[e] = NoEra /\ ~refused
                     THEN EraFor(r, e[1]) ELSE event[e]]
  BY DEF WriteBatch
<1>2. /\ session \in [Calls -> Session] /\ event \in [Calls \X Kinds -> Nat] /\ runs \in Seq(Run)
      /\ r \in Request /\ eraNo \in Nat
  BY DEF CallsInv, CallsTyped
<1>3. \A c \in Calls :
        /\ after[c] \in Session /\ SessionFits(after[c], c)
        /\ session[c].era # NoEra => after[c].era = session[c].era
        /\ session[c].era # NoEra /\ ~EraIsOpen(session[c].era) => after[c] = session[c]
        /\ session[c].era = NoEra /\ after[c].era # NoEra => EraIsOpen(after[c].era)
        /\ session[c].outcome = "reported" => after[c].outcome = "reported"
        /\ after[c] # NoSession => after[c].era = EraFor(r, c) /\ after[c].era # NoEra
  BY <1>1, DerivedFits
<1>4. after = [c \in Calls |-> after[c]]
  OBVIOUS
<1>5. \A e \in r.batch : e \in Calls \X Kinds
  BY <1>2 DEF Request
<1> HIDE DEF r, after
<1>6. \A c \in Calls : SessionFits(session[c], c)
  BY DEF CallsInv, SessionsFit
<1>7. \A c \in Calls : SessionMoves(c)
  BY <1>1, <1>2, <1>3, <1>6 DEF SessionMoves, Settles
<1>8. session' \in [Calls -> Session] /\ SessionsFit' /\ SessionsStay
  BY <1>1, <1>2, <1>4, <1>7, SessionsMoved
<1>9. \A e \in Calls \X Kinds : event[e] # NoEra => event[e] = session[e[1]].era
  BY DEF CallsInv, EventsFollowTheirCall
<1>10. ASSUME NEW e \in Calls \X Kinds
       PROVE  event'[e] \in Nat /\ (event'[e] # NoEra => event'[e] = session'[e[1]].era)
  <2>1. e[1] \in Calls
    OBVIOUS
  <2>2. CASE e \in r.batch /\ event[e] = NoEra /\ ~refused
    <3>1. after[e[1]] # NoSession /\ session' = after /\ event'[e] = EraFor(r, e[1])
      BY <1>1, <2>2
    <3> QED
      BY <1>3, <2>1, <3>1 DEF Session
  <2>3. CASE ~(e \in r.batch /\ event[e] = NoEra /\ ~refused)
    <3>1. event'[e] = event[e]
      BY <1>1, <2>3
    <3> QED
      BY <1>2, <1>8, <1>9, <2>1, <3>1 DEF SessionsStay
  <2> QED
    BY <2>2, <2>3
<1>11. event' \in [Calls \X Kinds -> Nat] /\ EventsFollowTheirCall'
  BY <1>1, <1>10 DEF EventsFollowTheirCall
<1>12. /\ KnowsSessions(NoRequest, session') /\ KnowsRun(NoRequest, runs', undated')
       /\ HoldsOpen(NoRequest, eraNo, eraIsOpen)
  BY CallsAtRest DEF KnowsSessions, KnowsRun, HoldsOpen
<1>13. RunsStay /\ runs' \in Seq(Run)
  BY <1>1, <1>2 DEF RunsStay
<1>14. RequestsFit' /\ req' \in [Deliveries -> Request]
  BY <1>1, <1>8, <1>12, <1>13, CallsAtRest, RequestsStay
<1>15. CallsTyped' /\ RunsFit'
  BY <1>1, <1>8, <1>11, <1>14 DEF CallsInv, CallsTyped, RunsFit, Said
<1> QED
  BY <1>7, <1>8, <1>11, <1>14, <1>15 DEF CallsInv, SessionMoves

(* PUT /status: the run a report is folded into is of the report's state and  *)
(* of the open installation.                                               *)
LEMMA RunOfFits ==
  ASSUME NEW state, NEW t
  PROVE  \/ RunOf(state, t) = 0
         \/ /\ RunOf(state, t) \in DOMAIN runs /\ runs[RunOf(state, t)].era = eraNo
            /\ runs[RunOf(state, t)].state = state
<1> DEFINE repeats(S) == {i \in S : IsRepeatOf(i, state)}
<1>1. ASSUME NEW S \in SUBSET RunsOfEra, repeats(S) # {}
      PROVE  LET i == CHOOSE i \in repeats(S) : TRUE
             IN  i \in DOMAIN runs /\ runs[i].era = eraNo /\ runs[i].state = state
  <2>1. (CHOOSE i \in repeats(S) : TRUE) \in repeats(S)
    BY <1>1
  <2> QED
    BY <2>1 DEF IsRepeatOf, RunsOfEra
<1>2. Enclosing(t) \in SUBSET RunsOfEra /\ Successor(t) \in SUBSET RunsOfEra
  BY DEF Enclosing, Successor
<1>3. RunOf(state, t) = IF repeats(Enclosing(t)) # {} THEN CHOOSE i \in repeats(Enclosing(t)) : TRUE
                 ELSE IF repeats(Successor(t)) # {} THEN CHOOSE i \in repeats(Successor(t)) : TRUE
                 ELSE 0
  BY DEF RunOf
<1> HIDE DEF repeats
<1>4. CASE repeats(Enclosing(t)) # {}
  BY <1>1, <1>2, <1>3, <1>4
<1>5. CASE repeats(Enclosing(t)) = {} /\ repeats(Successor(t)) # {}
  BY <1>1, <1>2, <1>3, <1>5
<1> QED
  BY <1>3, <1>4, <1>5

LEMMA ReadRunStep ==
  ASSUME CallsInv, NEW p \in Deliveries, NEW state \in {"busy", "idle"}, NEW t \in 0 .. now,
         ReadRun(p, state, t), undated \subseteq undated', Said(state, t, undated')
  PROVE  CallsInv'
<1> DEFINE i == RunOf(state, t)
           first == IF i = 0 \/ t < runs[i].first THEN t ELSE runs[i].first
           upd == IF i = 0 \/ t > runs[i].upd THEN t ELSE runs[i].upd
           count == IF i = 0 THEN 0 ELSE runs[i].count
           r == [NoRequest EXCEPT !.at = "folding", !.era = eraNo, !.state = state, !.time = t,
                                  !.run = i, !.first = first, !.upd = upd, !.count = count]
<1>1. /\ session \in [Calls -> Session] /\ runs \in Seq(Run) /\ eraNo \in Nat /\ now \in Nat /\ t \in Nat
      /\ \A k \in DOMAIN runs : Said(runs[k].state, runs[k].upd, undated)
  BY DEF CallsInv, CallsTyped, RunsFit
<1>2. /\ UNCHANGED <<now, eraNo, eraIsOpen, session, event, runs>> /\ eraIsOpen
      /\ req' = [req EXCEPT ![p] = r]
  BY DEF ReadRun
<1>3. i = 0 \/ (i \in 1 .. Len(runs) /\ runs[i] \in Run /\ runs[i].state = state /\ runs[i].era = eraNo)
  BY <1>1, RunOfFits
<1> HIDE DEF i
<1>4. first \in Nat /\ upd \in Nat /\ count \in Nat /\ i \in 0 .. Len(runs) /\ i \in Nat
  BY <1>1, <1>3 DEF Run
<1>5. Said(state, upd, undated')
  BY <1>1, <1>3 DEF Said
<1> HIDE DEF first, upd, count
<1>6. /\ r \in Request /\ r.at = "folding" /\ r.era = eraNo /\ r.state = state /\ r.run = i /\ r.upd = upd
      /\ r.batch = {} /\ r.known = [c \in Calls |-> NoEra]
  BY <1>1, <1>4, CallsAtRest DEF Request
<1> HIDE DEF r
<1>7. KnowsSessions(r, session') /\ KnowsRun(r, runs', undated') /\ HoldsOpen(r, eraNo, eraIsOpen)
  BY <1>2, <1>3, <1>4, <1>5, <1>6 DEF KnowsSessions, KnowsRun, HoldsOpen
<1>8. SessionsStay /\ RunsStay /\ runs' \in Seq(Run)
  BY <1>1, <1>2 DEF SessionsStay, RunsStay
<1>9. RequestsFit' /\ req' \in [Deliveries -> Request]
  BY <1>2, <1>6, <1>7, <1>8, RequestsStay
<1> QED
  BY <1>2, <1>9 DEF CallsInv, CallsTyped, SessionsFit, SessionFits, RunsFit, Said, EventsFollowTheirCall

(* The runs after a fold                                                   *)
LEMMA FoldedFits ==
  ASSUME CallsInv, NEW p \in Deliveries, req[p].at = "folding", runs' = Folded(req[p]),
         UNCHANGED undated
  PROVE  runs' \in Seq(Run) /\ RunsFit' /\ RunsStay
<1> DEFINE r == req[p]
<1>1. /\ r \in Request /\ runs \in Seq(Run) /\ KnowsRun(r, runs, undated)
      /\ \A k \in DOMAIN runs : Said(runs[k].state, runs[k].upd, undated)
  BY DEF CallsInv, CallsTyped, RunsFit, RequestsFit
<1>2. /\ r.run \in 0 .. Len(runs) /\ Said(r.state, r.upd, undated)
      /\ r.run # 0 => runs[r.run].state = r.state
      /\ r.era \in Nat /\ r.state \in {"busy", "idle"} /\ r.first \in Nat /\ r.upd \in Nat
  BY <1>1 DEF KnowsRun, Request
<1> HIDE DEF r
<1>3. CASE r.run = 0
  <2> DEFINE n == [era |-> r.era, state |-> r.state, first |-> r.first, upd |-> r.upd, count |-> 1]
  <2>1. n \in Run /\ n.upd = r.upd /\ n.state = r.state
    BY <1>1, <1>2 DEF Run
  <2>2. runs' = Append(runs, n)
    BY <1>3 DEF Folded, r
  <2> HIDE DEF n
  <2>3. /\ runs' \in Seq(Run) /\ Len(runs') = Len(runs) + 1 /\ runs'[Len(runs) + 1] = n
        /\ \A k \in 1 .. Len(runs) : runs'[k] = runs[k]
        /\ Len(runs) \in Nat
    BY <1>1, <2>1, <2>2
  <2>4. Said(n.state, n.upd, undated)
    BY <1>2, <2>1
  <2>5. \A k \in DOMAIN runs' : Said(runs'[k].state, runs'[k].upd, undated)
    BY <1>1, <2>3, <2>4
  <2>6. \A k \in 1 .. Len(runs) : runs'[k].state = runs[k].state /\ runs'[k].era = runs[k].era
    BY <2>3
  <2> QED
    BY <2>3, <2>5, <2>6 DEF RunsFit, RunsStay, Said
<1>4. CASE r.run # 0
  <2>1. r.run \in 1 .. Len(runs) /\ runs[r.run] \in Run
    BY <1>1, <1>2, <1>4
  <2> DEFINE n == [runs[r.run] EXCEPT !.first = r.first, !.upd = r.upd, !.count = runs[r.run].count + 1]
  <2>2. runs' = [runs EXCEPT ![r.run] = n]
    BY <1>4 DEF Folded, r
  <2>3. runs[r.run].count + 1 \in Nat
    BY <2>1 DEF Run
  <2>4. n \in Run /\ n.upd = r.upd /\ n.state = runs[r.run].state /\ n.era = runs[r.run].era
    BY <1>2, <2>1, <2>3 DEF Run
  <2> HIDE DEF n
  <2>5. /\ runs' \in Seq(Run) /\ Len(runs') = Len(runs) /\ runs'[r.run] = n
        /\ \A k \in 1 .. Len(runs) : k # r.run => runs'[k] = runs[k]
        /\ DOMAIN runs = 1 .. Len(runs) /\ DOMAIN runs' = 1 .. Len(runs) /\ Len(runs) \in Nat
    BY <1>1, <2>1, <2>2, <2>4
  <2>6. n.state = r.state /\ Said(n.state, n.upd, undated)
    BY <1>2, <1>4, <2>4
  <2>7. \A k \in DOMAIN runs' : Said(runs'[k].state, runs'[k].upd, undated)
    BY <1>1, <2>5, <2>6
  <2>8. \A k \in 1 .. Len(runs) : runs'[k].state = runs[k].state /\ runs'[k].era = runs[k].era
    BY <2>4, <2>5
  <2> QED
    BY <2>5, <2>7, <2>8 DEF RunsFit, RunsStay, Said
<1> QED
  BY <1>3, <1>4

(* An idle report closes the calls that began before it: each was over by     *)
(* the time it gives them.                                                 *)
LEMMA FoldReportStep ==
  ASSUME CallsInv, NEW p \in Deliveries, FoldReport(p)
  PROVE  CallsInv' /\ \A c \in Calls : Settles(c)
<1> DEFINE r == req[p]
<1>1. /\ r.at = "folding" /\ runs' = Folded(r) /\ req' = [req EXCEPT ![p] = NoRequest]
      /\ session' = IF r.state = "idle" THEN Reconcile(r.era, r.upd) ELSE session
      /\ UNCHANGED <<now, eraNo, eraIsOpen, event, undated>>
  BY DEF FoldReport
<1>2. /\ session \in [Calls -> Session] /\ runs \in Seq(Run) /\ r \in Request /\ eraNo \in Nat \ {0}
      /\ KnowsRun(r, runs, undated) /\ HoldsOpen(r, eraNo, eraIsOpen)
      /\ \A c \in Calls : SessionFits(session[c], c)
  BY DEF CallsInv, CallsTyped, RequestsFit, SessionsFit
<1>3. /\ r.era = eraNo /\ eraIsOpen /\ r.upd \in Nat /\ Said(r.state, r.upd, undated)
  BY <1>1, <1>2 DEF KnowsRun, HoldsOpen, Request
<1>4. runs' \in Seq(Run) /\ RunsFit' /\ RunsStay
  BY <1>1, FoldedFits
<1> HIDE DEF r
<1>5. DOMAIN session' = Calls /\ session' = [c \in Calls |-> session'[c]]
  BY <1>1, <1>2 DEF Reconcile
<1>6. ASSUME NEW c \in Calls
      PROVE  SessionMoves(c)
  <2>1. CASE session'[c] = session[c]
    BY <1>2, <2>1 DEF SessionMoves, Settles
  <2>2. CASE session'[c] # session[c]
    <3>1. /\ session[c].era = r.era /\ session[c].ended = -1 /\ session[c].started <= r.upd
          /\ session'[c] = [session[c] EXCEPT !.ended = r.upd, !.outcome = "aborted"]
          /\ r.state = "idle"
      BY <1>1, <1>2, <2>2 DEF Reconcile
    <3>2. session[c] \in Session /\ session[c].era # NoEra /\ EraIsOpen(session[c].era)
      BY <1>2, <1>3, <3>1 DEF NoEra, EraIsOpen
    <3>3. /\ session'[c] \in Session /\ session'[c].era = session[c].era
          /\ session'[c].started = session[c].started
          /\ session'[c].ended = r.upd /\ session'[c].outcome = "aborted"
      BY <1>3, <3>1, <3>2 DEF Session
    <3>4. Started(c) <= session[c].started /\ session[c].outcome # "reported"
      BY <1>2, <3>1, <3>2 DEF SessionFits
    <3>5. Started(c) <= r.upd
      <4>1. Started(c) \in Nat /\ session[c].started \in Nat
        BY <3>2, PhoneAtMoments DEF Session
      <4> QED
        BY <1>3, <3>1, <3>4, <4>1
    <3>6. Ended(c) <= r.upd \/ <<"idle", r.upd>> \in undated
      BY <1>3, <3>1, <3>5, PhoneAtMoments DEF Said
    <3> QED
      BY <3>2, <3>3, <3>4, <3>6 DEF SessionMoves, SessionFits, Settles
  <2> QED
    BY <2>1, <2>2
<1>7. session' \in [Calls -> Session] /\ SessionsFit' /\ SessionsStay /\ EventsFollowTheirCall'
  BY <1>1, <1>5, <1>6, SessionsMoved
<1>8. /\ KnowsSessions(NoRequest, session') /\ KnowsRun(NoRequest, runs', undated')
      /\ HoldsOpen(NoRequest, eraNo, eraIsOpen)
  BY CallsAtRest DEF KnowsSessions, KnowsRun, HoldsOpen
<1>9. RequestsFit' /\ req' \in [Deliveries -> Request]
  BY <1>1, <1>4, <1>7, <1>8, CallsAtRest, RequestsStay
<1>10. CallsTyped'
  BY <1>1, <1>4, <1>7, <1>9 DEF CallsInv, CallsTyped
<1> QED
  BY <1>4, <1>6, <1>7, <1>9, <1>10 DEF CallsInv, SessionMoves

-----------------------------------------------------------------------------
(* Roll-overs                                                              *)

(* A close-out stamps the open sessions of its installation: no request holds *)
(* that one.                                                               *)
LEMMA CloseBoothEraStep ==
  ASSUME CallsInv, CloseBoothEra
  PROVE  CallsInv' /\ \A c \in Calls : Settles(c)
<1>1. /\ session \in [Calls -> Session] /\ runs \in Seq(Run) /\ req \in [Deliveries -> Request]
      /\ eraNo \in Nat \ {0} /\ now \in Nat /\ \A c \in Calls : SessionFits(session[c], c)
  BY DEF CallsInv, CallsTyped, SessionsFit
<1>2. /\ eraIsOpen /\ eraIsOpen' = FALSE /\ \A p \in Deliveries : ~HoldsEraLock(p)
      /\ session' = [c \in Calls |->
                       IF session[c].era = eraNo /\ session[c].ended = -1
                       THEN [session[c] EXCEPT !.ended = now, !.outcome = "rollover"]
                       ELSE session[c]]
      /\ UNCHANGED <<now, eraNo, event, runs, undated, req>>
  BY DEF CloseBoothEra
<1>3. DOMAIN session' = Calls /\ session' = [c \in Calls |-> session'[c]]
  BY <1>2
<1>4. ASSUME NEW c \in Calls
      PROVE  SessionMoves(c)
  <2>1. CASE session'[c] = session[c]
    BY <1>1, <2>1 DEF SessionMoves, Settles
  <2>2. CASE session'[c] # session[c]
    <3>1. /\ session[c].era = eraNo /\ session[c].ended = -1 /\ session[c] \in Session
          /\ session'[c] = [session[c] EXCEPT !.ended = now, !.outcome = "rollover"]
      BY <1>1, <1>2, <2>2
    <3>2. /\ session'[c] \in Session /\ session'[c].era = session[c].era
          /\ session'[c].started = session[c].started
          /\ session'[c].outcome = "rollover"
      BY <1>1, <3>1 DEF Session
    <3> QED
      BY <1>1, <1>2, <3>1, <3>2 DEF SessionMoves, SessionFits, Settles, EraIsOpen, NoEra
  <2> QED
    BY <2>1, <2>2
<1>5. session' \in [Calls -> Session] /\ SessionsFit' /\ SessionsStay /\ EventsFollowTheirCall'
  BY <1>2, <1>3, <1>4, SessionsMoved
<1>6. RequestsFit'
  <2>1. ASSUME NEW p \in Deliveries
        PROVE  /\ req[p].batch \subseteq Happened' /\ KnowsSessions(req[p], session')
               /\ KnowsRun(req[p], runs, undated) /\ HoldsOpen(req[p], eraNo', eraIsOpen')
    <3>1. /\ req[p].batch \subseteq Happened /\ KnowsSessions(req[p], session) /\ KnowsRun(req[p], runs, undated)
      BY DEF CallsInv, RequestsFit
    <3>2. Happened' = Happened
      BY <1>2 DEF Happened
    <3> QED
      BY <1>2, <1>5, <3>1, <3>2 DEF KnowsSessions, SessionsStay, HoldsOpen, HoldsEraLock
  <2> QED
    BY <1>2, <2>1 DEF RequestsFit
<1>7. CallsTyped' /\ RunsFit'
  BY <1>2, <1>5 DEF CallsInv, CallsTyped, RunsFit, Said
<1> QED
  BY <1>4, <1>5, <1>6, <1>7 DEF CallsInv, SessionMoves

LEMMA OpenBoothEraStep ==
  ASSUME CallsInv, OpenBoothEra
  PROVE  CallsInv' /\ UNCHANGED session
<1>1. /\ ~eraIsOpen /\ eraNo' = eraNo + 1 /\ eraIsOpen' = TRUE
      /\ UNCHANGED <<now, session, event, runs, undated, req>>
  BY DEF OpenBoothEra
<1>2. \A p \in Deliveries : HoldsOpen(req[p], eraNo', eraIsOpen')
  BY <1>1 DEF CallsInv, RequestsFit, HoldsOpen
<1>3. RequestsFit' /\ Happened' = Happened
  BY <1>1, <1>2 DEF CallsInv, RequestsFit, Happened, KnowsSessions, KnowsRun, Said
<1>4. CallsTyped'
  BY <1>1 DEF CallsInv, CallsTyped
<1> QED
  BY <1>1, <1>3, <1>4 DEF CallsInv, SessionsFit, SessionFits, RunsFit, Said, EventsFollowTheirCall

LEMMA PhoneTickStep ==
  ASSUME CallsInv, PhoneTick
  PROVE  CallsInv' /\ UNCHANGED session
<1>1. now' = now + 1 /\ now \in Nat /\ UNCHANGED <<eraNo, eraIsOpen, session, event, runs, undated, req>>
  BY DEF PhoneTick, CallsInv, CallsTyped
<1>2. Happened \subseteq Happened'
  <2>1. ASSUME NEW e \in Happened PROVE e \in Happened'
    <3>1. e[1] \in Calls /\ e \in Calls \X Kinds
      BY DEF Happened
    <3>2. Started(e[1]) \in Nat /\ Ended(e[1]) \in Nat
      BY <3>1, PhoneAtMoments
    <3> QED
      BY <1>1, <3>1, <3>2 DEF Happened
  <2> QED
    BY <2>1
<1>3. RequestsFit'
  BY <1>1, <1>2 DEF CallsInv, RequestsFit, KnowsSessions, KnowsRun, Said, HoldsOpen
<1>4. CallsTyped'
  BY <1>1 DEF CallsInv, CallsTyped
<1> QED
  BY <1>1, <1>3, <1>4 DEF CallsInv, SessionsFit, SessionFits, RunsFit, Said, EventsFollowTheirCall

-----------------------------------------------------------------------------
(* The counts                                                              *)

(* Every non-empty set of finite sets has a smallest one in it: this is how  *)
(* an induction over finite sets is done below.                            *)
LEMMA SubsetMin ==
  ASSUME NEW S, IsFiniteSet(S), NEW T \in SUBSET SUBSET S, T # {}
  PROVE  \E s \in T : \A u \in T : ~(u \subseteq s /\ u # s)
<1>1. T \subseteq FiniteSubsetsOf(S)
  BY FS_Subset DEF FiniteSubsetsOf
<1>2. IsWellFoundedOn(StrictSubsetOrdering(S), FiniteSubsetsOf(S))
  BY FS_StrictSubsetOrderingWellFounded
<1>3. PICK s \in T : \A u \in T : ~(<<u, s>> \in StrictSubsetOrdering(S))
  BY <1>1, <1>2, WFMin
<1> QED
  BY <1>3 DEF StrictSubsetOrdering

(* The reports in the runs S, one by one.                                  *)
Reports(rs, S) == UNION {{k} \X (1 .. rs[k].count) : k \in S}

(* A run's reports are as many as its count says.                           *)
LEMMA ReportsOfRun ==
  ASSUME NEW k, NEW n \in Nat
  PROVE  IsFiniteSet({k} \X (1 .. n)) /\ Cardinality({k} \X (1 .. n)) = n
<1>1. IsFiniteSet({k}) /\ Cardinality({k}) = 1
  BY FS_Singleton
<1>2. IsFiniteSet(1 .. n) /\ Cardinality(1 .. n) = n
  BY FS_Interval
<1>3. /\ IsFiniteSet({k} \X (1 .. n))
      /\ Cardinality({k} \X (1 .. n)) = Cardinality({k}) * Cardinality(1 .. n)
  <2> HIDE DEF IsFiniteSet
  <2>1. ASSUME NEW A, NEW B, IsFiniteSet(A), IsFiniteSet(B)
        PROVE  IsFiniteSet(A \X B) /\ Cardinality(A \X B) = Cardinality(A) * Cardinality(B)
    BY <2>1, FS_Product
  <2> QED
    BY <1>1, <1>2, <2>1
<1> QED
  BY <1>1, <1>2, <1>3

LEMMA ReportsFinite ==
  ASSUME NEW rs, NEW S, IsFiniteSet(S), \A k \in S : rs[k].count \in Nat
  PROVE  IsFiniteSet(Reports(rs, S)) /\ Cardinality(Reports(rs, S)) \in Nat
<1>1. IsFiniteSet({{k} \X (1 .. rs[k].count) : k \in S})
  <2> DEFINE T == {{k} \X (1 .. rs[k].count) : k \in S}
             f == [k \in S |-> {k} \X (1 .. rs[k].count)]
  <2>1. f \in Surjection(S, T)
    BY DEF Surjection
  <2> HIDE DEF f, T
  <2>2. IsFiniteSet(T)
    BY <2>1, FS_Surjection
  <2> QED
    BY <2>2 DEF T
<1>2. \A T \in {{k} \X (1 .. rs[k].count) : k \in S} : IsFiniteSet(T)
  <2>1. ASSUME NEW k \in S
        PROVE  IsFiniteSet({k} \X (1 .. rs[k].count))
    <3>1. rs[k].count \in Nat
      OBVIOUS
    <3> QED
      BY <3>1, ReportsOfRun
  <2> QED
    BY <2>1
<1>3. IsFiniteSet(Reports(rs, S))
  BY <1>1, <1>2, FS_UNION DEF Reports
<1> QED
  BY <1>3, FS_CardinalityType

LEMMA ReportsWithout ==
  ASSUME NEW rs, NEW S, IsFiniteSet(S), \A k \in S : rs[k].count \in Nat, NEW x \in S
  PROVE  Cardinality(Reports(rs, S)) = rs[x].count + Cardinality(Reports(rs, S \ {x}))
<1> DEFINE A == {x} \X (1 .. rs[x].count)
           B == Reports(rs, S \ {x})
<1>1. IsFiniteSet(A) /\ Cardinality(A) = rs[x].count
  BY ReportsOfRun
<1>2. IsFiniteSet(B) /\ Cardinality(B) \in Nat
  BY FS_Subset, ReportsFinite
<1>3. Reports(rs, S) = A \cup B /\ A \cap B = {}
  BY DEF Reports
<1> HIDE DEF A, B
<1>4. Cardinality(A \cup B) = Cardinality(A) + Cardinality(B) - Cardinality({})
  BY <1>1, <1>2, <1>3, FS_Union
<1>5. Cardinality({}) = 0
  BY FS_EmptySet
<1> QED
  BY <1>1, <1>2, <1>3, <1>4, <1>5 DEF B

(* What MapThenSumSet adds up is the number of the reports.                 *)
LEMMA SumIsReports ==
  ASSUME NEW rs, NEW S, IsFiniteSet(S), \A k \in S : rs[k].count \in Nat
  PROVE  MapThenSumSet(LAMBDA k : rs[k].count, S) = Cardinality(Reports(rs, S))
<1> DEFINE Pick(s) == CHOOSE x \in s : TRUE
           Adds(f) == f = [s \in SUBSET S |-> IF s = {} THEN 0 ELSE rs[Pick(s)].count + f[s \ {Pick(s)}]]
           iter == CHOOSE f : Adds(f)
           sizes == [s \in SUBSET S |-> Cardinality(Reports(rs, s))]
<1>1. MapThenSumSet(LAMBDA k : rs[k].count, S) = iter[S]
  BY DEF MapThenSumSet, MapThenFoldSet
<1>2. \A s \in SUBSET S : s # {} => Pick(s) \in s
  OBVIOUS
<1> HIDE DEF Pick
<1>3. ASSUME NEW s \in SUBSET S
      PROVE  sizes[s] = IF s = {} THEN 0 ELSE rs[Pick(s)].count + sizes[s \ {Pick(s)}]
  <2>1. CASE s = {}
    <3>1. Reports(rs, s) = {}
      BY <2>1 DEF Reports
    <3> QED
      BY <2>1, <3>1, FS_EmptySet
  <2>2. CASE s # {}
    <3>1. IsFiniteSet(s) /\ \A k \in s : rs[k].count \in Nat
      BY FS_Subset
    <3>2. Cardinality(Reports(rs, s)) = rs[Pick(s)].count + Cardinality(Reports(rs, s \ {Pick(s)}))
      BY <1>2, <2>2, <3>1, ReportsWithout
    <3> QED
      BY <2>2, <3>2
  <2> QED
    BY <2>1, <2>2
<1>4. Adds(sizes)
  BY <1>3
<1>5. Adds(iter)
  BY <1>4
<1> HIDE DEF iter, sizes
<1>6. ASSUME NEW T, T = {s \in SUBSET S : iter[s] # sizes[s]}, T # {}
      PROVE  FALSE
  <2>1. T \in SUBSET SUBSET S
    BY <1>6
  <2>2. PICK s \in T : \A u \in T : ~(u \subseteq s /\ u # s)
    BY <1>6, <2>1, SubsetMin
  <2>3. s \in SUBSET S /\ iter[s] # sizes[s]
    BY <1>6
  <2>4. s # {}
    BY <1>4, <1>5, <2>3
  <2>5. s \ {Pick(s)} \in SUBSET S /\ s \ {Pick(s)} # s
    BY <1>2, <2>3, <2>4
  <2>6. iter[s \ {Pick(s)}] = sizes[s \ {Pick(s)}]
    BY <1>6, <2>2, <2>5
  <2> QED
    BY <1>4, <1>5, <2>3, <2>4, <2>6
<1>7. iter[S] = sizes[S]
  BY <1>6
<1> QED
  BY <1>1, <1>7 DEF sizes

(* Every accepted report is one of the reports of the runs of its            *)
(* installation.                                                           *)
RunsIn(i) == {k \in DOMAIN runs : runs[k].era = i}
Tallied ==
  /\ accepted \in [BoothEras -> Nat]
  /\ \A i \in BoothEras : accepted[i] = Cardinality(Reports(runs, RunsIn(i)))

LEMMA RunsInFinite ==
  ASSUME CallsTyped, NEW i
  PROVE  IsFiniteSet(RunsIn(i)) /\ \A k \in RunsIn(i) : runs[k].count \in Nat
<1>1. runs \in Seq(Run) /\ Len(runs) \in Nat /\ DOMAIN runs = 1 .. Len(runs)
  BY DEF CallsTyped
<1>2. RunsIn(i) \subseteq 1 .. Len(runs) /\ IsFiniteSet(1 .. Len(runs))
  BY <1>1, FS_Interval DEF RunsIn
<1>3. IsFiniteSet(RunsIn(i))
  BY <1>2, FS_Subset
<1>4. \A k \in 1 .. Len(runs) : runs[k] \in Run
  BY <1>1
<1> QED
  BY <1>2, <1>3, <1>4 DEF Run

LEMMA ReportIs ==
  ASSUME NEW rs, NEW S, NEW x
  PROVE  x \in Reports(rs, S) <=>
           \E k \in S : \E n \in 1 .. rs[k].count : x = <<k, n>>
  BY DEF Reports

(* A fold adds one report to the runs of its installation and none to those   *)
(* of another: the count it adds one to is the one the row has by then.      *)
LEMMA FoldTallied ==
  ASSUME CallsInv, Tallied, NEW p \in Deliveries, FoldReport(p)
  PROVE  Tallied'
<1> DEFINE r == req[p]
           k == IF r.run = 0 THEN Len(runs) + 1 ELSE r.run
           n == IF r.run = 0 THEN 1 ELSE runs[r.run].count + 1
<1>1. /\ r.at = "folding" /\ runs' = Folded(r) /\ accepted' = [accepted EXCEPT ![r.era] = @ + 1]
  BY DEF FoldReport
<1>2. /\ r \in Request /\ runs \in Seq(Run) /\ Len(runs) \in Nat /\ DOMAIN runs = 1 .. Len(runs)
      /\ r.run \in 0 .. Len(runs) /\ (r.run # 0 => runs[r.run].era = r.era)
      /\ accepted \in [BoothEras -> Nat]
  BY <1>1 DEF CallsInv, CallsTyped, RequestsFit, KnowsRun, Tallied
<1> HIDE DEF r
<1>3. \A j \in 1 .. Len(runs) : runs[j] \in Run /\ runs[j].count \in Nat
  <2>1. \A j \in 1 .. Len(runs) : runs[j] \in Run
    BY <1>2
  <2> QED
    BY <2>1 DEF Run
<1>4. /\ DOMAIN runs' = DOMAIN runs \cup {k} /\ n \in Nat \ {0} /\ k \in Nat \ {0}
      /\ runs'[k].era = r.era /\ runs'[k].count = n
      /\ \A j \in DOMAIN runs \ {k} : runs'[j] = runs[j]
      /\ \/ k \notin DOMAIN runs /\ n = 1
         \/ k \in DOMAIN runs /\ runs[k].era = r.era /\ n = runs[k].count + 1
  <2>1. CASE r.run = 0
    <3> DEFINE row == [era |-> r.era, state |-> r.state, first |-> r.first, upd |-> r.upd, count |-> 1]
    <3>1. runs' = Append(runs, row) /\ row.era = r.era /\ row.count = 1
      BY <1>1, <2>1 DEF Folded
    <3> HIDE DEF row
    <3>2. /\ DOMAIN runs' = 1 .. Len(runs) + 1 /\ runs'[Len(runs) + 1] = row
          /\ \A j \in 1 .. Len(runs) : runs'[j] = runs[j]
      BY <1>2, <3>1
    <3> QED
      BY <1>2, <2>1, <3>1, <3>2
  <2>2. CASE r.run # 0
    <3> DEFINE row == [runs[r.run] EXCEPT !.first = r.first, !.upd = r.upd, !.count = runs[r.run].count + 1]
    <3>1. r.run \in 1 .. Len(runs) /\ runs[r.run] \in Run /\ runs[r.run].count \in Nat
      BY <1>2, <1>3, <2>2
    <3>2. runs' = [runs EXCEPT ![r.run] = row]
      BY <1>1, <2>2 DEF Folded
    <3>3. row.era = r.era /\ row.count = runs[r.run].count + 1
      BY <1>2, <2>2, <3>1 DEF Run
    <3> HIDE DEF row
    <3> QED
      BY <1>2, <2>2, <3>1, <3>2, <3>3
  <2> QED
    BY <2>1, <2>2
<1>era. PICK e : e = r.era
  OBVIOUS
<1>5. \A i : RunsIn(i)' = IF i = e THEN RunsIn(i) \cup {k} ELSE RunsIn(i)
  BY <1>4, <1>era DEF RunsIn
<1>6. \A i : RunsIn(i) \subseteq DOMAIN runs
  BY DEF RunsIn
<1>7. \A j \in DOMAIN runs : runs[j].count \in Nat
  BY <1>2, <1>3
<1> HIDE DEF k, n
<1>8. ASSUME NEW i, i # e
      PROVE  Reports(runs, RunsIn(i))' = Reports(runs, RunsIn(i))
  <2>1. RunsIn(i)' = RunsIn(i) /\ \A j \in RunsIn(i) : runs'[j] = runs[j]
    BY <1>4, <1>5, <1>8, <1>era DEF RunsIn
  <2> QED
    BY <2>1 DEF Reports
<1>9. /\ Reports(runs, RunsIn(e))' = Reports(runs, RunsIn(e)) \cup {<<k, n>>}
      /\ <<k, n>> \notin Reports(runs, RunsIn(e))
  <2> DEFINE S == RunsIn(e)
  <2>1. /\ RunsIn(e)' = S \cup {k} /\ S \subseteq DOMAIN runs
        /\ k \in S \/ (k \notin S /\ n = 1)
        /\ k \in S => n = runs[k].count + 1 /\ runs[k].count \in Nat
    <3>1. k \in S <=> k \in DOMAIN runs
      BY <1>4, <1>era DEF RunsIn
    <3>2. S \subseteq DOMAIN runs /\ RunsIn(e)' = S \cup {k}
      BY <1>5, <1>6
    <3> HIDE DEF S
    <3> QED
      BY <1>4, <1>7, <3>1, <3>2
  <2> HIDE DEF S
  <2>2. ASSUME NEW x
        PROVE  x \in Reports(runs', S \cup {k}) <=> x \in Reports(runs, S) \cup {<<k, n>>}
    <3>1. \A j \in S \ {k} : runs'[j].count = runs[j].count
      BY <1>4, <2>1
    <3>2. \A q : q \in 1 .. runs'[k].count <=> (q = n \/ (k \in S /\ q \in 1 .. runs[k].count))
      BY <1>4, <2>1
    <3>3. x \in Reports(runs', S \cup {k}) <=>
            \E j \in S \cup {k} : \E q \in 1 .. runs'[j].count : x = <<j, q>>
      BY ReportIs
    <3>4. x \in Reports(runs, S) <=> \E j \in S : \E q \in 1 .. runs[j].count : x = <<j, q>>
      BY ReportIs
    <3> QED
      BY <3>1, <3>2, <3>3, <3>4
  <2>3. <<k, n>> \notin Reports(runs, S)
    <3>1. <<k, n>> \in Reports(runs, S) <=> \E j \in S : \E q \in 1 .. runs[j].count : <<k, n>> = <<j, q>>
      BY ReportIs
    <3> QED
      BY <2>1, <3>1
  <2>4. Reports(runs, RunsIn(e))' = Reports(runs', S \cup {k})
    BY <2>1
  <2> QED
    BY <2>2, <2>3, <2>4 DEF S
<1>10. IsFiniteSet(Reports(runs, RunsIn(e)))
  BY RunsInFinite, ReportsFinite DEF CallsInv
<1>11. Cardinality(Reports(runs, RunsIn(e)))' = Cardinality(Reports(runs, RunsIn(e))) + 1
  BY <1>9, <1>10, FS_AddElement
<1>12. /\ accepted' \in [BoothEras -> Nat]
       /\ \A i \in BoothEras : accepted'[i] = IF i = e THEN accepted[i] + 1 ELSE accepted[i]
  <2>1. accepted' = [i \in BoothEras |-> IF i = e THEN accepted[i] + 1 ELSE accepted[i]]
    BY <1>1, <1>2, <1>era
  <2>2. \A i \in BoothEras : accepted[i] + 1 \in Nat
    BY <1>2
  <2> QED
    BY <1>2, <2>1, <2>2
<1>13. ASSUME NEW i \in BoothEras
       PROVE  accepted'[i] = Cardinality(Reports(runs, RunsIn(i)))'
  <2>1. accepted[i] = Cardinality(Reports(runs, RunsIn(i)))
    BY DEF Tallied
  <2>2. CASE i = e
    BY <1>11, <1>12, <2>1, <2>2
  <2>3. CASE i # e
    BY <1>8, <1>12, <2>1, <2>3
  <2> QED
    BY <2>2, <2>3
<1> QED
  BY <1>12, <1>13 DEF Tallied

LEMMA TalliedStep == CallsInv /\ Tallied /\ [CallsNext]_callVars => Tallied'
<1> SUFFICES ASSUME CallsInv, Tallied, [CallsNext]_callVars PROVE Tallied'
  OBVIOUS
<1>1. ASSUME UNCHANGED <<runs, accepted>>
      PROVE  Tallied'
  BY <1>1 DEF Tallied, RunsIn
<1>2. ASSUME NEW p \in Deliveries, FoldReport(p)
      PROVE  Tallied'
  BY <1>2, FoldTallied
<1>3. \/ \E p \in Deliveries : FoldReport(p)
      \/ UNCHANGED <<runs, accepted>>
  BY DEF CallsNext, callVars, ReadSessions, ReadEndedEras, LockOpenEra, WriteBatch, ReadRun,
         DatedReport, UndatedReport, CloseBoothEra, OpenBoothEra, PhoneTick
<1> QED
  BY <1>1, <1>2, <1>3

LEMMA TalliedInitially == CallsInit => Tallied
<1> SUFFICES ASSUME CallsInit PROVE Tallied
  OBVIOUS
<1>1. accepted = [i \in BoothEras |-> 0] /\ runs = <<>>
  BY DEF CallsInit
<1>2. ASSUME NEW i \in BoothEras
      PROVE  Cardinality(Reports(runs, RunsIn(i))) = 0
  <2>1. Reports(runs, RunsIn(i)) = {}
    BY <1>1 DEF RunsIn, Reports
  <2> QED
    BY <2>1, FS_EmptySet
<1> QED
  BY <1>1, <1>2 DEF Tallied

-----------------------------------------------------------------------------
(* The theorems                                                            *)

LEMMA CallsInitially == CallsInit => CallsInv
<1> SUFFICES ASSUME CallsInit PROVE CallsInv
  OBVIOUS
<1>1. CallsTyped
  BY CallsAtRest DEF CallsInit, CallsTyped, NoEra
<1>2. SessionsFit /\ RunsFit
  BY DEF CallsInit, SessionsFit, SessionFits, NoSession, NoEra, RunsFit
<1>3. RequestsFit
  BY CallsAtRest DEF CallsInit, RequestsFit, KnowsSessions, KnowsRun, HoldsOpen
<1>4. EventsFollowTheirCall
  BY DEF CallsInit, EventsFollowTheirCall
<1> QED
  BY <1>1, <1>2, <1>3, <1>4 DEF CallsInv

LEMMA CallsStep == CallsInv /\ [CallsNext]_callVars => CallsInv' /\ \A c \in Calls : Settles(c)
<1> SUFFICES ASSUME CallsInv, [CallsNext]_callVars PROVE CallsInv' /\ \A c \in Calls : Settles(c)
  OBVIOUS
<1>1. ASSUME UNCHANGED session PROVE \A c \in Calls : Settles(c)
  BY <1>1 DEF Settles
<1>2. CASE \E p \in Deliveries :
             \/ \E b \in Batches : ReadSessions(p, b)
             \/ ReadEndedEras(p) \/ LockOpenEra(p) \/ WriteBatch(p)
             \/ DatedReport(p) \/ UndatedReport(p)
             \/ FoldReport(p)
  <2> SUFFICES ASSUME NEW p \in Deliveries,
                      \/ \E b \in Batches : ReadSessions(p, b)
                      \/ ReadEndedEras(p) \/ LockOpenEra(p) \/ WriteBatch(p)
                      \/ DatedReport(p) \/ UndatedReport(p)
                      \/ FoldReport(p)
               PROVE  CallsInv' /\ \A c \in Calls : Settles(c)
    BY <1>2
  <2>1. CASE \/ \E b \in Batches : ReadSessions(p, b)
             \/ ReadEndedEras(p) \/ LockOpenEra(p)
    <3>1. UNCHANGED session
      BY <2>1 DEF ReadSessions, ReadEndedEras, LockOpenEra
    <3> QED
      BY <1>1, <2>1, <3>1, ReadSteps
  <2>2. CASE WriteBatch(p)
    BY <2>2, WriteBatchStep
  <2>3. CASE DatedReport(p) \/ UndatedReport(p)
    <3>1. \A t \in 0 .. now : PhoneAt(t) \in {"busy", "idle"} /\ now \in 0 .. now
      BY DEF PhoneAt, CallsInv, CallsTyped
    <3>2. PICK state \in {"busy", "idle"}, t \in 0 .. now :
            ReadRun(p, state, t) /\ undated \subseteq undated' /\ Said(state, t, undated')
      BY <2>3, <3>1 DEF DatedReport, UndatedReport, Said
    <3>3. UNCHANGED session
      BY <3>2 DEF ReadRun
    <3> QED
      BY <1>1, <3>2, <3>3, ReadRunStep
  <2>4. CASE FoldReport(p)
    BY <2>4, FoldReportStep
  <2> QED
    BY <2>1, <2>2, <2>3, <2>4
<1>3. CASE CloseBoothEra
  BY <1>3, CloseBoothEraStep
<1>4. CASE OpenBoothEra
  BY <1>1, <1>4, OpenBoothEraStep
<1>5. CASE PhoneTick
  BY <1>1, <1>5, PhoneTickStep
<1>6. CASE UNCHANGED callVars
  <2>1. CallsInv'
    BY <1>6 DEF callVars, CallsInv, CallsTyped, SessionsFit, SessionFits, RunsFit, Said, RequestsFit,
       KnowsSessions, KnowsRun, HoldsOpen, Happened, EventsFollowTheirCall
  <2> QED
    BY <1>1, <1>6, <2>1 DEF callVars
<1> QED
  BY <1>2, <1>3, <1>4, <1>5, <1>6 DEF CallsNext

(* The recordings and the calls share no rows: a step of the runs is one of    *)
(* either.                                                                 *)
LEMMA ErasSteps ==
  /\ ErasInit => Init /\ CallsInit
  /\ [ErasNext]_<<focus, vars, callVars>> => [Next]_vars /\ [CallsNext]_callVars
BY DEF ErasInit, ErasNext

LEMMA CallsCorrect == ErasSpec => []CallsInv
<1>1. CallsInv /\ [ErasNext]_<<focus, vars, callVars>> => CallsInv'
  BY ErasSteps, CallsStep
<1> QED
  BY <1>1, ErasSteps, CallsInitially, PTL DEF ErasSpec

(* However late, often and in whatever batches the events of a call arrive,   *)
(* and whatever rolls over while one is written, they are filed with the call. *)
THEOREM EventsFiledWithTheirCall == ErasSpec => []EventsFollowTheirCall
<1>1. CallsInv => EventsFollowTheirCall
  BY DEF CallsInv
<1> QED
  BY <1>1, CallsCorrect, PTL

(* A call that an idle report closes was over at the time it is given, or     *)
(* that is the time at which an idle report without its own arrived.          *)
THEOREM AbortedCallsWereOver == ErasSpec => []OnlyFinishedCallsAreAborted
<1>1. CallsInv => OnlyFinishedCallsAreAborted
  BY DEF CallsInv, SessionsFit, SessionFits, OnlyFinishedCallsAreAborted
<1> QED
  BY <1>1, CallsCorrect, PTL

(* A session stays in its installation and, once that has ended, as it is; no  *)
(* session enters an ended one, and a reported outcome is not replaced.       *)
THEOREM CallsOfEndedErasKept == ErasSpec => SettledCallsStay
<1>1. CallsInv /\ [ErasNext]_<<focus, vars, callVars>> =>
        [\A c \in Calls :
           /\ session[c].era # NoEra => session'[c].era = session[c].era
           /\ session[c].era # NoEra /\ ~EraIsOpen(session[c].era) => session'[c] = session[c]
           /\ session[c].era = NoEra /\ session'[c].era # NoEra => EraIsOpen(session'[c].era)
           /\ session[c].outcome = "reported" => session'[c].outcome = "reported"]_callVars
  BY ErasSteps, CallsStep DEF Settles
<1> QED
  BY <1>1, CallsCorrect, PTL DEF ErasSpec, SettledCallsStay

(* No accepted report is lost or counted twice, however many are folded into   *)
(* one run at once: the counts of an installation's runs add up to them.     *)
THEOREM AcceptedReportsAreCounted == ErasSpec => []ReportsAreCounted
<1>1. CallsInv /\ Tallied /\ [ErasNext]_<<focus, vars, callVars>> => Tallied'
  BY ErasSteps, TalliedStep
<1>2. CallsInv /\ Tallied => ReportsAreCounted
  <2> SUFFICES ASSUME CallsInv, Tallied, NEW i \in BoothEras
               PROVE  accepted[i] = MapThenSumSet(LAMBDA k : runs[k].count,
                                                  {k \in DOMAIN runs : runs[k].era = i})
    BY DEF ReportsAreCounted
  <2>1. MapThenSumSet(LAMBDA k : runs[k].count, RunsIn(i)) = Cardinality(Reports(runs, RunsIn(i)))
    BY RunsInFinite, SumIsReports DEF CallsInv
  <2> QED
    BY <2>1 DEF Tallied, RunsIn
<1> QED
  BY <1>1, <1>2, CallsCorrect, ErasSteps, TalliedInitially, PTL DEF ErasSpec

(* What is proved of the installations holds beside the calls.               *)
THEOREM ErasImplementInstallation == ErasSpec => Spec
<1> QED
  BY ErasSteps, PTL DEF ErasSpec, Spec

THEOREM ErasKeepRecordings == ErasSpec => []EndedIsSettled /\ UploadsSurvive
<1> QED
  BY ErasImplementInstallation, EndedStaysSettled, UploadsOutlivePurges, PTL

=============================================================================
