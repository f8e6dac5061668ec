----------------------------- MODULE BoothCalls -----------------------------
(***************************************************************************)
(* What the booth reports and what the server derives from it: the event   *)
(* log and its call sessions (routes/events.ts), the status runs and the   *)
(* reconciliation of forgotten calls (routes/status.ts), across the        *)
(* close-out and the start of installations ("eras").                      *)
(*                                                                         *)
(* The phone has one line.  Call c is on the line from 2c-1 until 2c, and  *)
(* the phone is idle at 2c.  The booth delivers any subset of the events   *)
(* that have happened, late, in any order and any number of times, and a   *)
(* status report any time after the state it reports, with or without the  *)
(* time of that state.                                                     *)
(***************************************************************************)
EXTENDS Integers, Sequences, FiniteSetsExt

CONSTANTS
    Deliveries,  \* requests of the booth that may be in flight at once
    MaxCalls,
    MaxBoothEras, \* the last one stays open
    MaxBatch,    \* events per batch (BOOTH_EVENT_BATCH_MAX)
    MaxReports   \* bound on accepted status reports

ASSUME CallsAssumption == {MaxCalls, MaxBoothEras, MaxBatch, MaxReports} \subseteq Nat \ {0}

VARIABLES
    now,       \* the booth's clock, which the server's follows
    eraNo,     \* the newest installation
    eraIsOpen, \* it has not ended
    session,   \* CallSession rows
    event,     \* BoothEvent rows: the era each stored event is filed under
    runs,      \* BoothStatusSnapshot rows, by id
    accepted,  \* status reports answered 204, per era
    undated,   \* reports without a time: their state, their arrival (history)
    req        \* requests in flight

callVars == <<now, eraNo, eraIsOpen, session, event, runs, accepted, undated, req>>

Calls == 1..MaxCalls
BoothEras == 1..MaxBoothEras
NoEra == 0
Kinds == {"started", "digit", "ended"}
Started(c) == 2 * c - 1
Ended(c) == 2 * c
PhoneAt(t) == IF t % 2 = 1 THEN "busy" ELSE "idle"

Happened == {e \in Calls \X Kinds : now >= IF e[2] = "ended" THEN Ended(e[1]) ELSE Started(e[1])}
Batches == {b \in SUBSET Happened : b # {} /\ Cardinality(b) <= MaxBatch}

NoSession == [era |-> NoEra, started |-> 0, ended |-> -1, outcome |-> "none"]
NoRequest == [at |-> "none", batch |-> {}, known |-> [c \in Calls |-> NoEra],
              frozen |-> {}, era |-> NoEra, state |-> "idle", time |-> 0, run |-> 0,
              first |-> 0, upd |-> 0, count |-> 0]

CallsInit ==
    /\ now = 0 /\ eraNo = 1 /\ eraIsOpen = TRUE
    /\ session = [c \in Calls |-> NoSession]
    /\ event = [e \in Calls \X Kinds |-> NoEra]
    /\ runs = <<>>
    /\ accepted = [i \in BoothEras |-> 0] /\ undated = {}
    /\ req = [p \in Deliveries |-> NoRequest]

EraIsOpen(i) == i = eraNo /\ eraIsOpen
HoldsEraLock(p) == req[p].at \in {"writing", "folding"}

-----------------------------------------------------------------------------
(* POST /events, one action per round trip.                                *)

(* The open era and the sessions the batch refers to; no era, no answer.   *)
ReadSessions(p, b) ==
    /\ req[p] = NoRequest /\ eraIsOpen
    /\ req' = [req EXCEPT ![p] = [NoRequest EXCEPT
                 !.at = "read", !.batch = b,
                 !.known = [c \in Calls |-> IF \E e \in b : e[1] = c
                                            THEN session[c].era ELSE NoEra]]]
    /\ UNCHANGED <<now, eraNo, eraIsOpen, session, event, runs, accepted, undated>>

(* Which of the eras of those sessions have ended by now.                  *)
ReadEndedEras(p) ==
    /\ req[p].at = "read"
    /\ req' = [req EXCEPT ![p].at = "checked",
                 ![p].frozen = {c \in Calls : /\ req[p].known[c] # NoEra
                                              /\ ~EraIsOpen(req[p].known[c])}]
    /\ UNCHANGED <<now, eraNo, eraIsOpen, session, event, runs, accepted, undated>>

(* runWithOpenEra: hold whichever era is open now, shared, or answer 409.  *)
LockOpenEra(p) ==
    /\ req[p].at = "checked"
    /\ req' = [req EXCEPT ![p] = IF eraIsOpen
                                 THEN [@ EXCEPT !.at = "writing", !.era = eraNo]
                                 ELSE NoRequest]
    /\ UNCHANGED <<now, eraNo, eraIsOpen, session, event, runs, accepted, undated>>

(* Sessions that appeared since the first read are read again.             *)
(* Mutant: the second read is missing. *)
KnownEraOnce(r, c) == r.known[c]
KnownEra(r, c) == IF r.known[c] = NoEra THEN session[c].era ELSE r.known[c]

EraFor(r, c) == IF KnownEra(r, c) = NoEra THEN r.era ELSE KnownEra(r, c)

Carries(r, c, kind) == <<c, kind>> \in r.batch
Describes(r, c) == Carries(r, c, "started") \/ Carries(r, c, "ended")

(* The columns a batch sets; a session's start is never overwritten.       *)
Patched(r, c) ==
    IF Carries(r, c, "ended")
    THEN [session[c] EXCEPT !.ended = Ended(c), !.outcome = "reported"]
    ELSE session[c]

Created(r, c) ==
    [era |-> EraFor(r, c),
     started |-> IF Carries(r, c, "started") THEN Started(c) ELSE now,
     ended |-> IF Carries(r, c, "ended") THEN Ended(c) ELSE -1,
     outcome |-> IF Carries(r, c, "ended") THEN "reported" ELSE "none"]

(* The update only touches a session of an open era that the close-out has *)
(* not stamped.                                                            *)
(* Mutant: the update trusts the earlier check. *)
AnySession(c) == TRUE
MayUpdate(c) == session[c].outcome # "rollover" /\ EraIsOpen(session[c].era)

Derived(r, c) ==
    IF ~Describes(r, c) \/ c \in r.frozen THEN session[c]
    ELSE IF session[c] = NoSession THEN Created(r, c)
    ELSE IF MayUpdate(c) THEN Patched(r, c) ELSE session[c]

(* Sessions are upserted, events inserted unless they are duplicates.  An  *)
(* event of a call nobody announced violates the foreign key: the whole    *)
(* batch is rolled back.                                                   *)
WriteBatch(p) ==
    LET r == req[p]
        after == [c \in Calls |-> Derived(r, c)]
        refused == \E e \in r.batch : after[e[1]] = NoSession
    IN  /\ r.at = "writing"
        /\ session' = IF refused THEN session ELSE after
        /\ event' = [e \in Calls \X Kinds |->
                       IF e \in r.batch /\ event[e] = NoEra /\ ~refused
                       THEN EraFor(r, e[1]) ELSE event[e]]
        /\ req' = [req EXCEPT ![p] = NoRequest]
        /\ UNCHANGED <<now, eraNo, eraIsOpen, runs, accepted, undated>>

-----------------------------------------------------------------------------
(* PUT /status.                                                            *)

RunsOfEra == {i \in DOMAIN runs : runs[i].era = eraNo}

Begins(i, j) == runs[i].first < runs[j].first \/ (runs[i].first = runs[j].first /\ i < j)

(* enclosing: the newest run that began by t; successor: the next one.     *)
Enclosing(t) ==
    LET begun == {i \in RunsOfEra : runs[i].first <= t}
    IN  {i \in begun : \A j \in begun \ {i} : Begins(j, i)}
Successor(t) ==
    LET later == {i \in RunsOfEra : runs[i].first > t}
    IN  {i \in later : \A j \in later \ {i} : Begins(i, j)}

(* isRepeatOf.                                                             *)
(* Mutant: any run encloses the report. *)
IsAnyRun(i, state) == TRUE
IsRepeatOf(i, state) == runs[i].state = state

(* The run the report belongs to, 0 if it starts one.                      *)
RunOf(state, t) ==
    LET repeats(S) == {i \in S : IsRepeatOf(i, state)}
    IN  IF repeats(Enclosing(t)) # {} THEN CHOOSE i \in repeats(Enclosing(t)) : TRUE
        ELSE IF repeats(Successor(t)) # {} THEN CHOOSE i \in repeats(Successor(t)) : TRUE
        ELSE 0

(* The transaction reads the run, with the window it has now.              *)
ReadRun(p, state, t) ==
    /\ req[p] = NoRequest /\ eraIsOpen
    /\ MapThenSumSet(LAMBDA i : accepted[i], BoothEras)
         + Cardinality({o \in Deliveries : req[o].at = "folding"}) < MaxReports
    /\ LET i == RunOf(state, t)
       IN  req' = [req EXCEPT ![p] = [NoRequest EXCEPT
                     !.at = "folding", !.era = eraNo, !.state = state, !.time = t, !.run = i,
                     !.first = IF i = 0 \/ t < runs[i].first THEN t ELSE runs[i].first,
                     !.upd = IF i = 0 \/ t > runs[i].upd THEN t ELSE runs[i].upd,
                     !.count = IF i = 0 THEN 0 ELSE runs[i].count]]
    /\ UNCHANGED <<now, eraNo, eraIsOpen, session, event, runs, accepted>>

(* A report with updatedAt, whenever it arrives.                            *)
DatedReport(p) ==
    /\ \E t \in 0..now : ReadRun(p, PhoneAt(t), t)
    /\ UNCHANGED undated

(* A report without it is taken for one of the moment it arrives.            *)
UndatedReport(p) ==
    \E seen \in 0..now :
        /\ ReadRun(p, PhoneAt(seen), now)
        /\ undated' = undated \cup {<<PhoneAt(seen), now>>}

(* reconcileStaleSessionsOnIdle: calls begun by then and still open.       *)
Reconcile(era, t) ==
    [c \in Calls |->
       IF session[c].era = era /\ session[c].ended = -1 /\ session[c].started <= t
       THEN [session[c] EXCEPT !.ended = t, !.outcome = "aborted"] ELSE session[c]]

(* It writes the window it computed and adds one to the count the row has. *)
(* Mutant: the count that was read is written back, plus one. *)
FoldedFromRead(r) ==
    IF r.run = 0
    THEN Append(runs, [era |-> r.era, state |-> r.state,
                       first |-> r.first, upd |-> r.upd, count |-> 1])
    ELSE [runs EXCEPT ![r.run] = [@ EXCEPT !.first = r.first, !.upd = r.upd,
                                           !.count = r.count + 1]]
Folded(r) ==
    IF r.run = 0
    THEN Append(runs, [era |-> r.era, state |-> r.state,
                       first |-> r.first, upd |-> r.upd, count |-> 1])
    ELSE [runs EXCEPT ![r.run] = [@ EXCEPT !.first = r.first, !.upd = r.upd,
                                           !.count = runs[r.run].count + 1]]

FoldReport(p) ==
    LET r == req[p]
    IN  /\ r.at = "folding"
        /\ runs' = Folded(r)
        /\ accepted' = [accepted EXCEPT ![r.era] = @ + 1]
        /\ session' = IF r.state = "idle" THEN Reconcile(r.era, r.upd) ELSE session
        /\ req' = [req EXCEPT ![p] = NoRequest]
        /\ UNCHANGED <<now, eraNo, eraIsOpen, event, undated>>

-----------------------------------------------------------------------------
(* closeOutInstallation waits for the writers that hold the era; a new era *)
(* is started later.                                                       *)
CloseBoothEra ==
    /\ eraIsOpen /\ eraNo < MaxBoothEras /\ \A p \in Deliveries : ~HoldsEraLock(p)
    /\ eraIsOpen' = FALSE
    /\ session' = [c \in Calls |->
                     IF session[c].era = eraNo /\ session[c].ended = -1
                     THEN [session[c] EXCEPT !.ended = now, !.outcome = "rollover"]
                     ELSE session[c]]
    /\ UNCHANGED <<now, eraNo, event, runs, accepted, undated, req>>

OpenBoothEra ==
    /\ ~eraIsOpen
    /\ eraNo' = eraNo + 1 /\ eraIsOpen' = TRUE
    /\ UNCHANGED <<now, session, event, runs, accepted, undated, req>>

PhoneTick ==
    /\ now < 2 * MaxCalls
    /\ now' = now + 1
    /\ UNCHANGED <<eraNo, eraIsOpen, session, event, runs, accepted, undated, req>>

CallsNext ==
    \/ \E p \in Deliveries :
         \/ \E b \in Batches : ReadSessions(p, b)
         \/ ReadEndedEras(p) \/ LockOpenEra(p) \/ WriteBatch(p)
         \/ DatedReport(p) \/ UndatedReport(p) \/ FoldReport(p)
    \/ CloseBoothEra \/ OpenBoothEra \/ PhoneTick

-----------------------------------------------------------------------------
(* An event is filed under the era of the call it describes, whenever it   *)
(* arrives and whatever rolled over while its batch was being written      *)
(* (POST /events: eraFor), so a call's drill-down shows all its events.    *)
EventsFollowTheirCall ==
    \A e \in Calls \X Kinds : event[e] # NoEra => event[e] = session[e[1]].era

(* What is settled stays: a call of an ended era is never changed and none *)
(* is added to it, a call never moves to another era, and the outcome the  *)
(* booth reported is never replaced by a guess of the server.              *)
SettledCallsStay ==
    [][\A c \in Calls :
         /\ session[c].era # NoEra => session'[c].era = session[c].era
         /\ session[c].era # NoEra /\ ~EraIsOpen(session[c].era) => session'[c] = session[c]
         /\ session[c].era = NoEra /\ session'[c].era # NoEra => EraIsOpen(session'[c].era)
         /\ session[c].outcome = "reported" => session'[c].outcome = "reported"]_callVars

(* The reconciliation on an idle report, however late the report is and    *)
(* whichever run it is folded into, never declares a call aborted that was *)
(* still on the line at the end time it gives it, unless that is the time  *)
(* at which an idle report without a time of its own arrived: such a        *)
(* report, delayed, "could abort that call" (ADR 0006).                     *)
OnlyFinishedCallsAreAborted ==
    \A c \in Calls : session[c].outcome = "aborted" =>
        Ended(c) <= session[c].ended \/ <<"idle", session[c].ended>> \in undated

(* Every accepted status report is counted exactly once, although two may   *)
(* be folded into the same run at once: what the second writes back is its *)
(* stale window, never the count.  The worst case named in status.ts and   *)
(* ADR 0010, "a lost increment", does not arise, as the count is written   *)
(* by { increment: 1 }.                                                     *)
ReportsAreCounted ==
    \A i \in BoothEras :
        accepted[i] = MapThenSumSet(LAMBDA k : runs[k].count,
                                    {k \in DOMAIN runs : runs[k].era = i})
=============================================================================
