---------------------------- MODULE PipelineProofs ----------------------------
(***************************************************************************)
(* Proofs about Pipeline, for any number of jobs, rows, texts and           *)
(* configurations.                                                         *)
(*                                                                         *)
(* The argument: the facts about the rows (RowsInv) depend on the rows only, *)
(* and the rows change in six ways, each a lemma. A job in flight relies   *)
(* on a row that exists and on a transcript that has succeeded (JobFits);    *)
(* rows are never removed and a success is never taken back (Grows), so      *)
(* what another job or a client does leaves that true.                      *)
(***************************************************************************)
EXTENDS Pipeline, TLAPS

-----------------------------------------------------------------------------
(* The inductive invariant                                                 *)

(* Rows and counters have their types.                                      *)
RowsTyped ==
  /\ config \in Config
  /\ trs \in [TrIds -> Transcription] /\ ntr \in 0 .. MaxTranscriptions
  /\ mods \in [ModIds -> Moderation] /\ nmod \in 0 .. MaxModerations

(* The rows that exist are numbered from 1, the others are blank.           *)
RowsNumbered ==
  /\ \A t \in TrIds : t <= ntr => trs[t].status # "none"
  /\ \A t \in TrIds : t > ntr => trs[t] = NoTranscription
  /\ \A m \in ModIds : m <= nmod => mods[m].status # "none"
  /\ \A m \in ModIds : m > nmod => mods[m] = NoModeration

(* Nothing is pending where transcription is not served.                    *)
DisabledWaitsForNothing == config.transcription = "disabled" => NonePending

(* A verdict names a transcript that exists or, unless it is pending, none.  *)
VerdictsNamed ==
  \A m \in ModIds :
    /\ mods[m].tr \in 0 .. ntr
    /\ mods[m].status = "pending" => mods[m].tr # 0

(* What an in-process verdict is about is still what would be judged now.    *)
PendingOnReviewedText ==
  config.moderation = "provider" =>
    \A m \in ModIds : mods[m].status = "pending" =>
      mods[m].judged = ReviewText(mods[m].tr)

(* One of the transcripts is the latest, unless there is none, and only      *)
(* transcripts are translated.                                             *)
OneIsLatest == \E t \in 0 .. ntr : LatestSucceeded(t)
OnlyTranscriptsTranslated ==
  \A t \in TrIds : trs[t].tstat = "succeeded" => trs[t].status = "succeeded"

RowsInv ==
  /\ RowsTyped /\ RowsNumbered
  /\ OneIsLatest /\ OnlyTranscriptsTranslated
  /\ PendingIsNewest /\ DisabledWaitsForNothing
  /\ VerdictsNamed /\ VerdictOnReviewedText /\ PendingOnReviewedText

(* What a job in flight relies on, among given rows.                        *)
Fits(job, rows, last, lastVerdict) ==
  /\ job.pc \in {"transcribing", "translate", "claim", "translating", "moderate"}
       => job.tr \in 1 .. last
  /\ job.pc \in {"translate", "claim", "translating", "moderate"}
       => rows[job.tr].status = "succeeded"
  /\ job.pc = "moderating" => job.mod \in 1 .. lastVerdict /\ config.moderation = "provider"

JobFits(job) == Fits(job, trs, ntr, nmod)

JobsInv == jobs \in [Jobs -> Job] /\ \A j \in Jobs : JobFits(jobs[j])

RestTyped ==
  /\ status \in {"received", "pending", "decided"}
  /\ crashes \in Nat /\ slow \in Nat

(* All of them together: inductive, and enough for every theorem below.     *)
PipelineInv == RowsInv /\ JobsInv /\ RestTyped

-----------------------------------------------------------------------------
(* The rows                                                                *)

(* Blank rows and idle jobs are values of their types.                      *)
LEMMA BlankTypes ==
  /\ NoTranscription \in Transcription /\ NoModeration \in Moderation
  /\ Idle \in Job /\ JobFits(Idle)
  BY PipelineConstants
  DEF NoTranscription, Transcription, NoModeration, Moderation, Idle, Job, JobFits, Fits, Pcs,
      RowStatuses, AllTexts

(* The next row has a number of its own.                                    *)
LEMMA NextRow ==
  ASSUME RowsInv
  PROVE  /\ ntr < MaxTranscriptions => ntr + 1 \in TrIds /\ trs[ntr + 1] = NoTranscription
         /\ nmod < MaxModerations => nmod + 1 \in ModIds /\ mods[nmod + 1] = NoModeration
  BY PipelineConstants DEF RowsInv, RowsTyped, RowsNumbered, TrIds, ModIds

(* What moderation judges is a text.                                        *)
LEMMA ReviewTextType ==
  ASSUME RowsTyped, NEW t \in TrIds
  PROVE  ReviewText(t) \in AllTexts
<1>1. trs[t] \in Transcription
  BY DEF RowsTyped
<1> QED
  BY <1>1 DEF ReviewText, Transcription, AllTexts

(* Only the newest success is the latest.                                   *)
LEMMA OneLatest ==
  ASSUME NEW t \in Nat, NEW u \in Nat, LatestSucceeded(t), LatestSucceeded(u)
  PROVE  t = u
  BY DEF LatestSucceeded, TrIds

LEMMA LatestIs ==
  ASSUME NEW t \in 0 .. MaxTranscriptions, LatestSucceeded(t)
  PROVE  Latest = t
  BY OneLatest, PipelineConstants DEF Latest

LEMMA LatestIsNext ==
  ASSUME NEW t \in 0 .. MaxTranscriptions, LatestSucceeded(t)'
  PROVE  Latest' = t
<1>1. ASSUME NEW u \in 0 .. MaxTranscriptions, LatestSucceeded(u)'
      PROVE  u = t
  BY <1>1, PipelineConstants DEF LatestSucceeded, TrIds
<1> QED
  BY <1>1 DEF Latest

(* What a row's history allows, whoever takes the step: rows are added, an   *)
(* attempt that is over keeps what it found, and a finished translation is   *)
(* replaced by an operator's only.                                         *)
OperatorTranslates == \E x \in Translations : OperatorTranslation(x)

(* A step of the review, or none.                                          *)
ReviewMoves == [Review!RNext]_(Review!reviewVars)

Grows ==
  /\ config' = config /\ ntr <= ntr' /\ nmod <= nmod'
  /\ \A t \in TrIds : trs[t].status \in {"succeeded", "failed"} =>
       /\ trs'[t].status = trs[t].status
       /\ trs'[t].text = trs[t].text
       /\ trs'[t].prov = trs[t].prov
  /\ \A t \in TrIds : trs[t].tstat = "succeeded" =>
       /\ trs'[t].tstat = "succeeded"
       /\ trs'[t].ttext = trs[t].ttext \/ OperatorTranslates
  /\ ReviewMoves

(* The review is a matter of the transcripts but for its verdicts.           *)
LEMMA ReviewUnmoved ==
  ASSUME RowsInv, UNCHANGED <<trs, ntr>>
  PROVE  /\ Latest' = Latest /\ Translated' = Translated /\ UnderReview' = UnderReview
         /\ OneIsLatest' /\ OnlyTranscriptsTranslated'
<1>1. PICK t \in 0 .. ntr : LatestSucceeded(t)
  BY DEF RowsInv, OneIsLatest
<1>2. t \in 0 .. MaxTranscriptions
  BY PipelineConstants DEF RowsInv, RowsTyped
<1>3. LatestSucceeded(t)'
  BY <1>1 DEF LatestSucceeded
<1>4. Latest = t /\ Latest' = t
  BY <1>1, <1>2, <1>3, LatestIs, LatestIsNext
<1>5. Translated' = Translated /\ UnderReview' = UnderReview
  BY <1>4 DEF Translated, UnderReview, ReviewText
<1> QED
  BY <1>3, <1>4, <1>5 DEF OneIsLatest, RowsInv, OnlyTranscriptsTranslated

(* A verdict that waits, or a new one, comes to what it comes to.            *)
LEMMA VerdictMoves ==
  ASSUME RowsInv, UNCHANGED <<trs, ntr>>, NEW m \in ModIds, NEW v \in Moderation,
         mods[m].status \in {"none", "pending"}, v.status # "none", mods' = [mods EXCEPT ![m] = v]
  PROVE  ReviewMoves
<1> DEFINE before == [k \in ModIds |-> Standing(mods[k])]
           after == [k \in ModIds |-> Standing(mods'[k])]
<1>1. \A k \in ModIds : mods'[k] = IF k = m THEN v ELSE mods[k]
  BY DEF RowsInv, RowsTyped
<1>2. before[m] = "open" /\ Standing(v) \in {"open", "counts", "over"}
  BY DEF Standing, Moderation, RowStatuses
<1>3. after = [before EXCEPT ![m] = Standing(v)]
  <2>1. ASSUME NEW k \in ModIds
        PROVE  Standing(mods'[k]) = IF k = m THEN Standing(v) ELSE Standing(mods[k])
    BY <1>1
  <2> QED
    BY <2>1
<1>4. CASE Standing(v) = "open"
  <2>1. after = before
    BY <1>2, <1>3, <1>4
  <2> QED
    BY <2>1, ReviewUnmoved DEF ReviewMoves, Review!reviewVars
<1>5. CASE Standing(v) \in {"counts", "over"}
  <2>1. Review!Reach(m, Standing(v))
    BY <1>2, <1>3, ReviewUnmoved DEF Review!Reach
  <2> QED
    BY <1>5, <2>1 DEF ReviewMoves, Review!RNext
<1> QED
  BY <1>2, <1>4, <1>5

(* The rows as they are stay right.                                        *)
LEMMA RowsKept ==
  ASSUME RowsInv, UNCHANGED <<config, trs, ntr, mods, nmod>>
  PROVE  RowsInv' /\ Grows
<1>1. RowsInv'
  BY DEF RowsInv, RowsTyped, RowsNumbered, OneIsLatest, OnlyTranscriptsTranslated, PendingIsNewest,
         DisabledWaitsForNothing, NonePending, VerdictsNamed, VerdictOnReviewedText,
         PendingOnReviewedText, LatestSucceeded, ReviewText
<1>2. ReviewMoves
  BY ReviewUnmoved DEF ReviewMoves, Review!reviewVars
<1> QED
  BY <1>1, <1>2 DEF Grows, RowsInv, RowsTyped

(* A row r that differs from row q only in what nothing here depends on:     *)
(* its age, a failed attempt, a translation that is not finished.           *)
SameReview(q, r) ==
  /\ r.status = q.status \/ (q.status = "pending" /\ r.status = "failed")
  /\ r.text = q.text /\ r.prov = q.prov
  /\ \/ r.tstat = q.tstat /\ r.ttext = q.ttext
     \/ r.tstat # "succeeded" /\ q.tstat # "succeeded"

(* Which transcript is the latest and what would be judged of it depend on   *)
(* the successes and their texts.                                          *)
ReviewIsKept ==
  \A t \in 0 .. ntr :
    /\ LatestSucceeded(t) => LatestSucceeded(t)'
    /\ t # 0 => /\ ReviewText(t)' = ReviewText(t)
                /\ trs'[t].tstat = "succeeded" <=> trs[t].tstat = "succeeded"

LEMMA ReviewKept ==
  ASSUME RowsInv,
         \A t \in 1 .. ntr : SameReview(trs[t], trs'[t]),
         \A t \in TrIds : t > ntr => trs'[t].status # "succeeded"
  PROVE  ReviewIsKept
<1>1. \A t \in TrIds : trs'[t].status = "succeeded" => t <= ntr /\ trs[t].status = "succeeded"
  BY PipelineConstants DEF TrIds, SameReview, RowsInv, RowsTyped
<1>2. \A t \in 1 .. ntr : trs[t].status = "succeeded" => trs'[t].status = "succeeded"
  BY DEF SameReview
<1>3. 1 .. ntr \subseteq TrIds
  BY PipelineConstants DEF TrIds, RowsInv, RowsTyped
<1>4. ASSUME NEW t \in 0 .. ntr, LatestSucceeded(t)
      PROVE  LatestSucceeded(t)'
  BY <1>1, <1>2, <1>3, <1>4 DEF LatestSucceeded
<1>5. ASSUME NEW t \in 0 .. ntr, t # 0
      PROVE  /\ ReviewText(t)' = ReviewText(t)
             /\ trs'[t].tstat = "succeeded" <=> trs[t].tstat = "succeeded"
  BY <1>5 DEF ReviewText, SameReview
<1> QED
  BY <1>4, <1>5 DEF ReviewIsKept

(* The review does not move when the verdicts do not, either.               *)
LEMMA ReviewStays ==
  ASSUME RowsInv, ReviewIsKept, UNCHANGED mods, ntr' \in 0 .. MaxTranscriptions, ntr <= ntr'
  PROVE  OneIsLatest' /\ ReviewMoves
<1>1. PICK t \in 0 .. ntr : LatestSucceeded(t)
  BY DEF RowsInv, OneIsLatest
<1>2. t \in 0 .. MaxTranscriptions /\ t \in 0 .. ntr'
  BY PipelineConstants DEF RowsInv, RowsTyped
<1>3. LatestSucceeded(t)'
  BY <1>1 DEF ReviewIsKept
<1>4. Latest = t /\ Latest' = t
  BY <1>1, <1>2, <1>3, LatestIs, LatestIsNext
<1>5. Translated' = Translated /\ UnderReview' = UnderReview
  BY <1>4 DEF ReviewIsKept, Translated, UnderReview
<1>6. OneIsLatest'
  BY <1>2, <1>3 DEF OneIsLatest
<1> QED
  BY <1>4, <1>5, <1>6 DEF ReviewMoves, Review!reviewVars

(* Verdicts as they are stay right when the review does.                    *)
LEMMA VerdictsKept ==
  ASSUME RowsInv, UNCHANGED <<config, mods>>, ntr <= ntr', ntr' \in Nat,
         ReviewIsKept
  PROVE  VerdictsNamed' /\ VerdictOnReviewedText' /\ PendingOnReviewedText'
<1>1. VerdictsNamed'
  BY DEF RowsInv, RowsTyped, VerdictsNamed
<1>2. VerdictOnReviewedText'
  BY DEF RowsInv, VerdictsNamed, VerdictOnReviewedText, LatestSucceeded, ReviewText, ReviewIsKept
<1>3. PendingOnReviewedText'
  BY DEF RowsInv, VerdictsNamed, PendingOnReviewedText, LatestSucceeded, ReviewText, ReviewIsKept
<1> QED
  BY <1>1, <1>2, <1>3

(* Way 1. A row changes in something that nothing else depends on.          *)
LEMMA RowTouched ==
  ASSUME RowsInv, NEW t \in 1 .. ntr, NEW r \in Transcription, SameReview(trs[t], r),
         trs' = [trs EXCEPT ![t] = r], UNCHANGED <<config, ntr, mods, nmod>>
  PROVE  RowsInv' /\ Grows
<1>1. t \in TrIds /\ r.status # "none" /\ (r.status = "pending" => trs[t].status = "pending")
  BY PipelineConstants DEF TrIds, RowsInv, RowsTyped, RowsNumbered, SameReview
<1>2. trs' \in [TrIds -> Transcription] /\ \A u \in TrIds : trs'[u] = IF u = t THEN r ELSE trs[u]
  BY <1>1 DEF RowsInv, RowsTyped
<1>3. RowsTyped'
  BY <1>2 DEF RowsInv, RowsTyped
<1>4. RowsNumbered'
  BY <1>1, <1>2 DEF RowsInv, RowsTyped, RowsNumbered
<1>5. PendingIsNewest' /\ DisabledWaitsForNothing'
  BY <1>1, <1>2 DEF RowsInv, PendingIsNewest, DisabledWaitsForNothing, NonePending
<1>6. \A u \in 1 .. ntr : SameReview(trs[u], trs'[u])
  BY <1>1, <1>2, PipelineConstants DEF SameReview, TrIds, RowsInv, RowsTyped
<1>7. \A u \in TrIds : u > ntr => trs'[u].status # "succeeded"
  BY <1>2 DEF RowsInv, RowsNumbered, NoTranscription
<1>8. ReviewIsKept /\ ntr' \in 0 .. MaxTranscriptions /\ ntr' \in Nat /\ ntr <= ntr'
  BY <1>6, <1>7, ReviewKept, PipelineConstants DEF RowsInv, RowsTyped
<1>9. VerdictsNamed' /\ VerdictOnReviewedText' /\ PendingOnReviewedText'
  BY <1>8, VerdictsKept
<1>10. OneIsLatest' /\ ReviewMoves
  BY <1>8, ReviewStays
<1>11. OnlyTranscriptsTranslated'
  BY <1>1, <1>2 DEF RowsInv, OnlyTranscriptsTranslated, SameReview
<1>12. Grows
  BY <1>1, <1>2, <1>10 DEF Grows, SameReview, RowsInv, RowsTyped
<1> QED
  BY <1>3, <1>4, <1>5, <1>9, <1>10, <1>11, <1>12 DEF RowsInv

(* Way 2. An attempt that is pending or failed is added; another one that    *)
(* was pending has failed at the same time.                                 *)
LEMMA AttemptAdded ==
  ASSUME RowsInv, ntr < MaxTranscriptions,
         NEW r \in Transcription, r.status \in {"pending", "failed"}, r.tstat # "succeeded",
         r.status = "pending" => config.transcription # "disabled",
         NEW old \in [TrIds -> Transcription],
         \A t \in TrIds : /\ old[t].status # "pending"
                          /\ SameReview(trs[t], old[t]),
         \A t \in TrIds : t > ntr => old[t] = NoTranscription,
         ntr' = ntr + 1, trs' = [old EXCEPT ![ntr + 1] = r], UNCHANGED <<config, mods, nmod>>
  PROVE  RowsInv' /\ Grows
<1>1. ntr \in Nat /\ ntr + 1 \in TrIds /\ ntr + 1 \in 0 .. MaxTranscriptions
  BY PipelineConstants DEF TrIds, RowsInv, RowsTyped
<1>2. /\ trs' \in [TrIds -> Transcription]
      /\ \A t \in TrIds : trs'[t] = IF t = ntr + 1 THEN r ELSE old[t]
  BY <1>1
<1>3. RowsTyped'
  BY <1>1, <1>2 DEF RowsInv, RowsTyped
<1>4. RowsNumbered'
  BY <1>1, <1>2 DEF RowsInv, RowsTyped, RowsNumbered, SameReview, TrIds
<1>5. PendingIsNewest' /\ DisabledWaitsForNothing'
  BY <1>1, <1>2 DEF PendingIsNewest, DisabledWaitsForNothing, NonePending
<1>6. \A t \in 1 .. ntr : SameReview(trs[t], trs'[t])
  BY <1>1, <1>2, PipelineConstants DEF TrIds, SameReview
<1>7. \A t \in TrIds : t > ntr => trs'[t].status # "succeeded"
  BY <1>2 DEF NoTranscription
<1>8. ReviewIsKept /\ ntr' \in 0 .. MaxTranscriptions /\ ntr' \in Nat /\ ntr <= ntr'
  BY <1>1, <1>6, <1>7, ReviewKept
<1>9. VerdictsNamed' /\ VerdictOnReviewedText' /\ PendingOnReviewedText'
  BY <1>8, VerdictsKept
<1>10. OneIsLatest' /\ ReviewMoves
  BY <1>8, ReviewStays
<1>11. OnlyTranscriptsTranslated'
  BY <1>1, <1>2 DEF RowsInv, OnlyTranscriptsTranslated, SameReview
<1>12. Grows
  BY <1>1, <1>2, <1>10 DEF Grows, SameReview, RowsInv, RowsTyped, RowsNumbered, NoTranscription, TrIds
<1> QED
  BY <1>3, <1>4, <1>5, <1>9, <1>10, <1>11, <1>12 DEF RowsInv

(* An attempt added where nothing is pending.                              *)
LEMMA AddedAlone ==
  ASSUME RowsInv, NonePending, NEW r \in Transcription, AddTranscription(r),
         r.status \in {"pending", "failed"}, r.tstat = "none",
         r.status = "pending" => config.transcription # "disabled",
         UNCHANGED <<config, mods, nmod>>
  PROVE  RowsInv' /\ Grows
<1>1. trs \in [TrIds -> Transcription]
  BY DEF RowsInv, RowsTyped
<1>2. \A t \in TrIds : /\ trs[t].status # "pending"
                       /\ SameReview(trs[t], trs[t])
  BY DEF NonePending, SameReview
<1>3. \A t \in TrIds : t > ntr => trs[t] = NoTranscription
  BY DEF RowsInv, RowsNumbered
<1> QED
  BY <1>1, <1>2, <1>3, AttemptAdded DEF AddTranscription

(* Failing the stale attempt leaves none pending: there is only one.        *)
LEMMA StaleFails ==
  ASSUME RowsInv
  PROVE  /\ FailStalePending \in [TrIds -> Transcription]
         /\ \A t \in TrIds : /\ FailStalePending[t].status # "pending"
                             /\ SameReview(trs[t], FailStalePending[t])
         /\ \A t \in TrIds : t > ntr => FailStalePending[t] = NoTranscription
<1>1. ASSUME NEW t \in TrIds, trs[t].status = "pending"
      PROVE  NewestPending(t)
  BY <1>1, PipelineConstants DEF RowsInv, RowsTyped, PendingIsNewest, NewestPending, TrIds
<1> SUFFICES ASSUME NEW t \in TrIds
             PROVE  LET r == IF NewestPending(t) THEN [trs[t] EXCEPT !.status = "failed"] ELSE trs[t]
                    IN /\ r \in Transcription /\ r.status # "pending" /\ SameReview(trs[t], r)
                       /\ t > ntr => r = NoTranscription
  BY DEF FailStalePending
<1>2. trs[t] \in Transcription
  BY DEF RowsInv, RowsTyped
<1>3. CASE NewestPending(t)
  <2>1. trs[t].status = "pending" /\ ~(t > ntr)
    BY <1>3 DEF NewestPending, RowsInv, RowsNumbered, NoTranscription
  <2> QED
    BY <1>2, <1>3, <2>1 DEF Transcription, RowStatuses, SameReview
<1>4. CASE ~NewestPending(t)
  BY <1>1, <1>2, <1>4 DEF SameReview, RowsInv, RowsNumbered
<1> QED
  BY <1>3, <1>4

(* What superseding does to the verdicts.                                  *)
LEMMA SupersededRows ==
  ASSUME RowsInv, NEW S
  PROVE  /\ Superseded(S) \in [ModIds -> Moderation]
         /\ \A m \in ModIds :
              /\ Superseded(S)[m].tr = mods[m].tr /\ Superseded(S)[m].judged = mods[m].judged
              /\ Superseded(S)[m].status = "none" <=> mods[m].status = "none"
              /\ mods[m].status = "none" => Superseded(S)[m] = mods[m]
              /\ Superseded(S)[m].status \in {"pending", "succeeded"} =>
                   mods[m].tr \notin S /\ Superseded(S)[m].status = mods[m].status
<1> SUFFICES ASSUME NEW m \in ModIds
             PROVE  LET v == IF mods[m].tr \in S /\ mods[m].status \in {"pending", "succeeded"}
                             THEN [mods[m] EXCEPT !.status = "failed"] ELSE mods[m]
                    IN /\ v \in Moderation
                       /\ v.tr = mods[m].tr /\ v.judged = mods[m].judged
                       /\ v.status = "none" <=> mods[m].status = "none"
                       /\ mods[m].status = "none" => v = mods[m]
                       /\ v.status \in {"pending", "succeeded"} =>
                            mods[m].tr \notin S /\ v.status = mods[m].status
  BY DEF Superseded
<1>1. mods[m] \in Moderation
  BY DEF RowsInv, RowsTyped
<1> QED
  BY <1>1 DEF Moderation, RowStatuses

(* Way 3. A new transcript: every verdict about what came before is gone.    *)
LEMMA TranscriptStored ==
  ASSUME RowsInv, NEW t \in TrIds, NEW r \in Transcription, r.status = "succeeded",
         r.tstat = trs[t].tstat, r.ttext = trs[t].ttext,
         \/ trs[t].status = "pending" /\ ntr' = ntr
         \/ NonePending /\ t = ntr + 1 /\ ntr' = t,
         trs' = [trs EXCEPT ![t] = r], mods' = Superseded(Everything), UNCHANGED <<config, nmod>>
  PROVE  RowsInv' /\ Grows
<1>1. ntr \in Nat /\ ntr' \in 0 .. MaxTranscriptions /\ ntr <= ntr'
  BY PipelineConstants DEF TrIds, RowsInv, RowsTyped
<1>2. /\ trs' \in [TrIds -> Transcription]
      /\ \A u \in TrIds : trs'[u] = IF u = t THEN r ELSE trs[u]
  BY DEF RowsInv, RowsTyped
<1>3. \A m \in ModIds : mods[m].tr \in Everything
  BY <1>1, PipelineConstants DEF RowsInv, VerdictsNamed, RowsTyped, Everything, TrIds
<1>4. mods' \in [ModIds -> Moderation] /\ \A m \in ModIds : mods'[m].status \notin {"pending", "succeeded"}
  BY <1>3, SupersededRows
<1>5. RowsTyped'
  BY <1>1, <1>2, <1>4 DEF RowsInv, RowsTyped
<1>6. t <= ntr'
  BY <1>1 DEF RowsInv, RowsNumbered, NoTranscription, TrIds
<1>7. RowsNumbered'
  <2>1. \A u \in TrIds : /\ u <= ntr' => trs'[u].status # "none"
                         /\ u > ntr' => trs'[u] = NoTranscription
    BY <1>1, <1>2, <1>6 DEF RowsInv, RowsNumbered, TrIds
  <2>2. \A m \in ModIds : /\ m <= nmod => mods'[m].status # "none"
                          /\ m > nmod => mods'[m] = NoModeration
    BY SupersededRows DEF RowsInv, RowsNumbered, NoModeration
  <2> QED
    BY <2>1, <2>2 DEF RowsNumbered
<1>8. \A u \in TrIds : trs'[u].status # "pending"
  BY <1>1, <1>2 DEF RowsInv, PendingIsNewest, NonePending, RowsNumbered, NoTranscription, TrIds
<1>9. PendingIsNewest' /\ DisabledWaitsForNothing'
  BY <1>8 DEF PendingIsNewest, DisabledWaitsForNothing, NonePending
<1>10. VerdictsNamed'
  BY <1>1, <1>4, SupersededRows DEF RowsInv, VerdictsNamed
<1>11. VerdictOnReviewedText' /\ PendingOnReviewedText'
  BY <1>4 DEF VerdictOnReviewedText, PendingOnReviewedText
<1>12. trs[t].status \notin {"succeeded", "failed"} /\ trs[t].tstat # "succeeded"
  BY <1>1 DEF RowsInv, RowsNumbered, NoTranscription, OnlyTranscriptsTranslated
<1>13. LatestSucceeded(t)' /\ ReviewText(t)' \in AllTexts
  <2>1. \A u \in TrIds : u <= t
          \/ trs[u].status = "none"
    BY <1>1 DEF RowsInv, RowsNumbered, PendingIsNewest, NoTranscription, TrIds
  <2>2. LatestSucceeded(t)'
    BY <1>2, <2>1 DEF LatestSucceeded, TrIds
  <2>3. ReviewText(t)' \in AllTexts
    BY <1>2 DEF ReviewText, Transcription, AllTexts
  <2> QED
    BY <2>2, <2>3
<1>14. OneIsLatest'
  BY <1>1, <1>6, <1>13, PipelineConstants DEF OneIsLatest, TrIds
<1>15. OnlyTranscriptsTranslated'
  BY <1>2 DEF RowsInv, OnlyTranscriptsTranslated
<1>16. ReviewMoves
  <2>1. PICK q \in 0 .. ntr : LatestSucceeded(q)
    BY DEF RowsInv, OneIsLatest
  <2>2. q < t
    BY <1>1, <1>12, <2>1 DEF LatestSucceeded, RowsInv, PendingIsNewest, TrIds
  <2>3. Latest = q /\ Latest' = t /\ t \in Nat /\ t # 0
    BY <1>1, <1>13, <2>1, LatestIs, LatestIsNext, PipelineConstants DEF TrIds
  <2>4. Translated' = FALSE /\ UnderReview' \in AllTexts
    BY <1>2, <1>12, <1>13, <2>3 DEF Translated, UnderReview, ReviewText
  <2>5. ASSUME NEW m \in ModIds
        PROVE  Standing(mods'[m]) \in {"open", "over"} /\ Standing(mods'[m]) \in {Standing(mods[m]), "over"}
    <3>1. mods[m].status \in RowStatuses /\ mods'[m].status \in RowStatuses
      BY <1>4 DEF RowsInv, RowsTyped, Moderation
    <3>2. mods'[m].status = "none" <=> mods[m].status = "none"
      BY SupersededRows
    <3> QED
      BY <1>4, <3>1, <3>2 DEF Standing, RowStatuses
  <2>6. Review!Transcribe
    BY <2>2, <2>3, <2>4, <2>5 DEF Review!Transcribe, Review!Withdraw
  <2> QED
    BY <2>6 DEF ReviewMoves, Review!RNext
<1>17. Grows
  <2>1. trs[t].status \notin {"succeeded", "failed"}
    BY <1>1 DEF RowsInv, RowsNumbered, NoTranscription
  <2>2. config' = config /\ nmod <= nmod'
    BY DEF RowsInv, RowsTyped
  <2> QED
    BY <1>1, <1>2, <1>16, <2>1, <2>2 DEF Grows
<1> QED
  BY <1>5, <1>7, <1>9, <1>10, <1>11, <1>14, <1>15, <1>17 DEF RowsInv

(* Way 4. A translation of the latest transcript is stored: the verdicts     *)
(* about another text are gone.                                            *)
LEMMA TranslationStored ==
  ASSUME RowsInv, NEW t \in TrIds, LatestSucceeded(t), NEW x \in AllTexts,
         StoreTranslation(t, x), UNCHANGED <<config, ntr, nmod>>,
         trs[t].tstat # "succeeded" \/ OperatorTranslates
  PROVE  RowsInv' /\ Grows
<1> DEFINE r == [trs[t] EXCEPT !.tstat = "succeeded", !.ttext = x]
<1>0. trs[t] \in Transcription /\ trs[t].status = "succeeded"
  BY DEF RowsInv, RowsTyped, LatestSucceeded, TrIds
<1>1. trs[t] \in Transcription /\ trs[t].status = "succeeded" /\ r \in Transcription
  BY <1>0 DEF Transcription, RowStatuses
<1>2. /\ trs' = [trs EXCEPT ![t] = r] /\ trs' \in [TrIds -> Transcription]
      /\ \A u \in TrIds : trs'[u] = IF u = t THEN r ELSE trs[u]
  BY <1>1 DEF StoreTranslation, RowsInv, RowsTyped
<1>3. /\ r.status = "succeeded" /\ r.text = trs[t].text /\ r.prov = trs[t].prov
      /\ r.tstat = "succeeded" /\ r.ttext = x
  BY <1>1 DEF Transcription
<1> HIDE DEF r
<1>4. mods' \in [ModIds -> Moderation]
  BY SupersededRows DEF StoreTranslation, RowsInv, RowsTyped
<1>5. \A m \in ModIds :
        /\ mods'[m].tr = mods[m].tr /\ mods'[m].judged = mods[m].judged
        /\ mods'[m].status = "none" <=> mods[m].status = "none"
        /\ mods[m].status = "none" => mods'[m] = mods[m]
        /\ mods'[m].status \in {"pending", "succeeded"} =>
             /\ mods'[m].status = mods[m].status
             /\ mods[m].tr = t => ReviewText(t) = x
  BY SupersededRows DEF StoreTranslation
<1>6. ntr \in Nat /\ t <= ntr
  BY <1>1 DEF RowsInv, RowsTyped, RowsNumbered, NoTranscription, TrIds
<1>7. RowsTyped'
  BY <1>2, <1>4 DEF RowsInv, RowsTyped
<1>8. RowsNumbered'
  <2>1. \A u \in TrIds : /\ u <= ntr' => trs'[u].status # "none"
                         /\ u > ntr' => trs'[u] = NoTranscription
    BY <1>2, <1>3, <1>6 DEF RowsInv, RowsNumbered, TrIds
  <2>2. \A m \in ModIds : /\ m <= nmod => mods'[m].status # "none"
                          /\ m > nmod => mods'[m] = NoModeration
    BY <1>5 DEF RowsInv, RowsNumbered, NoModeration
  <2> QED
    BY <2>1, <2>2 DEF RowsNumbered
<1>9. PendingIsNewest' /\ DisabledWaitsForNothing'
  BY <1>1, <1>2, <1>3 DEF RowsInv, PendingIsNewest, DisabledWaitsForNothing, NonePending
<1>10. VerdictsNamed'
  BY <1>5 DEF RowsInv, VerdictsNamed
<1>11. \A u \in TrIds : LatestSucceeded(u) => LatestSucceeded(u)'
  BY <1>1, <1>2, <1>3 DEF LatestSucceeded
<1>12. \A u \in TrIds : u # t => ReviewText(u)' = ReviewText(u)
  BY <1>2 DEF ReviewText
<1>13. ReviewText(t) = x => ReviewText(t)' = x
  BY <1>2, <1>3 DEF ReviewText
<1>14. \A m \in ModIds : mods[m].tr # 0 => mods[m].tr \in TrIds
  BY PipelineConstants DEF RowsInv, RowsTyped, VerdictsNamed, TrIds
<1>15. VerdictOnReviewedText'
  <2> SUFFICES ASSUME NEW m \in ModIds, mods'[m].status = "succeeded", mods'[m].tr # 0
               PROVE  (LatestSucceeded(mods[m].tr) /\ mods[m].judged = ReviewText(mods[m].tr))'
    BY DEF VerdictOnReviewedText
  <2>1. PICK u \in TrIds : u = mods[m].tr /\ u = mods'[m].tr
    BY <1>5, <1>14
  <2>2. mods[m].status = "succeeded" /\ mods[m].judged = mods'[m].judged
    BY <1>5
  <2>3. LatestSucceeded(u) /\ mods[m].judged = ReviewText(u)
    BY <2>1, <2>2 DEF RowsInv, VerdictOnReviewedText
  <2>4. u = t /\ ReviewText(t) = x
    BY <1>5, <2>1, <2>3, OneLatest DEF TrIds
  <2>5. LatestSucceeded(u)' /\ mods'[m].judged = ReviewText(u)'
    BY <1>11, <1>13, <2>2, <2>3, <2>4
  <2> QED
    BY <2>1, <2>5 DEF LatestSucceeded, ReviewText
<1>16. PendingOnReviewedText'
  <2> SUFFICES ASSUME NEW m \in ModIds, config.moderation = "provider", mods'[m].status = "pending"
               PROVE  (mods[m].judged = ReviewText(mods[m].tr))'
    BY DEF PendingOnReviewedText
  <2>1. mods[m].status = "pending" /\ mods[m].judged = mods'[m].judged /\ mods[m].tr = mods'[m].tr
    BY <1>5
  <2>2. PICK u \in TrIds : u = mods[m].tr
    BY <1>14, <2>1 DEF RowsInv, VerdictsNamed
  <2>3. mods[m].judged = ReviewText(u)
    BY <2>1, <2>2 DEF RowsInv, PendingOnReviewedText
  <2>4. mods[m].judged = ReviewText(u)'
    <3>1. CASE u = t
      <4>1. ReviewText(t) = x
        BY <1>5, <2>1, <2>2, <3>1
      <4> QED
        BY <1>13, <2>3, <3>1, <4>1 DEF ReviewText
    <3>2. CASE u # t
      BY <1>12, <2>3, <3>2
    <3> QED
      BY <3>1, <3>2
  <2> QED
    BY <2>1, <2>2, <2>4 DEF ReviewText
<1>17. OneIsLatest'
  BY <1>6, <1>11, PipelineConstants DEF OneIsLatest, TrIds
<1>18. OnlyTranscriptsTranslated'
  BY <1>2, <1>3 DEF RowsInv, OnlyTranscriptsTranslated
<1>19. ReviewMoves
  <2>1. t \in 0 .. MaxTranscriptions /\ t # 0
    BY PipelineConstants DEF TrIds
  <2>2. Latest = t /\ Latest' = t
    BY <1>11, <2>1, LatestIs, LatestIsNext
  <2>3. Translated' = TRUE /\ UnderReview' = ReviewText(t)' /\ UnderReview = ReviewText(t)
    BY <1>2, <1>3, <2>1, <2>2 DEF Translated, UnderReview, ReviewText
  <2>4. CASE ReviewText(t) = x
    <3>1. UNCHANGED mods /\ UnderReview' = UnderReview
      BY <1>13, <2>3, <2>4 DEF StoreTranslation
    <3>2. Review!Translate
      BY <2>1, <2>2, <2>3, <3>1 DEF Review!Translate
    <3> QED
      BY <3>2 DEF ReviewMoves, Review!RNext
  <2>5. CASE ReviewText(t) # x
    <3>1. UnderReview' \in AllTexts
      BY <1>2, <2>3 DEF ReviewText, Transcription, AllTexts
    <3>2. mods' = Superseded({t, 0})
      BY <2>5 DEF StoreTranslation
    <3>3. ASSUME NEW m \in ModIds
          PROVE  Standing(mods'[m]) \in {"open", "over"} /\ Standing(mods'[m]) \in {Standing(mods[m]), "over"}
      <4>1. mods[m].status \in RowStatuses /\ mods'[m].status \in RowStatuses
        BY <1>4 DEF RowsInv, RowsTyped, Moderation
      <4>2. mods'[m].status # "succeeded"
        <5> SUFFICES ASSUME mods'[m].status = "succeeded" PROVE FALSE
          OBVIOUS
        <5>1. mods[m].tr \notin {t, 0} /\ mods[m].status = "succeeded"
          BY <3>2, SupersededRows
        <5>2. LatestSucceeded(mods[m].tr) /\ mods[m].tr \in Nat
          BY <1>14, <5>1 DEF RowsInv, VerdictOnReviewedText, TrIds
        <5> QED
          BY <5>1, <5>2, OneLatest DEF TrIds
      <4> QED
        BY <1>5, <4>1, <4>2 DEF Standing, RowStatuses
    <3>4. Review!Translate
      BY <2>1, <2>2, <2>3, <3>1, <3>3 DEF Review!Translate, Review!Withdraw
    <3> QED
      BY <3>4 DEF ReviewMoves, Review!RNext
  <2> QED
    BY <2>4, <2>5
<1>20. Grows
  <2>1. ntr <= ntr' /\ nmod <= nmod'
    BY DEF RowsInv, RowsTyped
  <2>2. \A u \in TrIds : trs[u].status \in {"succeeded", "failed"} =>
          /\ trs'[u].status = trs[u].status
          /\ trs'[u].text = trs[u].text
          /\ trs'[u].prov = trs[u].prov
    BY <1>1, <1>2, <1>3
  <2>3. \A u \in TrIds : trs[u].tstat = "succeeded" =>
          /\ trs'[u].tstat = "succeeded"
          /\ trs'[u].ttext = trs[u].ttext \/ OperatorTranslates
    BY <1>2, <1>3
  <2> QED
    BY <1>19, <2>1, <2>2, <2>3 DEF Grows
<1> QED
  BY <1>7, <1>8, <1>9, <1>10, <1>15, <1>16, <1>17, <1>18, <1>20 DEF RowsInv

(* Way 5. A verdict is added.                                              *)
LEMMA VerdictAdded ==
  ASSUME RowsInv, NEW v \in Moderation, AddModeration(v), UNCHANGED <<config, trs, ntr>>,
         v.status # "none", v.tr \in 0 .. ntr,
         v.status = "pending" =>
           /\ v.tr # 0
           /\ config.moderation = "provider" => v.judged = ReviewText(v.tr),
         v.status = "succeeded" /\ v.tr # 0 => LatestSucceeded(v.tr) /\ v.judged = ReviewText(v.tr)
  PROVE  RowsInv' /\ Grows
<1>1. nmod \in Nat /\ nmod + 1 \in ModIds /\ nmod' \in 0 .. MaxModerations
  BY PipelineConstants DEF AddModeration, RowsInv, RowsTyped, ModIds
<1>2. /\ mods' \in [ModIds -> Moderation]
      /\ \A m \in ModIds : mods'[m] = IF m = nmod + 1 THEN v ELSE mods[m]
  BY <1>1 DEF AddModeration, RowsInv, RowsTyped
<1>3. RowsTyped'
  BY <1>1, <1>2 DEF RowsInv, RowsTyped
<1>4. RowsNumbered'
  BY <1>1, <1>2 DEF AddModeration, RowsInv, RowsNumbered, ModIds
<1>5. PendingIsNewest' /\ DisabledWaitsForNothing'
  BY DEF RowsInv, PendingIsNewest, DisabledWaitsForNothing, NonePending
<1>6. VerdictsNamed'
  BY <1>2 DEF RowsInv, VerdictsNamed
<1>7. VerdictOnReviewedText'
  BY <1>2 DEF RowsInv, VerdictOnReviewedText, LatestSucceeded, ReviewText
<1>8. PendingOnReviewedText'
  BY <1>2 DEF RowsInv, PendingOnReviewedText, ReviewText
<1>9. ReviewMoves
  <2>1. mods[nmod + 1].status = "none" /\ mods' = [mods EXCEPT ![nmod + 1] = v]
    BY NextRow DEF AddModeration, NoModeration
  <2> QED
    BY <1>1, <2>1, VerdictMoves
<1>10. Grows
  BY <1>1, <1>9 DEF Grows, AddModeration, RowsInv, RowsTyped
<1> QED
  BY <1>3, <1>4, <1>5, <1>6, <1>7, <1>8, <1>10, ReviewUnmoved DEF RowsInv

(* Way 6. A pending verdict is settled.                                    *)
LEMMA VerdictSettled ==
  ASSUME RowsInv, NEW m \in ModIds, NEW v \in Moderation, mods[m].status = "pending",
         mods' = [mods EXCEPT ![m] = v], UNCHANGED <<config, trs, ntr, nmod>>,
         v.tr = mods[m].tr, v.status \in {"failed", "succeeded"},
         v.status = "succeeded" => LatestSucceeded(v.tr) /\ v.judged = ReviewText(v.tr)
  PROVE  RowsInv' /\ Grows
<1>1. /\ mods' \in [ModIds -> Moderation]
      /\ \A k \in ModIds : mods'[k] = IF k = m THEN v ELSE mods[k]
  BY DEF RowsInv, RowsTyped
<1>2. RowsTyped'
  BY <1>1 DEF RowsInv, RowsTyped
<1>3. RowsNumbered'
  BY <1>1 DEF RowsInv, RowsNumbered, NoModeration
<1>4. PendingIsNewest' /\ DisabledWaitsForNothing'
  BY DEF RowsInv, PendingIsNewest, DisabledWaitsForNothing, NonePending
<1>5. VerdictsNamed'
  BY <1>1 DEF RowsInv, VerdictsNamed
<1>6. VerdictOnReviewedText'
  BY <1>1 DEF RowsInv, VerdictOnReviewedText, LatestSucceeded, ReviewText
<1>7. PendingOnReviewedText'
  BY <1>1 DEF RowsInv, PendingOnReviewedText, ReviewText
<1>8. ReviewMoves
  <2>1. v.status # "none" /\ mods[m].status \in {"none", "pending"}
    OBVIOUS
  <2> QED
    BY <2>1, VerdictMoves
<1>9. Grows
  BY <1>8 DEF Grows, RowsInv, RowsTyped
<1> QED
  BY <1>2, <1>3, <1>4, <1>5, <1>6, <1>7, <1>9, ReviewUnmoved DEF RowsInv

-----------------------------------------------------------------------------
(* The jobs                                                                *)

(* A job at a given place, about a given transcript.                       *)
LEMMA AtType ==
  ASSUME NEW pc \in Pcs, NEW t \in Nat
  PROVE  At(pc, t) \in Job /\ At(pc, t).pc = pc /\ At(pc, t).tr = t
  BY DEF At, Idle, Job, Pcs

LEMMA BegunType ==
  ASSUME NEW t \in Nat
  PROVE  [Idle EXCEPT !.pc = "begun", !.seen = t] \in Job /\ [Idle EXCEPT !.pc = "begun", !.seen = t].pc = "begun"
  BY DEF Idle, Job, Pcs

LEMMA ModeratingType ==
  ASSUME NEW n \in Nat
  PROVE  /\ [Idle EXCEPT !.pc = "moderating", !.mod = n] \in Job
         /\ [Idle EXCEPT !.pc = "moderating", !.mod = n].pc = "moderating"
         /\ [Idle EXCEPT !.pc = "moderating", !.mod = n].mod = n
  BY DEF Idle, Job, Pcs

(* The row a job is about, in numbers.                                     *)
LEMMA JobRow ==
  ASSUME RowsInv, JobsInv, NEW j \in Jobs
  PROVE  /\ jobs[j] \in Job /\ JobFits(jobs[j]) /\ jobs[j].tr \in Nat /\ jobs[j].mod \in Nat
         /\ ntr \in Nat /\ nmod \in Nat
         /\ 1 .. ntr \subseteq TrIds /\ 1 .. nmod \subseteq ModIds
         /\ \A t \in TrIds : trs[t] \in Transcription /\ (trs[t].status # "none" => t \in 1 .. ntr)
         /\ \A m \in ModIds : mods[m] \in Moderation /\ (mods[m].status # "none" => m \in 1 .. nmod)
  BY PipelineConstants
  DEF RowsInv, RowsTyped, RowsNumbered, JobsInv, Job, TrIds, ModIds, NoTranscription, NoModeration

(* A job moves on, the others still have what they rely on.                 *)
LEMMA JobMoves ==
  ASSUME RowsInv, JobsInv, Grows, ntr' \in Nat, nmod' \in Nat,
         NEW j \in Jobs, NEW job \in Job, Goto(j, job), Fits(job, trs', ntr', nmod')
  PROVE  JobsInv'
<1>1. jobs' \in [Jobs -> Job] /\ \A i \in Jobs : jobs'[i] = IF i = j THEN job ELSE jobs[i]
  BY DEF JobsInv, Goto
<1>2. config' = config
  BY DEF Grows
<1>3. ASSUME NEW i \in Jobs
      PROVE  Fits(jobs[i], trs', ntr', nmod')
  <2>1. JobFits(jobs[i]) /\ jobs[i].tr \in Nat /\ jobs[i].mod \in Nat
        /\ ntr \in Nat /\ nmod \in Nat /\ 1 .. ntr \subseteq TrIds
    BY JobRow
  <2> QED
    BY <2>1 DEF JobFits, Fits, Grows
<1>4. ASSUME NEW i \in Jobs
      PROVE  JobFits(jobs[i])'
  BY <1>1, <1>2, <1>3 DEF JobFits, Fits
<1> QED
  BY <1>1, <1>4 DEF JobsInv

(* Nobody moves while the rows grow.                                       *)
LEMMA JobsStay ==
  ASSUME RowsInv, JobsInv, Grows, ntr' \in Nat, nmod' \in Nat, UNCHANGED jobs
  PROVE  JobsInv'
<1>1. ASSUME NEW i \in Jobs
      PROVE  JobFits(jobs[i])'
  <2>1. JobFits(jobs[i]) /\ jobs[i].tr \in Nat /\ jobs[i].mod \in Nat
        /\ ntr \in Nat /\ nmod \in Nat /\ 1 .. ntr \subseteq TrIds
    BY JobRow
  <2> QED
    BY <2>1 DEF JobFits, Fits, Grows
<1> QED
  BY <1>1 DEF JobsInv

(* A job moves on and the rows stay as they are.                            *)
LEMMA OnlyJobMoves ==
  ASSUME RowsInv, JobsInv, UNCHANGED <<config, trs, ntr, mods, nmod>>,
         NEW j \in Jobs, NEW job \in Job, Goto(j, job), JobFits(job)
  PROVE  RowsInv' /\ JobsInv' /\ Grows
<1>1. RowsInv'
  BY RowsKept
<1>2. Grows /\ ntr' \in Nat /\ nmod' \in Nat
  BY RowsKept DEF RowsInv, RowsTyped
<1>3. Fits(job, trs', ntr', nmod')
  BY DEF JobFits
<1> QED
  BY <1>1, <1>2, <1>3, JobMoves

(* A job that moves to rest after the rows have changed.                    *)
LEMMA EndsAfter ==
  ASSUME RowsInv, JobsInv, RowsInv', Grows, NEW j \in Jobs, End(j)
  PROVE  JobsInv'
<1>1. Idle \in Job /\ Fits(Idle, trs', ntr', nmod')
  BY BlankTypes DEF Fits, Idle
<1>2. ntr' \in Nat /\ nmod' \in Nat
  BY DEF RowsInv, RowsTyped
<1> QED
  BY <1>1, <1>2, JobMoves DEF End

(* A job goes to a place where it relies on nothing, or on the transcript it *)
(* already relies on.                                                      *)
LEMMA JobFitsAt ==
  ASSUME NEW pc \in {"idle", "kick", "nudge", "errread", "errwrite"}, NEW t \in Nat
  PROVE  At(pc, t) \in Job /\ JobFits(At(pc, t)) /\ Fits(At(pc, t), trs', ntr', nmod')
  BY AtType DEF JobFits, Fits, Pcs

LEMMA JobFitsOn ==
  ASSUME NEW pc \in {"translate", "claim", "translating", "moderate"},
         NEW t \in Nat, t \in 1 .. ntr', trs'[t].status = "succeeded"
  PROVE  At(pc, t) \in Job /\ Fits(At(pc, t), trs', ntr', nmod')
  BY AtType DEF Fits, Pcs

-----------------------------------------------------------------------------
(* The steps                                                               *)

(* runTranscription, up to the call of the provider.                        *)
LEMMA PrepareInv ==
  ASSUME PipelineInv, NEW j \in Jobs,
         \/ BeginTranscription(j) \/ SkipTranscription(j)
         \/ PreparePush(j) \/ PrepareDisabled(j) \/ PrepareServer(j)
  PROVE  PipelineInv' /\ Grows
<1> USE DEF PipelineInv
<1>1. RestTyped'
  BY DEF RestTyped, BeginTranscription, SkipTranscription, PreparePush, PrepareDisabled, PrepareServer
<1>2. jobs[j] \in Job /\ ntr \in Nat /\ nmod \in Nat
  BY JobRow
<1>3. CASE BeginTranscription(j)
  <2>1. PICK t \in 0 .. ntr : Goto(j, [Idle EXCEPT !.pc = "begun", !.seen = t])
    BY <1>3 DEF BeginTranscription
  <2> DEFINE job == [Idle EXCEPT !.pc = "begun", !.seen = t]
  <2>2. job \in Job /\ job.pc = "begun"
    <3>1. t \in Nat
      BY <1>2
    <3> QED
      BY <3>1, BegunType
  <2>3. JobFits(job)
    BY <2>2 DEF JobFits, Fits
  <2> QED
    BY <1>1, <1>3, <2>1, <2>2, <2>3, OnlyJobMoves DEF BeginTranscription
<1>4. CASE SkipTranscription(j)
  BY <1>1, <1>4, BlankTypes, OnlyJobMoves DEF SkipTranscription, End
<1>5. CASE PreparePush(j)
  <2>1. CASE UNCHANGED <<trs, ntr>>
    BY <1>1, <1>5, <2>1, BlankTypes, OnlyJobMoves DEF PreparePush, End
  <2>2. CASE NonePending /\ AddTranscription([NoTranscription EXCEPT !.status = "pending", !.prov = "push"])
    <3> DEFINE r == [NoTranscription EXCEPT !.status = "pending", !.prov = "push"]
    <3>1. r \in Transcription /\ r.status = "pending" /\ r.tstat = "none"
      BY BlankTypes DEF NoTranscription, Transcription, RowStatuses
    <3>2. config.transcription # "disabled"
      BY <1>5 DEF PreparePush
    <3> HIDE DEF r
    <3>3. RowsInv' /\ Grows
      BY <1>5, <2>2, <3>1, <3>2, AddedAlone DEF PreparePush, r
    <3> QED
      BY <1>1, <1>5, <3>3, BlankTypes, EndsAfter DEF PreparePush
  <2> QED
    BY <1>5, <2>1, <2>2 DEF PreparePush
<1>6. CASE PrepareDisabled(j)
  <2> DEFINE r == [NoTranscription EXCEPT !.status = "failed"]
  <2>1. r \in Transcription /\ r.status = "failed" /\ r.tstat = "none"
    BY BlankTypes DEF NoTranscription, Transcription, RowStatuses
  <2>2. NonePending
    BY <1>6 DEF PrepareDisabled, RowsInv, DisabledWaitsForNothing
  <2> HIDE DEF r
  <2>3. RowsInv' /\ Grows
    BY <1>6, <2>1, <2>2, AddedAlone DEF PrepareDisabled, r
  <2> QED
    BY <1>1, <1>6, <2>3, EndsAfter DEF PrepareDisabled
<1>7. CASE PrepareServer(j)
  <2>1. PICK s \in {"pending", "failed"} :
          /\ trs' = [FailStalePending EXCEPT ![ntr + 1] = [NoTranscription EXCEPT !.status = s]]
          /\ Goto(j, IF s = "pending" THEN At("transcribing", ntr + 1) ELSE Idle)
    BY <1>7 DEF PrepareServer
  <2> DEFINE r == [NoTranscription EXCEPT !.status = s]
  <2>2. r \in Transcription /\ r.status = s /\ r.tstat = "none"
    BY BlankTypes DEF NoTranscription, Transcription, RowStatuses
  <2> HIDE DEF r
  <2>3. /\ FailStalePending \in [TrIds -> Transcription]
        /\ \A t \in TrIds : FailStalePending[t].status # "pending" /\ SameReview(trs[t], FailStalePending[t])
        /\ \A t \in TrIds : t > ntr => FailStalePending[t] = NoTranscription
    BY StaleFails
  <2>4. config.transcription # "disabled" /\ ntr < MaxTranscriptions /\ ntr' = ntr + 1
        /\ UNCHANGED <<config, mods, nmod>>
    BY <1>7 DEF PrepareServer
  <2>5. trs' = [FailStalePending EXCEPT ![ntr + 1] = r]
    BY <2>1 DEF r
  <2>6. RowsInv' /\ Grows
    BY <2>2, <2>3, <2>4, <2>5, AttemptAdded
  <2>7. /\ At("transcribing", ntr + 1) \in Job
        /\ Fits(At("transcribing", ntr + 1), trs', ntr', nmod')
    BY <1>2, <2>4, AtType DEF Fits, Pcs
  <2>8. Idle \in Job /\ Fits(Idle, trs', ntr', nmod')
    BY BlankTypes DEF Fits, Idle
  <2>9. ntr' \in Nat /\ nmod' \in Nat
    BY <1>2, <2>4
  <2> QED
    BY <1>1, <2>1, <2>6, <2>7, <2>8, <2>9, JobMoves
<1> QED
  BY <1>3, <1>4, <1>5, <1>6, <1>7

(* runTranscription, from the provider's answer, and the queue's nudge.      *)
LEMMA TranscribeInv ==
  ASSUME PipelineInv, NEW j \in Jobs,
         \/ \E text \in Texts : TranscribeDone(j, text)
         \/ TranscribeFail(j) \/ Nudge(j) \/ ErrorRead(j) \/ ErrorWrite(j)
  PROVE  PipelineInv' /\ Grows
<1> USE DEF PipelineInv
<1>1. RestTyped'
  BY DEF RestTyped, TranscribeDone, TranscribeFail, Nudge, ErrorRead, ErrorWrite
<1>2. /\ JobFits(jobs[j]) /\ jobs[j].tr \in Nat /\ ntr \in Nat /\ nmod \in Nat
      /\ 1 .. ntr \subseteq TrIds
      /\ \A t \in TrIds : trs[t] \in Transcription
  BY JobRow
<1>3. ASSUME NEW text \in Texts, TranscribeDone(j, text)
      PROVE  PipelineInv' /\ Grows
  <2>1. CASE trs[jobs[j].tr].status # "pending"
    BY <1>1, <1>3, <2>1, BlankTypes, OnlyJobMoves DEF TranscribeDone, End
  <2>2. CASE trs[jobs[j].tr].status = "pending"
    <3> DEFINE t == jobs[j].tr
               r == [trs[t] EXCEPT !.status = "succeeded", !.text = text]
    <3>1. t \in 1 .. ntr /\ t \in TrIds /\ trs[t] \in Transcription
      BY <1>2, <1>3 DEF TranscribeDone, JobFits, Fits
    <3>2. /\ r \in Transcription /\ r.status = "succeeded"
          /\ r.tstat = trs[t].tstat /\ r.ttext = trs[t].ttext
      BY <3>1 DEF Transcription, RowStatuses
    <3>3. trs' = [trs EXCEPT ![t] = r] /\ mods' = Superseded(Everything) /\ UNCHANGED <<config, ntr, nmod>>
      BY <1>3, <2>2 DEF TranscribeDone
    <3> HIDE DEF r
    <3>4. RowsInv' /\ Grows
      BY <2>2, <3>1, <3>2, <3>3, TranscriptStored
    <3>5. Goto(j, At(IF text = Empty THEN "nudge" ELSE "translate", t))
      BY <1>3, <2>2 DEF TranscribeDone
    <3>6. trs'[t].status = "succeeded" /\ t \in 1 .. ntr'
      BY <3>1, <3>2, <3>3 DEF RowsInv, RowsTyped
    <3> HIDE DEF t
    <3>7. t \in Nat
      BY <3>1
    <3>8. ntr' \in Nat /\ nmod' \in Nat
      BY <1>2, <3>3
    <3>9. JobsInv'
      BY <3>4, <3>5, <3>6, <3>7, <3>8, JobFitsAt, JobFitsOn, JobMoves
    <3> QED
      BY <1>1, <3>4, <3>9
  <2> QED
    BY <2>1, <2>2
<1>4. CASE TranscribeFail(j)
  <2>1. CASE trs[jobs[j].tr].status # "pending"
    BY <1>1, <1>4, <2>1, BlankTypes, OnlyJobMoves DEF TranscribeFail, End
  <2>2. CASE trs[jobs[j].tr].status = "pending"
    <3> DEFINE t == jobs[j].tr
               r == [trs[t] EXCEPT !.status = "failed"]
    <3>1. t \in 1 .. ntr /\ trs[t] \in Transcription
      BY <1>2, <1>4 DEF TranscribeFail, JobFits, Fits
    <3>2. r \in Transcription /\ SameReview(trs[t], r)
      BY <2>2, <3>1 DEF Transcription, RowStatuses, SameReview
    <3>3. trs' = [trs EXCEPT ![t] = r] /\ UNCHANGED <<config, ntr, mods, nmod>>
      BY <1>4, <2>2 DEF TranscribeFail
    <3> HIDE DEF r, t
    <3>4. RowsInv' /\ Grows
      BY <3>1, <3>2, <3>3, RowTouched
    <3> QED
      BY <1>1, <1>4, <3>4, EndsAfter DEF TranscribeFail
  <2> QED
    BY <2>1, <2>2
<1>5. CASE Nudge(j) \/ ErrorWrite(j)
  BY <1>1, <1>5, BlankTypes, OnlyJobMoves DEF Nudge, ErrorWrite, End
<1>6. CASE ErrorRead(j)
  <2>1. Goto(j, At("errwrite", 0)) \/ Goto(j, Idle)
    BY <1>6 DEF ErrorRead, End
  <2> QED
    BY <1>1, <1>6, <2>1, BlankTypes, JobFitsAt, OnlyJobMoves DEF ErrorRead
<1> QED
  BY <1>3, <1>4, <1>5, <1>6

(* runTranslation.                                                         *)
LEMMA TranslateInv ==
  ASSUME PipelineInv, NEW j \in Jobs,
         \/ TranslateRead(j) \/ TranslateClaim(j)
         \/ \E x \in Translations : TranslateDone(j, x)
         \/ TranslateFail(j)
  PROVE  PipelineInv' /\ Grows
<1> USE DEF PipelineInv
<1> DEFINE t == jobs[j].tr
           Claimed(s) == [trs[t] EXCEPT !.tstat = s]
<1>1. RestTyped'
  BY DEF RestTyped, TranslateRead, TranslateClaim, TranslateDone, TranslateFail
<1>2. /\ jobs[j].pc \in {"translate", "claim", "translating"}
      /\ ntr \in Nat /\ nmod \in Nat /\ t \in Nat /\ t \in 1 .. ntr /\ t \in TrIds
      /\ trs[t] \in Transcription /\ trs[t].status = "succeeded"
  BY JobRow DEF JobFits, Fits, TranslateRead, TranslateClaim, TranslateDone, TranslateFail
<1>3. ASSUME NEW s \in {"pending", "failed"}, trs[t].tstat # "succeeded"
      PROVE  Claimed(s) \in Transcription /\ SameReview(trs[t], Claimed(s))
  BY <1>2, <1>3 DEF Transcription, RowStatuses, SameReview
<1> HIDE DEF t
<1>4. ASSUME RowsInv', Grows, UNCHANGED <<ntr, nmod>>,
             \/ \E pc \in {"claim", "translating", "moderate"} : Goto(j, At(pc, t))
             \/ End(j)
      PROVE  PipelineInv' /\ Grows
  <2>1. trs'[t].status = "succeeded" /\ t \in 1 .. ntr' /\ ntr' \in Nat /\ nmod' \in Nat
    BY <1>2, <1>4 DEF Grows
  <2>2. JobsInv'
    BY <1>2, <1>4, <2>1, EndsAfter, JobFitsOn, JobMoves
  <2> QED
    BY <1>1, <1>4, <2>2
<1>5. CASE TranslateRead(j)
  <2>1. RowsInv' /\ Grows
    BY <1>5, RowsKept DEF TranslateRead, Grows, RowsInv, RowsTyped
  <2> QED
    BY <1>4, <1>5, <2>1 DEF TranslateRead, t
<1>6. CASE TranslateClaim(j)
  <2>1. \/ UNCHANGED trs
        \/ /\ trs[t].tstat # "succeeded"
           /\ \E s \in {"pending", "failed"} : trs' = [trs EXCEPT ![t] = Claimed(s)]
    BY <1>6 DEF TranslateClaim, t
  <2>2. UNCHANGED <<config, ntr, mods, nmod>>
    BY <1>6 DEF TranslateClaim
  <2>3. RowsInv' /\ Grows
    <3>1. CASE UNCHANGED trs
      BY <2>2, <3>1, RowsKept DEF Grows, RowsInv, RowsTyped
    <3>2. CASE ~UNCHANGED trs
      BY <1>2, <1>3, <2>1, <2>2, <3>2, RowTouched
    <3> QED
      BY <3>1, <3>2
  <2>4. Goto(j, At("moderate", t)) \/ Goto(j, At("translating", t)) \/ End(j)
    BY <1>6 DEF TranslateClaim, End, t
  <2>5. \/ \E pc \in {"claim", "translating", "moderate"} : Goto(j, At(pc, t))
        \/ End(j)
    BY <2>4
  <2> QED
    BY <1>4, <2>2, <2>3, <2>5
<1>7. ASSUME NEW x \in Translations, TranslateDone(j, x)
      PROVE  PipelineInv' /\ Grows
  <2>1. UNCHANGED <<config, ntr, nmod>> /\ x \in AllTexts
    BY <1>7 DEF TranslateDone, AllTexts
  <2>2. \/ /\ LatestSucceeded(t) /\ StoreTranslation(t, x) /\ Goto(j, At("moderate", t))
           /\ trs[t].tstat # "succeeded"
        \/ End(j) /\ UNCHANGED <<trs, mods>>
    BY <1>7 DEF TranslateDone, t
  <2>3. RowsInv' /\ Grows
    <3>1. CASE UNCHANGED <<trs, mods>>
      BY <2>1, <3>1, RowsKept DEF Grows, RowsInv, RowsTyped
    <3>2. CASE LatestSucceeded(t) /\ StoreTranslation(t, x) /\ trs[t].tstat # "succeeded"
      BY <1>2, <2>1, <3>2, TranslationStored
    <3> QED
      BY <2>2, <3>1, <3>2
  <2> QED
    BY <1>4, <2>1, <2>2, <2>3
<1>8. CASE TranslateFail(j)
  <2>1. /\ UNCHANGED <<config, ntr, mods, nmod>> /\ Goto(j, At("moderate", t))
        /\ trs' = IF trs[t].tstat = "pending" THEN [trs EXCEPT ![t] = Claimed("failed")] ELSE trs
    BY <1>8 DEF TranslateFail, t
  <2>2. RowsInv' /\ Grows
    <3>1. CASE trs[t].tstat # "pending"
      BY <2>1, <3>1, RowsKept DEF Grows, RowsInv, RowsTyped
    <3>2. CASE trs[t].tstat = "pending"
      BY <1>2, <1>3, <2>1, <3>2, RowTouched
    <3> QED
      BY <3>1, <3>2
  <2> QED
    BY <1>4, <2>1, <2>2
<1> QED
  BY <1>5, <1>6, <1>7, <1>8

(* runModeration.                                                          *)
LEMMA ModerateInv ==
  ASSUME PipelineInv, NEW j \in Jobs,
         \/ SkipModeration(j) \/ ModeratePush(j) \/ ModerateDisabled(j) \/ ModerateStart(j)
         \/ ModerateDone(j) \/ ModerateFail(j)
  PROVE  PipelineInv' /\ Grows
<1> USE DEF PipelineInv
<1>1. RestTyped'
  BY DEF RestTyped, SkipModeration, ModeratePush, ModerateDisabled, ModerateStart, ModerateDone,
         ModerateFail
<1>2. /\ JobFits(jobs[j]) /\ jobs[j].tr \in Nat /\ jobs[j].mod \in Nat /\ ntr \in Nat /\ nmod \in Nat
      /\ 1 .. ntr \subseteq TrIds /\ 1 .. nmod \subseteq ModIds
      /\ \A m \in ModIds : mods[m] \in Moderation
  BY JobRow
<1>3. CASE SkipModeration(j)
  BY <1>1, <1>3, BlankTypes, OnlyJobMoves DEF SkipModeration, End
<1>4. ASSUME jobs[j].pc = "moderate"
      PROVE  jobs[j].tr \in 1 .. ntr /\ jobs[j].tr \in TrIds
  BY <1>2, <1>4 DEF JobFits, Fits
<1>5. CASE ModeratePush(j)
  <2> DEFINE v == [NoModeration EXCEPT !.status = "pending", !.tr = jobs[j].tr]
  <2>1. v \in Moderation /\ v.status = "pending" /\ v.tr = jobs[j].tr
    BY <1>2, BlankTypes DEF NoModeration, Moderation, RowStatuses
  <2>2. config.moderation = "push" /\ UNCHANGED <<config, trs, ntr>> /\ End(j) /\ jobs[j].pc = "moderate"
    BY <1>5 DEF ModeratePush
  <2>3. UNCHANGED <<mods, nmod>> \/ AddModeration(v)
    BY <1>5 DEF ModeratePush
  <2> HIDE DEF v
  <2>4. RowsInv' /\ Grows
    <3>1. CASE UNCHANGED <<mods, nmod>>
      BY <2>2, <3>1, RowsKept DEF Grows, RowsInv, RowsTyped
    <3>2. CASE AddModeration(v)
      <4>1. v.tr \in 0 .. ntr /\ v.tr # 0
        BY <1>2, <1>4, <2>1, <2>2
      <4> QED
        BY <2>1, <2>2, <3>2, <4>1, VerdictAdded
    <3> QED
      BY <2>3, <3>1, <3>2
  <2> QED
    BY <1>1, <2>2, <2>4, EndsAfter
<1>6. CASE ModerateDisabled(j)
  <2> DEFINE v == [NoModeration EXCEPT !.status = "failed", !.tr = jobs[j].tr]
  <2>1. v \in Moderation /\ v.status = "failed" /\ v.tr = jobs[j].tr
    BY <1>2, BlankTypes DEF NoModeration, Moderation, RowStatuses
  <2>2. AddModeration(v) /\ UNCHANGED <<config, trs, ntr>> /\ End(j) /\ jobs[j].pc = "moderate"
    BY <1>6 DEF ModerateDisabled
  <2> HIDE DEF v
  <2>3. v.tr \in 0 .. ntr
    BY <1>2, <1>4, <2>1, <2>2
  <2>4. RowsInv' /\ Grows
    BY <2>1, <2>2, <2>3, VerdictAdded
  <2> QED
    BY <1>1, <2>2, <2>4, EndsAfter
<1>7. CASE ModerateStart(j)
  <2> DEFINE v == [status |-> "pending", tr |-> jobs[j].tr, judged |-> ReviewText(jobs[j].tr)]
             job == [Idle EXCEPT !.pc = "moderating", !.mod = nmod + 1]
  <2>1. /\ AddModeration(v) /\ UNCHANGED <<config, trs, ntr>> /\ Goto(j, job)
        /\ jobs[j].pc = "moderate" /\ config.moderation = "provider" /\ nmod' = nmod + 1
    BY <1>7 DEF ModerateStart, AddModeration
  <2>2. jobs[j].tr \in 1 .. ntr /\ jobs[j].tr \in TrIds /\ ReviewText(jobs[j].tr) \in AllTexts
    BY <1>4, <2>1, ReviewTextType DEF RowsInv
  <2>3. /\ v \in Moderation /\ v.status = "pending" /\ v.tr = jobs[j].tr
        /\ v.judged = ReviewText(jobs[j].tr)
    BY <1>2, <2>2 DEF Moderation, RowStatuses
  <2>4. v.tr \in 0 .. ntr /\ v.tr # 0
    BY <1>2, <2>2, <2>3
  <2> HIDE DEF v
  <2>5. RowsInv' /\ Grows
    BY <2>1, <2>3, <2>4, VerdictAdded
  <2>6. job \in Job /\ job.pc = "moderating" /\ job.mod = nmod + 1
    <3>1. nmod + 1 \in Nat
      BY <1>2
    <3> QED
      BY <3>1, ModeratingType
  <2> HIDE DEF job
  <2>7. Fits(job, trs', ntr', nmod') /\ ntr' \in Nat /\ nmod' \in Nat
    BY <1>2, <2>1, <2>6 DEF Fits
  <2> QED
    BY <1>1, <2>1, <2>5, <2>6, <2>7, JobMoves
<1>8. ASSUME jobs[j].pc = "moderating", NEW s \in {"failed", "succeeded"}, mods[jobs[j].mod].status = "pending",
             s = "succeeded" => LatestSucceeded(mods[jobs[j].mod].tr),
             mods' = [mods EXCEPT ![jobs[j].mod].status = s], UNCHANGED <<config, trs, ntr, nmod>>,
             NEW pc \in {"idle", "nudge", "errread"}, Goto(j, At(pc, 0))
      PROVE  PipelineInv' /\ Grows
  <2> DEFINE m == jobs[j].mod
             v == [mods[m] EXCEPT !.status = s]
  <2>1. m \in ModIds /\ mods[m] \in Moderation /\ config.moderation = "provider"
    BY <1>2, <1>8 DEF JobFits, Fits
  <2>2. /\ v \in Moderation /\ v.status = s /\ v.tr = mods[m].tr /\ v.judged = mods[m].judged
    BY <2>1 DEF Moderation, RowStatuses
  <2>3. mods[m].judged = ReviewText(mods[m].tr)
    BY <1>8, <2>1 DEF RowsInv, PendingOnReviewedText
  <2>4. mods' = [mods EXCEPT ![m] = v]
    BY <1>8
  <2>5. mods[m].status = "pending" /\ (s = "succeeded" => LatestSucceeded(mods[m].tr))
    BY <1>8
  <2>6. (s = "succeeded" => LatestSucceeded(v.tr)) /\ v.judged = ReviewText(v.tr)
    BY <2>2, <2>3, <2>5
  <2> HIDE DEF v, m
  <2>7. RowsInv' /\ Grows
    BY <1>8, <2>1, <2>2, <2>4, <2>5, <2>6, VerdictSettled
  <2>8. ntr' \in Nat /\ nmod' \in Nat
    BY <1>2, <1>8
  <2>9. JobsInv'
    BY <1>8, <2>7, <2>8, JobFitsAt, JobMoves
  <2> QED
    BY <1>1, <2>7, <2>9
<1>9. CASE ModerateDone(j)
  <2>1. CASE LatestSucceeded(mods[jobs[j].mod].tr) /\ mods[jobs[j].mod].status = "pending"
    <3>1. /\ jobs[j].pc = "moderating" /\ UNCHANGED <<config, trs, ntr, nmod>>
          /\ mods' = [mods EXCEPT ![jobs[j].mod].status = "succeeded"]
          /\ Goto(j, At("nudge", 0))
      BY <1>9, <2>1 DEF ModerateDone
    <3> QED
      BY <1>8, <2>1, <3>1
  <2>2. CASE ~(LatestSucceeded(mods[jobs[j].mod].tr) /\ mods[jobs[j].mod].status = "pending")
    <3>1. UNCHANGED <<config, trs, ntr, mods, nmod>> /\ Goto(j, Idle)
      BY <1>9, <2>2 DEF ModerateDone, End
    <3> QED
      BY <1>1, <3>1, BlankTypes, OnlyJobMoves
  <2> QED
    BY <2>1, <2>2
<1>10. CASE ModerateFail(j)
  <2>1. CASE mods[jobs[j].mod].status = "pending"
    <3>1. /\ jobs[j].pc = "moderating" /\ UNCHANGED <<config, trs, ntr, nmod>>
          /\ mods' = [mods EXCEPT ![jobs[j].mod].status = "failed"]
          /\ Goto(j, At("errread", 0))
      BY <1>10, <2>1 DEF ModerateFail
    <3> QED
      BY <1>8, <2>1, <3>1
  <2>2. CASE mods[jobs[j].mod].status # "pending"
    <3>1. UNCHANGED <<config, trs, ntr, mods, nmod>> /\ Goto(j, Idle)
      BY <1>10, <2>2 DEF ModerateFail, End
    <3> QED
      BY <1>1, <3>1, BlankTypes, OnlyJobMoves
  <2> QED
    BY <2>1, <2>2
<1> QED
  BY <1>3, <1>5, <1>6, <1>7, <1>9, <1>10

(* A transcript or a translation has been stored and its processing goes on. *)
LEMMA GoesOn ==
  ASSUME RowsInv, JobsInv, RowsInv', Grows, NEW j \in Jobs,
         NEW t \in Nat, t \in 1 .. ntr', trs'[t].status = "succeeded",
         \/ \E pc \in {"translate", "moderate"} : Goto(j, At(pc, t))
         \/ Goto(j, At("nudge", 0))
         \/ Goto(j, Idle)
  PROVE  JobsInv'
<1>1. ntr' \in Nat /\ nmod' \in Nat
  BY DEF RowsInv, RowsTyped
<1>2. CASE \E pc \in {"translate", "moderate"} : Goto(j, At(pc, t))
  BY <1>1, <1>2, JobFitsOn, JobMoves
<1>3. CASE Goto(j, At("nudge", 0))
  BY <1>1, <1>3, JobFitsAt, JobMoves
<1>4. CASE Goto(j, Idle)
  BY <1>4, EndsAfter DEF End
<1> QED
  BY <1>2, <1>3, <1>4

(* recordTranscriptionResult.                                              *)
LEMMA TranscriptInv ==
  ASSUME PipelineInv, NEW j \in Jobs, NEW text \in Texts, NEW prov \in {"push", "on_device"},
         NEW down, NEW target, NEW same,
         FinalizeTranscript(j, target, text, prov, down) \/ AddTranscript(j, text, prov, down, same)
  PROVE  PipelineInv' /\ Grows
<1> USE DEF PipelineInv
<1>1. RestTyped'
  BY DEF RestTyped, FinalizeTranscript, AddTranscript
<1>2. /\ ntr \in Nat /\ nmod \in Nat /\ 1 .. ntr \subseteq TrIds
      /\ \A t \in TrIds : trs[t] \in Transcription /\ (trs[t].status # "none" => t \in 1 .. ntr)
  BY JobRow
<1>3. CASE FinalizeTranscript(j, target, text, prov, down)
  <2>1. PICK t \in TrIds :
          /\ trs[t].status = "pending"
          /\ trs' = [trs EXCEPT ![t] = [@ EXCEPT !.status = "succeeded", !.text = text, !.prov = prov]]
          /\ Goto(j, IF text = Empty THEN At("nudge", 0)
                     ELSE IF down THEN At("translate", t) ELSE Idle)
    BY <1>3 DEF FinalizeTranscript, NewestPending
  <2> DEFINE r == [trs[t] EXCEPT !.status = "succeeded", !.text = text, !.prov = prov]
  <2>2. t \in 1 .. ntr /\ trs[t] \in Transcription
    BY <1>2, <2>1
  <2>3. /\ r \in Transcription /\ r.status = "succeeded"
        /\ r.tstat = trs[t].tstat /\ r.ttext = trs[t].ttext
    BY <2>2 DEF Transcription, RowStatuses
  <2>4. /\ trs' = [trs EXCEPT ![t] = r]
        /\ mods' = Superseded(Everything) /\ UNCHANGED <<config, ntr, nmod>>
    BY <1>3, <2>1 DEF FinalizeTranscript
  <2> HIDE DEF r
  <2>5. RowsInv' /\ Grows
    BY <2>1, <2>3, <2>4, TranscriptStored
  <2>6. t \in Nat /\ t \in 1 .. ntr' /\ trs'[t].status = "succeeded"
    BY <1>2, <2>2, <2>3, <2>4 DEF RowsInv, RowsTyped
  <2>7. JobsInv'
    BY <2>1, <2>5, <2>6, GoesOn
  <2> QED
    BY <1>1, <2>5, <2>7
<1>4. CASE AddTranscript(j, text, prov, down, same)
  <2> DEFINE r == [NoTranscription EXCEPT !.status = "succeeded", !.text = text, !.prov = prov]
             t == ntr + 1
  <2>1. /\ r \in Transcription /\ r.status = "succeeded"
        /\ r.tstat = NoTranscription.tstat /\ r.ttext = NoTranscription.ttext
    BY BlankTypes DEF NoTranscription, Transcription, RowStatuses
  <2>2. /\ NonePending /\ ntr' = t /\ trs' = [trs EXCEPT ![t] = r]
        /\ mods' = Superseded(Everything) /\ UNCHANGED <<config, nmod>> /\ ntr < MaxTranscriptions
        /\ Goto(j, IF text = Empty THEN At("nudge", 0)
                   ELSE IF down THEN At("translate", t) ELSE Idle)
    BY <1>4 DEF AddTranscript, AddTranscription
  <2> HIDE DEF r
  <2>3. t \in TrIds /\ t \in Nat /\ t \in 1 .. ntr' /\ trs[t] = NoTranscription
    BY <1>2, <2>2, NextRow
  <2>4. trs'[t].status = "succeeded"
    BY <2>1, <2>2, <2>3 DEF RowsInv, RowsTyped
  <2>5. RowsInv' /\ Grows
    BY <2>1, <2>2, <2>3, TranscriptStored
  <2> HIDE DEF t
  <2>6. JobsInv'
    BY <2>2, <2>3, <2>4, <2>5, GoesOn
  <2> QED
    BY <1>1, <2>5, <2>6
<1> QED
  BY <1>3, <1>4

(* The latest transcript is one that exists.                               *)
LEMMA LatestExists ==
  ASSUME RowsInv, NEW t, LatestSucceeded(t), t # 0
  PROVE  t \in TrIds /\ t \in 1 .. ntr /\ t \in Nat /\ trs[t].status = "succeeded"
  BY PipelineConstants
  DEF LatestSucceeded, RowsInv, RowsTyped, RowsNumbered, NoTranscription, TrIds

(* POST /translation, of the app and of the operators.                     *)
LEMMA TranslationInv ==
  ASSUME PipelineInv,
         \/ \E j \in Jobs, t \in 1 .. ntr, input \in Texts, x \in Translations :
              WorkerTranslation(j, t, input, x)
         \/ \E x \in Translations : OperatorTranslation(x)
  PROVE  PipelineInv' /\ Grows
<1> USE DEF PipelineInv
<1>1. ntr \in Nat /\ nmod \in Nat /\ 1 .. ntr \subseteq TrIds
  BY PipelineConstants DEF RowsInv, RowsTyped, TrIds
<1>2. ASSUME NEW j \in Jobs, NEW t \in 1 .. ntr, NEW input \in Texts, NEW x \in Translations,
             WorkerTranslation(j, t, input, x)
      PROVE  PipelineInv' /\ Grows
  <2>1. /\ LatestSucceeded(t) /\ StoreTranslation(t, x) /\ UNCHANGED <<config, ntr, nmod>>
        /\ Goto(j, At("moderate", t)) /\ RestTyped' /\ trs[t].tstat # "succeeded"
    BY <1>2 DEF WorkerTranslation, RestTyped
  <2>2. t \in TrIds /\ t \in Nat /\ x \in AllTexts /\ trs[t].status = "succeeded" /\ t \in 1 .. ntr'
    BY <1>1, <2>1, LatestExists DEF AllTexts
  <2>3. RowsInv' /\ Grows
    BY <2>1, <2>2, TranslationStored
  <2>4. trs'[t].status = "succeeded"
    BY <2>2, <2>3 DEF Grows
  <2> QED
    BY <2>1, <2>2, <2>3, <2>4, GoesOn
<1>3. ASSUME NEW x \in Translations, OperatorTranslation(x)
      PROVE  PipelineInv' /\ Grows
  <2>1. PICK t \in TrIds : LatestSucceeded(t) /\ StoreTranslation(t, x)
    BY <1>3 DEF OperatorTranslation
  <2>2. /\ UNCHANGED <<config, ntr, nmod, jobs>> /\ RestTyped' /\ x \in AllTexts
        /\ OperatorTranslates
    BY <1>3 DEF OperatorTranslation, RestTyped, AllTexts, OperatorTranslates
  <2>3. RowsInv' /\ Grows
    BY <2>1, <2>2, TranslationStored
  <2>4. JobsInv'
    BY <1>1, <2>2, <2>3, JobsStay
  <2> QED
    BY <2>2, <2>3, <2>4
<1> QED
  BY <1>2, <1>3

(* POST /moderation, of the app and of the operators.                      *)
LEMMA VerdictInv ==
  ASSUME PipelineInv, NEW j \in Jobs,
         \/ \E t \in 1 .. ntr, input \in AllTexts : WorkerVerdict(j, t, input) \/ OperatorVerdict(j, t, input)
         \/ OperatorUntargeted(j)
  PROVE  PipelineInv' /\ Grows
<1> USE DEF PipelineInv
<1>1. /\ ntr \in Nat /\ nmod \in Nat /\ 1 .. ntr \subseteq TrIds
      /\ \A m \in ModIds : mods[m] \in Moderation
  BY PipelineConstants DEF RowsInv, RowsTyped, TrIds
<1>2. RestTyped'
  BY DEF RestTyped, WorkerVerdict, OperatorVerdict, FinalizeVerdict, OperatorUntargeted
<1>3. ASSUME RowsInv', Grows, Goto(j, At("nudge", 0))
      PROVE  PipelineInv' /\ Grows
  <2>1. ntr' \in Nat /\ nmod' \in Nat
    BY <1>3 DEF RowsInv, RowsTyped
  <2> QED
    BY <1>2, <1>3, <2>1, JobFitsAt, JobMoves
<1>4. ASSUME NEW t \in 1 .. ntr, NEW input \in AllTexts, FinalizeVerdict(j, t, input)
      PROVE  PipelineInv' /\ Grows
  <2>1. PICK m \in ModIds :
          /\ NewestPendingVerdict(m, {t})
          /\ mods' = [mods EXCEPT ![m] = [@ EXCEPT !.status = "succeeded", !.judged = input]]
    BY <1>4 DEF FinalizeVerdict
  <2> DEFINE v == [mods[m] EXCEPT !.status = "succeeded", !.judged = input]
  <2>2. mods[m].status = "pending" /\ mods[m].tr = t /\ mods[m] \in Moderation
    BY <1>1, <2>1 DEF NewestPendingVerdict
  <2>3. v \in Moderation /\ v.status = "succeeded" /\ v.tr = t /\ v.judged = input
    BY <2>2 DEF Moderation, RowStatuses
  <2>4. /\ LatestSucceeded(t) /\ input = ReviewText(t) /\ UNCHANGED <<config, trs, ntr, nmod>>
        /\ Goto(j, At("nudge", 0)) /\ mods' = [mods EXCEPT ![m] = v]
    BY <1>4, <2>1 DEF FinalizeVerdict, CurrentInput
  <2> HIDE DEF v
  <2>5. RowsInv' /\ Grows
    BY <2>2, <2>3, <2>4, VerdictSettled
  <2> QED
    BY <1>3, <2>4, <2>5
<1>5. ASSUME NEW t \in 1 .. ntr, NEW input \in AllTexts, OperatorVerdict(j, t, input)
      PROVE  PipelineInv' /\ Grows
  <2> DEFINE v == [status |-> "succeeded", tr |-> t, judged |-> input]
  <2>1. CASE FinalizeVerdict(j, t, input)
    BY <1>4, <2>1
  <2>2. CASE ~FinalizeVerdict(j, t, input)
    <3>1. /\ CurrentInput(t, input) /\ UNCHANGED <<config, trs, ntr>> /\ Goto(j, At("nudge", 0))
          /\ AddModeration(v) \/ UNCHANGED <<mods, nmod>>
      BY <1>5, <2>2 DEF OperatorVerdict
    <3>2. v \in Moderation /\ v.status = "succeeded" /\ v.tr = t /\ v.judged = input
      BY <1>1 DEF Moderation, RowStatuses
    <3>3. LatestSucceeded(t) /\ input = ReviewText(t) /\ t \in 0 .. ntr
      BY <1>1, <3>1 DEF CurrentInput
    <3> HIDE DEF v
    <3>4. RowsInv' /\ Grows
      <4>1. CASE AddModeration(v)
        BY <3>1, <3>2, <3>3, <4>1, VerdictAdded
      <4>2. CASE UNCHANGED <<mods, nmod>>
        BY <3>1, <4>2, RowsKept DEF Grows, RowsInv, RowsTyped
      <4> QED
        BY <3>1, <4>1, <4>2
    <3> QED
      BY <1>3, <3>1, <3>4
  <2> QED
    BY <2>1, <2>2
<1>6. CASE OperatorUntargeted(j)
  <2> DEFINE v == [NoModeration EXCEPT !.status = "succeeded"]
  <2>1. v \in Moderation /\ v.status = "succeeded" /\ v.tr = 0
    BY BlankTypes DEF NoModeration, Moderation, RowStatuses
  <2>2. AddModeration(v) /\ UNCHANGED <<config, trs, ntr>> /\ Goto(j, At("nudge", 0))
    BY <1>6 DEF OperatorUntargeted
  <2> HIDE DEF v
  <2>3. v.tr \in 0 .. ntr
    BY <1>1, <2>1
  <2>4. RowsInv' /\ Grows
    BY <2>1, <2>2, <2>3, VerdictAdded
  <2> QED
    BY <1>3, <2>2, <2>4
<1> QED
  BY <1>4, <1>5, <1>6 DEF WorkerVerdict

(* Calls that are only started, decisions, time and restarts.               *)
LEMMA OthersInv ==
  ASSUME PipelineInv,
         \/ \E j \in Jobs : OperatorTranscribe(j) \/ OperatorModerate(j) \/ Sweep(j)
         \/ \E t \in TrIds : Age(t)
         \/ Decide \/ Crash \/ UNCHANGED vars
  PROVE  PipelineInv' /\ Grows
<1> USE DEF PipelineInv
<1>1. ntr \in Nat /\ nmod \in Nat
  BY DEF RowsInv, RowsTyped
<1>2. ASSUME NEW j \in Jobs, OperatorTranscribe(j) \/ Sweep(j)
      PROVE  PipelineInv' /\ Grows
  BY <1>2, JobFitsAt, OnlyJobMoves DEF OperatorTranscribe, Sweep, RestTyped
<1>3. ASSUME NEW j \in Jobs, OperatorModerate(j)
      PROVE  PipelineInv' /\ Grows
  <2>1. PICK t \in TrIds : LatestSucceeded(t) /\ Goto(j, At("moderate", t))
    BY <1>3 DEF OperatorModerate
  <2>2. t \in Nat /\ t \in 1 .. ntr /\ trs[t].status = "succeeded"
    BY <2>1, LatestExists DEF TrIds
  <2>3. At("moderate", t) \in Job /\ JobFits(At("moderate", t))
    BY <2>2, AtType DEF JobFits, Fits, Pcs
  <2> QED
    BY <1>3, <2>1, <2>3, OnlyJobMoves DEF OperatorModerate, RestTyped
<1>4. ASSUME NEW t \in TrIds, Age(t)
      PROVE  PipelineInv' /\ Grows
  <2> DEFINE r == [trs[t] EXCEPT !.old = TRUE]
  <2>1. trs[t].status = "pending" /\ trs[t] \in Transcription /\ t \in 1 .. ntr
    BY <1>4, JobRow DEF Age, RowsInv, RowsTyped, RowsNumbered, NoTranscription, TrIds
  <2>2. r \in Transcription /\ SameReview(trs[t], r)
    BY <2>1 DEF Transcription, SameReview
  <2>3. trs' = [trs EXCEPT ![t] = r] /\ UNCHANGED <<config, ntr, mods, nmod, jobs>>
    BY <1>4 DEF Age
  <2> HIDE DEF r
  <2>4. RowsInv' /\ Grows
    BY <2>1, <2>2, <2>3, RowTouched
  <2>5. JobsInv'
    BY <1>1, <2>3, <2>4, JobsStay
  <2>6. RestTyped'
    BY <1>4 DEF Age, RestTyped
  <2> QED
    BY <2>4, <2>5, <2>6
<1>5. CASE Decide \/ UNCHANGED vars
  <2>1. RowsInv' /\ Grows /\ UNCHANGED <<jobs, ntr, nmod>> /\ RestTyped'
    BY <1>5, RowsKept DEF Decide, vars, Grows, RowsInv, RowsTyped, RestTyped
  <2> QED
    BY <1>1, <2>1, JobsStay
<1>6. CASE Crash
  <2>1. RowsInv' /\ Grows /\ RestTyped' /\ UNCHANGED <<config, ntr, nmod, trs>>
    BY <1>6, RowsKept DEF Crash, RestTyped, Grows, RowsInv, RowsTyped
  <2>2. JobsInv'
    <3>1. jobs' = [i \in Jobs |-> Idle]
      BY <1>6 DEF Crash
    <3>2. Idle \in Job /\ Idle.pc = "idle"
      BY BlankTypes DEF Idle
    <3> QED
      BY <3>1, <3>2 DEF JobsInv, JobFits, Fits
  <2> QED
    BY <2>1, <2>2
<1> QED
  BY <1>2, <1>3, <1>4, <1>5, <1>6

-----------------------------------------------------------------------------
(* The theorems                                                            *)

LEMMA PipelineInitInv == Init => PipelineInv
<1> SUFFICES ASSUME Init PROVE PipelineInv
  OBVIOUS
<1>1. RowsTyped
  BY PipelineConstants, BlankTypes DEF Init, RowsTyped
<1>2. RowsNumbered
  BY DEF Init, RowsNumbered, TrIds, ModIds
<1>3. \A t \in TrIds : trs[t].status = "none" /\ trs[t].tstat = "none"
  BY DEF Init, NoTranscription
<1>4. \A m \in ModIds : mods[m].status = "none" /\ mods[m].tr = 0
  BY DEF Init, NoModeration
<1>5. RowsInv
  BY <1>1, <1>2, <1>3, <1>4
  DEF Init, RowsInv, OneIsLatest, LatestSucceeded, OnlyTranscriptsTranslated, PendingIsNewest,
      DisabledWaitsForNothing, NonePending, VerdictsNamed, VerdictOnReviewedText,
      PendingOnReviewedText
<1>6. RestTyped
  BY PipelineConstants DEF Init, RestTyped
<1>7. JobsInv
  <2>1. PICK k \in Jobs : jobs = [i \in Jobs |->
           IF i = k /\ config.transcription = "provider" THEN [Idle EXCEPT !.pc = "kick"] ELSE Idle]
    BY DEF Init
  <2>2. [Idle EXCEPT !.pc = "kick"] \in Job /\ [Idle EXCEPT !.pc = "kick"].pc = "kick"
    BY DEF Idle, Job, Pcs
  <2>3. Idle \in Job /\ Idle.pc = "idle"
    BY BlankTypes DEF Idle
  <2> QED
    BY <2>1, <2>2, <2>3 DEF JobsInv, JobFits, Fits
<1> QED
  BY <1>5, <1>6, <1>7 DEF PipelineInv

LEMMA PipelineNextInv ==
  ASSUME PipelineInv, [Next]_vars
  PROVE  PipelineInv' /\ Grows
<1>1. ASSUME NEW j \in Jobs, JobStep(j)
      PROVE  PipelineInv' /\ Grows
  BY <1>1, PrepareInv, TranscribeInv, TranslateInv, ModerateInv DEF JobStep
<1>2. ASSUME NEW j \in Jobs, WorkerTranscription(j) \/ OperatorTranscription(j)
      PROVE  PipelineInv' /\ Grows
  BY <1>2, TranscriptInv DEF WorkerTranscription, OperatorTranscription
<1>3. ASSUME NEW j \in Jobs, ClientStep(j)
      PROVE  PipelineInv' /\ Grows
  BY <1>2, <1>3, TranslationInv, VerdictInv, OthersInv DEF ClientStep
<1>4. CASE \E x \in Translations : OperatorTranslation(x)
  BY <1>4, TranslationInv
<1> QED
  BY <1>1, <1>3, <1>4, OthersInv DEF Next

(* The rows, the counters and the calls in flight keep their types, and rows  *)
(* are numbered without gaps (lib/ai/pipeline.ts).                          *)
THEOREM PipelineTypeCorrect == Spec => []TypeOK
<1>1. PipelineInv => TypeOK
  BY PipelineConstants
  DEF PipelineInv, RowsInv, RowsTyped, RowsNumbered, JobsInv, RestTyped, TypeOK, NoTranscription,
      NoModeration, TrIds, ModIds
<1> QED
  BY <1>1, PipelineInitInv, PipelineNextInv, PTL DEF Spec

(* At most one attempt at a transcript is pending, and it is the newest,     *)
(* however many calls prepare one at once (prepareTranscription).           *)
THEOREM OnePendingAttempt == Spec => []PendingIsNewest
<1>1. PipelineInv => PendingIsNewest
  BY DEF PipelineInv, RowsInv
<1> QED
  BY <1>1, PipelineInitInv, PipelineNextInv, PTL DEF Spec

(* A verdict that counts was reached on the text under review, whichever of  *)
(* the provider, the app and the operators wrote last (pipeline.ts,          *)
(* review-text.ts).                                                        *)
THEOREM VerdictsCurrent == Spec => []VerdictOnReviewedText
<1>1. PipelineInv => VerdictOnReviewedText
  BY DEF PipelineInv, RowsInv
<1> QED
  BY <1>1, PipelineInitInv, PipelineNextInv, PTL DEF Spec

(* An attempt that is over keeps its outcome and its text, however late      *)
(* another answer arrives (pipeline.ts, push-work.ts).                     *)
THEOREM HistoryKept == Spec => HistoryStands
<1>1. PipelineInv /\ [Next]_vars =>
        [\A t \in TrIds : trs[t].status \in {"succeeded", "failed"} =>
           /\ trs'[t].status = trs[t].status
           /\ trs'[t].text = trs[t].text
           /\ trs'[t].prov = trs[t].prov]_vars
  BY PipelineNextInv DEF Grows
<1> QED
  BY <1>1, PipelineInitInv, PipelineNextInv, PTL DEF Spec, HistoryStands

(* A finished translation is replaced by an operator's and by nothing else   *)
(* (runTranslation, push-work.ts, routes/messages.ts).                     *)
THEOREM TranslationKept == Spec => TranslationStands
<1>1. PipelineInv /\ [Next]_vars =>
        [\A t \in TrIds : trs[t].tstat = "succeeded" =>
           /\ trs'[t].tstat = "succeeded"
           /\ trs'[t].ttext = trs[t].ttext \/ \E x \in Translations : OperatorTranslation(x)]_vars
  BY PipelineNextInv DEF Grows, OperatorTranslates
<1> QED
  BY <1>1, PipelineInitInv, PipelineNextInv, PTL DEF Spec, TranslationStands

(* Whatever the pipeline, the app and the operators do to the rows is a       *)
(* review of one text at a time: a verdict stops to count when the text it   *)
(* is about is replaced, and what is over stays over (pipeline.ts,           *)
(* review-text.ts).                                                        *)
THEOREM PipelineImplementsReview == Spec => ReviewSpec
<1>1. Init => Review!RInit
  <2> SUFFICES ASSUME Init PROVE Review!RInit
    OBVIOUS
  <2>1. LatestSucceeded(0)
    BY DEF Init, LatestSucceeded, NoTranscription
  <2>2. Latest = 0
    BY <2>1, LatestIs, PipelineConstants
  <2>3. \A m \in ModIds : Standing(mods[m]) = "open"
    BY DEF Init, NoModeration, Standing
  <2> QED
    BY <2>2, <2>3 DEF Review!RInit, Translated, UnderReview
<1>2. PipelineInv /\ [Next]_vars => [Review!RNext]_(Review!reviewVars)
  BY PipelineNextInv DEF Grows, ReviewMoves
<1> QED
  BY <1>1, <1>2, PipelineInitInv, PipelineNextInv, PTL DEF Spec, ReviewSpec, Review!ReviewSpec

-----------------------------------------------------------------------------
(* Without an in-process moderation provider there is no call whose error    *)
(* path could write the status, so a decided message stays decided. With one *)
(* it need not: the run PipelineDocDecided shows how.                       *)
NoErrorPath ==
  /\ config.moderation # "provider"
  /\ \A j \in Jobs : jobs[j].pc \notin {"moderating", "errread", "errwrite"}

LEMMA NoErrorPathNext ==
  ASSUME PipelineInv, NoErrorPath, [Next]_vars
  PROVE  NoErrorPath' /\ (status = "decided" => status' = "decided")
<1>1. UNCHANGED config
  BY PipelineNextInv DEF Grows
<1>2. ASSUME NEW j \in Jobs, NEW job, Goto(j, job), job.pc \notin {"moderating", "errread", "errwrite"}
      PROVE  NoErrorPath'
  BY <1>1, <1>2 DEF NoErrorPath, Goto, PipelineInv, JobsInv
<1>3. ASSUME UNCHANGED jobs
      PROVE  NoErrorPath'
  BY <1>1, <1>3 DEF NoErrorPath
<1>4. Idle.pc = "idle"
  BY DEF Idle
<1>5. \A pc, t : At(pc, t).pc = pc
  BY DEF At, Idle
<1>6. ASSUME NEW j \in Jobs,
             \/ \E pc \in {"nudge", "translate", "moderate"} : \E t : Goto(j, At(pc, t))
             \/ Goto(j, Idle)
      PROVE  NoErrorPath'
  BY <1>2, <1>4, <1>5, <1>6
<1>7. ASSUME NEW j \in Jobs, JobStep(j)
      PROVE  NoErrorPath' /\ (status = "decided" => status' = "decided")
  <2>1. CASE BeginTranscription(j)
    <3>1. PICK t \in 0 .. ntr : Goto(j, [Idle EXCEPT !.pc = "begun", !.seen = t])
      BY <2>1 DEF BeginTranscription
    <3>2. [Idle EXCEPT !.pc = "begun", !.seen = t].pc = "begun"
      BY DEF Idle
    <3> QED
      BY <1>2, <2>1, <3>1, <3>2 DEF BeginTranscription
  <2>2. CASE SkipTranscription(j) \/ PreparePush(j) \/ PrepareDisabled(j) \/ PrepareServer(j)
    BY <1>2, <1>4, <1>5, <2>2
    DEF SkipTranscription, PreparePush, PrepareDisabled, PrepareServer, End
  <2>3. CASE \/ \E text \in Texts : TranscribeDone(j, text)
             \/ TranscribeFail(j) \/ Nudge(j)
    <3>1. \/ \E pc \in {"nudge", "translate", "moderate"} : Goto(j, At(pc, jobs[j].tr))
          \/ Goto(j, Idle)
      BY <2>3 DEF TranscribeDone, TranscribeFail, Nudge, End
    <3> QED
      BY <1>6, <2>3, <3>1 DEF TranscribeDone, TranscribeFail, Nudge
  <2>4. CASE \/ TranslateRead(j) \/ TranslateClaim(j)
             \/ \E x \in Translations : TranslateDone(j, x)
             \/ TranslateFail(j)
    BY <1>2, <1>4, <1>5, <2>4 DEF TranslateRead, TranslateClaim, TranslateDone, TranslateFail, End
  <2>5. CASE SkipModeration(j) \/ ModeratePush(j) \/ ModerateDisabled(j)
    BY <1>2, <1>4, <2>5 DEF SkipModeration, ModeratePush, ModerateDisabled, End
  <2>6. CASE ModerateStart(j) \/ ModerateDone(j) \/ ModerateFail(j) \/ ErrorRead(j) \/ ErrorWrite(j)
    BY <2>6 DEF NoErrorPath, ModerateStart, ModerateDone, ModerateFail, ErrorRead, ErrorWrite
  <2> QED
    BY <1>7, <2>1, <2>2, <2>3, <2>4, <2>5, <2>6 DEF JobStep
<1>8. ASSUME NEW j \in Jobs, ClientStep(j) \/ Sweep(j)
      PROVE  NoErrorPath' /\ (status = "decided" => status' = "decided")
  <2>1. CASE OperatorTranscribe(j) \/ OperatorModerate(j) \/ Sweep(j) \/ OperatorUntargeted(j)
    BY <1>2, <1>5, <2>1 DEF OperatorTranscribe, OperatorModerate, Sweep, OperatorUntargeted
  <2>2. CASE WorkerTranscription(j) \/ OperatorTranscription(j)
    <3>1. ASSUME NEW target, NEW text, NEW prov, NEW down, FinalizeTranscript(j, target, text, prov, down)
          PROVE  NoErrorPath' /\ status' = status
      <4>1. PICK p \in TrIds : Goto(j, IF text = Empty THEN At("nudge", 0)
                                       ELSE IF down THEN At("translate", p) ELSE Idle)
        BY <3>1 DEF FinalizeTranscript
      <4>2. Goto(j, At("nudge", 0)) \/ Goto(j, At("translate", p)) \/ Goto(j, Idle)
        BY <4>1
      <4> QED
        BY <1>6, <3>1, <4>2 DEF FinalizeTranscript
    <3>2. ASSUME NEW text, NEW prov, NEW down, NEW same, AddTranscript(j, text, prov, down, same)
          PROVE  NoErrorPath' /\ status' = status
      <4>1. Goto(j, At("nudge", 0)) \/ Goto(j, At("translate", ntr + 1)) \/ Goto(j, Idle)
        BY <3>2 DEF AddTranscript
      <4> QED
        BY <1>6, <3>2, <4>1 DEF AddTranscript
    <3> QED
      BY <2>2, <3>1, <3>2 DEF WorkerTranscription, OperatorTranscription
  <2>3. CASE \E t \in 1 .. ntr, input \in Texts, x \in Translations : WorkerTranslation(j, t, input, x)
    BY <1>2, <1>5, <2>3 DEF WorkerTranslation
  <2>4. CASE \E t \in 1 .. ntr, input \in AllTexts : WorkerVerdict(j, t, input) \/ OperatorVerdict(j, t, input)
    <3>1. Goto(j, At("nudge", 0)) /\ status' = status
      BY <2>4 DEF WorkerVerdict, OperatorVerdict, FinalizeVerdict
    <3> QED
      BY <1>6, <3>1
  <2> QED
    BY <1>8, <2>1, <2>2, <2>3, <2>4 DEF ClientStep
<1>9. CASE Crash
  BY <1>1, <1>4, <1>9 DEF Crash, NoErrorPath
<1> QED
  BY <1>3, <1>7, <1>8, <1>9 DEF Next, OperatorTranslation, Age, Decide, vars

(* Where moderation is served by the app or not at all, nothing returns a    *)
(* decided message to the queue (advanceMessageAfterModeration).            *)
THEOREM DecidedKept ==
  ASSUME \A c \in Configs : c.moderation # "provider"
  PROVE  Spec => DecidedStays
<1>1. Init => NoErrorPath
  <2> SUFFICES ASSUME Init PROVE NoErrorPath
    OBVIOUS
  <2>1. config.moderation # "provider"
    BY DEF Init
  <2>2. Idle.pc = "idle" /\ [Idle EXCEPT !.pc = "kick"].pc = "kick"
    BY DEF Idle
  <2> QED
    BY <2>1, <2>2 DEF Init, NoErrorPath
<1>2. PipelineInv /\ NoErrorPath /\ [Next]_vars => NoErrorPath'
  BY NoErrorPathNext
<1>3. PipelineInv /\ NoErrorPath /\ [Next]_vars => [status = "decided" => status' = "decided"]_vars
  BY NoErrorPathNext
<1> QED
  BY <1>1, <1>2, <1>3, PipelineInitInv, PipelineNextInv, PTL DEF Spec, DecidedStays

=============================================================================
