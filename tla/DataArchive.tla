----------------------------- MODULE DataArchive -----------------------------
(***************************************************************************)
(* Backup and restore (lib/data-archive.ts): an archive of the whole       *)
(* instance or of one installation, taken at any time, and restored later  *)
(* into the same instance or into a fresh one.  Of the rows, those that    *)
(* refer to one another are kept: installations, each with one question,   *)
(* recordings and operators.  Audio is left out, and with it the columns   *)
(* that are unique: an archive is also refused, with nothing written, when *)
(* a prompt, a file's content or key, or an address belongs by now to a    *)
(* row with another id.                                                    *)
(***************************************************************************)
EXTENDS Naturals, FiniteSets

CONSTANTS
    Recs,       \* recordings
    Staff,      \* operators
    NoStaff,
    Unfrozen,   \* an installation without counters
    Shelf,      \* archives kept at a time
    TakesNull,  \* the database client writes a plain null to a Json column
    LastEra     \* bound on the installations

ASSUME ArchiveAssumption ==
    /\ LastEra \in Nat \ {0} /\ IsFiniteSet(Recs) /\ IsFiniteSet(Staff)
    /\ NoStaff \notin Staff /\ \A S \in SUBSET Recs : S # Unfrozen
    /\ TakesNull \in BOOLEAN

(* Era 0 is the installation that a restore makes for rows older than      *)
(* installations; on a recording 0 stands for no installation, no question.*)
EraIds == 0..LastEra

NoEraRow == [state |-> "absent", summary |-> Unfrozen, endedBy |-> NoStaff]
NoRec == [status |-> "absent", era |-> 0, asked |-> 0, decidedBy |-> NoStaff,
          classifiedBy |-> NoStaff]
EmptyDump == [era |-> [e \in EraIds |-> NoEraRow], rec |-> [r \in Recs |-> NoRec], staff |-> {}]

(* An archive written before installations existed (version 3).            *)
LegacyArchives ==
    {[dump |-> [EmptyDump EXCEPT !.rec = [r \in Recs |-> [NoRec EXCEPT !.status = status]]],
      scope |-> "legacy", partial |-> {}] : status \in {"pending", "decided"}}

VARIABLES
    store,     \* the instance's rows
    archive,   \* the archives kept: a function over part of Shelf
    used       \* ids of installations and recordings: none is given twice

archiveVars == <<store, archive, used>>

ArchiveInit ==
    /\ store = EmptyDump
    /\ archive \in UNION {[kept -> LegacyArchives] : kept \in SUBSET Shelf}
    /\ used = [eras |-> {0}, recs |-> IF DOMAIN archive = {} THEN {} ELSE Recs]

-----------------------------------------------------------------------------
(* What happens to the rows between an export and a restore.               *)

OpenEras(d) == {e \in EraIds : d.era[e].state = "open"}
Ended(d) == {e \in EraIds : d.era[e].state = "ended"}
RecsOf(d, e) == {r \in Recs : d.rec[r].status # "absent" /\ d.rec[r].era = e}

(* closeOutInstallation and the update that ends the installation.         *)
ClosedOut(d, e, o) ==
    [d EXCEPT !.era[e] = [state |-> "ended", summary |-> RecsOf(d, e), endedBy |-> o],
              !.rec = [r \in Recs |->
                         IF r \in RecsOf(d, e) /\ d.rec[r].status = "pending"
                         THEN [d.rec[r] EXCEPT !.status = "decided", !.decidedBy = NoStaff]
                         ELSE d.rec[r]]]

SignIn(o) ==
    /\ o \notin store.staff
    /\ store' = [store EXCEPT !.staff = @ \cup {o}]
    /\ UNCHANGED <<archive, used>>

BeginEra(e) ==
    /\ OpenEras(store) = {} /\ e \notin used.eras
    /\ store' = [store EXCEPT !.era[e].state = "open"]
    /\ used' = [used EXCEPT !.eras = @ \cup {e}]
    /\ UNCHANGED archive

FinishEra(e, o) ==
    /\ e \in OpenEras(store) /\ o \in store.staff
    /\ store' = ClosedOut(store, e, o)
    /\ UNCHANGED <<archive, used>>

(* A recording is filed in the open installation; its question may stem    *)
(* from an earlier one.                                                    *)
FileRec(r, e, asked) ==
    /\ r \notin used.recs /\ e \in OpenEras(store)
    /\ asked \in {e} \cup Ended(store)
    /\ store' = [store EXCEPT !.rec[r] = [NoRec EXCEPT !.status = "pending", !.era = e,
                                                      !.asked = asked]]
    /\ used' = [used EXCEPT !.recs = @ \cup {r}]
    /\ UNCHANGED archive

DecideRec(r, o) ==
    /\ store.rec[r].status = "pending" /\ o \in store.staff
    /\ store' = [store EXCEPT !.rec[r].status = "decided", !.rec[r].decidedBy = o]
    /\ UNCHANGED <<archive, used>>

(* A device of the operator completes the recording it holds: the same     *)
(* person is kept as the lease's holder until the next claim.              *)
ClassifyRec(r, o) ==
    /\ store.rec[r].status = "pending" /\ o \in store.staff
    /\ store' = [store EXCEPT !.rec[r].classifiedBy = o]
    /\ UNCHANGED <<archive, used>>

(* DELETE /installations/:id.  A recording of another installation loses   *)
(* the question it answered.                                               *)
PurgeEra(e) ==
    /\ e \in Ended(store)
    /\ store' = [store EXCEPT
                   !.era[e] = NoEraRow,
                   !.rec = [r \in Recs |-> IF r \in RecsOf(store, e) THEN NoRec
                                           ELSE IF store.rec[r].asked = e
                                           THEN [store.rec[r] EXCEPT !.asked = 0]
                                           ELSE store.rec[r]]]
    /\ UNCHANGED <<archive, used>>

(* Another instance is set up, with nothing in it.                         *)
FreshInstance ==
    /\ store # EmptyDump
    /\ store' = EmptyDump
    /\ UNCHANGED <<archive, used>>

-----------------------------------------------------------------------------
(* Export: one RepeatableRead transaction.                                 *)

(* questionScopeArgs, installationScopeArgs: the installation's own        *)
(* question, and those its recordings answer, with their installations.    *)
(* Mutant: its own question only. *)
ScopedErasOwn(e) == {e}
ScopedEras(e) == {e} \cup ({store.rec[r].asked : r \in RecsOf(store, e)} \ {0})

(* OPERATOR_REFERENCES.                                                    *)
ReferencedOperators(d) ==
    ({d.era[e].endedBy : e \in EraIds} \cup {d.rec[r].decidedBy : r \in Recs}) \ {NoStaff}

ScopedDump(e) ==
    LET rows == [era |-> [x \in EraIds |->
                            IF x = e THEN store.era[x]
                            ELSE IF x \in ScopedEras(e)
                            THEN [store.era[x] EXCEPT !.summary = Unfrozen] ELSE NoEraRow],
                 rec |-> [r \in Recs |-> IF r \in RecsOf(store, e) THEN store.rec[r] ELSE NoRec],
                 staff |-> {}]
    IN  [rows EXCEPT !.staff = ReferencedOperators(rows)]

Keep(a, x) == archive' = [b \in DOMAIN archive \cup {a} |-> IF b = a THEN x ELSE archive[b]]

ExportAll(a) ==
    /\ Keep(a, [dump |-> store, scope |-> "all", partial |-> {}])
    /\ UNCHANGED <<store, used>>

ExportEra(a, e) ==
    /\ store.era[e] # NoEraRow
    /\ Keep(a, [dump |-> ScopedDump(e), scope |-> "era", partial |-> ScopedEras(e) \ {e}])
    /\ UNCHANGED <<store, used>>

-----------------------------------------------------------------------------
(* Restore: one transaction.                                               *)

(* reconcileActiveInstallation: the open installation yields to the        *)
(* archive's.                                                              *)
ReconciledStore(d, a) ==
    LET incoming == OpenEras(a.dump)
        yielding == OpenEras(d) \ incoming
    IN  IF incoming = {} \/ yielding = {} THEN d
        ELSE ClosedOut(d, CHOOSE e \in yielding : TRUE, NoStaff)

(* The upserts.  A partial installation is created, never updated.         *)
(* Mutant: it is updated like any other row. *)
KeepsEraRowNever(d, a, e) == a.dump.era[e] = NoEraRow
KeepsEraRow(d, a, e) == a.dump.era[e] = NoEraRow \/ (e \in a.partial /\ d.era[e] # NoEraRow)

Upserted(d, a) ==
    [era |-> [e \in EraIds |-> IF KeepsEraRow(d, a, e) THEN d.era[e] ELSE a.dump.era[e]],
     rec |-> [r \in Recs |-> IF a.dump.rec[r] = NoRec THEN d.rec[r] ELSE a.dump.rec[r]],
     staff |-> d.staff \cup a.dump.staff]

(* adoptLegacyRows: they are filed in an installation that has ended.      *)
Adopted(d, a) ==
    LET adopted == [d EXCEPT !.rec = [r \in Recs |-> IF a.dump.rec[r] = NoRec THEN d.rec[r]
                                                     ELSE [d.rec[r] EXCEPT !.era = 0]]]
    IN  IF a.scope = "legacy" THEN ClosedOut(adopted, 0, NoStaff) ELSE d

Restored(d, a) == Adopted(Upserted(ReconciledStore(d, a), a), a)

(* An installation without counters, open or partial, is upserted with a   *)
(* plain null for them.  The code's own comment on the audit log has the   *)
(* client reject that, which would refuse every such archive; it is the    *)
(* client's affair, so TakesNull says whether it does.                     *)
Writable(a) ==
    \/ TakesNull
    \/ \A e \in EraIds : a.dump.era[e] # NoEraRow => a.dump.era[e].summary # Unfrozen

(* The constraints between rows: one open installation, and no dangling    *)
(* reference.                                                              *)
People(d) == ReferencedOperators(d) \cup ({d.rec[r].classifiedBy : r \in Recs} \ {NoStaff})
RefersToRows(d) ==
    \A r \in Recs : \A e \in {d.rec[r].era, d.rec[r].asked} \ {0} : d.era[e] # NoEraRow
Acceptable(d) ==
    Cardinality(OpenEras(d)) <= 1 /\ RefersToRows(d) /\ People(d) \subseteq d.staff

Restore(a) ==
    /\ a \in DOMAIN archive /\ Writable(archive[a])
    /\ Acceptable(Restored(store, archive[a]))
    /\ store' = Restored(store, archive[a])
    /\ UNCHANGED <<archive, used>>

ArchiveNext ==
    \/ \E o \in Staff : SignIn(o)
    \/ \E e \in EraIds : \/ BeginEra(e) \/ PurgeEra(e) \/ \E a \in Shelf : ExportEra(a, e)
                         \/ \E o \in Staff : FinishEra(e, o)
                         \/ \E r \in Recs, asked \in EraIds : FileRec(r, e, asked)
    \/ \E r \in Recs, o \in Staff : DecideRec(r, o) \/ ClassifyRec(r, o)
    \/ FreshInstance \/ \E a \in Shelf : ExportAll(a) \/ Restore(a)

ArchiveSpec == ArchiveInit /\ [][ArchiveNext]_archiveVars

-----------------------------------------------------------------------------
(* The rows of an archive fit where it is restored, whatever happened to   *)
(* the instance since and on a fresh one too: at most one installation is  *)
(* open afterwards and no row refers to one that is missing.  Of an        *)
(* archive of one installation this is claimed where everyone who          *)
(* classified one of its recordings is known.  A restore may still be      *)
(* refused for a column that is unique or for counters that are null.      *)
RestoredRowsFit ==
    \A a \in DOMAIN archive, d \in {store, EmptyDump} :
      LET after == Restored(d, archive[a])
      IN  /\ Cardinality(OpenEras(after)) <= 1
          /\ RefersToRows(after)
          /\ archive[a].scope = "era" \/ People(after) \subseteq after.staff

(* An installation that has ended has an empty queue, and counters if it   *)
(* has recordings.                                                         *)
WellFormed(d) ==
    \A e \in Ended(d) :
      /\ \A r \in RecsOf(d, e) : d.rec[r].status = "decided"
      /\ RecsOf(d, e) # {} => d.era[e].summary # Unfrozen

(* The installations that an archive brings as ended are so.               *)
BringsSettled(a) ==
    \A e \in Ended(a.dump) \ a.partial :
      /\ \A r \in RecsOf(a.dump, e) : a.dump.rec[r].status = "decided"
      /\ a.dump.era[e].summary # Unfrozen

(* A restore leaves every ended installation settled: the one that yields, *)
(* the one that adopts legacy rows, those the archive brings and those it  *)
(* only refers to.  Two archives are excepted: one that ends the           *)
(* installation open here, whose recordings the archive lacks stay in the  *)
(* queue, and one taken where an ended installation was not settled: after *)
(* such a restore, or known only partially and so without counters.        *)
RestoreSettles ==
    \A a \in DOMAIN archive :
      /\ store' = Restored(store, archive[a])
      /\ WellFormed(store) /\ BringsSettled(archive[a])
      /\ OpenEras(store) \cap Ended(archive[a].dump) = {}
      => WellFormed(store')
=============================================================================
