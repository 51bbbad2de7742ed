------------------------ MODULE TranscriptMutationProofs ------------------------
(* Theorems about TranscriptMutation, for a transcript of any number of     *)
(* writes and crashes.  They are about the incremental catalog scan: the    *)
(* legacy one breaks them.                                                 *)
EXTENDS TranscriptMutation, TLAPS

-----------------------------------------------------------------------------
(* The inductive invariant.                                                *)

\* A mutation past its fence holds the session's marker, and the recovery of
\* the journal has nothing to do with it.
MutationOwnsMarker ==
  /\ pc \in {"fenced", "rewritten", "reconciling", "indexing", "reindexingMarked"}
       => marker = "event" /\ rec = "done" /\ Catalogued /\ file # 0
  /\ pc \in {"fenced", "rewritten", "reconciling"} => fence
  /\ pc \in {"indexing", "reindexingMarked"} => ~ fence
  /\ pc = "fenced" => ~ rewritten

DeletionOwnsMarker ==
  /\ pc \in {"rowDeleted", "unlinked"} => marker = "delete" /\ rec = "done"
  /\ pc = "unlinked" => file = 0
  /\ marker = "delete" => row = "deleted"

RecoveryHasMarker ==
  /\ rec # "done" => marker # "none"
  /\ rec \in {"reconciling", "indexing"} => marker = "event" /\ Catalogued /\ file # 0
  /\ rec = "reconciling" => fence
  /\ rec = "indexing" => ~ fence
  /\ rec \in {"removing", "unlinked"} => marker = "delete"
  /\ rec = "unlinked" => file = 0

RedactedIsWritten ==
  /\ file # 0 => redacted <= file
  /\ row = "none" => redacted = 0

\* A scan that read what was removed can be committed only under the fence, and
\* is not the one that a reconciliation waits for.
ScanSafe ==
  scan.fresh /\ scan.version < redacted
    => marker = "event" /\ fence /\ pc # "fenced" /\ ~ ScanAwaited

\* Where the marker may be taken back or cleared the row holds nothing that
\* was removed.
MetaClean ==
  \/ pc \in {"fenced", "reconciling", "indexing"}
  \/ rec \in {"reconciling", "indexing"}
  => Clean(meta)

\* Metadata that may hold what was removed is not indexed: the fence is up, or
\* the recovery that the marker asks for has not come to it.
MetaSafe ==
  ~ Clean(meta)
    => /\ marker = "event"
       /\ \/ fence
          \/ rec = "boot" /\ "recovery" \notin queued /\ active.key # "recovery"

IInv ==
  /\ TypeOK /\ MutationOwnsMarker /\ DeletionOwnsMarker /\ RecoveryHasMarker
  /\ RedactedIsWritten /\ ScanSafe /\ MetaClean /\ MetaSafe
  /\ NothingRemovedIsIndexed /\ FencedIsUnpublished /\ OrphanIsMarked

LEMMA Initially == Init => IInv
<1> SUFFICES ASSUME Init PROVE IInv
  OBVIOUS
<1>1. /\ 0 \in Versions /\ 1 \in Versions /\ scan.version = 0 /\ scan.fresh = FALSE
      /\ active.key = "none"
  BY BoundsAssumption DEF Versions, Init, NoScan, NoJob
<1>2. TypeOK
  <2>1. scan \in [version : Versions, fresh : BOOLEAN]
    BY <1>1 DEF Init, NoScan
  <2>2. crashes \in 0 .. MaxCrashes
    BY BoundsAssumption DEF Init
  <2> QED BY <1>1, <2>1, <2>2 DEF Init, TypeOK
<1>3. redacted = 0 /\ (row = "kept" => meta = 1) /\ published = 0 /\ smeta = 0 /\ ~ fence
  BY DEF Init
<1> QED
  BY <1>1, <1>2, <1>3
     DEF Init, IInv, MutationOwnsMarker, DeletionOwnsMarker, RecoveryHasMarker,
         RedactedIsWritten, ScanSafe, MetaClean, MetaSafe, Clean, NothingRemovedIsIndexed,
         FencedIsUnpublished, OrphanIsMarked, Catalogued

-----------------------------------------------------------------------------
(* The queue of the index.                                                 *)

QueueType ==
  /\ queued \subseteq Keys /\ outdated \subseteq queued
  /\ active \in {NoJob} \union [key : Keys, at : {"reading", "published"},
                                version : Versions, meta : Versions, stale : BOOLEAN]
  /\ answer \in [Keys -> {"idle", "pending", "ok", "failed"}]

LEMMA RequestTyped ==
  ASSUME QueueType, NEW k \in Keys, NEW m, NEW f, Request(k, m, f)
  PROVE  /\ QueueType' /\ active' = active /\ queued' \subseteq queued \union {k}
<1>1. /\ active' = active /\ queued' \subseteq queued \union {k} /\ outdated' \subseteq queued'
      /\ \E x \in {"idle", "pending", "ok", "failed"} : answer' = [answer EXCEPT ![k] = x]
  <2>1. CASE f \/ (k = "recovery") # (m = "event")
    BY <2>1 DEF Request, QueueType
  <2>2. CASE ~ (f \/ (k = "recovery") # (m = "event"))
    BY <2>2 DEF Request, QueueType
  <2> QED BY <2>1, <2>2
<1> QED BY <1>1 DEF QueueType

LEMMA CancelTyped ==
  ASSUME QueueType, CancelWork
  PROVE  QueueType' /\ queued' = {} /\ (active' = NoJob \/ active'.key = active.key)
BY DEF CancelWork, QueueType, Keys, Told, NoJob

LEMMA SettleTyped ==
  ASSUME QueueType, NEW said \in {"ok", "failed"}, Settle(said)
  PROVE  active' = NoJob /\ answer' \in [Keys -> {"idle", "pending", "ok", "failed"}]
BY DEF Settle, QueueType, Keys, Told, NoJob

-----------------------------------------------------------------------------
(* One lemma per action.                                                   *)

USE DEF IInv, MutationOwnsMarker, DeletionOwnsMarker, RecoveryHasMarker, RedactedIsWritten,
        ScanSafe, ScanAwaited, MetaClean, MetaSafe, Clean, NothingRemovedIsIndexed,
        FencedIsUnpublished, OrphanIsMarked, Catalogued

LEMMA VersionsAreNaturals ==
  /\ 0 \in Versions /\ \A v \in Versions : v \in Nat /\ v <= MaxVersion
  /\ \A v \in Versions : v < MaxVersion => v + 1 \in Versions
BY BoundsAssumption DEF Versions

LEMMA Queue == TypeOK => QueueType
BY DEF TypeOK, QueueType

LEMMA RequestIndexKeeps ==
  ASSUME IInv, ~ Legacy, RequestIndex
  PROVE  IInv'
<1>1. QueueType /\ Request("ordinary", marker, fence)
  BY Queue DEF RequestIndex
<1>2. /\ QueueType' /\ active' = active
      /\ queued' \subseteq queued \union {"ordinary"}
  BY <1>1, RequestTyped DEF Keys
<1>3. TypeOK'
  BY <1>2, VersionsAreNaturals DEF TypeOK, RequestIndex, QueueType, durable
<1> QED BY <1>2, <1>3, VersionsAreNaturals DEF TypeOK, RequestIndex, Writing, durable

LEMMA PublishKeeps ==
  ASSUME IInv, ~ Legacy, Publish
  PROVE  IInv'
<1>1. /\ active \in [key : Keys, at : {"reading", "published"}, version : Versions,
                      meta : Versions, stale : BOOLEAN]
      /\ active' = [active EXCEPT !.at = "published"]
  BY DEF Publish, TypeOK, NoJob
<1>2. /\ active' \in [key : Keys, at : {"reading", "published"}, version : Versions,
                       meta : Versions, stale : BOOLEAN]
      /\ active'.key = active.key
  BY <1>1
<1>3. TypeOK'
  BY <1>1, <1>2 DEF TypeOK, Publish
<1> QED BY <1>2, <1>3, VersionsAreNaturals
        DEF TypeOK, Publish, AuthCurrent, MetadataCurrent, MarkerFits

LEMMA FinishJobKeeps ==
  ASSUME IInv, ~ Legacy, FinishJob
  PROVE  IInv'
<1>1. active' = NoJob /\ answer' \in [Keys -> {"idle", "pending", "ok", "failed"}]
  BY Queue, SettleTyped DEF FinishJob
<1>2. TypeOK'
  BY <1>1 DEF TypeOK, FinishJob, durable
<1>3. active'.key # "recovery"
  BY <1>1 DEF NoJob
<1> QED BY <1>2, <1>3, VersionsAreNaturals DEF TypeOK, FinishJob, durable

LEMMA InvalidateJobKeeps ==
  ASSUME IInv, ~ Legacy, InvalidateJob
  PROVE  IInv'
<1>1. active' = NoJob /\ answer' \in [Keys -> {"idle", "pending", "ok", "failed"}]
  BY Queue, SettleTyped DEF InvalidateJob
<1>2. /\ smeta' \in {smeta, 0} /\ published' \in {published, 0} /\ outdated' \in {outdated, queued}
      /\ UNCHANGED <<row, file, redacted, rewritten, meta, marker,
                     fence, deleted, pc, rec, scan, queued, crashes>>
  BY DEF InvalidateJob
<1>3. TypeOK'
  BY <1>1, <1>2, VersionsAreNaturals DEF TypeOK
<1>4. active'.key # "recovery"
  BY <1>1 DEF NoJob
<1> QED BY <1>2, <1>3, <1>4, VersionsAreNaturals DEF TypeOK

LEMMA RetryJobKeeps ==
  ASSUME IInv, ~ Legacy, RetryJob
  PROVE  IInv'
<1>1. /\ smeta' \in {smeta, 0} /\ published' = 0 /\ outdated' \in {outdated, queued}
      /\ active # NoJob
      /\ UNCHANGED <<row, file, redacted, rewritten, meta, marker,
                     fence, deleted, pc, rec, scan, queued, crashes>>
  BY DEF RetryJob
<1>2. CASE Settle("failed")
  <2>1. active' = NoJob /\ answer' \in [Keys -> {"idle", "pending", "ok", "failed"}]
    BY <1>2, Queue, SettleTyped
  <2>2. TypeOK'
    BY <1>1, <2>1, VersionsAreNaturals DEF TypeOK
  <2>3. active'.key # "recovery"
    BY <2>1 DEF NoJob
  <2> QED BY <1>1, <2>2, <2>3, VersionsAreNaturals DEF TypeOK
<1>3. CASE active' = [active EXCEPT !.at = "reading", !.meta = meta] /\ UNCHANGED answer
  <2>1. /\ active' \in [key : Keys, at : {"reading", "published"}, version : Versions,
                         meta : Versions, stale : BOOLEAN]
        /\ active'.key = active.key
    BY <1>1, <1>3 DEF TypeOK
  <2>2. TypeOK'
    BY <1>1, <1>3, <2>1, VersionsAreNaturals DEF TypeOK
  <2> QED BY <1>1, <2>1, <2>2, VersionsAreNaturals DEF TypeOK
<1> QED BY <1>2, <1>3 DEF RetryJob

LEMMA FailJobKeeps ==
  ASSUME IInv, ~ Legacy, FailJob
  PROVE  IInv'
<1>1. active' = NoJob /\ answer' \in [Keys -> {"idle", "pending", "ok", "failed"}]
  BY Queue, SettleTyped DEF FailJob
<1>2. TypeOK'
  BY <1>1, VersionsAreNaturals DEF TypeOK, FailJob
<1>3. active'.key # "recovery"
  BY <1>1 DEF NoJob
<1> QED BY <1>2, <1>3, VersionsAreNaturals DEF TypeOK, FailJob

LEMMA StartJobKeeps ==
  ASSUME IInv, ~ Legacy, NEW k \in Keys, StartJob(k)
  PROVE  IInv'
<1>1. /\ queued' = queued \ {k} /\ outdated' = outdated \ {k}
      /\ UNCHANGED <<row, file, redacted, rewritten, meta, marker,
                     fence, deleted, pc, rec, scan, crashes>>
  BY DEF StartJob
<1>2. CASE JobRefused(k)
  <2>1. /\ UNCHANGED <<active, smeta, published>>
        /\ answer' = [answer EXCEPT ![k] = Told(k, "failed")]
    BY <1>2 DEF StartJob
  <2>2. TypeOK'
    BY <1>1, <2>1 DEF TypeOK, Told
  <2> QED BY <1>1, <2>1, <2>2, VersionsAreNaturals DEF TypeOK
<1>3. CASE /\ ~ JobRefused(k) /\ ~ JobDenied
           /\ k = "ordinary" /\ smeta' = meta /\ UNCHANGED <<active, published, answer>>
  <2>1. TypeOK'
    BY <1>1, <1>3 DEF TypeOK
  <2>2. marker # "event" /\ ~ fence
    BY <1>3 DEF JobRefused, JobDenied, MarkerFits
  <2> QED BY <1>1, <1>3, <2>1, <2>2, VersionsAreNaturals DEF TypeOK
<1>4. CASE /\ ~ JobRefused(k) /\ ~ JobDenied /\ published' = 0
           /\ active' = [key |-> k, at |-> "reading", version |-> file, meta |-> meta,
                         stale |-> FALSE]
           /\ UNCHANGED <<smeta, answer>>
  <2>1. active'.key = k
    BY <1>4
  <2>2. TypeOK'
    BY <1>1, <1>4, VersionsAreNaturals DEF TypeOK
  <2>3. k \in queued
    BY DEF StartJob
  <2> QED BY <1>1, <1>4, <2>1, <2>2, <2>3, VersionsAreNaturals DEF TypeOK
<1> QED BY <1>2, <1>3, <1>4 DEF StartJob

LEMMA DenyJobKeeps ==
  ASSUME IInv, ~ Legacy, NEW k \in Keys, DenyJob(k)
  PROVE  IInv'
<1>1. TypeOK'
  BY VersionsAreNaturals DEF TypeOK, DenyJob, Writing, durable, process, jobs, JobRefused, JobDenied, Purge, Told, Keys, QueueType
<1> QED BY <1>1, VersionsAreNaturals DEF TypeOK, DenyJob, Writing, durable, process, jobs, JobRefused, JobDenied, Purge, Told

LEMMA ScanReadKeeps ==
  ASSUME IInv, ~ Legacy, ScanRead
  PROVE  IInv'
<1>1. TypeOK'
  BY VersionsAreNaturals DEF TypeOK, ScanRead, Writing, durable, process, jobs, NoScan, Keys, QueueType
<1> QED BY <1>1, VersionsAreNaturals DEF TypeOK, ScanRead, Writing, durable, process, jobs, NoScan

\* What a scan may change: the row is derived from a version that it may hold.
LEMMA ScanEndsSafely ==
  ASSUME IInv, ~ Legacy, ScanEnds
  PROVE  /\ scan'.fresh = FALSE /\ scan' \in [version : Versions, fresh : BOOLEAN]
         /\ row' = row /\ meta' \in Versions
         /\ meta' = meta \/ (Catalogued /\ scan.fresh /\ meta' = scan.version)
<1>1. scan' = NoScan /\ NoScan.fresh = FALSE /\ NoScan \in [version : Versions, fresh : BOOLEAN]
  BY VersionsAreNaturals DEF ScanEnds, NoScan
<1>2. \/ row = "kept" /\ row' = "kept" /\ scan.fresh /\ meta' = scan.version
      \/ row' = row /\ meta' = meta
  BY DEF ScanEnds, Admitted
<1> QED BY <1>1, <1>2 DEF TypeOK

LEMMA ScanCommitKeeps ==
  ASSUME IInv, ~ Legacy, ScanCommit
  PROVE  IInv'
<1>1. /\ scan'.fresh = FALSE /\ scan' \in [version : Versions, fresh : BOOLEAN]
      /\ row' = row /\ meta' \in Versions
      /\ meta' = meta \/ (Catalogued /\ scan.fresh /\ meta' = scan.version)
      /\ UNCHANGED <<file, redacted, rewritten, marker, smeta, published,
                     fence, deleted, pc, rec, jobs, crashes>>
  BY ScanEndsSafely DEF ScanCommit
<1>2. TypeOK'
  BY <1>1 DEF TypeOK, jobs
<1>3. meta' \in Nat /\ redacted \in Nat /\ scan.version \in Nat
  BY <1>1, VersionsAreNaturals DEF TypeOK
<1>4. scan.fresh /\ meta' = scan.version /\ ~ Clean(meta)'
        => marker = "event" /\ fence /\ pc # "fenced" /\ ~ ScanAwaited
  BY <1>1, <1>3
<1>5. MetaSafe'
  BY <1>1, <1>3, <1>4 DEF jobs
<1>6. MetaClean'
  BY <1>1, <1>3, <1>4 DEF jobs
<1> QED BY <1>1, <1>2, <1>3, <1>5, <1>6 DEF jobs

LEMMA StageSessionKeeps ==
  ASSUME IInv, ~ Legacy, StageSession
  PROVE  IInv'
<1>1. TypeOK'
  BY VersionsAreNaturals DEF TypeOK, StageSession, Writing, durable, process, jobs, Keys, QueueType
<1> QED BY <1>1, VersionsAreNaturals DEF TypeOK, StageSession, Writing, durable, process, jobs

LEMMA AppendKeeps ==
  ASSUME IInv, ~ Legacy, Append
  PROVE  IInv'
<1>1. TypeOK'
  BY VersionsAreNaturals DEF TypeOK, Append, Writing, durable, process, jobs, Keys, QueueType
<1> QED BY <1>1, VersionsAreNaturals DEF TypeOK, Append, Writing, durable, process, jobs

LEMMA BeginKeeps ==
  ASSUME IInv, ~ Legacy, Begin
  PROVE  IInv'
<1>1. TypeOK'
  BY VersionsAreNaturals DEF TypeOK, Begin, Writing, durable, process, jobs, Keys, QueueType
<1> QED BY <1>1, VersionsAreNaturals DEF TypeOK, Begin, Writing, durable, process, jobs

LEMMA PinAcceptedKeeps ==
  ASSUME IInv, ~ Legacy, PinAccepted
  PROVE  IInv'
<1>1. TypeOK'
  BY VersionsAreNaturals DEF TypeOK, PinAccepted, Writing, durable, process, jobs, Keys, QueueType
<1> QED BY <1>1, VersionsAreNaturals DEF TypeOK, PinAccepted, Writing, durable, process, jobs

LEMMA RefuseKeeps ==
  ASSUME IInv, ~ Legacy, Refuse
  PROVE  IInv'
<1>1. TypeOK'
  BY VersionsAreNaturals DEF TypeOK, Refuse, Writing, durable, process, jobs, Keys, QueueType
<1> QED BY <1>1, VersionsAreNaturals DEF TypeOK, Refuse, Writing, durable, process, jobs

LEMMA FenceKeeps ==
  ASSUME IInv, ~ Legacy, Fence
  PROVE  IInv'
<1>1. TypeOK'
  BY VersionsAreNaturals, Queue, CancelTyped DEF TypeOK, Fence, Writing, durable, process, jobs, CancelAndPurge, Purge, Keys, QueueType
<1> QED BY <1>1, VersionsAreNaturals, Queue, CancelTyped DEF TypeOK, Fence, Writing, durable, process, jobs, CancelAndPurge, Purge

LEMMA FenceFailsKeeps ==
  ASSUME IInv, ~ Legacy, FenceFails
  PROVE  IInv'
<1>1. TypeOK'
  BY VersionsAreNaturals, Queue, CancelTyped DEF TypeOK, FenceFails, Writing, durable, process, jobs, Keys, QueueType
<1> QED BY <1>1, VersionsAreNaturals, Queue, CancelTyped DEF TypeOK, FenceFails, Writing, durable, process, jobs

LEMMA RewriteKeeps ==
  ASSUME IInv, ~ Legacy, Rewrite
  PROVE  IInv'
<1>1. /\ pc = "fenced" /\ pc' = "rewritten" /\ file \in Nat /\ file # 0 /\ file + 1 \in Versions
      /\ file' = file + 1 /\ redacted' = file + 1 /\ rewritten' = TRUE
      /\ UNCHANGED <<row, meta, marker, smeta, published, fence, deleted, rec, scan, jobs, crashes>>
  BY VersionsAreNaturals DEF TypeOK, Rewrite
<1>2. TypeOK'
  BY <1>1 DEF TypeOK, jobs
<1>3. fence = TRUE /\ published = 0 /\ smeta = 0 /\ marker = "event" /\ row = "kept" /\ rec = "done"
  BY <1>1 DEF TypeOK
<1>4. MetaSafe'
  BY <1>1, <1>3
<1>5. ScanSafe'
  BY <1>1, <1>3
<1>6. MetaClean'
  BY <1>1, <1>3
<1>7. RedactedIsWritten' /\ NothingRemovedIsIndexed'
  BY <1>1, <1>3
<1> QED BY <1>1, <1>2, <1>3, <1>4, <1>5, <1>6, <1>7

LEMMA RewriteUnverifiedKeeps ==
  ASSUME IInv, ~ Legacy, RewriteUnverified
  PROVE  IInv'
<1>1. TypeOK'
  BY VersionsAreNaturals DEF TypeOK, RewriteUnverified, Writing, durable, process, jobs, Keys, QueueType
<1> QED BY <1>1, VersionsAreNaturals DEF TypeOK, RewriteUnverified, Writing, durable, process, jobs

LEMMA RewriteRefusedKeeps ==
  ASSUME IInv, ~ Legacy, RewriteRefused
  PROVE  IInv'
<1>1. /\ pc = "fenced" /\ fence' = FALSE /\ marker' \in {"none", marker}
      /\ pc' = IF marker' = "none" THEN "reindexing" ELSE "reindexingMarked"
      /\ UNCHANGED <<row, file, redacted, rewritten, meta, smeta, published,
                     deleted, rec, scan, crashes>>
  BY DEF RewriteRefused
<1>2. QueueType' /\ active' = active
  <2>1. CASE Request("forced", "none", FALSE)
    BY <2>1, Queue, RequestTyped DEF Keys
  <2>2. CASE Request("recovery", marker, FALSE)
    BY <2>2, Queue, RequestTyped DEF Keys
  <2> QED BY <2>1, <2>2 DEF RewriteRefused
<1>3. TypeOK'
  BY <1>1, <1>2 DEF TypeOK, QueueType
<1>4. MetaSafe' /\ ScanSafe' /\ MetaClean'
  BY <1>1, VersionsAreNaturals DEF TypeOK
<1>5. marker = "event" /\ rec = "done" /\ row = "kept" /\ file # 0 /\ ~ rewritten /\ Clean(meta)
  BY <1>1
<1>6. MutationOwnsMarker' /\ DeletionOwnsMarker' /\ RecoveryHasMarker'
  BY <1>1, <1>5 DEF TypeOK
<1> QED BY <1>1, <1>3, <1>4, <1>5, <1>6 DEF TypeOK

LEMMA MarkKeeps ==
  ASSUME IInv, ~ Legacy, Mark
  PROVE  IInv'
<1>1. TypeOK'
  BY VersionsAreNaturals DEF TypeOK, Mark, Writing, durable, process, jobs, Stale, Keys, QueueType
<1> QED BY <1>1, VersionsAreNaturals DEF TypeOK, Mark, Writing, durable, process, jobs, Stale

LEMMA ReconciledKeeps ==
  ASSUME IInv, ~ Legacy, Reconciled
  PROVE  IInv'
<1>1. QueueType /\ Request("recovery", marker, FALSE)
  BY Queue DEF Reconciled
<1>2. QueueType'
  BY <1>1, RequestTyped DEF Keys
<1>3. /\ scan'.fresh = FALSE /\ scan' \in [version : Versions, fresh : BOOLEAN]
      /\ row' = row /\ meta' \in Versions
      /\ meta' = meta \/ (Catalogued /\ scan.fresh /\ meta' = scan.version)
  BY ScanEndsSafely DEF Reconciled
<1>4. /\ pc = "reconciling" /\ pc' = "indexing" /\ fence' = FALSE
      /\ UNCHANGED <<file, redacted, rewritten, marker, smeta, published,
                     deleted, rec, crashes>>
  BY DEF Reconciled
<1>5. TypeOK'
  BY <1>2, <1>3, <1>4 DEF TypeOK, QueueType
<1>6. Clean(meta)'
  BY <1>3, <1>4, VersionsAreNaturals DEF TypeOK
<1> QED BY <1>3, <1>4, <1>5, <1>6

LEMMA ReconcileFailsKeeps ==
  ASSUME IInv, ~ Legacy, ReconcileFails
  PROVE  IInv'
<1>1. TypeOK'
  BY VersionsAreNaturals DEF TypeOK, ReconcileFails, Writing, durable, process, jobs, Keys, QueueType
<1> QED BY <1>1, VersionsAreNaturals DEF TypeOK, ReconcileFails, Writing, durable, process, jobs

LEMMA AcknowledgeKeeps ==
  ASSUME IInv, ~ Legacy, Acknowledge
  PROVE  IInv'
<1>1. TypeOK'
  BY VersionsAreNaturals DEF TypeOK, Acknowledge, Writing, durable, process, jobs, Cleared, PublicationCurrent, Take, Answered, Keys, QueueType
<1> QED BY <1>1, VersionsAreNaturals DEF TypeOK, Acknowledge, Writing, durable, process, jobs, Cleared, PublicationCurrent, Take, Answered

LEMMA ReindexedKeeps ==
  ASSUME IInv, ~ Legacy, Reindexed
  PROVE  IInv'
<1>1. TypeOK'
  BY VersionsAreNaturals DEF TypeOK, Reindexed, Writing, durable, process, jobs, Take, Keys, QueueType
<1> QED BY <1>1, VersionsAreNaturals DEF TypeOK, Reindexed, Writing, durable, process, jobs, Take

LEMMA PurgeForDeleteKeeps ==
  ASSUME IInv, ~ Legacy, PurgeForDelete
  PROVE  IInv'
<1>1. QueueType' /\ queued' = {} /\ (active' = NoJob \/ active'.key = active.key)
  BY Queue, CancelTyped DEF PurgeForDelete, CancelAndPurge
<1>2. TypeOK'
  BY <1>1, VersionsAreNaturals DEF TypeOK, PurgeForDelete, CancelAndPurge, Purge, QueueType
<1>3. active'.key = "recovery" => active.key = "recovery"
  BY <1>1 DEF NoJob
<1> QED BY <1>1, <1>2, <1>3, VersionsAreNaturals DEF TypeOK, PurgeForDelete, CancelAndPurge, Purge

LEMMA DeleteRowKeeps ==
  ASSUME IInv, ~ Legacy, DeleteRow
  PROVE  IInv'
<1>1. TypeOK'
  BY VersionsAreNaturals DEF TypeOK, DeleteRow, Writing, durable, process, jobs, Keys, QueueType
<1> QED BY <1>1, VersionsAreNaturals DEF TypeOK, DeleteRow, Writing, durable, process, jobs

LEMMA DeleteRefusedKeeps ==
  ASSUME IInv, ~ Legacy, DeleteRefused
  PROVE  IInv'
<1>1. QueueType /\ Request("forced", marker, fence)
  BY Queue DEF DeleteRefused
<1>2. /\ QueueType' /\ active' = active
      /\ queued' \subseteq queued \union {"forced"}
  BY <1>1, RequestTyped DEF Keys
<1>3. TypeOK'
  BY <1>2, VersionsAreNaturals DEF TypeOK, DeleteRefused, QueueType, durable
<1> QED BY <1>2, <1>3, VersionsAreNaturals DEF TypeOK, DeleteRefused, Writing, durable

LEMMA UnlinkKeeps ==
  ASSUME IInv, ~ Legacy, Unlink
  PROVE  IInv'
<1>1. TypeOK'
  BY VersionsAreNaturals DEF TypeOK, Unlink, Writing, durable, process, jobs, Keys, QueueType
<1> QED BY <1>1, VersionsAreNaturals DEF TypeOK, Unlink, Writing, durable, process, jobs

LEMMA ClearDeletedKeeps ==
  ASSUME IInv, ~ Legacy, ClearDeleted
  PROVE  IInv'
<1>1. TypeOK'
  BY VersionsAreNaturals DEF TypeOK, ClearDeleted, Writing, durable, process, jobs, Stale, Keys, QueueType
<1> QED BY <1>1, VersionsAreNaturals DEF TypeOK, ClearDeleted, Writing, durable, process, jobs, Stale

LEMMA RecoverEventKeeps ==
  ASSUME IInv, ~ Legacy, RecoverEvent
  PROVE  IInv'
<1>1. QueueType'
  BY Queue, CancelTyped DEF RecoverEvent, CancelAndPurge
<1>2. /\ rec = "boot" /\ marker = "event" /\ fence' = TRUE /\ published' = 0 /\ smeta' = 0
      /\ UNCHANGED <<row, file, redacted, rewritten, marker, deleted, pc, crashes>>
      /\ \/ Catalogued /\ file # 0 /\ meta' = 0 /\ scan' = Stale(scan) /\ rec' = "reconciling"
         \/ rec' = "done" /\ UNCHANGED <<meta, scan>>
  BY DEF RecoverEvent, CancelAndPurge, Purge
<1>3. /\ scan' \in [version : Versions, fresh : BOOLEAN]
      /\ scan'.version = scan.version
      /\ IF rec' = "reconciling" THEN ~ scan'.fresh ELSE scan' = scan
  BY <1>2 DEF TypeOK, Stale
<1>4. TypeOK'
  <2>1. meta' \in Versions /\ rec' \in {"reconciling", "done"}
    BY <1>2, VersionsAreNaturals DEF TypeOK
  <2> QED BY <1>1, <1>2, <1>3, <2>1, VersionsAreNaturals DEF TypeOK, QueueType
<1>5. pc \notin {"fenced", "reconciling", "indexing"}
  BY <1>2
<1>6. MetaSafe'
  BY <1>2
<1>7. ScanSafe'
  BY <1>2, <1>3, <1>5
<1>8. MetaClean'
  BY <1>2, <1>5
<1> QED BY <1>2, <1>4, <1>6, <1>7, <1>8, VersionsAreNaturals DEF TypeOK

LEMMA RecoverReconciledKeeps ==
  ASSUME IInv, ~ Legacy, RecoverReconciled
  PROVE  IInv'
<1> rec = "reconciling" /\ UNCHANGED <<file, redacted, rewritten, marker, smeta, published,
                                       deleted, pc, crashes>>
  BY DEF RecoverReconciled
<1>1. CASE /\ scan.fresh /\ ScanEnds
           /\ fence' = FALSE /\ Request("recovery", marker, FALSE)
           /\ rec' = "indexing"
  <2>1. QueueType'
    BY <1>1, Queue, RequestTyped DEF Keys
  <2>2. /\ scan'.fresh = FALSE /\ scan' \in [version : Versions, fresh : BOOLEAN]
        /\ row' = row /\ meta' \in Versions
        /\ meta' = meta \/ (Catalogued /\ scan.fresh /\ meta' = scan.version)
    BY <1>1, ScanEndsSafely
  <2>3. TypeOK'
    BY <1>1, <2>1, <2>2 DEF TypeOK, QueueType
  <2>4. Clean(meta)'
    BY <2>2, VersionsAreNaturals DEF TypeOK
  <2> QED BY <1>1, <2>2, <2>3, <2>4
<1>2. CASE rec' = "done" /\ UNCHANGED <<row, meta, scan, fence, jobs>>
  <2>1. TypeOK'
    BY <1>2 DEF TypeOK, jobs
  <2> QED BY <1>2, <2>1 DEF TypeOK, jobs
<1> QED BY <1>1, <1>2 DEF RecoverReconciled

LEMMA RecoverAcknowledgeKeeps ==
  ASSUME IInv, ~ Legacy, RecoverAcknowledge
  PROVE  IInv'
<1>1. /\ rec = "indexing" /\ rec' = "done"
      /\ UNCHANGED <<row, file, redacted, meta, deleted, pc, scan, crashes>>
  BY DEF RecoverAcknowledge
<1>2. CASE /\ PublicationCurrent /\ Cleared /\ Take("recovery")
           /\ UNCHANGED <<smeta, published, fence, queued, outdated, active>>
  <2>1. TypeOK'
    BY <1>1, <1>2 DEF TypeOK, Cleared, Take, Keys
  <2> QED BY <1>1, <1>2, <2>1, VersionsAreNaturals DEF TypeOK, Cleared
<1>3. CASE /\ fence' = TRUE /\ published' = 0 /\ smeta' = 0 /\ queued' = {} /\ outdated' = {}
           /\ active' = IF active = NoJob THEN NoJob ELSE [active EXCEPT !.stale = TRUE]
           /\ answer' = [k \in Keys |-> IF k = "recovery" THEN "idle"
                          ELSE IF k \in queued THEN Told(k, "failed") ELSE answer[k]]
           /\ UNCHANGED <<marker, rewritten>>
  <2>1. answer' \in [Keys -> {"idle", "pending", "ok", "failed"}]
    BY <1>3 DEF TypeOK, Told
  <2>2. active' \in {NoJob} \union [key : Keys, at : {"reading", "published"},
                                    version : Versions, meta : Versions, stale : BOOLEAN]
    <3>1. CASE active = NoJob
      BY <1>3, <3>1
    <3>2. CASE active # NoJob
      BY <1>3, <3>2 DEF TypeOK
    <3> QED BY <3>1, <3>2
  <2>3. TypeOK'
    BY <1>1, <1>3, <2>1, <2>2, VersionsAreNaturals DEF TypeOK
  <2> QED BY <1>1, <1>3, <2>3, VersionsAreNaturals DEF TypeOK
<1> QED BY <1>2, <1>3 DEF RecoverAcknowledge

LEMMA RecoverDeleteKeeps ==
  ASSUME IInv, ~ Legacy, RecoverDelete
  PROVE  IInv'
<1>1. TypeOK'
  BY VersionsAreNaturals, Queue, CancelTyped DEF TypeOK, RecoverDelete, Writing, durable, process, jobs, CancelAndPurge, Purge, Keys, QueueType
<1> QED BY <1>1, VersionsAreNaturals, Queue, CancelTyped DEF TypeOK, RecoverDelete, Writing, durable, process, jobs, CancelAndPurge, Purge

LEMMA RecoverUnlinkKeeps ==
  ASSUME IInv, ~ Legacy, RecoverUnlink
  PROVE  IInv'
<1>1. TypeOK'
  BY VersionsAreNaturals DEF TypeOK, RecoverUnlink, Writing, durable, process, jobs, Keys, QueueType
<1> QED BY <1>1, VersionsAreNaturals DEF TypeOK, RecoverUnlink, Writing, durable, process, jobs

LEMMA RecoverClearKeeps ==
  ASSUME IInv, ~ Legacy, RecoverClear
  PROVE  IInv'
<1>1. TypeOK'
  BY VersionsAreNaturals DEF TypeOK, RecoverClear, Writing, durable, process, jobs, Keys, QueueType
<1> QED BY <1>1, VersionsAreNaturals DEF TypeOK, RecoverClear, Writing, durable, process, jobs

LEMMA CrashKeeps ==
  ASSUME IInv, ~ Legacy, Crash
  PROVE  IInv'
<1>1. /\ scan'.fresh = FALSE /\ scan' \in [version : Versions, fresh : BOOLEAN]
      /\ active' = NoJob /\ active'.key = "none"
      /\ answer' \in [Keys -> {"idle", "pending", "ok", "failed"}]
  BY VersionsAreNaturals DEF Crash, NoScan, NoJob
<1>2. crashes' \in 0 .. MaxCrashes
  BY BoundsAssumption DEF Crash, TypeOK
<1>3. TypeOK'
  BY <1>1, <1>2 DEF TypeOK, Crash, durable
<1> QED BY <1>1, <1>3, VersionsAreNaturals DEF TypeOK, Crash, durable

HIDE DEF IInv, MutationOwnsMarker, DeletionOwnsMarker, RecoveryHasMarker, RedactedIsWritten,
         ScanSafe, ScanAwaited, MetaClean, MetaSafe, Clean, NothingRemovedIsIndexed,
         FencedIsUnpublished, OrphanIsMarked, Catalogued

-----------------------------------------------------------------------------
(* What follows.                                                           *)

LEMMA StepKeeps ==
  ASSUME IInv, ~ Legacy, [Next]_vars
  PROVE  IInv'
<1>1. CASE Search
  BY <1>1, RequestIndexKeeps, PublishKeeps, FinishJobKeeps, InvalidateJobKeeps, RetryJobKeeps,
     FailJobKeeps, StartJobKeeps, DenyJobKeeps DEF Search
<1>2. CASE Catalog \/ Append \/ Begin \/ Crash
  BY <1>2, ScanReadKeeps, ScanCommitKeeps, StageSessionKeeps, AppendKeeps, BeginKeeps,
     CrashKeeps DEF Catalog
<1>3. CASE Mutation
  BY <1>3, PinAcceptedKeeps, RefuseKeeps, FenceKeeps, FenceFailsKeeps, RewriteKeeps,
     RewriteUnverifiedKeeps, RewriteRefusedKeeps, MarkKeeps, ReconciledKeeps,
     ReconcileFailsKeeps, AcknowledgeKeeps, ReindexedKeeps DEF Mutation
<1>4. CASE Deletion
  BY <1>4, PurgeForDeleteKeeps, DeleteRowKeeps, DeleteRefusedKeeps, UnlinkKeeps,
     ClearDeletedKeeps DEF Deletion
<1>5. CASE Recovery
  BY <1>5, RecoverEventKeeps, RecoverReconciledKeeps, RecoverAcknowledgeKeeps,
     RecoverDeleteKeeps, RecoverUnlinkKeeps, RecoverClearKeeps DEF Recovery
<1>6. CASE UNCHANGED vars
  BY <1>6
     DEF vars, durable, process, jobs, IInv, TypeOK, MutationOwnsMarker, DeletionOwnsMarker,
         RecoveryHasMarker, RedactedIsWritten, ScanSafe, ScanAwaited, MetaClean, MetaSafe,
         Clean, NothingRemovedIsIndexed, FencedIsUnpublished, OrphanIsMarked,
         Catalogued
<1> QED BY <1>1, <1>2, <1>3, <1>4, <1>5, <1>6 DEF Next

LEMMA Invariant ==
  ASSUME ~ Legacy
  PROVE  Spec => []IInv
<1>1. IInv /\ [Next]_vars => IInv'
  BY StepKeeps
<1> QED BY <1>1, Initially, PTL DEF Spec

(* Every reachable state of the transcript, its row and its index is well  *)
(* typed.                                                                  *)
THEOREM TypeCorrect ==
  ASSUME ~ Legacy
  PROVE  Spec => []TypeOK
<1>1. IInv => TypeOK
  BY DEF IInv
<1> QED BY <1>1, Invariant, PTL

(* No entry of the search index holds text that an edit removed, whatever  *)
(* job, scan, append or crash came between.                                *)
THEOREM RemovedNotIndexed ==
  ASSUME ~ Legacy
  PROVE  Spec => []NothingRemovedIsIndexed
<1>1. IInv => NothingRemovedIsIndexed
  BY DEF IInv
<1> QED BY <1>1, Invariant, PTL

(* A row that may hold removed text has the marker that makes the next     *)
(* start clear it.                                                         *)
THEOREM UncleanMarked ==
  ASSUME ~ Legacy
  PROVE  Spec => []UncleanIsMarked
<1>1. IInv => UncleanIsMarked
  BY DEF IInv, MetaSafe, UncleanIsMarked
<1> QED BY <1>1, Invariant, PTL

(* Behind the fence nothing of the session is served.                      *)
THEOREM FencedUnpublished ==
  ASSUME ~ Legacy
  PROVE  Spec => []FencedIsUnpublished
<1>1. IInv => FencedIsUnpublished
  BY DEF IInv
<1> QED BY <1>1, Invariant, PTL

(* A transcript without a row has the marker that gets it unlinked.        *)
THEOREM OrphanMarked ==
  ASSUME ~ Legacy
  PROVE  Spec => []OrphanIsMarked
<1>1. IInv => OrphanIsMarked
  BY DEF IInv
<1> QED BY <1>1, Invariant, PTL

(* No scan and no recovery brings a deleted session back.                  *)
THEOREM DeletedStays ==
  ASSUME ~ Legacy
  PROVE  Spec => DeletedStaysDeleted
<1>1. ASSUME IInv, [Next]_vars, row = "deleted" PROVE row' = "deleted"
  <2>1. row' = row \/ ScanEnds \/ StageSession \/ DeleteRow
    BY <1>1
       DEF Next, vars, durable, process, Search, Catalog, Mutation, Deletion, Recovery,
           RequestIndex, Publish, FinishJob, InvalidateJob, RetryJob, FailJob, StartJob, DenyJob,
           ScanRead, ScanCommit, Append, Begin, PinAccepted, Refuse, Fence, FenceFails, Rewrite,
           RewriteUnverified, RewriteRefused, Mark, Reconciled, ReconcileFails, Acknowledge,
           Reindexed, PurgeForDelete, DeleteRefused, Unlink, ClearDeleted, RecoverEvent,
           RecoverReconciled, RecoverAcknowledge, RecoverDelete, RecoverUnlink, RecoverClear,
           Crash
  <2>2. CASE ScanEnds
    BY <1>1, <2>2, ScanEndsSafely
  <2>3. ~ StageSession
    BY <1>1 DEF StageSession, IInv, OrphanIsMarked
  <2> QED BY <1>1, <2>1, <2>2, <2>3 DEF DeleteRow
<1> QED BY <1>1, Invariant, PTL DEF Spec, DeletedStaysDeleted

(* The marker of a rewrite is cleared only when the index has been derived  *)
(* anew from the rewritten file and the row holds nothing removed.         *)
THEOREM ClearedIndexed ==
  ASSUME ~ Legacy
  PROVE  Spec => ClearedWhenIndexed
<1>1. ASSUME IInv, [Next]_vars, rewritten, marker = "event", marker' # "event"
      PROVE  /\ published' = file' /\ file' >= redacted'
             /\ smeta' = meta' /\ Clean(meta)'
  <2>1. Acknowledge \/ RecoverAcknowledge
    <3>1. marker' = marker \/ Fence \/ FenceFails \/ RewriteRefused \/ Acknowledge \/ DeleteRow
          \/ ClearDeleted \/ RecoverAcknowledge \/ RecoverClear
      BY <1>1
         DEF Next, vars, durable, process, Search, Catalog, Mutation, Deletion, Recovery,
             RequestIndex, Publish, FinishJob, InvalidateJob, RetryJob, FailJob, StartJob,
             DenyJob, ScanRead, ScanCommit, StageSession, Append, Begin, PinAccepted, Refuse,
             Rewrite, RewriteUnverified, Mark, Reconciled, ReconcileFails, Reindexed,
             PurgeForDelete, DeleteRefused, Unlink, RecoverEvent, RecoverReconciled,
             RecoverDelete, RecoverUnlink, Crash
    <3>2. ~ Fence /\ ~ FenceFails /\ ~ DeleteRow
      BY <1>1 DEF Fence, FenceFails, DeleteRow
    <3>3. ~ RewriteRefused
      BY <1>1 DEF RewriteRefused, IInv, MutationOwnsMarker
    <3>4. ~ ClearDeleted /\ ~ RecoverClear
      BY <1>1 DEF ClearDeleted, RecoverClear, IInv, DeletionOwnsMarker, RecoveryHasMarker
    <3> QED BY <1>1, <3>1, <3>2, <3>3, <3>4
  <2>2. /\ published = file /\ smeta = meta /\ file # 0
        /\ UNCHANGED <<file, redacted, meta, smeta, published>>
        /\ pc = "indexing" \/ rec = "indexing"
    BY <1>1, <2>1 DEF Acknowledge, RecoverAcknowledge, PublicationCurrent
  <2> QED BY <1>1, <2>2, VersionsAreNaturals DEF IInv, TypeOK, MetaClean, RedactedIsWritten, Clean
<1> QED BY <1>1, Invariant, PTL DEF Spec, ClearedWhenIndexed

-----------------------------------------------------------------------------
(* The promise about removed text.                                         *)

durables == <<row, file, redacted, meta, published, smeta, Pledge>>

HidesSome == published' \in {0, published} /\ smeta' \in {0, smeta}
Pending == marker = "event"
Withdrawn == Pending /\ ~ rewritten /\ Clean(meta)
Caught == Pending /\ rewritten /\ published = file /\ smeta = meta /\ Clean(meta)

\* The steps of the promise, over the variables of the model.
Promised ==
  \/ /\ Catalogued /\ meta' \in Nat /\ (Clean(meta') \/ Pending)
     /\ HidesSome /\ UNCHANGED <<row, file, redacted, marker, rewritten>>
  \/ /\ Catalogued
     /\ published' \in {0, published, file} /\ smeta' \in {0, smeta, meta}
     /\ Clean(published') /\ Clean(smeta')
     /\ UNCHANGED <<row, file, redacted, meta, marker, rewritten>>
  \/ /\ HidesSome /\ UNCHANGED <<row, file, redacted, meta, marker>>
     /\ UNCHANGED rewritten \/ ~ Pending
  \/ /\ Catalogued /\ marker = "none" /\ marker' = "event" /\ ~ rewritten'
     /\ HidesSome /\ UNCHANGED <<row, file, redacted, meta>>
  \/ /\ Withdrawn \/ Caught
     /\ marker' = "none" /\ UNCHANGED <<row, file, redacted, meta, published, smeta>>

LEMMA PromisedSteps ==
  ASSUME TypeOK, Promised
  PROVE  [Redacted!Next]_durables
<1> USE DEF Redacted!Next, HidesSome, Pending, Redacted!Less, Catalogued, TypeOK,
        Redacted!Clean, Clean
<1>1. CASE /\ Catalogued /\ meta' \in Nat /\ (Clean(meta') \/ Pending)
           /\ HidesSome /\ UNCHANGED <<row, file, redacted, marker, rewritten>>
  <2>1. Pending => Pledge \in {"open", "owed"}
    BY DEF Pledge
  <2>2. Pledge' = Pledge
    BY <1>1 DEF Pledge
  <2> QED BY <1>1, <2>1, <2>2 DEF Redacted!Derive
<1>2. CASE /\ Catalogued
           /\ published' \in {0, published, file} /\ smeta' \in {0, smeta, meta}
           /\ Clean(published') /\ Clean(smeta')
           /\ UNCHANGED <<row, file, redacted, meta, marker, rewritten>>
  <2>1. Pledge' = Pledge
    BY <1>2 DEF Pledge
  <2> QED BY <1>2, <2>1 DEF Redacted!Serve
<1>3. CASE /\ HidesSome /\ UNCHANGED <<row, file, redacted, meta, marker>>
           /\ UNCHANGED rewritten \/ ~ Pending
  <2>1. Pledge' = Pledge
    BY <1>3 DEF Pledge
  <2> QED BY <1>3, <2>1 DEF Redacted!Hide
<1>4. CASE /\ Catalogued /\ marker = "none" /\ marker' = "event" /\ ~ rewritten'
           /\ HidesSome /\ UNCHANGED <<row, file, redacted, meta>>
  <2>1. Pledge = "none" /\ Pledge' = "open"
    BY <1>4 DEF Pledge
  <2> QED BY <1>4, <2>1 DEF Redacted!Pledge
<1>5. CASE /\ Withdrawn \/ Caught
           /\ marker' = "none" /\ UNCHANGED <<row, file, redacted, meta, published, smeta>>
  <2>1. Pledge' = "none"
    BY <1>5 DEF Pledge
  <2>2. CASE Withdrawn
    <3>1. Pledge = "open" /\ Clean(meta)
      BY <2>2 DEF Withdrawn, Pledge
    <3> QED BY <1>5, <2>1, <3>1 DEF Redacted!Withdraw
  <2>3. CASE Caught
    <3>1. Pledge = "owed" /\ published = file /\ smeta = meta /\ Clean(meta)
      BY <2>3 DEF Caught, Pledge
    <3> QED BY <1>5, <2>1, <3>1 DEF Redacted!Reconcile
  <2> QED BY <1>5, <2>2, <2>3
<1> QED BY <1>1, <1>2, <1>3, <1>4, <1>5 DEF Promised

\* What is published or may be: the version of the file, the metadata of now.
LEMMA SearchPromised ==
  ASSUME IInv, ~ Legacy, Search
  PROVE  Promised
<1> USE VersionsAreNaturals
        DEF Promised, HidesSome, Pending, IInv, TypeOK, NothingRemovedIsIndexed, Clean, Catalogued,
            durable
<1>1. CASE RequestIndex
  BY <1>1 DEF RequestIndex
<1>2. CASE Publish
  <2>1. Catalogued /\ published' = active.version /\ active.version = file /\ smeta' = meta
    BY <1>2 DEF Publish, AuthCurrent, MetadataCurrent
  <2>2. UNCHANGED <<row, file, redacted, meta, marker, rewritten>>
    BY <1>2 DEF Publish
  <2>3. NothingRemovedIsIndexed'
    BY <1>2, PublishKeeps
  <2> QED BY <2>1, <2>2, <2>3
<1>3. CASE FinishJob
  BY <1>3 DEF FinishJob
<1>4. CASE InvalidateJob
  BY <1>4 DEF InvalidateJob
<1>5. CASE RetryJob
  BY <1>5 DEF RetryJob
<1>6. CASE FailJob
  BY <1>6 DEF FailJob
<1>7. ASSUME NEW k \in Keys, StartJob(k) PROVE Promised
  <2>1. NothingRemovedIsIndexed'
    BY <1>7, StartJobKeeps
  <2>2. \/ UNCHANGED <<smeta, published>>
        \/ published' = 0 /\ UNCHANGED smeta
        \/ ~ JobDenied /\ smeta' = meta /\ UNCHANGED published
    BY <1>7 DEF StartJob
  <2>3. UNCHANGED <<row, file, redacted, meta, marker, rewritten>>
    BY <1>7 DEF StartJob
  <2> QED BY <2>1, <2>2, <2>3 DEF JobDenied
<1>8. ASSUME NEW k \in Keys, DenyJob(k) PROVE Promised
  BY <1>8 DEF DenyJob, Purge
<1> QED BY <1>1, <1>2, <1>3, <1>4, <1>5, <1>6, <1>7, <1>8 DEF Search

LEMMA CatalogPromised ==
  ASSUME IInv, ~ Legacy, Catalog
  PROVE  [Redacted!Next]_durables
<1> USE VersionsAreNaturals DEF IInv, TypeOK
<1>1. CASE ScanRead
  BY <1>1 DEF ScanRead, durable, durables, Pledge
<1>2. CASE ScanCommit
  <2>1. /\ UNCHANGED <<row, file, redacted, marker, rewritten, published, smeta>>
        /\ meta' = meta \/ (Catalogued /\ scan.fresh /\ meta' = scan.version)
    BY <1>2, ScanEndsSafely DEF ScanCommit
  <2>2. scan.version \in Nat /\ redacted \in Nat
    OBVIOUS
  <2>3. Promised
    BY <2>1, <2>2 DEF Promised, HidesSome, Pending, ScanSafe, Clean
  <2> QED BY <2>3, PromisedSteps
<1>3. CASE StageSession
  <2>1. row = "none" /\ file # 0 /\ row' = "kept" /\ meta' = 0
        /\ UNCHANGED <<file, redacted, rewritten, marker, smeta, published>>
    BY <1>3 DEF StageSession, Catalogued, OrphanIsMarked
  <2>2. Pledge' = Pledge
    BY <2>1 DEF Pledge
  <2> QED BY <2>1, <2>2 DEF Redacted!Next, Redacted!Find
<1> QED BY <1>1, <1>2, <1>3 DEF Catalog

LEMMA RedactPromised ==
  ASSUME IInv, Rewrite
  PROVE  Redacted!Next
<1>1. /\ Catalogued /\ fence /\ marker = "event" /\ ~ rewritten /\ rewritten'
      /\ file' = file + 1 /\ redacted' = file'
      /\ UNCHANGED <<row, meta, marker, smeta, published>>
  BY DEF Rewrite, IInv, MutationOwnsMarker
<1>2. published = 0 /\ smeta = 0
  BY <1>1 DEF IInv, FencedIsUnpublished
<1>3. Pledge = "open" /\ Pledge' = "owed"
  BY <1>1 DEF Pledge
<1> QED BY <1>1, <1>2, <1>3 DEF Redacted!Next, Redacted!Redact, Catalogued

LEMMA MutationPromised ==
  ASSUME IInv, ~ Legacy, Mutation
  PROVE  [Redacted!Next]_durables
<1> USE VersionsAreNaturals
        DEF Promised, HidesSome, Pending, IInv, TypeOK, Catalogued, durable
<1>1. CASE PinAccepted \/ Refuse \/ RewriteUnverified \/ ReconcileFails \/ Reindexed
  <2>1. Promised
    BY <1>1 DEF PinAccepted, Refuse, RewriteUnverified, ReconcileFails, Reindexed
  <2> QED BY <2>1, PromisedSteps
<1>2. CASE Fence \/ FenceFails
  <2>1. /\ Catalogued /\ marker = "none" /\ marker' \in {"none", "event"} /\ ~ rewritten'
        /\ HidesSome /\ UNCHANGED <<row, file, redacted, meta>>
    BY <1>2 DEF Fence, FenceFails, CancelAndPurge, Purge
  <2>2. Promised
    BY <2>1
  <2> QED BY <2>2, PromisedSteps
<1>3. CASE Rewrite
  BY <1>3, RedactPromised
<1>4. CASE RewriteRefused
  <2>1. /\ marker = "event" /\ ~ rewritten /\ Clean(meta) /\ marker' \in {"none", marker}
        /\ UNCHANGED <<row, file, redacted, rewritten, meta, smeta, published>>
    BY <1>4 DEF RewriteRefused, MutationOwnsMarker, MetaClean
  <2>2. Promised
    BY <2>1 DEF Withdrawn
  <2> QED BY <2>2, PromisedSteps
<1>5. CASE Mark \/ Reconciled
  <2>1. /\ Catalogued /\ marker = "event" /\ meta' \in Nat
        /\ UNCHANGED <<row, file, redacted, rewritten, marker, smeta, published>>
    BY <1>5, ScanEndsSafely DEF Mark, Reconciled, MutationOwnsMarker
  <2>2. Promised
    BY <2>1
  <2> QED BY <2>2, PromisedSteps
<1>6. CASE Acknowledge
  <2>1. /\ UNCHANGED <<row, file, redacted, meta, smeta, published>>
        /\ \/ PublicationCurrent /\ Cleared
           \/ UNCHANGED <<marker, rewritten>>
        /\ Clean(meta)
    BY <1>6 DEF Acknowledge, MetaClean
  <2>2. Promised
    BY <2>1 DEF PublicationCurrent, Cleared, Withdrawn, Caught
  <2> QED BY <2>2, PromisedSteps
<1> QED BY <1>1, <1>2, <1>3, <1>4, <1>5, <1>6 DEF Mutation

LEMMA DeletionPromised ==
  ASSUME IInv, ~ Legacy, Deletion
  PROVE  [Redacted!Next]_durables
<1> USE DEF IInv, TypeOK
<1>1. CASE PurgeForDelete \/ DeleteRefused
  <2>1. Promised
    BY <1>1 DEF PurgeForDelete, DeleteRefused, CancelAndPurge, Purge, Promised, HidesSome,
            Pending, durable
  <2> QED BY <2>1, PromisedSteps
<1>2. CASE DeleteRow
  <2>1. /\ row = "kept" /\ marker = "none" /\ row' = "deleted" /\ meta' = 0 /\ marker' = "delete"
        /\ UNCHANGED <<file, redacted, smeta, published>>
    BY <1>2 DEF DeleteRow, Catalogued
  <2>2. Pledge = "none" /\ Pledge' = "unlink"
    BY <2>1 DEF Pledge
  <2> QED BY <2>1, <2>2 DEF Redacted!Next, Redacted!Delete
<1>3. CASE Unlink
  <2>1. /\ marker = "delete" /\ row = "deleted" /\ file' \in {0, file}
        /\ UNCHANGED <<row, redacted, rewritten, meta, marker, smeta, published>>
    BY <1>3 DEF Unlink, DeletionOwnsMarker
  <2>2. Pledge = "unlink" /\ Pledge' = "unlink"
    BY <2>1 DEF Pledge
  <2> QED BY <2>1, <2>2 DEF Redacted!Next, Redacted!Unlink, durables
<1>4. CASE ClearDeleted
  <2>1. /\ marker = "delete" /\ file = 0 /\ marker' \in {"none", marker}
        /\ UNCHANGED <<row, file, redacted, rewritten, meta, smeta, published>>
    BY <1>4 DEF ClearDeleted, DeletionOwnsMarker
  <2>2. Pledge = "unlink" /\ Pledge' \in {"none", "unlink"}
    BY <2>1 DEF Pledge
  <2> QED BY <2>1, <2>2 DEF Redacted!Next, Redacted!Forget, durables
<1> QED BY <1>1, <1>2, <1>3, <1>4 DEF Deletion

LEMMA RecoveryPromised ==
  ASSUME IInv, ~ Legacy, Recovery
  PROVE  [Redacted!Next]_durables
<1> USE VersionsAreNaturals DEF IInv, TypeOK, Promised, HidesSome, Pending, Catalogued
<1>1. CASE RecoverEvent
  <2>1. Promised
    BY <1>1 DEF RecoverEvent, CancelAndPurge, Purge
  <2> QED BY <2>1, PromisedSteps
<1>2. CASE RecoverReconciled
  <2>1. /\ Catalogued /\ marker = "event" /\ meta' \in Nat
        /\ UNCHANGED <<row, file, redacted, rewritten, marker, smeta, published>>
    BY <1>2, ScanEndsSafely DEF RecoverReconciled, RecoveryHasMarker
  <2>2. Promised
    BY <2>1
  <2> QED BY <2>2, PromisedSteps
<1>3. CASE RecoverAcknowledge
  <2>1. /\ UNCHANGED <<row, file, redacted, meta>>
        /\ \/ PublicationCurrent /\ Cleared /\ UNCHANGED <<smeta, published>>
           \/ published' = 0 /\ smeta' = 0 /\ UNCHANGED <<marker, rewritten>>
        /\ Clean(meta)
    BY <1>3 DEF RecoverAcknowledge, MetaClean
  <2>2. Promised
    BY <2>1 DEF PublicationCurrent, Cleared, Withdrawn, Caught
  <2> QED BY <2>2, PromisedSteps
<1>4. CASE RecoverDelete
  <2>1. Promised
    BY <1>4 DEF RecoverDelete, CancelAndPurge, Purge
  <2> QED BY <2>1, PromisedSteps
<1>5. CASE RecoverUnlink
  <2>1. /\ marker = "delete" /\ row = "deleted" /\ file' \in {0, file}
        /\ UNCHANGED <<row, redacted, rewritten, meta, marker, smeta, published>>
    BY <1>5 DEF RecoverUnlink, RecoveryHasMarker, DeletionOwnsMarker
  <2>2. Pledge = "unlink" /\ Pledge' = "unlink"
    BY <2>1 DEF Pledge
  <2> QED BY <2>1, <2>2 DEF Redacted!Next, Redacted!Unlink, durables
<1>6. CASE RecoverClear
  <2>1. /\ marker = "delete" /\ file = 0 /\ marker' \in {"none", marker}
        /\ UNCHANGED <<row, file, redacted, rewritten, meta, smeta, published>>
    BY <1>6 DEF RecoverClear, RecoveryHasMarker
  <2>2. Pledge = "unlink" /\ Pledge' \in {"none", "unlink"}
    BY <2>1 DEF Pledge
  <2> QED BY <2>1, <2>2 DEF Redacted!Next, Redacted!Forget, durables
<1> QED BY <1>1, <1>2, <1>3, <1>4, <1>5, <1>6 DEF Recovery

LEMMA RedactionStep ==
  ASSUME IInv, ~ Legacy, [Next]_vars
  PROVE  [Redacted!Next]_durables
<1>1. CASE Search
  BY <1>1, SearchPromised, PromisedSteps DEF IInv
<1>2. CASE Append
  <2>1. Pledge' = Pledge
    BY <1>2 DEF Append, Pledge
  <2> QED BY <1>2, <2>1 DEF Append, Redacted!Next, Redacted!Append
<1>3. CASE Begin \/ Crash \/ UNCHANGED vars
  BY <1>3 DEF Begin, Crash, vars, durable, durables, Pledge
<1> QED
  BY <1>1, <1>2, <1>3, CatalogPromised, MutationPromised, DeletionPromised, RecoveryPromised
     DEF Next

LEMMA RedactionInit == Init => Redacted!Init
BY DEF Init, Redacted!Init, Pledge

(* The mutation of a transcript, its index, its row and their recovery      *)
(* implement the promise that RedactedTranscript makes about removed text,  *)
(* over any number of writes, jobs, scans and crashes.                      *)
THEOREM RedactionImplemented ==
  ASSUME ~ Legacy
  PROVE  Spec => ImplementsRedaction
<1>1. IInv /\ [Next]_vars => [Redacted!Next]_durables
  BY RedactionStep
<1> QED
  BY <1>1, RedactionInit, Invariant, PTL
     DEF Spec, ImplementsRedaction, Redacted!Spec, Redacted!promise, durables
=============================================================================
