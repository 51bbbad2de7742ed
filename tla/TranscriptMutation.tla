--------------------------- MODULE TranscriptMutation ---------------------------
(* One session's canonical transcript and what is derived from it: the     *)
(* metadata of its catalog row, its entries in the search index, and the   *)
(* recovery journal that ties them together (transcript-mutations.ts,      *)
(* transcript-recovery.ts, transcript-recovery-journal.ts, sessions.ts,    *)
(* session-catalog.ts, search/indexer.ts).                                 *)
(*                                                                         *)
(* Versions count the writes to the file, so a version stands for the      *)
(* file's fingerprint.  A rewrite removes text: what was derived from an   *)
(* older version may still hold it.  `redacted` is the version of the last *)
(* rewrite.  Version 0 stands for no file, cleared metadata or no valid    *)
(* entry.  An action is the code between two awaits, except that the       *)
(* durable writes of one turn are separate steps which only a crash parts. *)
EXTENDS Naturals, FiniteSets

CONSTANTS MaxVersion,   \* bound on the writes to the transcript
          MaxCrashes,   \* bound on crashes
          Legacy        \* WAYANG_LEGACY_SESSION_SCAN: scans without generations

ASSUME BoundsAssumption ==
  MaxVersion \in Nat \ {0} /\ MaxCrashes \in Nat /\ Legacy \in BOOLEAN

VARIABLES
  \* durable: the store, the transcript, the search database
  row,       \* the session's row in the catalog: none yet, kept or deleted
  file,      \* version of the transcript
  redacted,  \* version of the last rewrite
  rewritten, \* a rewrite was committed under the marker now in the journal
  meta,      \* version the row's title, model and times were parsed from
  marker,    \* the session's row in the journal
  smeta,     \* version of the metadata in the search index
  published, \* version of the body the index serves
  \* the process
  fence,     \* transcriptMutationFences has the session
  deleted,   \* deletedSessionIds has the session
  pc,        \* the mutation or deletion that holds the runtime lock
  rec,       \* recovery of the journal at startup
  scan,      \* a catalog scan between its parse and its commit
  queued,    \* keys of pending index requests
  outdated,  \* pending requests of before a purge
  active,    \* the running index job
  answer,    \* what the waiter for a key has been told
  crashes

durable == <<row, file, redacted, rewritten, meta, marker, smeta, published>>
jobs == <<queued, outdated, active, answer>>
process == <<fence, deleted, pc, rec, scan, jobs>>
vars == <<durable, process, crashes>>

Versions == 0 .. MaxVersion
Catalogued == row = "kept"
Keys == {"ordinary", "forced", "recovery"}
NoJob == [key |-> "none", at |-> "none", version |-> 0, meta |-> 0, stale |-> FALSE]
NoScan == [version |-> 0, fresh |-> FALSE]

\* Writes of one turn are under way: only a crash can come between them.
Writing == pc \in {"rewritten", "rowDeleted", "unlinked"} \/ rec = "unlinked"

Init ==
  /\ row \in {"none", "kept"} /\ file = 1 /\ redacted = 0 /\ rewritten = FALSE
  /\ meta = (IF row = "kept" THEN 1 ELSE 0) /\ marker = "none" /\ smeta = 0 /\ published = 0
  /\ fence = FALSE /\ deleted = FALSE /\ pc = "idle" /\ rec = "done"
  /\ scan = NoScan /\ queued = {} /\ outdated = {} /\ active = NoJob
  /\ answer = [k \in Keys |-> "idle"] /\ crashes = 0

-----------------------------------------------------------------------------
(* The search index: requests, purges and jobs.                            *)

Told(k, said) == IF answer[k] = "pending" THEN said ELSE answer[k]

\* cancelSessionWork: reject what is pending, abort what runs.
CancelWork ==
  /\ queued' = {} /\ outdated' = {}
  /\ active' = IF active = NoJob THEN NoJob ELSE [active EXCEPT !.stale = TRUE]
  /\ answer' = [k \in Keys |-> IF k \in queued THEN Told(k, "failed") ELSE answer[k]]

\* purgeSessionIndex: deny what is published.
Purge == published' = 0 /\ smeta' = 0
CancelAndPurge == CancelWork /\ Purge

\* indexSession while the marker is m and the fence is f.  Ordinary work is
\* refused while the journal has a marker, all work while the fence is up.  A
\* pending request of the same key takes the new one's place in time.
Request(k, m, f) ==
  IF f \/ (k = "recovery") # (m = "event")
  THEN /\ answer' = [answer EXCEPT ![k] = IF k = "ordinary" THEN @ ELSE "failed"]
       /\ UNCHANGED <<queued, outdated, active>>
  ELSE /\ queued' = queued \union {k} /\ outdated' = outdated \ {k}
       /\ answer' = [answer EXCEPT ![k] = IF k = "ordinary" THEN @ ELSE "pending"]
       /\ UNCHANGED active

\* The watcher, a settled turn or POST /sessions/search/reindex asks for it.
RequestIndex ==
  /\ ~Writing
  /\ Request("ordinary", marker, fence)
  /\ UNCHANGED <<durable, fence, deleted, pc, rec, scan, crashes>>

BugSilent(said) == active' = NoJob /\ UNCHANGED answer

Settle(said) ==
  /\ active' = NoJob
  /\ answer' = [answer EXCEPT ![active.key] = Told(active.key, said)]

MarkerFits(k) == (k = "recovery") = (marker = "event")

\* What the first steps of a job find, before anything is changed.
JobRefused(k) == k \in outdated \/ ~MarkerFits(k)
JobDenied == fence \/ ~Catalogued \/ file = 0

\* SearchQueue.pump and the head of indexSessionAttempt.  A job that finds the
\* publication current only refreshes its metadata; any other hides what is
\* published before it yields.
StartJob(k) ==
  /\ ~Writing /\ active = NoJob /\ k \in queued
  /\ queued' = queued \ {k} /\ outdated' = outdated \ {k}
  /\ \/ /\ JobRefused(k)
        /\ answer' = [answer EXCEPT ![k] = Told(k, "failed")]
        /\ UNCHANGED <<active, smeta, published>>
     \/ /\ ~JobRefused(k) /\ ~JobDenied
        /\ k = "ordinary" /\ published = file
        /\ smeta' = meta
        /\ UNCHANGED <<active, published, answer>>
     \/ /\ ~JobRefused(k) /\ ~JobDenied
        /\ ~(k = "ordinary" /\ published = file)
        /\ published' = 0
        /\ active' = [key |-> k, at |-> "reading", version |-> file, meta |-> meta,
                      stale |-> FALSE]
        /\ UNCHANGED <<smeta, answer>>
  /\ UNCHANGED <<row, file, redacted, rewritten, meta, marker,
                 fence, deleted, pc, rec, scan, crashes>>

\* The same for a job that is denied: it purges, which also dates every other
\* pending request.
DenyJob(k) ==
  /\ ~Writing /\ active = NoJob /\ k \in queued
  /\ ~JobRefused(k) /\ JobDenied
  /\ Purge
  /\ queued' = queued \ {k} /\ outdated' = queued \ {k}
  /\ answer' = [answer EXCEPT ![k] = Told(k, "failed")]
  /\ UNCHANGED <<row, file, redacted, rewritten, meta, marker,
                 fence, deleted, pc, rec, scan, active, crashes>>

\* authCurrent() and guard()
AuthCurrent ==
  /\ ~active.stale /\ ~fence /\ Catalogued
  /\ MarkerFits(active.key)
  /\ active.version = file
MetadataCurrent == active.meta = meta

BugPublishUnchecked ==
  /\ ~Writing /\ active.at = "reading"
  /\ smeta' = active.meta /\ published' = active.version
  /\ active' = [active EXCEPT !.at = "published"]
  /\ UNCHANGED <<row, file, redacted, rewritten, meta, marker, fence, deleted,
                 pc, rec, scan, queued, outdated, answer, crashes>>

\* No await parts the last guard from the flip of the publication.
Publish ==
  /\ ~Writing /\ active.at = "reading" /\ AuthCurrent /\ MetadataCurrent
  /\ smeta' = active.meta /\ published' = active.version
  /\ active' = [active EXCEPT !.at = "published"]
  /\ UNCHANGED <<row, file, redacted, rewritten, meta, marker, fence, deleted,
                 pc, rec, scan, queued, outdated, answer, crashes>>

\* Cleanup yields once more after the flip.
FinishJob ==
  /\ ~Writing /\ active.at = "published" /\ AuthCurrent /\ MetadataCurrent
  /\ Settle("ok")
  /\ UNCHANGED <<durable, fence, deleted, pc, rec, scan, queued, outdated, crashes>>

\* A guard fails: a job whose marker came or went defers, one that was aborted
\* leaves the index alone, any other purges what it can no longer vouch for.
InvalidateJob ==
  /\ ~Writing /\ active # NoJob /\ ~AuthCurrent
  /\ Settle("failed")
  /\ IF ~MarkerFits(active.key) \/ active.stale
     THEN UNCHANGED <<smeta, published, outdated>>
     ELSE smeta' = 0 /\ published' = 0 /\ outdated' = queued
  /\ UNCHANGED <<row, file, redacted, rewritten, meta, marker,
                 fence, deleted, pc, rec, scan, queued, crashes>>

\* MetadataChanged: try again from the start, three times at most, then purge.
RetryJob ==
  /\ ~Writing /\ active # NoJob /\ AuthCurrent /\ ~MetadataCurrent
  /\ \/ /\ active' = [active EXCEPT !.at = "reading", !.meta = meta]
        /\ published' = 0
        /\ UNCHANGED <<smeta, outdated, answer>>
     \/ /\ smeta' = 0 /\ published' = 0 /\ outdated' = queued
        /\ Settle("failed")
  /\ UNCHANGED <<row, file, redacted, rewritten, meta, marker,
                 fence, deleted, pc, rec, scan, queued, crashes>>

\* Extraction, staging or the database fails, or a recovery finds records that
\* cannot be indexed.
FailJob ==
  /\ ~Writing /\ active.at = "reading"
  /\ published' = 0
  /\ Settle("failed")
  /\ UNCHANGED <<row, file, redacted, rewritten, meta, marker, smeta,
                 fence, deleted, pc, rec, scan, queued, outdated, crashes>>

-----------------------------------------------------------------------------
(* The catalog scan.                                                       *)

ScanRead ==
  /\ ~Writing /\ scan = NoScan /\ file # 0
  /\ scan' = [version |-> file, fresh |-> TRUE]
  /\ UNCHANGED <<durable, fence, deleted, pc, rec, jobs, crashes>>

BugRowUnchecked == scan.fresh

\* The incremental scan commits nothing that was parsed before a direct
\* mutation (its generation) or under another revision of the row.  The legacy
\* scan looks at the tombstones of the process and the journal only, writes
\* what it has parsed, and adds the session if the catalog lacks it.
Admitted == IF Legacy THEN ~deleted /\ marker # "delete" ELSE Catalogued /\ scan.fresh

\* A scan commits what it has parsed of the session, or it has left the file
\* out and the row is as it was: the file was too large or could not be parsed,
\* it changed meanwhile, or its classification or the policy did.
ScanEnds ==
  /\ ~Writing /\ scan # NoScan /\ scan' = NoScan
  /\ \/ Admitted /\ meta' = scan.version /\ row' = "kept"
     \/ UNCHANGED <<row, meta>>

\* A mutation or the recovery waits for a scan and shares the one in flight.
\* (Legacy scans are not shared; they are modelled one after the other.)
ScanAwaited == pc = "reconciling" \/ rec = "reconciling"

\* The result of a scan that nobody waits for, or one that is discarded: it
\* began before the last direct mutation of this session or another.
ScanCommit ==
  /\ ScanEnds
  /\ ScanAwaited /\ scan.fresh => meta' = meta
  /\ UNCHANGED <<file, redacted, rewritten, marker, smeta, published,
                 fence, deleted, pc, rec, jobs, crashes>>

\* stageCatalogDurableSession: the incremental scan adds a file that no row
\* names.  The store refuses a session whose deletion is in the journal.
StageSession ==
  /\ ~Writing /\ ~Legacy /\ ~Catalogued /\ file # 0 /\ marker # "delete"
  /\ row' = "kept" /\ meta' = 0
  /\ UNCHANGED <<file, redacted, rewritten, marker, smeta, published, process, crashes>>

-----------------------------------------------------------------------------
(* The transcript: a runtime or another program appends to it.             *)

Append ==
  /\ ~Writing /\ file # 0 /\ file < MaxVersion
  /\ file' = file + 1
  /\ UNCHANGED <<row, redacted, rewritten, meta, marker, smeta, published,
                 process, crashes>>

-----------------------------------------------------------------------------
(* mutateEvent: edit or delete one event.                                  *)

Stale(s) == [s EXCEPT !.fresh = FALSE]

\* An operation takes the runtime lock and asks for the PIN.
Begin ==
  /\ ~Writing /\ pc = "idle" /\ Catalogued
  /\ pc' \in {"pin", "deletePin"}
  /\ UNCHANGED <<durable, fence, deleted, rec, scan, jobs, crashes>>

\* The PIN or a gate refuses, the runtime is busy, the entry has changed.
Refuse ==
  /\ ~Writing /\ pc \in {"pin", "disposing", "deletePin", "stopping", "purgedForDelete"}
  /\ pc' = "idle"
  /\ UNCHANGED <<durable, fence, deleted, rec, scan, jobs, crashes>>

PinAccepted ==
  /\ ~Writing /\ pc \in {"pin", "deletePin"}
  /\ pc' = IF pc = "pin" THEN "disposing" ELSE "stopping"
  /\ UNCHANGED <<durable, fence, deleted, rec, scan, jobs, crashes>>

\* With the runtime gone: write the marker, then raise the fence and purge.
\* The journal takes one marker of a session at a time.
Fence ==
  /\ ~Writing /\ pc = "disposing" /\ Catalogued /\ file # 0
  /\ marker = "none" /\ ~fence
  /\ marker' = "event" /\ rewritten' = FALSE
  /\ fence' = TRUE /\ CancelAndPurge
  /\ pc' = "fenced"
  /\ UNCHANGED <<row, file, redacted, meta, deleted, rec, scan, crashes>>

\* The purge fails after the marker was written and work was cancelled: the
\* marker is cleared, or stays for the next start if the store fails too.
FenceFails ==
  /\ ~Writing /\ pc = "disposing" /\ Catalogued /\ file # 0
  /\ marker = "none"
  /\ marker' \in {"none", "event"} /\ rewritten' = FALSE
  /\ CancelWork
  /\ pc' = "idle"
  /\ UNCHANGED <<row, file, redacted, meta, smeta, published,
                 fence, deleted, rec, scan, crashes>>

\* The atomic rewrite of the file, under the last look at the gates.
Rewrite ==
  /\ ~Writing /\ pc = "fenced" /\ file < MaxVersion
  /\ file' = file + 1 /\ redacted' = file' /\ rewritten' = TRUE
  /\ pc' = "rewritten"
  /\ UNCHANGED <<row, meta, marker, smeta, published,
                 fence, deleted, rec, scan, jobs, crashes>>

\* The adapter cannot tell whether the rewrite was committed: it goes on as if.
RewriteUnverified ==
  /\ ~Writing /\ pc = "fenced" /\ file < MaxVersion
  /\ pc' = "rewritten"
  /\ UNCHANGED <<durable, fence, deleted, rec, scan, jobs, crashes>>

\* A gate has closed or the entries have changed: nothing was written.  Take
\* the marker back, lower the fence and index again what was purged, as the
\* holder of the marker if the store refuses to let it go.
RewriteRefused ==
  /\ ~Writing /\ pc = "fenced"
  /\ fence' = FALSE
  /\ \/ /\ marker' = "none" /\ pc' = "reindexing"
        /\ Request("forced", "none", FALSE)
     \/ /\ pc' = "reindexingMarked" /\ UNCHANGED marker
        /\ Request("recovery", marker, FALSE)
  /\ UNCHANGED <<row, file, redacted, rewritten, meta, smeta, published,
                 deleted, rec, scan, crashes>>

BugMarkFailureUnmarked ==
  /\ pc = "rewritten"
  /\ \/ meta' = 0 /\ scan' = Stale(scan) /\ pc' = "reconciling" /\ UNCHANGED marker
     \/ marker' = "none" /\ pc' = "idle" /\ UNCHANGED <<meta, scan>>
  /\ UNCHANGED <<row, file, redacted, rewritten, smeta, published,
                 fence, deleted, rec, jobs, crashes>>

\* markSessionTranscriptMutated: what was derived from the transcript is
\* cleared, and scans of before are dated.
Mark ==
  /\ pc = "rewritten"
  /\ \/ meta' = 0 /\ scan' = Stale(scan) /\ pc' = "reconciling"
     \/ pc' = "idle" /\ UNCHANGED <<meta, scan>>       \* the store fails
  /\ UNCHANGED <<row, file, redacted, rewritten, marker, smeta, published,
                 fence, deleted, rec, jobs, crashes>>

\* A scan that began after the mark has ended, whether or not it derived the
\* row: lower the fence and index as the holder of the marker.
Reconciled ==
  /\ pc = "reconciling" /\ scan.fresh /\ ScanEnds
  /\ fence' = FALSE /\ Request("recovery", marker, FALSE)
  /\ pc' = "indexing"
  /\ UNCHANGED <<file, redacted, rewritten, marker, smeta, published,
                 deleted, rec, crashes>>

\* The scan fails, or 32 of them were discarded: the fence stays up until the
\* process ends.
ReconcileFails ==
  /\ ~Writing /\ pc = "reconciling" /\ pc' = "idle"
  /\ UNCHANGED <<durable, fence, deleted, rec, scan, jobs, crashes>>

BugAnswerTrusted == marker = "event"

\* isSearchRecoveryPublicationCurrent
PublicationCurrent ==
  /\ marker = "event" /\ Catalogued /\ file # 0
  /\ published = file /\ smeta = meta

Cleared == marker' = "none" /\ rewritten' = FALSE
Answered(k) == answer[k] \in {"ok", "failed"}
Take(k) == answer' = [answer EXCEPT ![k] = "idle"]

\* Clear the marker if the publication is still the one that was asked for.
Acknowledge ==
  /\ ~Writing /\ pc = "indexing" /\ Answered("recovery")
  /\ pc' = "idle" /\ Take("recovery")
  /\ \/ answer["recovery"] = "ok" /\ PublicationCurrent /\ Cleared
     \/ UNCHANGED <<marker, rewritten>>         \* not current, or the store fails
  /\ UNCHANGED <<row, file, redacted, meta, smeta, published,
                 fence, deleted, rec, scan, queued, outdated, active, crashes>>

\* The index of what was not rewritten has been asked for in vain or not.
Reindexed ==
  /\ ~Writing
  /\ \E k \in {"forced", "recovery"} :
       /\ pc = IF k = "forced" THEN "reindexing" ELSE "reindexingMarked"
       /\ Answered(k) /\ Take(k)
  /\ pc' = "idle"
  /\ UNCHANGED <<durable, fence, deleted, rec, scan, queued, outdated, active, crashes>>

-----------------------------------------------------------------------------
(* POST /sessions/:id/delete and deleteSession                             *)

\* removeSession, once the runtime has stopped; no fence is raised.
PurgeForDelete ==
  /\ ~Writing /\ pc = "stopping"
  /\ CancelAndPurge /\ pc' = "purgedForDelete"
  /\ UNCHANGED <<row, file, redacted, rewritten, meta, marker,
                 fence, deleted, rec, scan, crashes>>

\* One commit drops the row and writes the marker.
DeleteRow ==
  /\ ~Writing /\ pc = "purgedForDelete" /\ Catalogued /\ file # 0
  /\ marker = "none"
  /\ row' = "deleted" /\ meta' = 0 /\ marker' = "delete" /\ rewritten' = FALSE
  /\ deleted' = TRUE
  /\ pc' = "rowDeleted"
  /\ UNCHANGED <<file, redacted, smeta, published, fence, rec, scan, jobs, crashes>>

\* The artifacts, the commit or the journal refuse: index again.
DeleteRefused ==
  /\ ~Writing /\ pc = "purgedForDelete" /\ Catalogued
  /\ Request("forced", marker, fence)
  /\ pc' = "reindexing"
  /\ UNCHANGED <<durable, fence, deleted, rec, scan, crashes>>

Unlink ==
  /\ pc = "rowDeleted"
  /\ \/ file' = 0 /\ pc' = "unlinked"
     \/ pc' = "idle" /\ UNCHANGED file               \* not a safe file to unlink
  /\ UNCHANGED <<row, redacted, rewritten, meta, marker, smeta, published,
                 fence, deleted, rec, scan, jobs, crashes>>

ClearDeleted ==
  /\ pc = "unlinked"
  /\ (marker' = "none" \/ UNCHANGED marker)
  /\ scan' = Stale(scan) /\ pc' = "idle"
  /\ UNCHANGED <<row, file, redacted, rewritten, meta, smeta, published,
                 fence, deleted, rec, jobs, crashes>>

-----------------------------------------------------------------------------
(* Crash, and recoverTranscriptRecoveryJournal at the next start.  The      *)
(* server already serves requests while it runs.                            *)

Crash ==
  /\ crashes < MaxCrashes /\ crashes' = crashes + 1
  /\ fence' = FALSE /\ deleted' = FALSE /\ pc' = "idle" /\ scan' = NoScan
  /\ queued' = {} /\ outdated' = {} /\ active' = NoJob
  /\ answer' = [k \in Keys |-> "idle"]
  /\ rec' = IF marker = "none" THEN "done" ELSE "boot"
  /\ UNCHANGED durable

\* recoverEventReconcile up to its first await.  No mutation has raised the
\* fence before: the marker of the session keeps it from writing its own.
RecoverEvent ==
  /\ ~Writing /\ rec = "boot" /\ marker = "event"
  /\ fence' = TRUE /\ CancelAndPurge
  /\ \/ Catalogued /\ file # 0 /\ meta' = 0 /\ scan' = Stale(scan) /\ rec' = "reconciling"
     \/ rec' = "done" /\ UNCHANGED <<meta, scan>>
  /\ UNCHANGED <<row, file, redacted, rewritten, marker, deleted, pc, crashes>>

RecoverReconciled ==
  /\ ~Writing /\ rec = "reconciling"
  /\ \/ /\ scan.fresh /\ ScanEnds
        /\ fence' = FALSE /\ Request("recovery", marker, FALSE)
        /\ rec' = "indexing"
     \/ rec' = "done" /\ UNCHANGED <<row, meta, scan, fence, jobs>>
  /\ UNCHANGED <<file, redacted, rewritten, marker, smeta, published,
                 deleted, pc, crashes>>

\* The marker is cleared as in Acknowledge, or the fence is raised for good.
RecoverAcknowledge ==
  /\ ~Writing /\ rec = "indexing" /\ Answered("recovery")
  /\ rec' = "done"
  /\ \/ /\ answer["recovery"] = "ok" /\ PublicationCurrent /\ Cleared
        /\ Take("recovery")
        /\ UNCHANGED <<smeta, published, fence, queued, outdated, active>>
     \/ /\ fence' = TRUE
        /\ published' = 0 /\ smeta' = 0 /\ queued' = {} /\ outdated' = {}
        /\ active' = IF active = NoJob THEN NoJob ELSE [active EXCEPT !.stale = TRUE]
        /\ answer' = [k \in Keys |-> IF k = "recovery" THEN "idle"
                       ELSE IF k \in queued THEN Told(k, "failed") ELSE answer[k]]
        /\ UNCHANGED <<marker, rewritten>>
  /\ UNCHANGED <<row, file, redacted, meta, deleted, pc, scan, crashes>>

\* recoverSessionDelete: purge, yield, unlink, clear.
RecoverDelete ==
  /\ ~Writing /\ rec = "boot" /\ marker = "delete"
  /\ CancelAndPurge /\ rec' = "removing"
  /\ UNCHANGED <<row, file, redacted, rewritten, meta, marker,
                 fence, deleted, pc, scan, crashes>>

RecoverUnlink ==
  /\ ~Writing /\ rec = "removing"
  /\ \/ ~Catalogued /\ file' = 0 /\ rec' = "unlinked"
     \/ rec' = "done" /\ UNCHANGED file
  /\ UNCHANGED <<row, redacted, rewritten, meta, marker, smeta, published,
                 fence, deleted, pc, scan, jobs, crashes>>

RecoverClear ==
  /\ rec = "unlinked" /\ rec' = "done"
  /\ (marker' = "none" \/ UNCHANGED marker)
  /\ UNCHANGED <<row, file, redacted, rewritten, meta, smeta, published,
                 fence, deleted, pc, scan, jobs, crashes>>

-----------------------------------------------------------------------------
Search == \/ RequestIndex \/ Publish \/ FinishJob \/ InvalidateJob \/ RetryJob \/ FailJob
          \/ \E k \in Keys : StartJob(k) \/ DenyJob(k)
Catalog == ScanRead \/ ScanCommit \/ StageSession
Mutation == \/ PinAccepted \/ Refuse \/ Fence \/ FenceFails \/ Rewrite \/ RewriteUnverified
            \/ RewriteRefused \/ Mark \/ Reconciled \/ ReconcileFails
            \/ Acknowledge \/ Reindexed
Deletion == PurgeForDelete \/ DeleteRow \/ DeleteRefused \/ Unlink \/ ClearDeleted
Recovery == \/ RecoverEvent \/ RecoverReconciled \/ RecoverAcknowledge
            \/ RecoverDelete \/ RecoverUnlink \/ RecoverClear

Next == Search \/ Catalog \/ Append \/ Begin \/ Mutation \/ Deletion \/ Recovery \/ Crash
Spec == Init /\ [][Next]_vars

\* What the process has begun it goes on with: awaits settle and jobs run.
FairSpec ==
  /\ Spec
  /\ WF_vars(Mutation \/ Deletion) /\ WF_vars(Recovery)
  /\ WF_vars(ScanCommit) /\ \A k \in Keys : SF_vars(StartJob(k) \/ DenyJob(k))
  /\ WF_vars(FinishJob \/ Publish \/ InvalidateJob \/ RetryJob \/ FailJob)

-----------------------------------------------------------------------------
(* The promise about removed text that this implements.                    *)

\* What the journal's marker is a pledge of.
Pledge == CASE marker = "delete" -> "unlink"
            [] marker = "event" -> IF rewritten THEN "owed" ELSE "open"
            [] OTHER -> "none"

Redacted == INSTANCE RedactedTranscript WITH
              text <- file, removed <- redacted, derived <- meta,
              body <- published, title <- smeta, pledge <- Pledge

-----------------------------------------------------------------------------
(* Properties                                                              *)

TypeOK ==
  /\ row \in {"none", "kept", "deleted"} /\ file \in Versions /\ redacted \in Versions
  /\ rewritten \in BOOLEAN /\ meta \in Versions
  /\ marker \in {"none", "event", "delete"} /\ smeta \in Versions
  /\ published \in Versions /\ fence \in BOOLEAN /\ deleted \in BOOLEAN
  /\ pc \in {"idle", "pin", "disposing", "fenced", "rewritten", "reconciling",
             "indexing", "reindexing", "reindexingMarked", "deletePin", "stopping",
             "purgedForDelete", "rowDeleted", "unlinked"}
  /\ rec \in {"boot", "reconciling", "indexing", "removing", "unlinked", "done"}
  /\ scan \in [version : Versions, fresh : BOOLEAN]
  /\ queued \subseteq Keys /\ outdated \subseteq queued
  /\ active \in {NoJob} \union [key : Keys, at : {"reading", "published"},
                                version : Versions, meta : Versions, stale : BOOLEAN]
  /\ answer \in [Keys -> {"idle", "pending", "ok", "failed"}]
  /\ crashes \in 0 .. MaxCrashes

\* Derived from what a rewrite has left, or cleared and not derived again.
Clean(v) == v = 0 \/ v >= redacted

\* Text that a rewrite removed is in no entry the search index serves, body or
\* metadata, whatever job, scan or crash came between (indexer.ts, the purge of
\* mutateEvent before its rewrite).
NothingRemovedIsIndexed == Clean(published) /\ Clean(smeta)

\* As long as the row may hold what a rewrite has removed, the journal has the
\* marker that makes the next start clear it (markSessionTranscriptMutated,
\* transcript-recovery-journal.ts).
UncleanIsMarked == Catalogued /\ ~Clean(meta) => marker = "event"

\* While the fence is up the index serves nothing of the session
\* (transcriptMutationFences in indexer.ts).
FencedIsUnpublished == fence => published = 0 /\ smeta = 0

\* A transcript that outlives its row has a marker that gets it unlinked
\* (deleteSession, recoverSessionDelete).
OrphanIsMarked == row = "deleted" /\ file # 0 => marker = "delete"

\* A marker under which the transcript was rewritten is cleared only when the
\* index serves what the file now holds, under metadata of the row that hold
\* nothing removed (acknowledgeSearchRecovery).
ClearedWhenIndexed ==
  [][rewritten /\ marker = "event" /\ marker' # "event"
     => /\ published' = file' /\ file' >= redacted'
        /\ smeta' = meta' /\ Clean(meta)']_vars

\* "It is cleared only after metadata and search reconciliation succeed"
\* (docs/transcript-event-mutations.md:44): the row has been parsed again.
ClearedWhenReconciled ==
  [][rewritten /\ marker = "event" /\ marker' # "event" => meta' >= redacted']_vars

\* A deleted session does not come back.
DeletedStaysDeleted == [][row = "deleted" => row' = "deleted"]_vars

\* Over jobs and scans that overlap, writes that fail or cannot be verified,
\* and crashes, the mutations, the index, the catalog and the recovery keep the
\* promise: text goes while nothing is served, what may hold it is not served
\* again, and the marker stays until the row is clean and the index derived anew.
ImplementsRedaction == Redacted!Spec

\* Recovery of the journal ends, so the scheduler, the search watcher and the
\* catalog are started (app.ts).
ServicesStart == rec # "done" ~> rec = "done"
=============================================================================
