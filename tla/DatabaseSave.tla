---------------------------- MODULE DatabaseSave ----------------------------
(***************************************************************************)
(* Devices that keep the same KeePass file in one remote storage, each     *)
(* running the save worker of workers/DatabaseSave.ets under the session   *)
(* state of services/kdbx/KdbxSaveService.ets.                             *)
(*                                                                         *)
(* A database is the set of edits it contains; merging two databases       *)
(* (Kdbx.merge) is their union.  Every write encrypts with fresh salts, so *)
(* each file ever stored is distinct: it is known by `id`, which stands    *)
(* both for its SHA-256 and for the version the storage reports for it     *)
(* (eTag, md5, id:size:editedTime, size|mtime).  0 is a version that is    *)
(* not known (null).                                                       *)
(*                                                                         *)
(* Each call to the storage is one step.  A storage is described by what   *)
(* its adapter does:                                                       *)
(*   FastPath         supportsVersionFastPath()                            *)
(*   ReadInfoFirst    readToFile() takes the metadata before the content   *)
(*                    (Baidu, Huawei), not after it (WebDAV, S3, OneDrive, *)
(*                    pCloud, FTP, FileTransfer.readToFileDefault)         *)
(*   InfoFromResponse the metadata of a written file comes with the answer *)
(*                    to the upload (OneDrive, Huawei, Baidu), not from a  *)
(*                    getInfo() afterwards                                 *)
(*   FailOpenCheck    a failed probe of the current version lets the write *)
(*                    go on (S3, OneDrive, pCloud, Baidu)                  *)
(*   CacheFallback    getInfo() of CacheStorage answers from the local     *)
(*                    copy, without a version, when the remote fails       *)
(***************************************************************************)
EXTENDS Naturals, FiniteSets

CONSTANTS
  Device,               \* devices (or app instances) sharing the file
  Edit,                 \* the changes users may make, each made once
  FastPath, ReadInfoFirst, InfoFromResponse, FailOpenCheck, CacheFallback,
  MAX_CONFLICT_RETRY,   \* DatabaseSave.MAX_CONFLICT_RETRY (3 in the code)
  MaxSaves,             \* bound: save requests made by users
  MaxLoads              \* bound: reloads started

ASSUME BoundAssumption ==
  /\ MAX_CONFLICT_RETRY \in Nat
  /\ MaxSaves \in Nat
  /\ MaxLoads \in Nat
ASSUME StorageAssumption ==
  {FastPath, ReadInfoFirst, InfoFromResponse, FailOpenCheck, CacheFallback}
     \subseteq BOOLEAN

VARIABLES
  remote,    \* the file in the storage
  model,     \* model[d]: dbFileParam.database, the database in memory
  base,      \* base[d]: dbFileParam.version and .contentHash
  job,       \* job[d]: the save that holds the saving lock
  load,      \* load[d]: the reload (pull to refresh, RELOAD) in flight
  pending,   \* pending[d]: the slot of pendingSaves
  dialogs,   \* dialogs[d]: conflict dialogs waiting for an answer
  made,      \* edits made so far
  saves,     \* save requests made so far
  loads      \* reloads started so far

vars == <<remote, model, base, job, load, pending, dialogs, made, saves, loads>>

Strategies == {"AUTO", "MERGE", "OVERWRITE"}
NoVersion == 0
Files == [id : Nat, edits : SUBSET Edit]
NoFile == [id |-> 0, edits |-> {}]

(* `gap` is history: why the model may not hold what the baseline names.    *)
(*   "reloaded"   a reload replaced the model under the save that then moved *)
(*                the baseline on (or the baseline under a merge)           *)
(*   "unadopted"  a merge was stored, but it has not become the model       *)
Gaps == {"none", "reloaded", "unadopted"}
Baselines == [version : Nat, hash : Nat, gap : Gaps]
NoBaseline == [version |-> NoVersion, hash |-> 0, gap |-> "none"]

JobSteps == {"idle", "guard", "read", "read2", "decide", "check", "put",
             "info", "success", "adopt", "conflict", "error"}

Jobs == [pc       : JobSteps,
         strategy : Strategies,
         base     : Baselines,   \* expectedVersion and baseContentHash
         data     : SUBSET Edit, \* the database serialised into the request
         want     : SUBSET Edit, \* the model when the save was requested
         retry    : Nat,         \* retryCount
         copy     : Files,       \* the remote file downloaded to tempPath
         info     : Nat,         \* fileInfo.version
         cond     : Nat,         \* WriteOption.expectedVersion
         seen     : Nat,         \* history: the version the adapter's check saw
         built    : SUBSET Edit, \* the content buildSavedContent encrypts
         merged   : BOOLEAN,     \* SuccessMessage.isMerge
         written  : Nat,         \* the file this save stored, its SHA-256
         version  : Nat,         \* SuccessMessage.version
         reloaded : BOOLEAN]     \* history: a reload replaced the model meanwhile

Idle == [pc |-> "idle", strategy |-> "AUTO", base |-> NoBaseline,
         data |-> {}, want |-> {}, retry |-> 0, copy |-> NoFile,
         info |-> NoVersion, cond |-> NoVersion, seen |-> NoVersion, built |-> {},
         merged |-> FALSE, written |-> 0, version |-> NoVersion,
         reloaded |-> FALSE]

Failed == [Idle EXCEPT !.pc = "error"]

Requests == [some : BOOLEAN, strategy : Strategies, want : SUBSET Edit]
NoRequest == [some |-> FALSE, strategy |-> "AUTO", want |-> {}]

LoadSteps == {"none", "read", "read2", "deliver"}
Loads == [pc : LoadSteps, copy : Files, info : Nat]
NoLoad == [pc |-> "none", copy |-> NoFile, info |-> NoVersion]

Init ==
  /\ remote  = [id |-> 1, edits |-> {}]
  /\ model   = [d \in Device |-> {}]
  /\ base    = [d \in Device |-> [version |-> 1, hash |-> 1, gap |-> "none"]]
  /\ job     = [d \in Device |-> Idle]
  /\ load    = [d \in Device |-> NoLoad]
  /\ pending = [d \in Device |-> NoRequest]
  /\ dialogs = [d \in Device |-> 0]
  /\ made    = {}
  /\ saves   = 0
  /\ loads   = 0

-----------------------------------------------------------------------------
(* The session: editing, asking for a save, the lock and its queue slot.    *)

(* executeSave(): the request is built from the baseline and the model of   *)
(* that moment.                                                             *)
NewJob(strategy, want, b, m) ==
  [Idle EXCEPT !.pc = "guard", !.strategy = strategy, !.want = want,
               !.base = b, !.data = m]

(* saveDatabaseFor() after its early returns: while a save holds the lock   *)
(* the request replaces the one in the slot.                                *)
SaveFor(d, strategy) ==
  IF job[d].pc # "idle"
  THEN /\ pending' = [pending EXCEPT ![d] =
                        [some |-> TRUE, strategy |-> strategy, want |-> model[d]]]
       /\ UNCHANGED job
  ELSE /\ job' = [job EXCEPT ![d] = NewJob(strategy, model[d], base[d], model[d])]
       /\ UNCHANGED pending

(* release() and onSaveDone(): the save in the slot starts with the model   *)
(* and the baseline of now (m and b), or the lock is free.                  *)
Release(d, b, m) ==
  /\ job' = [job EXCEPT ![d] =
               IF pending[d].some
               THEN NewJob(pending[d].strategy, pending[d].want, b, m)
               ELSE Idle]
  /\ pending' = [pending EXCEPT ![d] = NoRequest]

MakeEdit(d) ==
  \E e \in Edit \ made :
    /\ made'  = made \cup {e}
    /\ model' = [model EXCEPT ![d] = @ \cup {e}]
    /\ UNCHANGED <<remote, base, job, load, pending, dialogs, saves, loads>>

(* Mutated RequestSave: no default for a strategy the caller left out.      *)
RequestSaveNoDefault(d) ==
  /\ saves < MaxSaves
  /\ saves' = saves + 1
  /\ SaveFor(d, "undefined")
  /\ UNCHANGED <<remote, model, base, load, dialogs, made, loads>>

RequestSave(d) ==
  /\ saves < MaxSaves
  /\ saves' = saves + 1
  /\ SaveFor(d, "AUTO")
  /\ UNCHANGED <<remote, model, base, load, dialogs, made, loads>>

(* The conflict dialog: merge and overwrite save again with that strategy.  *)
AnswerSave(d) ==
  /\ dialogs[d] > 0
  /\ dialogs' = [dialogs EXCEPT ![d] = @ - 1]
  /\ \E s \in {"MERGE", "OVERWRITE"} : SaveFor(d, s)
  /\ UNCHANGED <<remote, model, base, load, made, saves, loads>>

(* reloadFromRemote() dispatches a load, which is refused while another one *)
(* is running (worker_busy).                                                *)
AnswerReload(d) ==
  /\ dialogs[d] > 0
  /\ dialogs' = [dialogs EXCEPT ![d] = @ - 1]
  /\ IF load[d].pc = "none" /\ loads < MaxLoads
     THEN load' = [load EXCEPT ![d].pc = "read"] /\ loads' = loads + 1
     ELSE UNCHANGED <<load, loads>>
  /\ UNCHANGED <<remote, model, base, job, pending, made, saves>>

AnswerDismiss(d) ==
  /\ dialogs[d] > 0
  /\ dialogs' = [dialogs EXCEPT ![d] = @ - 1]
  /\ UNCHANGED <<remote, model, base, job, load, pending, made, saves, loads>>

-----------------------------------------------------------------------------
(* The save worker: handleSaveDatabase().                                   *)

Advance(d, pc) == job' = [job EXCEPT ![d].pc = pc]
WorkerOnly == UNCHANGED <<remote, model, base, load, pending, dialogs, made, saves, loads>>

(* Mutated GuardHit: any known version takes the fast path.                 *)
GuardHitAnyVersion(d) ==
  /\ job[d].pc = "guard"
  /\ FastPath
  /\ job[d].base.version # NoVersion
  /\ job' = [job EXCEPT ![d].pc = "check", ![d].info = remote.id,
                        ![d].cond = remote.id, ![d].built = job[d].data]
  /\ WorkerOnly

(* checkBeforeRead() probed the version the baseline names: the download    *)
(* and the hash are skipped.                                                *)
GuardHit(d) ==
  /\ job[d].pc = "guard"
  /\ FastPath
  /\ job[d].base.version # NoVersion
  /\ job[d].base.version = remote.id
  /\ job' = [job EXCEPT ![d].pc = "check", ![d].info = remote.id,
                        ![d].cond = remote.id, ![d].built = job[d].data]
  /\ WorkerOnly

(* Another version, no version, or a probe that failed (fail-open).         *)
GuardMiss(d) ==
  /\ job[d].pc = "guard"
  /\ Advance(d, "read")
  /\ WorkerOnly

(* readToFile(): the content and its metadata come from two requests.       *)
ReadFirst(d) ==
  /\ job[d].pc = "read"
  /\ job' = IF ReadInfoFirst
            THEN [job EXCEPT ![d].pc = "read2", ![d].info = remote.id]
            ELSE [job EXCEPT ![d].pc = "read2", ![d].copy = remote]
  /\ WorkerOnly

ReadSecond(d) ==
  /\ job[d].pc = "read2"
  /\ job' = IF ReadInfoFirst
            THEN [job EXCEPT ![d].pc = "decide", ![d].copy = remote]
            ELSE [job EXCEPT ![d].pc = "decide", ![d].info = remote.id]
  /\ WorkerOnly

(* Mutated IsRemoteChanged: an unknown version counts as another one.       *)
UnknownVersionDiffers(j) ==
  \/ j.copy.id # j.base.hash
  \/ j.info # j.base.version

(* The double baseline: content hash, then version.                         *)
IsRemoteChanged(j) ==
  \/ j.copy.id # j.base.hash
  \/ /\ j.base.version # NoVersion /\ j.info # NoVersion
     /\ j.info # j.base.version

WriteUnchanged(d) ==
  /\ job[d].pc = "decide"
  /\ ~IsRemoteChanged(job[d])
  /\ job' = [job EXCEPT ![d].pc = "check", ![d].cond = job[d].info,
                        ![d].built = job[d].data]
  /\ WorkerOnly

(* The user chose to drop the remote changes: no expected version.          *)
WriteOverwrite(d) ==
  /\ job[d].pc = "decide"
  /\ IsRemoteChanged(job[d])
  /\ job[d].strategy = "OVERWRITE"
  /\ job' = [job EXCEPT ![d].pc = "put", ![d].cond = NoVersion,
                        ![d].built = job[d].data]
  /\ WorkerOnly

ReportConflict(d) ==
  /\ job[d].pc = "decide"
  /\ IsRemoteChanged(job[d])
  /\ job[d].strategy = "AUTO"
  /\ Advance(d, "conflict")
  /\ WorkerOnly

MergeRemote(d) ==
  /\ job[d].pc = "decide"
  /\ IsRemoteChanged(job[d])
  /\ job[d].strategy = "MERGE"
  /\ job' = [job EXCEPT ![d].pc = "check", ![d].cond = job[d].info,
                        ![d].built = job[d].data \cup job[d].copy.edits,
                        ![d].merged = TRUE]
  /\ WorkerOnly

(* The adapter compares versions before it uploads; a mismatch is retried   *)
(* from the download, at most MAX_CONFLICT_RETRY times.                     *)
CheckPasses(d) ==
  /\ job[d].pc = "check"
  /\ job[d].cond = remote.id
  /\ job' = [job EXCEPT ![d].pc = "put", ![d].seen = remote.id]
  /\ WorkerOnly

CheckSkipped(d) ==
  /\ job[d].pc = "check"
  /\ FailOpenCheck
  /\ Advance(d, "put")
  /\ WorkerOnly

(* Mutated CheckConflict: the same content is retried with the new version. *)
CheckConflictReusesContent(d) ==
  /\ job[d].pc = "check"
  /\ job[d].cond # remote.id
  /\ job' = IF job[d].retry < MAX_CONFLICT_RETRY
            THEN [job EXCEPT ![d].retry = @ + 1, ![d].cond = remote.id]
            ELSE [job EXCEPT ![d] = Failed]
  /\ WorkerOnly

CheckConflict(d) ==
  /\ job[d].pc = "check"
  /\ job[d].cond # remote.id
  /\ job' = IF job[d].retry < MAX_CONFLICT_RETRY
            THEN [job EXCEPT ![d].pc = "read", ![d].retry = @ + 1,
                             ![d].copy = NoFile, ![d].info = NoVersion,
                             ![d].cond = NoVersion, ![d].built = {},
                             ![d].merged = FALSE]
            ELSE [job EXCEPT ![d] = Failed]
  /\ WorkerOnly

(* What the session still learns of a save that stored file w, and of one   *)
(* that failed.                                                             *)
Stored(j, w) ==
  [Idle EXCEPT !.pc = "info", !.want = j.want, !.built = j.built,
               !.merged = j.merged, !.written = w, !.reloaded = j.reloaded]
StoredBy(j) == [id |-> remote.id + 1, edits |-> j.built]

Put(d) ==
  /\ job[d].pc = "put"
  /\ remote' = StoredBy(job[d])
  /\ job' = [job EXCEPT ![d] = Stored(job[d], remote.id + 1)]
  /\ UNCHANGED <<model, base, load, pending, dialogs, made, saves, loads>>

(* The upload arrives and its answer is lost.                               *)
PutUnanswered(d) ==
  /\ job[d].pc = "put"
  /\ remote' = StoredBy(job[d])
  /\ job' = [job EXCEPT ![d] = Failed]
  /\ UNCHANGED <<model, base, load, pending, dialogs, made, saves, loads>>

(* The new baseline version: from the upload's answer, or from getInfo().   *)
PostInfo(d) ==
  /\ job[d].pc = "info"
  /\ job' = [job EXCEPT ![d].pc = "success",
               ![d].version = IF InfoFromResponse THEN job[d].written
                                                  ELSE remote.id]
  /\ WorkerOnly

PostInfoFromCache(d) ==
  /\ job[d].pc = "info"
  /\ CacheFallback
  /\ job' = [job EXCEPT ![d].pc = "success", ![d].version = NoVersion]
  /\ WorkerOnly

(* A request to the storage fails, or the remote no longer opens with these *)
(* credentials when it is merged.                                           *)
SaveFails(d) ==
  /\ job[d].pc \in {"guard", "read", "read2", "decide", "check", "put", "info"}
  /\ job' = [job EXCEPT ![d] = Failed]
  /\ WorkerOnly

-----------------------------------------------------------------------------
(* The worker's answers, handled on the main thread.                        *)

(* handleSuccess(): the baseline moves to what was written; a merge is then *)
(* still to be parsed before it becomes the model, and holds the lock.      *)
DeliverSuccess(d) ==
  /\ job[d].pc = "success"
  /\ base' = [base EXCEPT ![d] =
                [version |-> job[d].version, hash |-> job[d].written,
                 gap |-> IF job[d].merged THEN "unadopted"
                         ELSE IF job[d].reloaded THEN "reloaded" ELSE "none"]]
  /\ IF job[d].merged
     THEN /\ job' = [job EXCEPT ![d].pc = "adopt", ![d].reloaded = FALSE]
          /\ UNCHANGED pending
     ELSE Release(d, base'[d], model[d])
  /\ UNCHANGED <<remote, model, load, dialogs, made, saves, loads>>

(* Mutated AdoptMerged: the lock is released and the model is not replaced. *)
AdoptMergedModelKept(d) ==
  /\ job[d].pc = "adopt"
  /\ base' = [base EXCEPT ![d].gap = IF job[d].reloaded THEN "reloaded" ELSE "none"]
  /\ Release(d, base'[d], model[d])
  /\ UNCHANGED <<remote, model, load, dialogs, made, saves, loads>>

AdoptMerged(d) ==
  /\ job[d].pc = "adopt"
  /\ model' = [model EXCEPT ![d] = job[d].built]
  /\ base' = [base EXCEPT ![d].gap = IF job[d].reloaded THEN "reloaded" ELSE "none"]
  /\ Release(d, base'[d], job[d].built)
  /\ UNCHANGED <<remote, load, dialogs, made, saves, loads>>

(* The merged model cannot be read back: the baseline has moved already.    *)
AdoptFails(d) ==
  /\ job[d].pc = "adopt"
  /\ Release(d, base[d], model[d])
  /\ UNCHANGED <<remote, model, base, load, dialogs, made, saves, loads>>

DeliverConflict(d) ==
  /\ job[d].pc = "conflict"
  /\ dialogs' = [dialogs EXCEPT ![d] = @ + 1]
  /\ Release(d, base[d], model[d])
  /\ UNCHANGED <<remote, model, base, load, made, saves, loads>>

(* Mutated DeliverError: the callback runs and the lock stays taken.        *)
DeliverErrorKeepsLock(d) ==
  /\ job[d].pc = "error"
  /\ UNCHANGED vars

DeliverError(d) ==
  /\ job[d].pc = "error"
  /\ Release(d, base[d], model[d])
  /\ UNCHANGED <<remote, model, base, load, dialogs, made, saves, loads>>

-----------------------------------------------------------------------------
(* Reloading: pull to refresh, and the RELOAD answer.  Nothing keeps it     *)
(* from running while a save is in flight.                                  *)

LoaderOnly == UNCHANGED <<remote, model, base, job, pending, dialogs, made, saves, loads>>

(* probeRemoteUnchanged() ends the refresh when the version is the          *)
(* baseline's.                                                              *)
Refresh(d) ==
  /\ load[d].pc = "none"
  /\ loads < MaxLoads
  /\ ~(FastPath /\ base[d].version = remote.id)
  /\ load' = [load EXCEPT ![d].pc = "read"]
  /\ loads' = loads + 1
  /\ UNCHANGED <<remote, model, base, job, pending, dialogs, made, saves>>

LoadFirst(d) ==
  /\ load[d].pc = "read"
  /\ load' = IF ReadInfoFirst
             THEN [load EXCEPT ![d].pc = "read2", ![d].info = remote.id]
             ELSE [load EXCEPT ![d].pc = "read2", ![d].copy = remote]
  /\ LoaderOnly

LoadSecond(d) ==
  /\ load[d].pc = "read2"
  /\ load' = IF ReadInfoFirst
             THEN [load EXCEPT ![d].pc = "deliver", ![d].copy = remote]
             ELSE [load EXCEPT ![d].pc = "deliver", ![d].info = remote.id]
  /\ LoaderOnly

(* Mutated DeliverLoad: the baseline is replaced and the model is kept.     *)
DeliverLoadModelKept(d) ==
  /\ load[d].pc = "deliver"
  /\ base' = [base EXCEPT ![d] = [version |-> load[d].info,
                                  hash |-> load[d].copy.id, gap |-> "none"]]
  /\ job' = IF job[d].pc = "idle" THEN job ELSE [job EXCEPT ![d].reloaded = TRUE]
  /\ load' = [load EXCEPT ![d] = NoLoad]
  /\ pending' = [pending EXCEPT ![d].want = @ \cap load[d].copy.edits]
  /\ UNCHANGED <<remote, model, dialogs, made, saves, loads>>

(* resetDbFileParam(): model and baseline are replaced together.  What the  *)
(* reload drops on purpose is no longer owed by the queued save.            *)
DeliverLoad(d) ==
  /\ load[d].pc = "deliver"
  /\ model' = [model EXCEPT ![d] = load[d].copy.edits]
  /\ base' = [base EXCEPT ![d] = [version |-> load[d].info,
                                  hash |-> load[d].copy.id, gap |-> "none"]]
  /\ job' = IF job[d].pc = "idle" THEN job ELSE [job EXCEPT ![d].reloaded = TRUE]
  /\ load' = [load EXCEPT ![d] = NoLoad]
  /\ pending' = [pending EXCEPT ![d].want = @ \cap load[d].copy.edits]
  /\ UNCHANGED <<remote, dialogs, made, saves, loads>>

LoadFails(d) ==
  /\ load[d].pc \in {"read", "read2", "deliver"}
  /\ load' = [load EXCEPT ![d] = NoLoad]
  /\ LoaderOnly

-----------------------------------------------------------------------------
User(d) ==
  \/ MakeEdit(d) \/ RequestSave(d) \/ Refresh(d)
  \/ AnswerSave(d) \/ AnswerReload(d) \/ AnswerDismiss(d)

Worker(d) ==
  \/ GuardHit(d) \/ GuardMiss(d) \/ ReadFirst(d) \/ ReadSecond(d)
  \/ WriteUnchanged(d) \/ WriteOverwrite(d) \/ ReportConflict(d) \/ MergeRemote(d)
  \/ CheckPasses(d) \/ CheckSkipped(d) \/ CheckConflict(d)
  \/ Put(d) \/ PutUnanswered(d) \/ PostInfo(d) \/ PostInfoFromCache(d)
  \/ SaveFails(d)

Answers(d) ==
  \/ DeliverSuccess(d) \/ AdoptMerged(d) \/ AdoptFails(d)
  \/ DeliverConflict(d) \/ DeliverError(d)

Loader(d) == LoadFirst(d) \/ LoadSecond(d) \/ DeliverLoad(d) \/ LoadFails(d)

Next == \E d \in Device : User(d) \/ Worker(d) \/ Answers(d) \/ Loader(d)

Spec == Init /\ [][Next]_vars

(* Requests to the storage end, in an answer or in an error, and messages   *)
(* are delivered; users owe nothing.                                        *)
Fairness == \A d \in Device : WF_vars(Worker(d)) /\ WF_vars(Answers(d))
                              /\ WF_vars(Loader(d))
FairSpec == Spec /\ Fairness

-----------------------------------------------------------------------------
(* Properties.                                                              *)

TypeOK ==
  /\ remote \in Files
  /\ model \in [Device -> SUBSET Edit]
  /\ base \in [Device -> Baselines]
  /\ job \in [Device -> Jobs]
  /\ load \in [Device -> Loads]
  /\ pending \in [Device -> Requests]
  /\ dialogs \in [Device -> Nat]
  /\ made \subseteq Edit
  /\ saves \in Nat
  /\ loads \in Nat

(* What a device may drop from the storage when it writes, and why:         *)
(*  - the user answered the conflict dialog with "overwrite";               *)
Overwrites(j) == j.strategy = "OVERWRITE"
(*  - another write fell between the adapter's check of the version and the *)
(*    upload, or the probe failed and the adapter lets the write go on;     *)
RacedCheck(j) == IF j.seen = NoVersion THEN FailOpenCheck ELSE j.seen # remote.id
(*  - another write fell between the download and the metadata request, so  *)
(*    that an old content carries a new version;                            *)
TornRead(j) == j.copy.id \in 1 .. (j.info - 1)
(*  - such a pair is the baseline (a torn load, or a getInfo() after the    *)
(*    upload) and the download was skipped because its version matched;     *)
TornBaseline(j) == j.copy = NoFile /\ j.base.version > j.base.hash
(*  - the model is not the one the baseline was taken from.                 *)
Detached(j) == j.base.gap # "none"

Excused(j) == \/ Overwrites(j) \/ RacedCheck(j) \/ TornRead(j)
              \/ ~j.merged /\ (TornBaseline(j) \/ Detached(j))

Dropping(d) == /\ job[d].pc = "put" /\ job'[d].pc # "put"
               /\ ~(remote.edits \subseteq remote'.edits)

(* No edit leaves the storage but in one of the five ways above: the double *)
(* baseline, the re-check before every write and the retry from the         *)
(* download cover all other interleavings of the devices                    *)
(* (DatabaseSave.handleSaveDatabase).                                       *)
RemoteKeepsEdits == [][\A d \in Device : Dropping(d) => Excused(job[d])]_vars

(* While the stored file is the one the baseline names, the database in     *)
(* memory contains all of it, so that writing without a merge is safe,      *)
(* unless a reload raced a save or a merge was not adopted                  *)
(* (handleSuccess, resetDbFileParam).                                       *)
BaselineCovered ==
  \A d \in Device :
    (base[d].gap = "none" /\ base[d].hash = remote.id)
      => remote.edits \subseteq model[d]

(* The conflict dialog is shown only if the stored file was replaced after  *)
(* the baseline was taken (isRemoteChanged has no false alarms).            *)
ConflictIsReal ==
  \A d \in Device : job[d].pc = "conflict" => job[d].base.hash # remote.id

(* The saving lock is always released: every save ends in an answer.        *)
LockReleased == \A d \in Device : job[d].pc # "idle" ~> job[d].pc = "idle"

(* The claim of DatabaseSave.ets:44 (the conditional write and the bounded  *)
(* retry prevent overwriting the changes of other devices) without excuse:  *)
(* edits leave the storage only when a user chose to overwrite.             *)
OnlyOverwriteDrops == [][\A d \in Device : Dropping(d) => Overwrites(job[d])]_vars

(* The claim of DatabaseSave.ets:230 (the hash of the content is the final  *)
(* judge of the two baselines): a conflict is reported only if the content  *)
(* that was downloaded is not the content the save was built on.            *)
HashIsFinal ==
  \A d \in Device : job[d].pc = "conflict" => job[d].base.hash # job[d].copy.id

(* The claim of KdbxSaveService.ets:51 (merge keeps the changes of both     *)
(* sides, overwrite is what drops the remote ones): after a merge was stored *)
(* no save drops the remote side of it, also when the merged model could    *)
(* not be read back.                                                        *)
MergeKeepsBothSides ==
  [][\A d \in Device : Dropping(d) => job[d].base.gap # "unadopted"]_vars

(* The claim of KdbxSaveService.ets:60-63 (a queued save takes the newest   *)
(* model, so the final state is equivalent): a save that succeeds has       *)
(* written every edit the model held when the save was requested.           *)
QueuedSaveIsComplete ==
  \A d \in Device : job[d].pc = "success" => job[d].want \subseteq job[d].built
=============================================================================
