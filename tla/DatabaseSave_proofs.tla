------------------------ MODULE DatabaseSave_proofs ------------------------
(***************************************************************************)
(* Proofs about DatabaseSave, for every set of devices and of edits, every *)
(* kind of storage and every bound: its type invariant, and that no edit   *)
(* leaves the storage but in the ways Excused lists.                       *)
(***************************************************************************)
EXTENDS DatabaseSave, TLAPS

-----------------------------------------------------------------------------
(* Types.                                                                   *)

(* The records that stand for "nothing" have the types of their variables.  *)
LEMMA NothingType ==
  /\ NoFile \in Files
  /\ NoBaseline \in Baselines
  /\ Idle \in Jobs
  /\ Failed \in Jobs
  /\ NoRequest \in Requests
  /\ NoLoad \in Loads
  BY DEF NoFile, Files, NoBaseline, Baselines, Gaps, Idle, Jobs, JobSteps,
         Strategies, Failed, NoRequest, Requests, NoLoad, Loads, LoadSteps,
         NoVersion

(* A request is built with the type of a job.                               *)
LEMMA NewJobType ==
  ASSUME NEW s \in Strategies, NEW w \in SUBSET Edit, NEW b \in Baselines,
         NEW m \in SUBSET Edit
  PROVE  NewJob(s, w, b, m) \in Jobs
  BY NothingType DEF NewJob, Jobs, JobSteps

(* Asking for a save keeps the types of the lock and of its queue slot.     *)
LEMMA SaveForType ==
  ASSUME TypeOK, NEW d \in Device, NEW s \in Strategies, SaveFor(d, s)
  PROVE  job' \in [Device -> Jobs] /\ pending' \in [Device -> Requests]
<1>1. model[d] \in SUBSET Edit /\ base[d] \in Baselines
  BY DEF TypeOK
<1>2. NewJob(s, model[d], base[d], model[d]) \in Jobs
  BY <1>1, NewJobType
<1>3. [some |-> TRUE, strategy |-> s, want |-> model[d]] \in Requests
  BY <1>1 DEF Requests
<1> QED
  BY <1>2, <1>3 DEF SaveFor, TypeOK

(* And so does its end.                                                     *)
LEMMA ReleaseType ==
  ASSUME TypeOK, NEW d \in Device, NEW b \in Baselines, NEW m \in SUBSET Edit,
         Release(d, b, m)
  PROVE  job' \in [Device -> Jobs] /\ pending' \in [Device -> Requests]
<1>1. pending[d] \in Requests
  BY DEF TypeOK
<1>2. NewJob(pending[d].strategy, pending[d].want, b, m) \in Jobs
  BY <1>1, NewJobType DEF Requests
<1> QED
  BY <1>2, NothingType DEF Release, TypeOK

(* The updates of a job that change several of its fields keep its type.    *)
LEMMA JobUpdateType ==
  ASSUME NEW j \in Jobs
  PROVE  /\ [j EXCEPT !.pc = "read", !.retry = @ + 1, !.copy = NoFile,
                      !.info = NoVersion, !.cond = NoVersion, !.built = {},
                      !.merged = FALSE] \in Jobs
         /\ [j EXCEPT !.pc = "adopt", !.reloaded = FALSE] \in Jobs
         /\ \A w \in Nat : Stored(j, w) \in Jobs
<1>1. NoFile \in Files /\ NoVersion \in Nat /\ Idle \in Jobs
  BY NothingType DEF NoVersion
<1>2. [j EXCEPT !.pc = "read", !.retry = @ + 1, !.copy = NoFile,
               !.info = NoVersion, !.cond = NoVersion, !.built = {},
               !.merged = FALSE] \in Jobs
  <2> DEFINE k == [j EXCEPT !.pc = "read", !.retry = @ + 1, !.copy = NoFile]
  <2>1. k \in Jobs
    <3>1. "read" \in JobSteps /\ j.retry + 1 \in Nat
      BY DEF Jobs, JobSteps
    <3> QED
      BY <1>1, <3>1 DEF Jobs
  <2>2. [k EXCEPT !.info = NoVersion, !.cond = NoVersion, !.built = {},
                  !.merged = FALSE] \in Jobs
    <3> HIDE DEF k
    <3> QED
      BY <1>1, <2>1 DEF Jobs
  <2> QED
    BY <2>2
<1>3. [j EXCEPT !.pc = "adopt", !.reloaded = FALSE] \in Jobs
  BY DEF Jobs, JobSteps
<1>4. ASSUME NEW w \in Nat PROVE Stored(j, w) \in Jobs
  BY <1>1 DEF Stored, Jobs, JobSteps
<1> QED
  BY <1>2, <1>3, <1>4

(* The user keeps the types.                                                *)
LEMMA UserType ==
  ASSUME TypeOK, NEW d \in Device, User(d)
  PROVE  TypeOK'
<1>1. CASE MakeEdit(d)
  BY <1>1 DEF MakeEdit, TypeOK
<1>2. CASE RequestSave(d)
  BY <1>2, SaveForType DEF RequestSave, TypeOK, Strategies
<1>3. CASE AnswerSave(d)
  <2>1. PICK s \in {"MERGE", "OVERWRITE"} : SaveFor(d, s)
    BY <1>3 DEF AnswerSave
  <2>2. job' \in [Device -> Jobs] /\ pending' \in [Device -> Requests]
    BY <2>1, SaveForType DEF Strategies
  <2>3. dialogs' \in [Device -> Nat]
    BY <1>3 DEF AnswerSave, TypeOK
  <2>4. UNCHANGED <<remote, model, base, load, made, saves, loads>>
    BY <1>3 DEF AnswerSave
  <2> QED
    BY <2>2, <2>3, <2>4 DEF TypeOK
<1>4. CASE AnswerReload(d)
  BY <1>4 DEF AnswerReload, TypeOK, Loads, LoadSteps
<1>5. CASE AnswerDismiss(d)
  BY <1>5 DEF AnswerDismiss, TypeOK
<1>6. CASE Refresh(d)
  BY <1>6 DEF Refresh, TypeOK, Loads, LoadSteps
<1> QED
  BY <1>1, <1>2, <1>3, <1>4, <1>5, <1>6 DEF User

(* What the save worker leaves in job[d] is a job.                          *)
LEMMA WorkerType ==
  ASSUME TypeOK, NEW d \in Device, Worker(d)
  PROVE  TypeOK'
<1> USE DEF NoVersion
<1>a. job[d] \in Jobs /\ remote \in Files /\ remote.id \in Nat /\ remote.edits \in SUBSET Edit
  BY DEF TypeOK, Files
<1>1. CASE GuardHit(d)
  BY <1>1, <1>a DEF GuardHit, WorkerOnly, TypeOK, Jobs, JobSteps
<1>2. CASE GuardMiss(d)
  BY <1>2, <1>a DEF GuardMiss, Advance, WorkerOnly, TypeOK, Jobs, JobSteps
<1>3. CASE ReadFirst(d)
  BY <1>3, <1>a DEF ReadFirst, WorkerOnly, TypeOK, Jobs, JobSteps
<1>4. CASE ReadSecond(d)
  BY <1>4, <1>a DEF ReadSecond, WorkerOnly, TypeOK, Jobs, JobSteps
<1>5. CASE WriteUnchanged(d)
  BY <1>5, <1>a DEF WriteUnchanged, WorkerOnly, TypeOK, Jobs, JobSteps
<1>6. CASE WriteOverwrite(d)
  BY <1>6, <1>a DEF WriteOverwrite, WorkerOnly, TypeOK, Jobs, JobSteps
<1>7. CASE ReportConflict(d)
  BY <1>7, <1>a DEF ReportConflict, Advance, WorkerOnly, TypeOK, Jobs, JobSteps
<1>8. CASE MergeRemote(d)
  BY <1>8, <1>a DEF MergeRemote, WorkerOnly, TypeOK, Jobs, JobSteps, Files
<1>9. CASE CheckPasses(d)
  BY <1>9, <1>a DEF CheckPasses, WorkerOnly, TypeOK, Jobs, JobSteps
<1>10. CASE CheckSkipped(d)
  BY <1>10, <1>a DEF CheckSkipped, Advance, WorkerOnly, TypeOK, Jobs, JobSteps
<1>11. CASE CheckConflict(d)
  <2>1. [job[d] EXCEPT !.pc = "read", !.retry = @ + 1, !.copy = NoFile,
                       !.info = NoVersion, !.cond = NoVersion, !.built = {},
                       !.merged = FALSE] \in Jobs
    BY <1>a, JobUpdateType
  <2>2. job' \in [Device -> Jobs]
    BY <1>11, <2>1, NothingType DEF CheckConflict, TypeOK
  <2> QED
    BY <1>11, <2>2 DEF CheckConflict, WorkerOnly, TypeOK
<1>12. Stored(job[d], remote.id + 1) \in Jobs /\ StoredBy(job[d]) \in Files
  <2>1. remote.id + 1 \in Nat
    BY <1>a
  <2>2. Stored(job[d], remote.id + 1) \in Jobs
    BY <1>a, <2>1, JobUpdateType
  <2> QED
    BY <1>a, <2>1, <2>2 DEF StoredBy, Jobs, Files
<1>13. CASE Put(d)
  BY <1>13, <1>12 DEF Put, TypeOK
<1>14. CASE PutUnanswered(d)
  BY <1>14, <1>12, NothingType DEF PutUnanswered, TypeOK
<1>15. CASE PostInfo(d)
  BY <1>15, <1>a DEF PostInfo, WorkerOnly, TypeOK, Jobs, JobSteps
<1>16. CASE PostInfoFromCache(d)
  BY <1>16, <1>a DEF PostInfoFromCache, WorkerOnly, TypeOK, Jobs, JobSteps
<1>17. CASE SaveFails(d)
  BY <1>17, NothingType DEF SaveFails, WorkerOnly, TypeOK
<1> QED
  BY <1>1, <1>2, <1>3, <1>4, <1>5, <1>6, <1>7, <1>8, <1>9, <1>10, <1>11,
     <1>13, <1>14, <1>15, <1>16, <1>17 DEF Worker

(* So do the worker's answers.                                              *)
LEMMA AnswersType ==
  ASSUME TypeOK, NEW d \in Device, Answers(d)
  PROVE  TypeOK'
<1>a. /\ job[d] \in Jobs /\ model[d] \in SUBSET Edit /\ base[d] \in Baselines
      /\ job[d].built \in SUBSET Edit
  BY DEF TypeOK, Jobs
<1>1. CASE DeliverSuccess(d)
  <2>0. [version |-> job[d].version, hash |-> job[d].written,
         gap |-> IF job[d].merged THEN "unadopted"
                 ELSE IF job[d].reloaded THEN "reloaded" ELSE "none"] \in Baselines
    BY <1>a DEF Baselines, Gaps, Jobs
  <2>1. base' \in [Device -> Baselines]
    BY <1>1, <2>0 DEF DeliverSuccess, TypeOK
  <2>2. job' \in [Device -> Jobs] /\ pending' \in [Device -> Requests]
    <3>1. CASE job[d].merged
      <4>1. [job[d] EXCEPT !.pc = "adopt", !.reloaded = FALSE] \in Jobs
        BY <1>a, JobUpdateType
      <4> QED
        BY <1>1, <3>1, <4>1 DEF DeliverSuccess, TypeOK
    <3>2. CASE ~job[d].merged
      <4>1. base'[d] \in Baselines /\ Release(d, base'[d], model[d])
        BY <1>1, <2>1, <3>2 DEF DeliverSuccess
      <4> QED
        BY <1>a, <4>1, ReleaseType
    <3> QED
      BY <3>1, <3>2
  <2> QED
    BY <1>1, <2>1, <2>2 DEF DeliverSuccess, TypeOK
<1>2. CASE AdoptMerged(d)
  <2>1. base' \in [Device -> Baselines] /\ model' \in [Device -> SUBSET Edit]
    BY <1>2, <1>a DEF AdoptMerged, TypeOK, Baselines, Gaps
  <2>2. base'[d] \in Baselines /\ Release(d, base'[d], job[d].built)
    BY <1>2, <2>1 DEF AdoptMerged
  <2>3. job' \in [Device -> Jobs] /\ pending' \in [Device -> Requests]
    BY <1>a, <2>2, ReleaseType
  <2> QED
    BY <1>2, <2>1, <2>3 DEF AdoptMerged, TypeOK
<1>3. CASE AdoptFails(d) \/ DeliverError(d) \/ DeliverConflict(d)
  <2>1. job' \in [Device -> Jobs] /\ pending' \in [Device -> Requests]
    BY <1>3, <1>a, ReleaseType DEF AdoptFails, DeliverError, DeliverConflict
  <2> QED
    BY <1>3, <2>1 DEF AdoptFails, DeliverError, DeliverConflict, TypeOK
<1> QED
  BY <1>1, <1>2, <1>3 DEF Answers

(* So does a reload.                                                        *)
LEMMA LoaderType ==
  ASSUME TypeOK, NEW d \in Device, Loader(d)
  PROVE  TypeOK'
<1>a. load[d] \in Loads /\ remote \in Files /\ remote.id \in Nat
  BY DEF TypeOK, Files
<1>1. CASE LoadFirst(d)
  BY <1>1, <1>a DEF LoadFirst, LoaderOnly, TypeOK, Loads, LoadSteps
<1>2. CASE LoadSecond(d)
  BY <1>2, <1>a DEF LoadSecond, LoaderOnly, TypeOK, Loads, LoadSteps
<1>3. CASE LoadFails(d)
  BY <1>3, NothingType DEF LoadFails, LoaderOnly, TypeOK
<1>4. CASE DeliverLoad(d)
  <2>1. load[d].copy.edits \in SUBSET Edit /\ load[d].copy.id \in Nat /\ load[d].info \in Nat
    BY <1>a DEF Loads, Files
  <2>2. model' \in [Device -> SUBSET Edit] /\ base' \in [Device -> Baselines]
    BY <1>4, <2>1 DEF DeliverLoad, TypeOK, Baselines, Gaps
  <2>3. job' \in [Device -> Jobs] /\ load' \in [Device -> Loads]
    BY <1>4, NothingType DEF DeliverLoad, TypeOK, Jobs
  <2>4. pending' \in [Device -> Requests]
    BY <1>4, <2>1 DEF DeliverLoad, TypeOK, Requests
  <2> QED
    BY <1>4, <2>2, <2>3, <2>4 DEF DeliverLoad, TypeOK
<1> QED
  BY <1>1, <1>2, <1>3, <1>4 DEF Loader

(* Every step keeps the types.                                              *)
LEMMA TypeStep == TypeOK /\ [Next]_vars => TypeOK'
<1> SUFFICES ASSUME TypeOK, [Next]_vars PROVE TypeOK'
  OBVIOUS
<1>1. CASE UNCHANGED vars
  BY <1>1 DEF vars, TypeOK
<1>2. CASE Next
  BY <1>2, UserType, WorkerType, AnswersType, LoaderType DEF Next
<1> QED
  BY <1>1, <1>2

(* Every variable keeps its type, whatever the storage does                 *)
(* (DatabaseSave.ets, KdbxSaveService.ets).                                 *)
THEOREM TypeCorrect == Spec => []TypeOK
<1>1. Init => TypeOK
  BY NothingType, BoundAssumption
     DEF Init, TypeOK, Files, Baselines, Gaps
<1> QED
  BY <1>1, TypeStep, PTL DEF Spec

-----------------------------------------------------------------------------
(* Safety.  The inductive invariant says, of every copy of a file, baseline *)
(* and job there is, what it still knows of the stored file r: a statement  *)
(* guarded by "its id is r's" is void as soon as another file is stored,    *)
(* since ids only grow.                                                     *)

Held == {"guard", "read", "read2", "decide", "check", "put"}
Uploading == {"check", "put"}

(* A downloaded copy is a file that was stored.                             *)
CopyInv(c, r) ==
  /\ c.id <= r.id
  /\ c.id = r.id => c.edits = r.edits

(* A baseline without a gap covers: if it names r, the set s that goes with *)
(* it (the model, or the data of a request) contains r.                     *)
BaseInv(b, s, r) ==
  /\ b.version <= r.id
  /\ b.hash <= r.id
  /\ (b.gap = "none" /\ b.hash = r.id) => r.edits \subseteq s

KnownIds(j, r) ==
  /\ j.info <= r.id
  /\ j.cond <= r.id
  /\ j.seen <= r.id
  /\ j.version <= r.id
  /\ j.written <= r.id

(* Nothing but the check of the version can excuse a loss from here on.     *)
Fit(j) ==
  /\ ~Overwrites(j)
  /\ ~TornRead(j)
  /\ j.merged \/ ~(TornBaseline(j) \/ Detached(j))

(* Before the upload: the request covers what its baseline names, and what  *)
(* is about to be uploaded covers the file it is conditional on.            *)
HeldInv(j, m, r) ==
  /\ BaseInv(j.base, j.data, r)
  /\ ~j.reloaded => j.data \subseteq m
  /\ j.pc \notin Uploading => ~j.merged
  /\ j.pc # "put" => j.seen = NoVersion
  /\ j.pc = "guard" => j.copy = NoFile
  /\ (j.pc = "decide" \/ (j.pc = "read2" /\ ~ReadInfoFirst)) => j.copy.id # 0

UploadInv(j, r) ==
  /\ ~j.merged => j.built = j.data
  /\ (j.cond = r.id /\ Fit(j)) => r.edits \subseteq j.built
  /\ j.pc = "put" => \/ Overwrites(j)
                     \/ j.seen = NoVersion /\ FailOpenCheck
                     \/ j.seen # NoVersion /\ j.seen = j.cond

(* After it: the file this job wrote is what it built, and the model still  *)
(* contains what was built without a merge.                                 *)
StoredInv(j, m, b, r) ==
  /\ j.written = r.id => r.edits = j.built
  /\ (j.pc # "adopt" /\ ~j.merged /\ ~j.reloaded) => j.built \subseteq m
  /\ (j.pc = "adopt" /\ ~j.reloaded) => b.hash = j.written

JobInv(j, m, b, r) ==
  /\ CopyInv(j.copy, r)
  /\ KnownIds(j, r)
  /\ j.pc \in Held => HeldInv(j, m, r)
  /\ j.pc \in Uploading => UploadInv(j, r)
  /\ j.pc \in {"info", "success", "adopt"} => StoredInv(j, m, b, r)

DeviceInv(d) ==
  /\ BaseInv(base[d], model[d], remote)
  /\ CopyInv(load[d].copy, remote) /\ load[d].info <= remote.id
  /\ JobInv(job[d], model[d], base[d], remote)

IInv == remote.id # 0 /\ \A d \in Device : DeviceInv(d)

(* What holds of a file also holds once a newer one is stored.              *)
LEMMA NewerFile ==
  ASSUME NEW r \in Files, NEW q \in Files, q.id > r.id,
         NEW b \in Baselines, NEW m \in SUBSET Edit, NEW c \in Files, NEW j \in Jobs
  PROVE  /\ BaseInv(b, m, r) => BaseInv(b, m, q)
         /\ CopyInv(c, r) => CopyInv(c, q)
         /\ JobInv(j, m, b, r) => JobInv(j, m, b, q)
<1>a. /\ r.id \in Nat /\ q.id \in Nat /\ c.id \in Nat
      /\ b.version \in Nat /\ b.hash \in Nat
      /\ j.copy \in Files /\ j.copy.id \in Nat
      /\ j.info \in Nat /\ j.cond \in Nat /\ j.seen \in Nat /\ j.version \in Nat
      /\ j.written \in Nat
      /\ j.base \in Baselines /\ j.base.version \in Nat /\ j.base.hash \in Nat
  BY DEF Files, Jobs, Baselines
<1>1. BaseInv(b, m, r) => BaseInv(b, m, q)
  BY <1>a DEF BaseInv
<1>2. CopyInv(c, r) => CopyInv(c, q)
  BY <1>a DEF CopyInv
<1>3. ASSUME JobInv(j, m, b, r) PROVE JobInv(j, m, b, q)
  <2>1. CopyInv(j.copy, q)
    BY <1>3, <1>a DEF JobInv, CopyInv
  <2>2. KnownIds(j, q)
    BY <1>3, <1>a DEF JobInv, KnownIds
  <2>3. BaseInv(j.base, j.data, r) => BaseInv(j.base, j.data, q)
    BY <1>a DEF BaseInv
  <2>4. HeldInv(j, m, r) => HeldInv(j, m, q)
    BY <2>3 DEF HeldInv
  <2>5. KnownIds(j, r)
    BY <1>3 DEF JobInv
  <2>6. j.cond # q.id /\ j.written # q.id
    BY <1>a, <2>5 DEF KnownIds
  <2>7. UploadInv(j, r) => UploadInv(j, q)
    BY <2>6 DEF UploadInv
  <2>8. StoredInv(j, m, b, r) => StoredInv(j, m, b, q)
    BY <2>6 DEF StoredInv
  <2> QED
    BY <1>3, <2>1, <2>2, <2>4, <2>7, <2>8 DEF JobInv
<1> QED
  BY <1>1, <1>2, <1>3

(* No job, a failed one, and a new one.                                     *)
LEMMA NoJobInv ==
  ASSUME NEW m, NEW b, NEW r \in Files, r.id # 0
  PROVE  JobInv(Idle, m, b, r) /\ JobInv(Failed, m, b, r)
<1>1. r.id \in Nat
  BY DEF Files
<1> QED
  BY <1>1 DEF JobInv, Idle, Failed, CopyInv, NoFile, KnownIds, NoVersion, Held, Uploading

(* A job starts with what its device then has.                              *)
LEMMA NewJobInv ==
  ASSUME NEW s \in Strategies, NEW w \in SUBSET Edit, NEW b \in Baselines,
         NEW m \in SUBSET Edit, NEW r \in Files, r.id # 0, NEW x,
         BaseInv(b, m, r)
  PROVE  JobInv(NewJob(s, w, b, m), m, x, r)
<1> DEFINE j == NewJob(s, w, b, m)
<1>1. /\ j.pc = "guard" /\ j.copy = NoFile /\ j.base = b /\ j.data = m
      /\ j.info = 0 /\ j.cond = 0 /\ j.seen = 0 /\ j.version = 0 /\ j.written = 0
      /\ ~j.merged /\ ~j.reloaded
  BY DEF NewJob, Idle, NoVersion
<1>2. r.id \in Nat
  BY DEF Files
<1> HIDE DEF j
<1>3. CopyInv(j.copy, r) /\ KnownIds(j, r)
  BY <1>1, <1>2 DEF CopyInv, NoFile, KnownIds
<1>4. HeldInv(j, m, r)
  BY <1>1 DEF HeldInv, Uploading, NoVersion
<1>5. JobInv(j, m, x, r)
  BY <1>1, <1>3, <1>4 DEF JobInv, Uploading
<1> QED
  BY <1>5 DEF j

(* A step that changes nothing but the job of d.                            *)
LEMMA JobStep ==
  ASSUME TypeOK, IInv, NEW d \in Device, NEW j,
         job' = [job EXCEPT ![d] = j],
         UNCHANGED <<remote, model, base, load>>,
         JobInv(j, model[d], base[d], remote)
  PROVE  IInv'
<1> SUFFICES ASSUME NEW p \in Device PROVE DeviceInv(p)'
  BY DEF IInv
<1>1. DeviceInv(p)
  BY DEF IInv
<1>2. JobInv(job'[p], model[p], base[p], remote)
  BY <1>1 DEF TypeOK, DeviceInv
<1> QED
  BY <1>1, <1>2 DEF DeviceInv

(* The steps of the save worker before the upload.                          *)
LEMMA BeforeUploadStep ==
  ASSUME TypeOK, IInv, NEW d \in Device,
         \/ GuardHit(d) \/ GuardMiss(d) \/ ReadFirst(d) \/ ReadSecond(d)
         \/ WriteUnchanged(d) \/ WriteOverwrite(d) \/ ReportConflict(d)
         \/ MergeRemote(d) \/ CheckPasses(d) \/ CheckSkipped(d) \/ CheckConflict(d)
         \/ SaveFails(d)
  PROVE  IInv'
<1> DEFINE i == job[d]
           m == model[d]
           b == base[d]
           r == remote
<1>a. /\ i \in Jobs /\ r \in Files /\ r.id \in Nat /\ r.id # 0
      /\ i.copy \in Files /\ i.copy.id \in Nat /\ i.info \in Nat /\ i.cond \in Nat
      /\ i.base \in Baselines /\ i.base.version \in Nat /\ i.base.hash \in Nat
  BY DEF TypeOK, Jobs, Files, Baselines, IInv
<1>b. JobInv(i, m, b, r)
  BY DEF IInv, DeviceInv
<1>c. i.pc \in Held => HeldInv(i, m, r) /\ BaseInv(i.base, i.data, r)
  BY <1>b DEF JobInv, HeldInv
<1>d. CopyInv(i.copy, r) /\ KnownIds(i, r)
  BY <1>b DEF JobInv
<1>1. CASE GuardHit(d)
  <2> DEFINE j == [i EXCEPT !.pc = "check", !.info = r.id, !.cond = r.id,
                            !.built = i.data]
  <2>1. job' = [job EXCEPT ![d] = j] /\ UNCHANGED <<remote, model, base, load>>
    BY <1>1 DEF GuardHit, WorkerOnly, TypeOK
  <2>2. i.pc = "guard" /\ i.base.version = r.id
    BY <1>1 DEF GuardHit
  <2>3. HeldInv(i, m, r) /\ i.copy = NoFile /\ ~i.merged /\ i.seen = NoVersion
    BY <1>c, <2>2 DEF Held, HeldInv, Uploading
  <2>4. /\ j.pc = "check" /\ j.info = r.id /\ j.cond = r.id /\ j.built = i.data
        /\ j.copy = i.copy /\ j.base = i.base /\ j.data = i.data /\ j.seen = i.seen
        /\ j.version = i.version /\ j.written = i.written /\ j.merged = i.merged
        /\ j.reloaded = i.reloaded /\ j.strategy = i.strategy
    BY <1>a DEF Jobs
  <2> HIDE DEF j
  <2>5. HeldInv(j, m, r)
    BY <2>3, <2>4 DEF HeldInv, Uploading
  <2>6. UploadInv(j, r)
    <3>1. ASSUME Fit(j) PROVE r.edits \subseteq j.built
      <4>1. j.base.version <= j.base.hash /\ j.base.gap = "none"
        BY <1>a, <2>3, <2>4, <3>1 DEF Fit, TornBaseline, Detached
      <4>2. BaseInv(i.base, i.data, r)
        BY <2>3 DEF HeldInv
      <4> QED
        BY <1>a, <2>2, <2>4, <4>1, <4>2 DEF BaseInv
    <3> QED
      BY <2>4, <3>1 DEF UploadInv
  <2>7. JobInv(j, m, b, r)
    BY <1>a, <1>d, <2>4, <2>5, <2>6 DEF JobInv, KnownIds
  <2> QED
    BY <2>1, <2>7, JobStep
<1>2. CASE GuardMiss(d)
  <2> DEFINE j == [i EXCEPT !.pc = "read"]
  <2>1. job' = [job EXCEPT ![d] = j] /\ UNCHANGED <<remote, model, base, load>>
    BY <1>2 DEF GuardMiss, Advance, WorkerOnly, TypeOK
  <2>2. HeldInv(i, m, r) /\ i.pc = "guard"
    BY <1>2, <1>c DEF Held, GuardMiss
  <2>3. /\ j.pc = "read" /\ j.info = i.info /\ j.cond = i.cond
        /\ j.copy = i.copy /\ j.base = i.base /\ j.data = i.data /\ j.seen = i.seen
        /\ j.version = i.version /\ j.written = i.written /\ j.merged = i.merged
        /\ j.reloaded = i.reloaded
    BY <1>a DEF Jobs
  <2> HIDE DEF j
  <2>4. HeldInv(j, m, r)
    BY <2>2, <2>3 DEF HeldInv, Uploading
  <2>5. JobInv(j, m, b, r)
    BY <1>d, <2>3, <2>4 DEF JobInv, KnownIds, Uploading
  <2> QED
    BY <2>1, <2>5, JobStep
<1>3. CASE ReadFirst(d) \/ ReadSecond(d)
  <2>1. PICK pc \in {"read2", "decide"}, c \in {i.copy, r}, v \in {i.info, r.id} :
           /\ job' = [job EXCEPT ![d] = [i EXCEPT !.pc = pc, !.copy = c, !.info = v]]
           /\ (pc = "decide" \/ ~ReadInfoFirst) => c = r \/ i.copy.id # 0
    <3>1. CASE ReadFirst(d) /\ ReadInfoFirst
      <4>1. job' = [job EXCEPT ![d] = [i EXCEPT !.pc = "read2", !.copy = i.copy,
                                                !.info = r.id]]
        BY <1>a, <3>1 DEF ReadFirst, TypeOK, Jobs
      <4> QED
        BY <3>1, <4>1
    <3>2. CASE ReadFirst(d) /\ ~ReadInfoFirst
      <4>1. job' = [job EXCEPT ![d] = [i EXCEPT !.pc = "read2", !.copy = r,
                                                !.info = i.info]]
        BY <1>a, <3>2 DEF ReadFirst, TypeOK, Jobs
      <4> QED
        BY <3>2, <4>1
    <3>3. CASE ReadSecond(d) /\ ReadInfoFirst
      <4>1. job' = [job EXCEPT ![d] = [i EXCEPT !.pc = "decide", !.copy = r,
                                                !.info = i.info]]
        BY <1>a, <3>3 DEF ReadSecond, TypeOK, Jobs
      <4> QED
        BY <3>3, <4>1
    <3>4. CASE ReadSecond(d) /\ ~ReadInfoFirst
      <4>1. job' = [job EXCEPT ![d] = [i EXCEPT !.pc = "decide", !.copy = i.copy,
                                                !.info = r.id]]
        BY <1>a, <3>4 DEF ReadSecond, TypeOK, Jobs
      <4>2. i.copy.id # 0
        BY <1>c, <3>4 DEF ReadSecond, Held, HeldInv
      <4> QED
        BY <4>1, <4>2
    <3> QED
      BY <1>3, <3>1, <3>2, <3>3, <3>4
  <2> DEFINE j == [i EXCEPT !.pc = pc, !.copy = c, !.info = v]
  <2>2. UNCHANGED <<remote, model, base, load>> /\ i.pc \in {"read", "read2"}
    BY <1>3 DEF ReadFirst, ReadSecond, WorkerOnly
  <2>3. HeldInv(i, m, r)
    BY <2>2, <1>c DEF Held
  <2>4. /\ j.pc = pc /\ j.info = v /\ j.cond = i.cond
        /\ j.copy = c /\ j.base = i.base /\ j.data = i.data /\ j.seen = i.seen
        /\ j.version = i.version /\ j.written = i.written /\ j.merged = i.merged
        /\ j.reloaded = i.reloaded
    BY <1>a DEF Jobs
  <2>5. job' = [job EXCEPT ![d] = j]
    BY <2>1
  <2> HIDE DEF j
  <2>6. HeldInv(j, m, r)
    BY <1>a, <2>1, <2>2, <2>3, <2>4 DEF HeldInv, Uploading
  <2>7. CopyInv(j.copy, r) /\ KnownIds(j, r)
    BY <1>a, <1>d, <2>4 DEF CopyInv, KnownIds
  <2>8. JobInv(j, m, b, r)
    BY <2>4, <2>6, <2>7 DEF JobInv, Uploading
  <2> QED
    BY <2>2, <2>5, <2>8, JobStep
<1>4. CASE WriteUnchanged(d)
  <2> DEFINE j == [i EXCEPT !.pc = "check", !.cond = i.info, !.built = i.data]
  <2>1. job' = [job EXCEPT ![d] = j] /\ UNCHANGED <<remote, model, base, load>>
    BY <1>4 DEF WriteUnchanged, WorkerOnly, TypeOK
  <2>2. i.pc = "decide" /\ i.copy.id = i.base.hash
    BY <1>4 DEF WriteUnchanged, IsRemoteChanged
  <2>3. HeldInv(i, m, r) /\ i.copy.id # 0 /\ ~i.merged /\ i.seen = NoVersion
    BY <1>c, <2>2 DEF Held, HeldInv, Uploading
  <2>4. /\ j.pc = "check" /\ j.info = i.info /\ j.cond = i.info /\ j.built = i.data
        /\ j.copy = i.copy /\ j.base = i.base /\ j.data = i.data /\ j.seen = i.seen
        /\ j.version = i.version /\ j.written = i.written /\ j.merged = i.merged
        /\ j.reloaded = i.reloaded /\ j.strategy = i.strategy
    BY <1>a DEF Jobs
  <2> HIDE DEF j
  <2>5. HeldInv(j, m, r)
    BY <2>3, <2>4 DEF HeldInv, Uploading
  <2>6. UploadInv(j, r)
    <3>1. ASSUME j.cond = r.id, Fit(j) PROVE r.edits \subseteq j.built
      <4>1. i.copy.id = r.id /\ i.base.gap = "none"
        BY <1>a, <1>d, <2>3, <2>4, <3>1 DEF Fit, TornRead, Detached, CopyInv
      <4>2. BaseInv(i.base, i.data, r)
        BY <2>3 DEF HeldInv
      <4> QED
        BY <2>2, <2>4, <4>1, <4>2 DEF BaseInv
    <3> QED
      BY <2>4, <3>1 DEF UploadInv
  <2>7. JobInv(j, m, b, r)
    BY <1>a, <1>d, <2>4, <2>5, <2>6 DEF JobInv, KnownIds
  <2> QED
    BY <2>1, <2>7, JobStep
<1>5. CASE WriteOverwrite(d)
  <2> DEFINE j == [i EXCEPT !.pc = "put", !.cond = NoVersion, !.built = i.data]
  <2>1. job' = [job EXCEPT ![d] = j] /\ UNCHANGED <<remote, model, base, load>>
    BY <1>5 DEF WriteOverwrite, WorkerOnly, TypeOK
  <2>2. i.pc = "decide" /\ i.strategy = "OVERWRITE" /\ HeldInv(i, m, r)
    BY <1>5, <1>c DEF WriteOverwrite, Held
  <2>3. /\ j.pc = "put" /\ j.info = i.info /\ j.cond = 0 /\ j.built = i.data
        /\ j.copy = i.copy /\ j.base = i.base /\ j.data = i.data /\ j.seen = i.seen
        /\ j.version = i.version /\ j.written = i.written /\ j.merged = i.merged
        /\ j.reloaded = i.reloaded /\ j.strategy = i.strategy
    BY <1>a DEF Jobs, NoVersion
  <2> HIDE DEF j
  <2>4. HeldInv(j, m, r)
    BY <2>2, <2>3 DEF HeldInv, Uploading
  <2>5. UploadInv(j, r)
    BY <2>2, <2>3 DEF UploadInv, Fit, Overwrites
  <2>6. JobInv(j, m, b, r)
    BY <1>a, <1>d, <2>3, <2>4, <2>5 DEF JobInv, KnownIds
  <2> QED
    BY <2>1, <2>6, JobStep
<1>6. CASE ReportConflict(d)
  <2> DEFINE j == [i EXCEPT !.pc = "conflict"]
  <2>1. job' = [job EXCEPT ![d] = j] /\ UNCHANGED <<remote, model, base, load>>
    BY <1>6 DEF ReportConflict, Advance, WorkerOnly, TypeOK
  <2>2. /\ j.pc = "conflict" /\ j.info = i.info /\ j.cond = i.cond /\ j.copy = i.copy
        /\ j.seen = i.seen /\ j.version = i.version /\ j.written = i.written
    BY <1>a DEF Jobs
  <2> HIDE DEF j
  <2>3. JobInv(j, m, b, r)
    BY <1>d, <2>2 DEF JobInv, KnownIds, Held, Uploading
  <2> QED
    BY <2>1, <2>3, JobStep
<1>7. CASE MergeRemote(d)
  <2> DEFINE j == [i EXCEPT !.pc = "check", !.cond = i.info,
                            !.built = i.data \cup i.copy.edits, !.merged = TRUE]
  <2>1. job' = [job EXCEPT ![d] = j] /\ UNCHANGED <<remote, model, base, load>>
    BY <1>7 DEF MergeRemote, WorkerOnly, TypeOK
  <2>2. i.pc = "decide"
    BY <1>7 DEF MergeRemote
  <2>3. HeldInv(i, m, r) /\ i.copy.id # 0 /\ i.seen = NoVersion
    BY <1>c, <2>2 DEF Held, HeldInv
  <2>4. /\ j.pc = "check" /\ j.info = i.info /\ j.cond = i.info
        /\ j.built = i.data \cup i.copy.edits /\ j.merged
        /\ j.copy = i.copy /\ j.base = i.base /\ j.data = i.data /\ j.seen = i.seen
        /\ j.version = i.version /\ j.written = i.written
        /\ j.reloaded = i.reloaded /\ j.strategy = i.strategy
    BY <1>a DEF Jobs
  <2> HIDE DEF j
  <2>5. HeldInv(j, m, r)
    BY <2>3, <2>4 DEF HeldInv, Uploading
  <2>6. UploadInv(j, r)
    <3>1. ASSUME j.cond = r.id, Fit(j) PROVE r.edits \subseteq j.built
      <4>1. i.copy.id = r.id
        BY <1>a, <1>d, <2>3, <2>4, <3>1 DEF Fit, TornRead, CopyInv
      <4> QED
        BY <1>d, <2>4, <4>1 DEF CopyInv
    <3> QED
      BY <2>4, <3>1 DEF UploadInv
  <2>7. JobInv(j, m, b, r)
    BY <1>a, <1>d, <2>4, <2>5, <2>6 DEF JobInv, KnownIds
  <2> QED
    BY <2>1, <2>7, JobStep
<1>8. CASE CheckPasses(d) \/ CheckSkipped(d)
  <2>1. /\ i.pc = "check" /\ HeldInv(i, m, r) /\ UploadInv(i, r)
        /\ UNCHANGED <<remote, model, base, load>>
    BY <1>8, <1>b, <1>c DEF CheckPasses, CheckSkipped, WorkerOnly, JobInv, Held, Uploading
  <2>2. PICK v \in {NoVersion, r.id} :
           /\ job' = [job EXCEPT ![d] = [i EXCEPT !.pc = "put", !.seen = v]]
           /\ \/ v = NoVersion /\ FailOpenCheck
              \/ v # NoVersion /\ v = i.cond
    <3>1. CASE CheckPasses(d)
      BY <1>a, <3>1 DEF CheckPasses, TypeOK, NoVersion
    <3>2. CASE CheckSkipped(d)
      <4>1. i.seen = NoVersion /\ FailOpenCheck
        BY <2>1, <3>2 DEF HeldInv, CheckSkipped
      <4>2. job' = [job EXCEPT ![d] = [i EXCEPT !.pc = "put", !.seen = i.seen]]
        BY <1>a, <3>2 DEF CheckSkipped, Advance, TypeOK, Jobs
      <4> QED
        BY <4>1, <4>2
    <3> QED
      BY <1>8, <3>1, <3>2
  <2> DEFINE j == [i EXCEPT !.pc = "put", !.seen = v]
  <2>3. /\ j.pc = "put" /\ j.info = i.info /\ j.cond = i.cond /\ j.built = i.built
        /\ j.copy = i.copy /\ j.base = i.base /\ j.data = i.data /\ j.seen = v
        /\ j.version = i.version /\ j.written = i.written /\ j.merged = i.merged
        /\ j.reloaded = i.reloaded /\ j.strategy = i.strategy
    BY <1>a DEF Jobs
  <2>4. job' = [job EXCEPT ![d] = j]
    BY <2>2
  <2> HIDE DEF j
  <2>5. HeldInv(j, m, r)
    BY <2>1, <2>3 DEF HeldInv, Uploading
  <2>6. Fit(j) <=> Fit(i)
    BY <2>3 DEF Fit, Overwrites, TornRead, TornBaseline, Detached
  <2>7. UploadInv(j, r)
    BY <2>1, <2>2, <2>3, <2>6 DEF UploadInv
  <2>8. KnownIds(j, r)
    BY <1>a, <1>d, <2>2, <2>3 DEF KnownIds, NoVersion
  <2>9. JobInv(j, m, b, r)
    BY <1>d, <2>3, <2>5, <2>7, <2>8 DEF JobInv
  <2> QED
    BY <2>1, <2>4, <2>9, JobStep
<1>9. CASE CheckConflict(d)
  <2> DEFINE j == IF i.retry < MAX_CONFLICT_RETRY
                  THEN [i EXCEPT !.pc = "read", !.retry = @ + 1, !.copy = NoFile,
                                 !.info = NoVersion, !.cond = NoVersion, !.built = {},
                                 !.merged = FALSE]
                  ELSE Failed
  <2>1. job' = [job EXCEPT ![d] = j] /\ UNCHANGED <<remote, model, base, load>>
    BY <1>9 DEF CheckConflict, WorkerOnly, TypeOK
  <2>2. i.pc = "check" /\ HeldInv(i, m, r)
    BY <1>9, <1>c DEF CheckConflict, Held
  <2>3. CASE i.retry < MAX_CONFLICT_RETRY
    <3>1. /\ j.pc = "read" /\ j.info = 0 /\ j.cond = 0 /\ ~j.merged
          /\ j.copy = NoFile /\ j.base = i.base /\ j.data = i.data /\ j.seen = i.seen
          /\ j.version = i.version /\ j.written = i.written /\ j.reloaded = i.reloaded
      BY <1>a, <2>3 DEF Jobs, NoVersion
    <3> HIDE DEF j
    <3>2. HeldInv(j, m, r)
      BY <2>2, <3>1 DEF HeldInv
    <3>3. CopyInv(j.copy, r) /\ KnownIds(j, r)
      BY <1>a, <1>d, <3>1 DEF CopyInv, NoFile, KnownIds
    <3>4. JobInv(j, m, b, r)
      BY <3>1, <3>2, <3>3 DEF JobInv, Uploading
    <3> QED
      BY <2>1, <3>4, JobStep
  <2>4. CASE ~(i.retry < MAX_CONFLICT_RETRY)
    <3>1. j = Failed
      BY <2>4
    <3> HIDE DEF j
    <3>2. JobInv(j, m, b, r)
      BY <1>a, <3>1, NoJobInv
    <3> QED
      BY <2>1, <3>2, JobStep
  <2> QED
    BY <2>3, <2>4
<1>10. CASE SaveFails(d)
  <2>1. job' = [job EXCEPT ![d] = Failed] /\ UNCHANGED <<remote, model, base, load>>
    BY <1>10 DEF SaveFails, WorkerOnly
  <2>2. JobInv(Failed, m, b, r)
    BY <1>a, NoJobInv
  <2> QED
    BY <2>1, <2>2, JobStep
<1> QED
  BY <1>1, <1>2, <1>3, <1>4, <1>5, <1>6, <1>7, <1>8, <1>9, <1>10

(* The upload: a newer file for everyone, and this job's own file.          *)
LEMMA PutStep ==
  ASSUME TypeOK, IInv, NEW d \in Device, Put(d) \/ PutUnanswered(d)
  PROVE  IInv'
<1> DEFINE q == StoredBy(job[d])
           j == Stored(job[d], remote.id + 1)
<1>a. /\ remote \in Files /\ remote.id \in Nat /\ remote.id # 0
      /\ job[d] \in Jobs /\ job[d].built \in SUBSET Edit
  BY DEF TypeOK, Files, Jobs, IInv
<1>1. q \in Files /\ q.id = remote.id + 1 /\ q.edits = job[d].built
  BY <1>a DEF StoredBy, Files
<1>2. /\ remote' = q /\ UNCHANGED <<model, base, load>>
      /\ job' = [job EXCEPT ![d] = j] \/ job' = [job EXCEPT ![d] = Failed]
  BY DEF Put, PutUnanswered
<1>3. /\ j.pc = "info" /\ j.copy = NoFile /\ j.built = job[d].built
      /\ j.info = 0 /\ j.cond = 0 /\ j.seen = 0 /\ j.version = 0
      /\ j.written = remote.id + 1 /\ j.merged = job[d].merged
      /\ j.reloaded = job[d].reloaded
  BY <1>a DEF Stored, Idle, NoVersion
<1>4. job[d].pc = "put" /\ HeldInv(job[d], model[d], remote) /\ UploadInv(job[d], remote)
  BY DEF Put, PutUnanswered, IInv, DeviceInv, JobInv, Held, Uploading
<1>5. q.id > remote.id /\ q.id # 0
  BY <1>a, <1>1
<1> HIDE DEF q, j
<1>6. JobInv(j, model[d], base[d], q)
  <2>1. CopyInv(j.copy, q) /\ KnownIds(j, q)
    BY <1>a, <1>1, <1>3 DEF CopyInv, NoFile, KnownIds
  <2>2. StoredInv(j, model[d], base[d], q)
    BY <1>1, <1>3, <1>4 DEF StoredInv, HeldInv, UploadInv
  <2> QED
    BY <1>3, <2>1, <2>2 DEF JobInv, Held, Uploading
<1>7. JobInv(Failed, model[d], base[d], q)
  BY <1>1, <1>5, NoJobInv
<1>8. ASSUME NEW p \in Device PROVE DeviceInv(p)'
  <2>1. /\ model[p] \in SUBSET Edit /\ base[p] \in Baselines /\ job[p] \in Jobs
        /\ load[p].copy \in Files /\ load[p].info \in Nat
    BY DEF TypeOK, Loads
  <2>2. DeviceInv(p)
    BY DEF IInv
  <2>3. /\ BaseInv(base[p], model[p], q) /\ CopyInv(load[p].copy, q)
        /\ JobInv(job[p], model[p], base[p], q)
    BY <1>a, <1>1, <1>5, <2>1, <2>2, NewerFile DEF DeviceInv
  <2>4. load[p].info <= q.id
    BY <1>a, <1>1, <2>1, <2>2 DEF DeviceInv
  <2>5. JobInv(job'[p], model[p], base[p], q)
    <3>1. CASE p = d
      <4>1. job'[d] = j \/ job'[d] = Failed
        BY <1>2 DEF TypeOK
      <4> QED
        BY <1>6, <1>7, <3>1, <4>1
    <3>2. CASE p # d
      BY <1>2, <2>3, <3>2 DEF TypeOK
    <3> QED
      BY <3>1, <3>2
  <2> QED
    BY <1>2, <2>3, <2>4, <2>5 DEF DeviceInv
<1> QED
  BY <1>2, <1>5, <1>8 DEF IInv

(* The metadata after the upload.                                           *)
LEMMA PostInfoStep ==
  ASSUME TypeOK, IInv, NEW d \in Device, PostInfo(d) \/ PostInfoFromCache(d)
  PROVE  IInv'
<1> DEFINE i == job[d]
<1>a. /\ i \in Jobs /\ remote.id \in Nat /\ i.written \in Nat
      /\ JobInv(i, model[d], base[d], remote)
  BY DEF TypeOK, Files, Jobs, IInv, DeviceInv
<1>1. PICK v \in {NoVersion, remote.id, i.written} :
         job' = [job EXCEPT ![d] = [i EXCEPT !.pc = "success", !.version = v]]
  BY DEF PostInfo, PostInfoFromCache, TypeOK
<1>2. UNCHANGED <<remote, model, base, load>> /\ i.pc = "info"
  BY DEF PostInfo, PostInfoFromCache, WorkerOnly
<1> DEFINE j == [i EXCEPT !.pc = "success", !.version = v]
<1>3. /\ j.pc = "success" /\ j.info = i.info /\ j.cond = i.cond /\ j.built = i.built
      /\ j.copy = i.copy /\ j.seen = i.seen /\ j.version = v
      /\ j.written = i.written /\ j.merged = i.merged /\ j.reloaded = i.reloaded
  BY <1>a DEF Jobs
<1>4. job' = [job EXCEPT ![d] = j]
  BY <1>1
<1> HIDE DEF j
<1>5. KnownIds(j, remote)
  BY <1>a, <1>1, <1>3 DEF JobInv, KnownIds, NoVersion
<1>6. StoredInv(j, model[d], base[d], remote)
  BY <1>a, <1>2, <1>3 DEF JobInv, StoredInv
<1>7. JobInv(j, model[d], base[d], remote)
  BY <1>a, <1>3, <1>5, <1>6 DEF JobInv, Held, Uploading
<1> QED
  BY <1>2, <1>4, <1>7, JobStep

(* A step of device d that stores no file.                                  *)
LEMMA DeviceStep ==
  ASSUME IInv, NEW d \in Device, UNCHANGED remote, DeviceInv(d)',
         \A p \in Device \ {d} : /\ model'[p] = model[p] /\ base'[p] = base[p]
                                 /\ job'[p] = job[p] /\ load'[p] = load[p]
  PROVE  IInv'
<1>1. ASSUME NEW p \in Device PROVE DeviceInv(p)'
  <2>1. DeviceInv(p)
    BY DEF IInv
  <2> QED
    BY <2>1 DEF DeviceInv
<1> QED
  BY <1>1 DEF IInv

(* The end of a save: the job of d is none, or the one in the slot, built   *)
(* from what its device then has.                                           *)
LEMMA ReleaseInv ==
  ASSUME TypeOK, IInv, NEW d \in Device, NEW b \in Baselines, NEW m \in SUBSET Edit,
         BaseInv(b, m, remote), Release(d, b, m), NEW x
  PROVE  /\ JobInv(job'[d], m, x, remote)
         /\ \A p \in Device \ {d} : job'[p] = job[p]
<1>a. remote \in Files /\ remote.id # 0 /\ pending[d] \in Requests
  BY DEF TypeOK, IInv
<1>1. pending[d].strategy \in Strategies /\ pending[d].want \in SUBSET Edit
  BY <1>a DEF Requests
<1>2. JobInv(NewJob(pending[d].strategy, pending[d].want, b, m), m, x, remote)
  BY <1>a, <1>1, NewJobInv
<1>3. JobInv(Idle, m, x, remote)
  BY <1>a, NoJobInv
<1> QED
  BY <1>2, <1>3 DEF Release, TypeOK

(* A model that grows.                                                      *)
LEMMA BiggerModel ==
  ASSUME NEW m, NEW n, m \subseteq n, NEW j, NEW b, NEW r
  PROVE  /\ BaseInv(b, m, r) => BaseInv(b, n, r)
         /\ JobInv(j, m, b, r) => JobInv(j, n, b, r)
  BY DEF BaseInv, JobInv, HeldInv, StoredInv

(* The worker's answers.                                                    *)
LEMMA AnswersStep ==
  ASSUME TypeOK, IInv, NEW d \in Device, Answers(d)
  PROVE  IInv'
<1> DEFINE i == job[d]
           r == remote
<1>a. /\ i \in Jobs /\ r \in Files /\ r.id \in Nat /\ r.id # 0
      /\ model[d] \in SUBSET Edit /\ base[d] \in Baselines
      /\ i.written \in Nat /\ i.version \in Nat /\ i.built \in SUBSET Edit
  BY DEF TypeOK, Jobs, Files, IInv
<1>b. /\ BaseInv(base[d], model[d], r) /\ JobInv(i, model[d], base[d], r)
      /\ CopyInv(load[d].copy, r) /\ load[d].info <= r.id
  BY DEF IInv, DeviceInv
<1>1. CASE DeliverSuccess(d)
  <2> DEFINE nb == [version |-> i.version, hash |-> i.written,
                    gap |-> IF i.merged THEN "unadopted"
                            ELSE IF i.reloaded THEN "reloaded" ELSE "none"]
  <2>1. /\ i.pc = "success" /\ base' = [base EXCEPT ![d] = nb]
        /\ UNCHANGED <<remote, model, load>>
    BY <1>1 DEF DeliverSuccess
  <2>2. /\ nb.version = i.version /\ nb.hash = i.written /\ nb \in Baselines
        /\ i.merged => nb.gap = "unadopted"
        /\ (~i.merged /\ i.reloaded) => nb.gap = "reloaded"
    BY <1>a DEF Baselines, Gaps
  <2>3. base'[d] = nb /\ \A p \in Device \ {d} : base'[p] = base[p]
    BY <2>1 DEF TypeOK
  <2>4. StoredInv(i, model[d], base[d], r) /\ KnownIds(i, r)
    BY <1>b, <2>1 DEF JobInv
  <2> HIDE DEF nb
  <2>5. BaseInv(nb, model[d], r)
    <3>1. ASSUME nb.gap = "none", nb.hash = r.id PROVE r.edits \subseteq model[d]
      BY <2>1, <2>2, <2>4, <3>1 DEF StoredInv
    <3> QED
      BY <2>2, <2>4, <3>1 DEF BaseInv, KnownIds
  <2>6. /\ JobInv(job'[d], model[d], nb, r)
        /\ \A p \in Device \ {d} : job'[p] = job[p]
    <3>1. CASE i.merged
      <4> DEFINE j == [i EXCEPT !.pc = "adopt", !.reloaded = FALSE]
      <4>1. job' = [job EXCEPT ![d] = j]
        BY <1>1, <3>1 DEF DeliverSuccess, TypeOK
      <4>2. /\ j.pc = "adopt" /\ j.info = i.info /\ j.cond = i.cond /\ j.built = i.built
            /\ j.copy = i.copy /\ j.seen = i.seen /\ j.version = i.version
            /\ j.written = i.written /\ j.merged = i.merged
        BY <1>a DEF Jobs
      <4>3. job'[d] = j /\ \A p \in Device \ {d} : job'[p] = job[p]
        BY <4>1 DEF TypeOK
      <4> HIDE DEF j
      <4>4. StoredInv(j, model[d], nb, r)
        BY <2>2, <2>4, <4>2 DEF StoredInv
      <4>5. JobInv(j, model[d], nb, r)
        BY <1>b, <2>4, <4>2, <4>4 DEF JobInv, KnownIds, Held, Uploading
      <4> QED
        BY <4>3, <4>5
    <3>2. CASE ~i.merged
      <4>1. Release(d, nb, model[d])
        BY <1>1, <2>3, <3>2 DEF DeliverSuccess
      <4> QED
        BY <1>a, <2>2, <2>5, <4>1, ReleaseInv
    <3> QED
      BY <3>1, <3>2
  <2>7. DeviceInv(d)'
    BY <1>b, <2>1, <2>3, <2>5, <2>6 DEF DeviceInv
  <2> QED
    BY <2>1, <2>3, <2>6, <2>7, DeviceStep
<1>2. CASE AdoptMerged(d)
  <2> DEFINE nb == [base[d] EXCEPT !.gap = IF i.reloaded THEN "reloaded" ELSE "none"]
  <2>1. /\ i.pc = "adopt" /\ model' = [model EXCEPT ![d] = i.built]
        /\ base' = [base EXCEPT ![d] = nb] /\ UNCHANGED <<remote, load>>
    BY <1>2 DEF AdoptMerged
  <2>2. /\ nb \in Baselines /\ nb.version = base[d].version /\ nb.hash = base[d].hash
        /\ i.reloaded => nb.gap = "reloaded"
    BY <1>a DEF Baselines, Gaps
  <2>3. /\ base'[d] = nb /\ model'[d] = i.built
        /\ \A p \in Device \ {d} : base'[p] = base[p] /\ model'[p] = model[p]
    BY <2>1 DEF TypeOK
  <2> HIDE DEF nb
  <2>4. BaseInv(nb, i.built, r)
    <3>1. StoredInv(i, model[d], base[d], r)
      BY <1>b, <2>1 DEF JobInv
    <3> QED
      BY <1>b, <2>1, <2>2, <3>1 DEF BaseInv, StoredInv
  <2>5. Release(d, nb, i.built)
    BY <1>2, <2>3 DEF AdoptMerged
  <2>6. /\ JobInv(job'[d], i.built, nb, r)
        /\ \A p \in Device \ {d} : job'[p] = job[p]
    BY <1>a, <2>2, <2>4, <2>5, ReleaseInv
  <2>7. DeviceInv(d)'
    BY <1>b, <2>1, <2>3, <2>4, <2>6 DEF DeviceInv
  <2> QED
    BY <2>1, <2>3, <2>6, <2>7, DeviceStep
<1>3. CASE AdoptFails(d) \/ DeliverConflict(d) \/ DeliverError(d)
  <2>1. Release(d, base[d], model[d]) /\ UNCHANGED <<remote, model, base, load>>
    BY <1>3 DEF AdoptFails, DeliverConflict, DeliverError
  <2>2. /\ JobInv(job'[d], model[d], base[d], r)
        /\ \A p \in Device \ {d} : job'[p] = job[p]
    BY <1>a, <1>b, <2>1, ReleaseInv
  <2>3. DeviceInv(d)'
    BY <1>b, <2>1, <2>2 DEF DeviceInv
  <2> QED
    BY <2>1, <2>2, <2>3, DeviceStep
<1> QED
  BY <1>1, <1>2, <1>3 DEF Answers

(* The reload.                                                              *)
LEMMA LoaderStep ==
  ASSUME TypeOK, IInv, NEW d \in Device, Loader(d)
  PROVE  IInv'
<1> DEFINE l == load[d]
           r == remote
<1>a. /\ l \in Loads /\ l.copy \in Files /\ l.copy.id \in Nat /\ l.info \in Nat
      /\ l.copy.edits \in SUBSET Edit /\ r \in Files /\ r.id \in Nat /\ r.id # 0
  BY DEF TypeOK, Loads, Files, IInv
<1>b. /\ BaseInv(base[d], model[d], r) /\ JobInv(job[d], model[d], base[d], r)
      /\ CopyInv(l.copy, r) /\ l.info <= r.id
  BY DEF IInv, DeviceInv
<1>c. CopyInv(NoLoad.copy, r) /\ NoLoad.info <= r.id
  BY <1>a DEF NoLoad, NoFile, NoVersion, CopyInv
<1>d. CopyInv(r, r) /\ r.id <= r.id
  BY <1>a DEF CopyInv
<1>1. CASE LoadFirst(d) \/ LoadSecond(d) \/ LoadFails(d)
  <2>1. UNCHANGED <<remote, model, base, job>>
    BY <1>1 DEF LoadFirst, LoadSecond, LoadFails, LoaderOnly
  <2>2. \A p \in Device \ {d} : load'[p] = load[p]
    BY <1>1 DEF LoadFirst, LoadSecond, LoadFails, TypeOK
  <2>3. load'[d].copy \in {l.copy, r, NoLoad.copy} /\ load'[d].info \in {l.info, r.id, NoLoad.info}
    BY <1>1, <1>a DEF LoadFirst, LoadSecond, LoadFails, TypeOK, Loads
  <2>4. DeviceInv(d)'
    BY <1>b, <1>c, <1>d, <2>1, <2>3 DEF DeviceInv
  <2> QED
    BY <2>1, <2>2, <2>4, DeviceStep
<1>2. CASE DeliverLoad(d)
  <2> DEFINE nb == [version |-> l.info, hash |-> l.copy.id, gap |-> "none"]
             m == l.copy.edits
  <2>1. /\ model'[d] = m /\ base'[d] = nb /\ load'[d] = NoLoad /\ UNCHANGED remote
        /\ \A p \in Device \ {d} : /\ model'[p] = model[p] /\ base'[p] = base[p]
                                    /\ job'[p] = job[p] /\ load'[p] = load[p]
    BY <1>2 DEF DeliverLoad, TypeOK
  <2>2. BaseInv(nb, m, r)
    BY <1>a, <1>b DEF BaseInv, CopyInv
  <2>3. JobInv(job'[d], m, nb, r)
    <3>a. job[d] \in Jobs
      BY DEF TypeOK
    <3>1. CASE job[d].pc = "idle"
      <4>1. job'[d] = job[d]
        BY <1>2, <3>1 DEF DeliverLoad
      <4> QED
        BY <1>b, <3>1, <4>1 DEF JobInv, Held, Uploading
    <3>2. CASE job[d].pc # "idle"
      <4> DEFINE i == job[d]
                 j == [i EXCEPT !.reloaded = TRUE]
      <4>1. job'[d] = j
        BY <1>2, <3>2 DEF DeliverLoad, TypeOK
      <4>2. /\ j.pc = i.pc /\ j.info = i.info /\ j.cond = i.cond /\ j.built = i.built
            /\ j.copy = i.copy /\ j.base = i.base /\ j.data = i.data /\ j.seen = i.seen
            /\ j.version = i.version /\ j.written = i.written /\ j.merged = i.merged
            /\ j.strategy = i.strategy /\ j.reloaded
        BY <3>a DEF Jobs
      <4> HIDE DEF j
      <4>3. Fit(j) <=> Fit(i)
        BY <4>2 DEF Fit, Overwrites, TornRead, TornBaseline, Detached
      <4>4. UploadInv(i, r) => UploadInv(j, r)
        BY <4>2, <4>3 DEF UploadInv, Overwrites
      <4>5. HeldInv(i, model[d], r) => HeldInv(j, m, r)
        BY <4>2 DEF HeldInv
      <4>6. StoredInv(i, model[d], base[d], r) => StoredInv(j, m, nb, r)
        BY <4>2 DEF StoredInv
      <4>7. CopyInv(j.copy, r) /\ KnownIds(j, r)
        BY <1>b, <4>2 DEF JobInv, KnownIds
      <4>8. JobInv(j, m, nb, r)
        BY <1>b, <4>2, <4>4, <4>5, <4>6, <4>7 DEF JobInv
      <4> QED
        BY <4>1, <4>8
    <3> QED
      BY <3>1, <3>2
  <2>4. DeviceInv(d)'
    BY <1>c, <2>1, <2>2, <2>3 DEF DeviceInv
  <2> QED
    BY <2>1, <2>4, DeviceStep
<1> QED
  BY <1>1, <1>2 DEF Loader

(* The user.                                                                *)
LEMMA UserStep ==
  ASSUME TypeOK, IInv, NEW d \in Device, User(d)
  PROVE  IInv'
<1>a. /\ remote \in Files /\ remote.id # 0 /\ remote.id \in Nat
      /\ model[d] \in SUBSET Edit /\ base[d] \in Baselines
  BY DEF TypeOK, Files, IInv
<1>b. /\ BaseInv(base[d], model[d], remote) /\ JobInv(job[d], model[d], base[d], remote)
      /\ CopyInv(load[d].copy, remote) /\ load[d].info <= remote.id
  BY DEF IInv, DeviceInv
<1>1. CASE MakeEdit(d)
  <2>1. /\ UNCHANGED <<remote, base, job, load>> /\ model[d] \subseteq model'[d]
        /\ \A p \in Device \ {d} : model'[p] = model[p]
    BY <1>1 DEF MakeEdit, TypeOK
  <2>2. DeviceInv(d)'
    BY <1>b, <2>1, BiggerModel DEF DeviceInv
  <2> QED
    BY <2>1, <2>2, DeviceStep
<1>2. CASE RequestSave(d) \/ AnswerSave(d)
  <2>1. PICK s \in Strategies : SaveFor(d, s)
    BY <1>2 DEF RequestSave, AnswerSave, Strategies
  <2>2. UNCHANGED <<remote, model, base, load>>
    BY <1>2 DEF RequestSave, AnswerSave
  <2>3. JobInv(NewJob(s, model[d], base[d], model[d]), model[d], base[d], remote)
    BY <1>a, <1>b, NewJobInv
  <2>4. /\ JobInv(job'[d], model[d], base[d], remote)
        /\ \A p \in Device \ {d} : job'[p] = job[p]
    BY <1>b, <2>1, <2>3 DEF SaveFor, TypeOK
  <2>5. DeviceInv(d)'
    BY <1>b, <2>2, <2>4 DEF DeviceInv
  <2> QED
    BY <2>2, <2>4, <2>5, DeviceStep
<1>3. CASE AnswerReload(d) \/ AnswerDismiss(d) \/ Refresh(d)
  <2>1. UNCHANGED <<remote, model, base, job>>
    BY <1>3 DEF AnswerReload, AnswerDismiss, Refresh
  <2>2. /\ load'[d].copy = load[d].copy /\ load'[d].info = load[d].info
        /\ \A p \in Device \ {d} : load'[p] = load[p]
    BY <1>3 DEF AnswerReload, AnswerDismiss, Refresh, TypeOK, Loads
  <2>3. DeviceInv(d)'
    BY <1>b, <2>1, <2>2 DEF DeviceInv
  <2> QED
    BY <2>1, <2>2, <2>3, DeviceStep
<1> QED
  BY <1>1, <1>2, <1>3 DEF User

(* Initially everyone has the stored file.                                  *)
LEMMA InitInv == Init => IInv
<1> SUFFICES ASSUME Init PROVE IInv
  OBVIOUS
<1>1. remote = [id |-> 1, edits |-> {}] /\ remote \in Files
  BY DEF Init, Files
<1>2. ASSUME NEW d \in Device PROVE DeviceInv(d)
  <2>1. BaseInv(base[d], model[d], remote)
    BY <1>1 DEF Init, BaseInv
  <2>2. CopyInv(load[d].copy, remote) /\ load[d].info <= remote.id
    BY <1>1 DEF Init, CopyInv, NoLoad, NoFile, NoVersion
  <2>3. JobInv(job[d], model[d], base[d], remote)
    BY <1>1, NoJobInv DEF Init
  <2> QED
    BY <2>1, <2>2, <2>3 DEF DeviceInv
<1> QED
  BY <1>1, <1>2 DEF IInv

(* Every step keeps the invariant.                                          *)
LEMMA InvStep == TypeOK /\ IInv /\ [Next]_vars => IInv'
<1> SUFFICES ASSUME TypeOK, IInv, [Next]_vars PROVE IInv'
  OBVIOUS
<1>1. CASE UNCHANGED vars
  BY <1>1 DEF vars, IInv, DeviceInv
<1>2. ASSUME NEW d \in Device, User(d) \/ Worker(d) \/ Answers(d) \/ Loader(d)
      PROVE  IInv'
  <2>1. CASE Worker(d)
    BY <2>1, BeforeUploadStep, PutStep, PostInfoStep DEF Worker
  <2> QED
    BY <1>2, <2>1, UserStep, AnswersStep, LoaderStep
<1> QED
  BY <1>1, <1>2 DEF Next

(* The invariant all the safety below rests on.                             *)
THEOREM Invariance == Spec => [](TypeOK /\ IInv)
<1>1. Init => TypeOK
  BY NothingType DEF Init, TypeOK, Files, Baselines, Gaps
<1> QED
  BY <1>1, InitInv, TypeStep, InvStep, PTL DEF Spec

(* While the stored file is the one the baseline names, the model contains  *)
(* all of it, unless a reload raced a save or a merge was not adopted:      *)
(* the session state of KdbxSaveService.handleSuccess is never ahead of the *)
(* model it goes with.                                                      *)
THEOREM BaselineIsCovered == Spec => []BaselineCovered
<1>1. IInv => BaselineCovered
  BY DEF IInv, DeviceInv, BaseInv, BaselineCovered
<1> QED
  BY <1>1, Invariance, PTL

(* No edit leaves the storage but in the ways Excused lists                 *)
(* (DatabaseSave.handleSaveDatabase), for any number of devices and retries. *)
THEOREM NoOtherLoss == Spec => RemoteKeepsEdits
<1>1. ASSUME TypeOK, IInv, [Next]_vars, NEW d \in Device, Dropping(d)
      PROVE  Excused(job[d])
  <2> DEFINE j == job[d]
  <2>1. j.pc = "put" /\ job'[d].pc # "put" /\ ~(remote.edits \subseteq remote'.edits)
    BY <1>1 DEF Dropping
  <2>2. SUFFICES ASSUME ~Excused(j) PROVE FALSE
    OBVIOUS
  <2>3. JobInv(j, model[d], base[d], remote)
    BY <1>1 DEF IInv, DeviceInv
  <2>4. UploadInv(j, remote)
    BY <2>1, <2>3 DEF JobInv, Uploading
  <2>5. Fit(j) /\ j.cond = remote.id
    BY <2>1, <2>2, <2>4 DEF Excused, Fit, RacedCheck, UploadInv
  <2>6. remote.edits \subseteq j.built
    BY <2>4, <2>5 DEF UploadInv
  <2>7. \A p \in Device : Put(p) \/ PutUnanswered(p) => p = d
    <3>1. ASSUME NEW p \in Device, Put(p) \/ PutUnanswered(p), p # d PROVE FALSE
      <4>1. job'[d] = job[d]
        BY <1>1, <3>1 DEF Put, PutUnanswered, TypeOK
      <4> QED
        BY <2>1, <4>1
    <3> QED
      BY <3>1
  <2>8. Put(d) \/ PutUnanswered(d)
    <3>1. CASE UNCHANGED vars
      BY <2>1, <3>1 DEF vars
    <3>2. ASSUME NEW p \in Device, User(p) \/ Worker(p) \/ Answers(p) \/ Loader(p)
          PROVE  Put(p) \/ PutUnanswered(p)
      <4>1. remote' # remote
        BY <2>1
      <4>2. ~User(p)
        BY <4>1 DEF User, MakeEdit, RequestSave, AnswerSave, AnswerReload,
                    AnswerDismiss, Refresh
      <4>3. ~Answers(p)
        BY <4>1 DEF Answers, DeliverSuccess, AdoptMerged, AdoptFails,
                    DeliverConflict, DeliverError
      <4>4. ~Loader(p)
        BY <4>1 DEF Loader, LoadFirst, LoadSecond, DeliverLoad, LoadFails, LoaderOnly
      <4> QED
        BY <3>2, <4>1, <4>2, <4>3, <4>4
           DEF Worker, WorkerOnly, GuardHit, GuardMiss, ReadFirst, ReadSecond,
               WriteUnchanged, WriteOverwrite, ReportConflict, MergeRemote,
               CheckPasses, CheckSkipped, CheckConflict, PostInfo,
               PostInfoFromCache, SaveFails
    <3> QED
      BY <1>1, <2>7, <3>1, <3>2 DEF Next
  <2>9. remote'.edits = j.built
    BY <2>8 DEF Put, PutUnanswered, StoredBy
  <2> QED
    BY <2>1, <2>6, <2>9
<1>2. TypeOK /\ IInv /\ [Next]_vars
        => [\A d \in Device : Dropping(d) => Excused(job[d])]_vars
  BY <1>1
<1> QED
  BY <1>2, Invariance, PTL DEF Spec, RemoteKeepsEdits

-----------------------------------------------------------------------------
(* A conflict is real on a storage that downloads before it asks for the    *)
(* metadata: a version never names an older file than the hash beside it, a *)
(* copy is never older than the baseline of the request that downloads it,  *)
(* and a request that found a conflict has an older baseline.               *)

NotOlder(v, h) == v = NoVersion \/ h <= v

ReadsInOrder(j, r) ==
  /\ NotOlder(j.base.version, j.base.hash)
  /\ j.pc \in {"read2", "decide"} => j.base.hash <= j.copy.id
  /\ j.pc = "decide" => j.copy.id <= j.info
  /\ j.pc = "success" => NotOlder(j.version, j.written)
  /\ j.pc = "conflict" => j.base.hash < r.id

InOrder(d) ==
  /\ NotOlder(base[d].version, base[d].hash)
  /\ load[d].pc = "deliver" => load[d].copy.id <= load[d].info
  /\ ReadsInOrder(job[d], remote)

OrderInv == \A d \in Device : InOrder(d)

(* No job, a failed one, a stored one and a new one.                        *)
LEMMA JobsInOrder ==
  ASSUME NEW r
  PROVE  /\ ReadsInOrder(Idle, r) /\ ReadsInOrder(Failed, r)
         /\ \A j, w : ReadsInOrder(Stored(j, w), r)
         /\ \A s, w, b, m : NotOlder(b.version, b.hash)
                              => ReadsInOrder(NewJob(s, w, b, m), r)
<1>1. ReadsInOrder(Idle, r) /\ ReadsInOrder(Failed, r)
  BY DEF ReadsInOrder, NotOlder, Idle, Failed, NoBaseline
<1>2. ASSUME NEW j, NEW w PROVE ReadsInOrder(Stored(j, w), r)
  BY DEF ReadsInOrder, NotOlder, Stored, Idle, NoBaseline
<1>3. ASSUME NEW s, NEW w, NEW b, NEW m, NotOlder(b.version, b.hash)
      PROVE  ReadsInOrder(NewJob(s, w, b, m), r)
  BY <1>3 DEF ReadsInOrder, NewJob, Idle
<1> QED BY <1>1, <1>2, <1>3

(* A step of d whose job and baseline are in order, and that stores no      *)
(* file, or one that is newer for all others.                               *)
LEMMA OrderStep ==
  ASSUME TypeOK, OrderInv, NEW d \in Device, InOrder(d)',
         remote'.id \in Nat, remote.id <= remote'.id,
         \A p \in Device \ {d} : /\ base'[p] = base[p]
                                 /\ job'[p] = job[p] /\ load'[p] = load[p]
  PROVE  OrderInv'
<1>1. ASSUME NEW p \in Device, p # d PROVE InOrder(p)'
  <2>1. InOrder(p) /\ job[p].base.hash \in Nat /\ remote.id \in Nat
    BY DEF OrderInv, TypeOK, Jobs, Baselines, Files
  <2>2. ReadsInOrder(job[p], remote')
    BY <2>1 DEF InOrder, ReadsInOrder
  <2> QED BY <1>1, <2>1, <2>2 DEF InOrder
<1> QED BY <1>1 DEF OrderInv

(* The release of a save starts the queued one from a baseline in order.    *)
LEMMA ReleaseOrder ==
  ASSUME TypeOK, NEW d \in Device, NEW b, NEW m, Release(d, b, m),
         NotOlder(b.version, b.hash), NEW r
  PROVE  /\ ReadsInOrder(job'[d], r)
         /\ \A p \in Device \ {d} : job'[p] = job[p]
BY JobsInOrder DEF Release, TypeOK

(* The save worker.                                                         *)
LEMMA WorkerOrder ==
  ASSUME TypeOK, IInv, OrderInv, ~ReadInfoFirst, NEW d \in Device, Worker(d)
  PROVE  OrderInv'
<1> DEFINE i == job[d]
           j == job'[d]
<1>a. /\ i \in Jobs /\ i.base \in Baselines /\ i.copy \in Files /\ remote \in Files
      /\ remote.id \in Nat /\ i.base.hash \in Nat /\ i.base.version \in Nat
      /\ i.copy.id \in Nat /\ i.info \in Nat /\ i.written \in Nat
  BY DEF TypeOK, Jobs, Baselines, Files
<1>b. /\ NotOlder(base[d].version, base[d].hash)
      /\ load[d].pc = "deliver" => load[d].copy.id <= load[d].info
      /\ ReadsInOrder(i, remote)
  BY DEF OrderInv, InOrder
<1>c. JobInv(i, model[d], base[d], remote)
  BY DEF IInv, DeviceInv
<1>d. /\ UNCHANGED <<base, load>>
      /\ \A p \in Device \ {d} : job'[p] = job[p]
      /\ remote'.id \in Nat /\ remote.id <= remote'.id
  BY <1>a DEF Worker, WorkerOnly, Advance, GuardHit, GuardMiss, ReadFirst, ReadSecond,
     WriteUnchanged, WriteOverwrite, ReportConflict, MergeRemote, CheckPasses,
     CheckSkipped, CheckConflict, Put, PutUnanswered, PostInfo, PostInfoFromCache,
     SaveFails, StoredBy, TypeOK
<1>1. ReadsInOrder(j, remote')
  <2>1. CASE ReadFirst(d)
    <3>1. /\ j.pc = "read2" /\ j.copy = remote /\ j.base = i.base /\ i.pc = "read"
      BY <1>a, <2>1 DEF ReadFirst, TypeOK, Jobs
    <3>2. i.base.hash <= remote.id
      BY <3>1, <1>c DEF JobInv, HeldInv, BaseInv, Held
    <3> QED BY <1>b, <3>1, <3>2 DEF ReadsInOrder
  <2>2. CASE ReadSecond(d)
    <3>1. /\ j.pc = "decide" /\ j.copy = i.copy /\ j.info = remote.id
          /\ j.base = i.base /\ i.pc = "read2"
      BY <1>a, <2>2 DEF ReadSecond, TypeOK, Jobs
    <3>2. i.copy.id <= remote.id
      BY <1>c DEF JobInv, CopyInv
    <3> QED BY <1>b, <3>1, <3>2 DEF ReadsInOrder
  <2>3. CASE ReportConflict(d)
    <3>1. /\ j.pc = "conflict" /\ j.base = i.base /\ i.pc = "decide" /\ IsRemoteChanged(i)
          /\ remote' = remote
      BY <1>a, <2>3 DEF ReportConflict, Advance, WorkerOnly, TypeOK, Jobs
    <3>2. i.base.hash <= i.copy.id /\ i.copy.id <= i.info
      BY <1>b, <3>1 DEF ReadsInOrder
    <3>3. i.copy.id <= remote.id /\ i.info <= remote.id
      BY <1>c DEF JobInv, CopyInv, KnownIds
    <3>4. i.base.version <= remote.id /\ i.base.hash <= remote.id
      BY <1>c, <3>1 DEF JobInv, HeldInv, BaseInv, Held
    <3>5. NotOlder(i.base.version, i.base.hash)
      BY <1>b DEF ReadsInOrder
    <3>6. i.base.hash # remote.id
      <4>1. SUFFICES ASSUME i.base.hash = remote.id PROVE FALSE
        OBVIOUS
      <4>2. i.copy.id = remote.id /\ i.info = remote.id
        BY <1>a, <3>2, <3>3, <4>1
      <4>3. i.base.version = NoVersion \/ i.base.version = remote.id
        BY <1>a, <3>4, <3>5, <4>1 DEF NotOlder
      <4> QED BY <3>1, <4>1, <4>2, <4>3 DEF IsRemoteChanged
    <3> QED BY <1>a, <3>1, <3>4, <3>5, <3>6 DEF ReadsInOrder
  <2>4. CASE PostInfo(d) \/ PostInfoFromCache(d)
    <3>1. /\ j.pc = "success" /\ j.base = i.base /\ j.written = i.written
          /\ j.version \in {NoVersion, i.written, remote.id}
      BY <1>a, <2>4 DEF PostInfo, PostInfoFromCache, TypeOK, Jobs
    <3>2. i.written <= remote.id
      BY <1>c DEF JobInv, KnownIds
    <3> QED BY <1>a, <1>b, <3>1, <3>2 DEF ReadsInOrder, NotOlder
  <2>5. CASE Put(d) \/ PutUnanswered(d) \/ SaveFails(d)
    BY <2>5, JobsInOrder DEF Put, PutUnanswered, SaveFails, TypeOK
  <2>6. CASE CheckConflict(d)
    <3> DEFINE k == [i EXCEPT !.pc = "read", !.retry = @ + 1, !.copy = NoFile,
                              !.info = NoVersion, !.cond = NoVersion, !.built = {},
                              !.merged = FALSE]
    <3>0. k.pc = "read" /\ k.base = i.base
      BY <1>a DEF Jobs
    <3>1. j = Failed \/ (j.pc = "read" /\ j.base = i.base)
      <4>1. j = Failed \/ j = k
        BY <2>6 DEF CheckConflict, TypeOK
      <4> HIDE DEF k
      <4> QED BY <3>0, <4>1
    <3> QED BY <1>b, <3>1, JobsInOrder DEF ReadsInOrder
  <2>7. CASE \/ GuardHit(d) \/ GuardMiss(d) \/ WriteUnchanged(d) \/ WriteOverwrite(d)
             \/ MergeRemote(d) \/ CheckPasses(d) \/ CheckSkipped(d)
    <3>1. j.pc \in {"read", "check", "put"} /\ j.base = i.base
      BY <1>a, <2>7 DEF GuardHit, GuardMiss, WriteUnchanged, WriteOverwrite, MergeRemote,
         CheckPasses, CheckSkipped, Advance, TypeOK, Jobs
    <3> QED BY <1>b, <3>1 DEF ReadsInOrder
  <2> QED BY <2>1, <2>2, <2>3, <2>4, <2>5, <2>6, <2>7 DEF Worker
<1>2. InOrder(d)'
  BY <1>b, <1>d, <1>1 DEF InOrder
<1> QED BY <1>d, <1>2, OrderStep

(* The worker's answers.                                                    *)
LEMMA AnswersOrder ==
  ASSUME TypeOK, OrderInv, NEW d \in Device, Answers(d)
  PROVE  OrderInv'
<1> DEFINE i == job[d]
<1>a. /\ i \in Jobs /\ remote \in Files /\ remote.id \in Nat
      /\ UNCHANGED <<remote, load>>
  BY DEF TypeOK, Files, Answers, DeliverSuccess, AdoptMerged, AdoptFails,
     DeliverConflict, DeliverError
<1>b. /\ NotOlder(base[d].version, base[d].hash)
      /\ load[d].pc = "deliver" => load[d].copy.id <= load[d].info
      /\ ReadsInOrder(i, remote)
  BY DEF OrderInv, InOrder
<1>1. /\ NotOlder(base'[d].version, base'[d].hash)
      /\ \A p \in Device \ {d} : base'[p] = base[p]
  <2>1. CASE DeliverSuccess(d)
    <3>1. NotOlder(i.version, i.written)
      BY <1>b, <2>1 DEF DeliverSuccess, ReadsInOrder
    <3>2. base'[d].version = i.version /\ base'[d].hash = i.written
      BY <2>1 DEF DeliverSuccess, TypeOK
    <3> QED BY <2>1, <3>1, <3>2 DEF DeliverSuccess, TypeOK
  <2>2. CASE AdoptMerged(d)
    <3>1. base'[d].version = base[d].version /\ base'[d].hash = base[d].hash
      BY <2>2 DEF AdoptMerged, TypeOK, Baselines
    <3> QED BY <1>b, <2>2, <3>1 DEF AdoptMerged, TypeOK
  <2>3. CASE AdoptFails(d) \/ DeliverConflict(d) \/ DeliverError(d)
    BY <1>b, <2>3 DEF AdoptFails, DeliverConflict, DeliverError
  <2> QED BY <2>1, <2>2, <2>3 DEF Answers
<1>2. /\ ReadsInOrder(job'[d], remote)
      /\ \A p \in Device \ {d} : job'[p] = job[p]
  <2>1. CASE DeliverSuccess(d) /\ i.merged
    <3>1. job'[d].pc = "adopt" /\ job'[d].base = i.base
      BY <1>a, <2>1 DEF DeliverSuccess, TypeOK, Jobs
    <3> QED BY <1>b, <2>1, <3>1 DEF ReadsInOrder, DeliverSuccess, TypeOK
  <2>2. CASE ~(DeliverSuccess(d) /\ i.merged)
    <3>1. Release(d, base'[d], model[d]) \/ Release(d, base'[d], i.built)
      BY <2>2 DEF Answers, DeliverSuccess, AdoptMerged, AdoptFails, DeliverConflict,
         DeliverError
    <3> QED BY <1>1, <3>1, ReleaseOrder
  <2> QED BY <2>1, <2>2
<1>3. InOrder(d)'
  BY <1>a, <1>b, <1>1, <1>2 DEF InOrder
<1> QED BY <1>a, <1>1, <1>2, <1>3, OrderStep

(* Reloads.                                                                 *)
LEMMA LoaderOrder ==
  ASSUME TypeOK, IInv, OrderInv, ~ReadInfoFirst, NEW d \in Device, Loader(d)
  PROVE  OrderInv'
<1>a. /\ remote.id \in Nat /\ load[d] \in Loads /\ load[d].copy.id \in Nat
      /\ load[d].info \in Nat /\ UNCHANGED remote /\ job[d] \in Jobs
      /\ load[d].copy.id <= remote.id
  BY DEF TypeOK, Files, Loads, Loader, LoadFirst, LoadSecond, DeliverLoad, LoadFails,
     LoaderOnly, IInv, DeviceInv, CopyInv
<1>b. InOrder(d)
  BY DEF OrderInv
<1>1. CASE LoadFirst(d) \/ LoadSecond(d) \/ LoadFails(d)
  <2>1. load'[d].pc = "deliver" => load'[d].copy.id <= load'[d].info
    BY <1>a, <1>1 DEF LoadFirst, LoadSecond, LoadFails, TypeOK, Loads, NoLoad
  <2>2. UNCHANGED <<base, job>> /\ \A p \in Device \ {d} : load'[p] = load[p]
    BY <1>1 DEF LoadFirst, LoadSecond, LoadFails, LoaderOnly, TypeOK
  <2>3. InOrder(d)'
    BY <1>a, <1>b, <2>1, <2>2 DEF InOrder
  <2> QED BY <1>a, <2>2, <2>3, OrderStep
<1>2. CASE DeliverLoad(d)
  <2>1. load[d].copy.id <= load[d].info
    BY <1>b, <1>2 DEF InOrder, DeliverLoad
  <2>2. base'[d].version = load[d].info /\ base'[d].hash = load[d].copy.id
    BY <1>2 DEF DeliverLoad, TypeOK
  <2>3. load'[d].pc = "none"
    BY <1>2 DEF DeliverLoad, TypeOK, NoLoad
  <2>4. ReadsInOrder(job'[d], remote)
    <3>1. \/ job'[d] = job[d]
          \/ /\ job'[d].pc = job[d].pc /\ job'[d].base = job[d].base
             /\ job'[d].copy = job[d].copy /\ job'[d].info = job[d].info
             /\ job'[d].version = job[d].version /\ job'[d].written = job[d].written
      BY <1>a, <1>2 DEF DeliverLoad, TypeOK, Jobs
    <3> QED BY <1>b, <3>1 DEF InOrder, ReadsInOrder
  <2>5. \A p \in Device \ {d} : /\ base'[p] = base[p]
                                /\ job'[p] = job[p] /\ load'[p] = load[p]
    BY <1>2 DEF DeliverLoad, TypeOK
  <2>6. InOrder(d)'
    BY <1>a, <2>1, <2>2, <2>3, <2>4 DEF InOrder, NotOlder
  <2> QED BY <1>a, <2>5, <2>6, OrderStep
<1> QED BY <1>1, <1>2 DEF Loader

(* The user.                                                                *)
LEMMA UserOrder ==
  ASSUME TypeOK, OrderInv, NEW d \in Device, User(d)
  PROVE  OrderInv'
<1>a. /\ remote.id \in Nat /\ UNCHANGED <<remote, base>>
      /\ \A p \in Device \ {d} : job'[p] = job[p] /\ load'[p] = load[p]
  BY DEF TypeOK, Files, User, MakeEdit, RequestSave, Refresh, AnswerSave, AnswerReload,
     AnswerDismiss, SaveFor
<1>b. InOrder(d)
  BY DEF OrderInv
<1>1. load'[d].pc = "deliver" => load'[d] = load[d]
  BY DEF User, MakeEdit, RequestSave, Refresh, AnswerSave, AnswerReload,
     AnswerDismiss, SaveFor, TypeOK, Loads
<1>2. ReadsInOrder(job'[d], remote)
  <2>1. CASE job' = job
    BY <1>b, <2>1 DEF InOrder
  <2>2. CASE job' # job
    <3>1. PICK s : SaveFor(d, s)
      BY <2>2 DEF User, MakeEdit, RequestSave, Refresh, AnswerSave, AnswerReload,
         AnswerDismiss
    <3>2. job'[d] = NewJob(s, model[d], base[d], model[d])
      BY <2>2, <3>1 DEF SaveFor, TypeOK
    <3> QED BY <1>b, <3>2, JobsInOrder DEF InOrder
  <2> QED BY <2>1, <2>2
<1>3. InOrder(d)'
  BY <1>a, <1>b, <1>1, <1>2 DEF InOrder
<1> QED BY <1>a, <1>3, OrderStep

(* A conflict dialog is never a false alarm on a storage that downloads     *)
(* before it asks for the metadata (DatabaseSave.isRemoteChanged).  On one  *)
(* that asks first a torn load leaves an old version beside a new hash, and *)
(* the next save of that file reports a conflict with itself.               *)
THEOREM ConflictsAreReal == Spec => (~ReadInfoFirst => []ConflictIsReal)
<1> SUFFICES ASSUME ~ReadInfoFirst PROVE Spec => []ConflictIsReal
  OBVIOUS
<1>1. Init => OrderInv
  BY JobsInOrder DEF Init, OrderInv, InOrder, NotOlder, NoLoad
<1>2. TypeOK /\ IInv /\ OrderInv /\ [Next]_vars => OrderInv'
  <2> SUFFICES ASSUME TypeOK, IInv, OrderInv, [Next]_vars PROVE OrderInv'
    OBVIOUS
  <2>1. CASE UNCHANGED vars
    BY <2>1 DEF vars, OrderInv, InOrder
  <2>2. CASE Next
    BY <2>2, WorkerOrder, AnswersOrder, LoaderOrder, UserOrder DEF Next
  <2> QED BY <2>1, <2>2
<1>3. TypeOK /\ OrderInv => ConflictIsReal
  BY DEF TypeOK, Jobs, Baselines, Files, OrderInv, InOrder, ReadsInOrder, ConflictIsReal
<1> QED BY <1>1, <1>2, <1>3, Invariance, PTL DEF Spec
=============================================================================
