---------------------------- MODULE SaveService ----------------------------
(***************************************************************************)
(* The main-thread side of saving in one app instance: the static state of *)
(* services/kdbx/KdbxSaveService.ets shared by every open database, its    *)
(* callbacks, the persistent worker it owns, the conflict dialogs, and the *)
(* NFC dialog that challenge-response (XC) databases need before a save.   *)
(* What the worker does with the remote file is module DatabaseSave; here  *)
(* a posted request just comes back as a success, a conflict or an error.  *)
(*                                                                         *)
(* A request is known by its place in the history of requests.  A pending  *)
(* change of credentials (newPassword, newKeyLocation, notUseKeyFile) is   *)
(* known by the request it was entered for, and a salt/response pair by    *)
(* the request it was obtained for: each salt is drawn afresh and used by  *)
(* one request.  0 is none, in each case.                                  *)
(*                                                                         *)
(* Taken from the platform (external): an isolate that terminate() was     *)
(* called on sends no more messages, and its onexit comes later.           *)
(***************************************************************************)
EXTENDS Naturals, Sequences, FiniteSets

CONSTANTS
  Key,           \* the open databases (DatabaseRegistry.iocKeyOf)
  XCKey,         \* those whose authType is challenge-response XC
  MaxRequests,   \* bound: saves asked for by the user interface
  MaxFaults      \* bound: worker errors, stopWorker() calls, failed posts

ASSUME KeyAssumption == XCKey \subseteq Key
ASSUME BoundAssumption == MaxRequests \in Nat /\ MaxFaults \in Nat

VARIABLES
  calls,       \* history: the requests, and what their callback was told
  saving,      \* KdbxSaveService.saving
  queue,       \* pendingSaves: a Map, in insertion order
  unreleased,  \* the rounds (executeSave calls) whose `released` is false
  tickets,     \* history: rounds started so far, to tell them apart
  tasks,       \* rounds whose code or worker has something left to do
  worker,      \* databaseWorker, 0 when null
  isolate,     \* the worker isolates: what lives, and the handlers it has
  creds,       \* creds[k]: the pending credential fields of the session
  applied,     \* history: the credential changes stored in the files
  conflicts,   \* conflict dialogs waiting for an answer
  reloads,     \* RELOADs under way
  waiting,     \* pendingChallenges: a Map, in insertion order
  dialogOpen,  \* challengeDialogOpen
  dialog,      \* the NFC dialog PromptActionUtils has registered, if any
  closed,      \* answers whose closeCustomDialog() has resolved
  fileSeed,    \* fileSeed[k]: the pair whose salt is the stored file's KDF seed
  seed,        \* seed[k]: the pair behind the session's challengeResponseHex
  faults       \* worker errors, stops and failed posts so far

lockVars == <<saving, queue, unreleased, tickets, tasks>>
workerVars == <<worker, isolate, faults>>
challengeVars == <<waiting, dialogOpen, dialog, closed>>
fileVars == <<applied, fileSeed, seed>>
dialogVars == <<conflicts, reloads>>
vars == <<calls, lockVars, workerVars, creds, fileVars, dialogVars, challengeVars>>

Strategies == {"AUTO", "MERGE", "OVERWRITE"}
Answers == {"saved", "reloaded", "error"}
InWorker == {"posted", "stored", "merged"}

Calls == [key : Key, change : BOOLEAN, told : SUBSET Answers]

(* PendingSave: a slot of either map.                                       *)
Slots == [req : Nat, key : Key, strategy : Strategies, pair : Nat]

(* What executeSave() captures: the closures of the round and its request.  *)
Rounds == [ticket : Nat, req : Nat, key : Key, strategy : Strategies,
           pair : Nat, cred : Nat]

Isolate == 1 .. MaxFaults + 1

(* In the main thread, or in a worker isolate.                              *)
Tasks == [round : Rounds, stage : {"serialize", "adopt"}, on : {0}]
         \cup [round : Rounds, stage : InWorker, on : Isolate]

States == {"none", "live", "exiting"}
(* An isolate of which no round has set the handlers has an empty set.      *)
Isolates == [state : States, handler : SUBSET Rounds]

(* The dialog is opening, open, or closing after a response or a cancel.    *)
Dialogs == [key : Key, stage : {"opening", "open", "response", "cancel"}]

Init ==
  /\ calls = <<>>
  /\ saving = FALSE
  /\ queue = <<>>
  /\ unreleased = {}
  /\ tickets = 0
  /\ tasks = {}
  /\ worker = 0
  /\ isolate = [i \in Isolate |-> [state |-> "none", handler |-> {}]]
  /\ creds = [k \in Key |-> 0]
  /\ applied = {}
  /\ conflicts = {}
  /\ reloads = {}
  /\ waiting = <<>>
  /\ dialogOpen = FALSE
  /\ dialog = {}
  /\ closed = <<>>
  /\ fileSeed = [k \in Key |-> 0]
  /\ seed = [k \in Key |-> 0]
  /\ faults = 0

-----------------------------------------------------------------------------
(* Maps with insertion order: setting a key that is present keeps its place.*)

Has(map, k) == \E i \in DOMAIN map : map[i].key = k

(* Mutated Set: a second slot for the same key.                             *)
SetAppends(map, slot) == Append(map, slot)

Set(map, slot) ==
  IF Has(map, slot.key)
  THEN [i \in DOMAIN map |-> IF map[i].key = slot.key THEN slot ELSE map[i]]
  ELSE Append(map, slot)

At(map, k) == CHOOSE i \in DOMAIN map : map[i].key = k

Delete(map, k) ==
  IF Has(map, k)
  THEN SubSeq(map, 1, At(map, k) - 1) \o SubSeq(map, At(map, k) + 1, Len(map))
  ELSE map

-----------------------------------------------------------------------------
(* The lock.                                                                *)

(* What executeSave() starts: the request takes the session's fields of     *)
(* this moment, the pending credential change among them.                   *)
Started(slot, cr) ==
  [round |-> [ticket |-> tickets + 1, req |-> slot.req, key |-> slot.key,
              strategy |-> slot.strategy, pair |-> slot.pair,
              cred |-> cr[slot.key]],
   stage |-> "serialize", on |-> 0]

(* saveDatabaseFor() after its early returns.                               *)
Submit(slot, cr) ==
  IF saving
  THEN /\ queue' = Set(queue, slot)
       /\ UNCHANGED <<saving, unreleased, tickets, tasks>>
  ELSE /\ saving' = TRUE
       /\ tickets' = tickets + 1
       /\ unreleased' = unreleased \cup {tickets + 1}
       /\ tasks' = tasks \cup {Started(slot, cr)}
       /\ UNCHANGED queue

(* onSaveDone(): the first slot of the queue is executed, or the lock is    *)
(* free.                                                                    *)
OnSaveDone(ticket, left, cr) ==
  IF queue = <<>>
  THEN /\ saving' = FALSE
       /\ unreleased' = unreleased \ {ticket}
       /\ tasks' = left
       /\ UNCHANGED <<queue, tickets>>
  ELSE /\ queue' = Tail(queue)
       /\ saving' = TRUE
       /\ tickets' = tickets + 1
       /\ unreleased' = (unreleased \ {ticket}) \cup {tickets + 1}
       /\ tasks' = left \cup {Started(Head(queue), cr)}

(* Mutated Release: no `released` guard.                                    *)
ReleaseAgain(ticket, left, cr) == OnSaveDone(ticket, left, cr)

(* release() of a round, which does nothing the second time.  `left` are    *)
(* the tasks that remain of the other rounds.                               *)
Release(ticket, left, cr) ==
  IF ticket \notin unreleased
  THEN /\ tasks' = left
       /\ UNCHANGED <<saving, queue, unreleased, tickets>>
  ELSE OnSaveDone(ticket, left, cr)

Cleared(k) == [creds EXCEPT ![k] = 0]

Tell(req, answer) ==
  calls' = [calls EXCEPT ![req].told = @ \cup {answer}]

-----------------------------------------------------------------------------
(* Challenge-response: one NFC dialog for the first slot of `waiting`.      *)

(* openSaveChallenge(), with the map it finds.  Nothing is shown when       *)
(* PromptActionUtils still has a dialog of the same id.                     *)
OpenSaveChallenge(map, isOpen) ==
  /\ waiting' = map
  /\ IF isOpen \/ map = <<>>
     THEN dialogOpen' = isOpen /\ UNCHANGED dialog
     ELSE /\ dialogOpen' = TRUE
          /\ dialog' = IF dialog = {}
                       THEN {[key |-> Head(map).key, stage |-> "opening"]}
                       ELSE dialog

(* saveDatabaseFor(), for the strategies that save.                         *)
SaveFor(slot, cr) ==
  IF slot.key \in XCKey /\ slot.pair = 0
  THEN /\ OpenSaveChallenge(Set(waiting, slot), dialogOpen)
       /\ UNCHANGED <<lockVars, closed>>
  ELSE /\ Submit(slot, cr)
       /\ UNCHANGED challengeVars

-----------------------------------------------------------------------------
(* What the user asks for.                                                  *)

(* A successful change of credentials closes the session it was made in     *)
(* (ChangePassword.handlePasswordChange).                                   *)
SessionOpen(k) ==
  \A r \in DOMAIN calls :
     ~(calls[r].key = k /\ calls[r].change /\ "saved" \in calls[r].told)

Asked(k) == [req |-> Len(calls) + 1, key |-> k, strategy |-> "AUTO", pair |-> 0]

Request(k, change) ==
  /\ Len(calls) < MaxRequests
  /\ SessionOpen(k)
  /\ calls' = Append(calls, [key |-> k, change |-> change, told |-> {}])

(* saveDatabase(), saveDatabaseFromUi()                                     *)
SaveDatabase(k) ==
  /\ Request(k, FALSE)
  /\ SaveFor(Asked(k), creds)
  /\ UNCHANGED <<workerVars, creds, fileVars, dialogVars>>

(* ChangePassword.changePassword(): the fields are set on the session the   *)
(* whole application shares, then the save is asked for.                    *)
ChangePassword(k) ==
  /\ Request(k, TRUE)
  /\ creds' = [creds EXCEPT ![k] = Len(calls) + 1]
  /\ SaveFor(Asked(k), creds')
  /\ UNCHANGED <<workerVars, fileVars, dialogVars>>

-----------------------------------------------------------------------------
(* A round: saveDatabaseAsync() and saveDatabaseWorker().                   *)

Dead == {t \in tasks : t.stage \in InWorker /\ t.on = worker}

(* callbackWarp.onError of round h, called while `left` is all that goes on.*)
RoundFails(h, left) ==
  /\ creds' = Cleared(h.key)
  /\ Tell(h.req, "error")
  /\ Release(h.ticket, left, creds')

(* Mutated SerializeFails: the catch does not release.                      *)
SerializeFailsLocked(t) ==
  /\ t.stage = "serialize"
  /\ creds' = Cleared(t.round.key)
  /\ Tell(t.round.req, "error")
  /\ tasks' = tasks \ {t}
  /\ UNCHANGED <<saving, queue, unreleased, tickets, workerVars, fileVars,
                 dialogVars, challengeVars>>

SerializeFails(t) ==
  /\ t.stage = "serialize"
  /\ RoundFails(t.round, tasks \ {t})
  /\ UNCHANGED <<workerVars, fileVars, dialogVars, challengeVars>>

Free == {i \in Isolate : isolate[i].state = "none"}

(* The worker the request is posted to: the persistent one or a new one.    *)
Target == IF worker = 0 THEN CHOOSE i \in Free : TRUE ELSE worker

Post(t) ==
  /\ t.stage = "serialize"
  /\ worker = 0 => Free # {}
  /\ worker' = Target
  /\ isolate' = [isolate EXCEPT ![Target] =
                   [state |-> "live", handler |-> {t.round}]]
  /\ tasks' = (tasks \ {t})
               \cup {[round |-> t.round, stage |-> "posted", on |-> Target]}
  /\ UNCHANGED <<calls, saving, queue, unreleased, tickets, creds, faults,
                 fileVars, dialogVars, challengeVars>>

(* postMessage() throws: the reference is dropped, the isolate stays.       *)
PostFails(t) ==
  /\ t.stage = "serialize"
  /\ faults < MaxFaults
  /\ worker = 0 => Free # {}
  /\ faults' = faults + 1
  /\ worker' = 0
  /\ isolate' = [isolate EXCEPT ![Target].state = "live"]
  /\ RoundFails(t.round, tasks \ {t})
  /\ UNCHANGED <<fileVars, dialogVars, challengeVars>>

-----------------------------------------------------------------------------
(* The worker: it stores the file, then answers.                            *)

(* The remote file opens with the session's credentials.                    *)
Opens(k) == fileSeed[k] = seed[k]

(* A merge first decrypts the remote file (mergeDatabase).                  *)
Store(t, stage) ==
  /\ t.stage = "posted"
  /\ stage = "merged" => t.round.strategy = "MERGE" /\ Opens(t.round.key)
  /\ tasks' = (tasks \ {t}) \cup {[t EXCEPT !.stage = stage]}
  /\ fileSeed' = [fileSeed EXCEPT ![t.round.key] =
                    IF t.round.pair = 0 THEN @ ELSE t.round.pair]
  /\ applied' = applied \cup ({t.round.cred} \ {0})
  /\ UNCHANGED <<calls, saving, queue, unreleased, tickets, creds, seed,
                 workerVars, dialogVars, challengeVars>>

(* A message of the worker reaches the handlers set on its isolate.         *)
Handlers(t) == isolate[t.on].handler

(* Mutated SeedOf: the session keeps its response.                          *)
SeedKept(h) == seed

(* handleSuccess(): the session takes over the response of the new seed.    *)
SeedOf(h) == [seed EXCEPT ![h.key] = IF h.pair = 0 THEN @ ELSE h.pair]

DeliverSuccess(t) ==
  /\ t.stage = "stored"
  /\ \E h \in Handlers(t) :
       /\ seed' = SeedOf(h)
       /\ Tell(h.req, "saved")
       /\ Release(h.ticket, tasks \ {t}, creds)
  /\ UNCHANGED <<workerVars, creds, applied, fileSeed, dialogVars, challengeVars>>

(* handleSuccess() of a merge: the lock is held until the merged model has  *)
(* been read back.                                                          *)
DeliverMerge(t) ==
  /\ t.stage = "merged"
  /\ \E h \in Handlers(t) :
       /\ seed' = SeedOf(h)
       /\ tasks' = (tasks \ {t}) \cup {[round |-> h, stage |-> "adopt", on |-> 0]}
  /\ UNCHANGED <<calls, saving, queue, unreleased, tickets, workerVars, creds,
                 applied, fileSeed, dialogVars, challengeVars>>

(* Mutated Adopt: the catch does not release.                               *)
AdoptFailsLocked(t, answer) ==
  /\ t.stage = "adopt"
  /\ Tell(t.round.req, answer)
  /\ IF answer = "saved"
     THEN Release(t.round.ticket, tasks \ {t}, creds)
     ELSE tasks' = tasks \ {t} /\ UNCHANGED <<saving, queue, unreleased, tickets>>
  /\ UNCHANGED <<workerVars, creds, fileVars, dialogVars, challengeVars>>

(* Its callback is the caller's, not callbackWarp: credentials are kept.    *)
Adopt(t, answer) ==
  /\ t.stage = "adopt"
  /\ Tell(t.round.req, answer)
  /\ Release(t.round.ticket, tasks \ {t}, creds)
  /\ UNCHANGED <<workerVars, creds, fileVars, dialogVars, challengeVars>>

DeliverConflict(t) ==
  /\ t.stage = "posted"
  /\ t.round.strategy = "AUTO"
  /\ \E h \in Handlers(t) :
       /\ conflicts' = conflicts \cup {[req |-> h.req, key |-> h.key, pair |-> h.pair]}
       /\ Release(h.ticket, tasks \ {t}, creds)
  /\ UNCHANGED <<calls, workerVars, creds, fileVars, reloads, challengeVars>>

(* Before or after the file was stored.                                     *)
DeliverError(t) ==
  /\ t.stage \in InWorker
  /\ \E h \in Handlers(t) : RoundFails(h, tasks \ {t})
  /\ UNCHANGED <<workerVars, fileVars, dialogVars, challengeVars>>

-----------------------------------------------------------------------------
(* The end of a worker.                                                     *)

Terminate ==
  isolate' = IF worker = 0 THEN isolate
                           ELSE [isolate EXCEPT ![worker].state = "exiting"]

(* stopWorker(), when the ability is rebuilt (resetPersistentWorkers).      *)
StopWorker ==
  /\ worker # 0
  /\ faults < MaxFaults
  /\ faults' = faults + 1
  /\ Terminate
  /\ worker' = 0
  /\ tasks' = tasks \ Dead
  /\ UNCHANGED <<calls, saving, queue, unreleased, tickets, creds, fileVars,
                 dialogVars, challengeVars>>

(* onAllErrors of isolate i, busy or idle.  It terminates the worker        *)
(* databaseWorker refers to.                                                *)
WorkerError(i) ==
  /\ isolate[i].state = "live"
  /\ faults < MaxFaults
  /\ faults' = faults + 1
  /\ Terminate
  /\ worker' = 0
  /\ \E h \in isolate[i].handler : RoundFails(h, tasks \ Dead)
  /\ UNCHANGED <<fileVars, dialogVars, challengeVars>>

(* Mutated OnExit: it does not release.                                     *)
OnExitLocked(i) ==
  /\ isolate[i].state = "exiting"
  /\ isolate' = [isolate EXCEPT ![i] = [state |-> "none", handler |-> {}]]
  /\ worker' = 0
  /\ \E h \in isolate[i].handler : creds' = Cleared(h.key)
  /\ UNCHANGED <<calls, lockVars, faults, fileVars, dialogVars, challengeVars>>

(* onexit of isolate i: whichever worker databaseWorker refers to by now.   *)
OnExit(i) ==
  /\ isolate[i].state = "exiting"
  /\ isolate' = [isolate EXCEPT ![i] = [state |-> "none", handler |-> {}]]
  /\ worker' = 0
  /\ \E h \in isolate[i].handler :
       /\ creds' = Cleared(h.key)
       /\ Release(h.ticket, tasks, creds')
  /\ UNCHANGED <<calls, faults, fileVars, dialogVars, challengeVars>>

-----------------------------------------------------------------------------
(* The conflict dialog: handleConflict() and reloadFromRemote().            *)

AnswerSave(c, strategy) ==
  /\ conflicts' = conflicts \ {c}
  /\ SaveFor([req |-> c.req, key |-> c.key, strategy |-> strategy,
              pair |-> c.pair], creds)
  /\ UNCHANGED <<calls, workerVars, creds, fileVars, reloads>>

AnswerReload(c) ==
  /\ conflicts' = conflicts \ {c}
  /\ reloads' = reloads \cup {[req |-> c.req, key |-> c.key,
                               abandons |-> creds[c.key] # 0]}
  /\ creds' = Cleared(c.key)
  /\ UNCHANGED <<calls, lockVars, workerVars, fileVars, challengeVars>>

(* Mutated Dismiss: the fields stay.                                        *)
DismissKeepsFields(c) ==
  /\ conflicts' = conflicts \ {c}
  /\ UNCHANGED <<calls, creds, lockVars, workerVars, fileVars, reloads, challengeVars>>

Dismiss(c) ==
  /\ conflicts' = conflicts \ {c}
  /\ creds' = Cleared(c.key)
  /\ UNCHANGED <<calls, lockVars, workerVars, fileVars, reloads, challengeVars>>

ReloadDone(l) ==
  /\ Opens(l.key)
  /\ reloads' = reloads \ {l}
  /\ Tell(l.req, IF l.abandons THEN "error" ELSE "reloaded")
  /\ UNCHANGED <<lockVars, workerVars, creds, fileVars, conflicts, challengeVars>>

ReloadFails(l) ==
  /\ reloads' = reloads \ {l}
  /\ Tell(l.req, "error")
  /\ UNCHANGED <<lockVars, workerVars, creds, fileVars, conflicts, challengeVars>>

-----------------------------------------------------------------------------
(* The NFC dialog.                                                          *)

DialogOpens ==
  /\ \E d \in dialog : d.stage = "opening" /\ dialog' = {[d EXCEPT !.stage = "open"]}
  /\ UNCHANGED <<calls, lockVars, workerVars, creds, fileVars, dialogVars,
                 waiting, dialogOpen, closed>>

(* Mutated GiveUp: the fields stay.                                         *)
GiveUpKeepsFields(k) ==
  IF Has(waiting, k)
  THEN Tell(waiting[At(waiting, k)].req, "error") /\ UNCHANGED creds
  ELSE UNCHANGED <<creds, calls>>

(* finishSaveChallenge(), as a cancelled and as a failed challenge use it.  *)
GiveUp(k) ==
  IF Has(waiting, k)
  THEN creds' = Cleared(k) /\ Tell(waiting[At(waiting, k)].req, "error")
  ELSE UNCHANGED <<creds, calls>>

(* openCustomDialog() rejects.  The next slot is not looked at.             *)
OpenFails ==
  /\ \E d \in dialog :
       /\ d.stage = "opening"
       /\ GiveUp(d.key)
       /\ waiting' = Delete(waiting, d.key)
  /\ dialog' = {}
  /\ dialogOpen' = FALSE
  /\ UNCHANGED <<lockVars, workerVars, fileVars, dialogVars, closed>>

(* onSaveChallengeResponse() and onSaveChallengeCancelled() up to their     *)
(* await: the flag falls before the dialog is closed.                       *)
Answer(answer) ==
  /\ \E d \in dialog : d.stage = "open" /\ dialog' = {[d EXCEPT !.stage = answer]}
  /\ dialogOpen' = FALSE
  /\ UNCHANGED <<calls, lockVars, workerVars, creds, fileVars, dialogVars,
                 waiting, closed>>

DialogCloses ==
  /\ \E d \in dialog : /\ d.stage \in {"response", "cancel"}
                       /\ closed' = Append(closed, d)
  /\ dialog' = {}
  /\ UNCHANGED <<calls, lockVars, workerVars, creds, fileVars, dialogVars,
                 waiting, dialogOpen>>

(* The rest of onSaveChallengeResponse().                                   *)
AfterResponse ==
  /\ closed # <<>> /\ Head(closed).stage = "response"
  /\ closed' = Tail(closed)
  /\ LET k == Head(closed).key
     IN  /\ IF Has(waiting, k)
            THEN LET slot == waiting[At(waiting, k)]
                 IN  Submit([slot EXCEPT !.pair = slot.req], creds)
            ELSE UNCHANGED lockVars
         /\ OpenSaveChallenge(Delete(waiting, k), dialogOpen)
  /\ UNCHANGED <<calls, workerVars, creds, fileVars, dialogVars>>

(* The rest of onSaveChallengeCancelled().                                  *)
AfterCancel ==
  /\ closed # <<>> /\ Head(closed).stage = "cancel"
  /\ closed' = Tail(closed)
  /\ LET k == Head(closed).key
     IN  GiveUp(k) /\ OpenSaveChallenge(Delete(waiting, k), dialogOpen)
  /\ UNCHANGED <<lockVars, workerVars, fileVars, dialogVars>>

-----------------------------------------------------------------------------
Step(t) ==
  \/ SerializeFails(t) \/ Post(t) \/ PostFails(t)
  \/ Store(t, "stored") \/ Store(t, "merged")
  \/ DeliverSuccess(t) \/ DeliverMerge(t) \/ DeliverConflict(t) \/ DeliverError(t)
  \/ Adopt(t, "saved") \/ Adopt(t, "error")

Dialog ==
  \/ DialogOpens \/ OpenFails \/ DialogCloses
  \/ Answer("response") \/ Answer("cancel")
  \/ AfterResponse \/ AfterCancel

Next ==
  \/ \E k \in Key : SaveDatabase(k) \/ ChangePassword(k)
  \/ \E t \in tasks : Step(t)
  \/ StopWorker
  \/ \E i \in Isolate : WorkerError(i) \/ OnExit(i)
  \/ \E c \in conflicts : \/ AnswerSave(c, "MERGE") \/ AnswerSave(c, "OVERWRITE")
                          \/ AnswerReload(c) \/ Dismiss(c)
  \/ \E l \in reloads : ReloadDone(l) \/ ReloadFails(l)
  \/ Dialog

Spec == Init /\ [][Next]_vars

(* Rounds go on: serialising, the worker (its calls end, in time-outs at    *)
(* worst) and the reading back of a merge end; a terminated isolate exits.  *)
FairSpec ==
  /\ Spec
  /\ WF_vars(\E t \in tasks : Step(t))
  /\ WF_vars(\E i \in Isolate : OnExit(i))

-----------------------------------------------------------------------------
(* Properties                                                               *)

Distinct(map) == \A i, j \in DOMAIN map : map[i].key = map[j].key => i = j

(* The values the variables take; both maps have one slot for each key, and *)
(* at most one NFC dialog is registered.                                    *)
TypeOK ==
  /\ calls \in Seq(Calls)
  /\ saving \in BOOLEAN /\ dialogOpen \in BOOLEAN
  /\ queue \in Seq(Slots) /\ Distinct(queue)
  /\ waiting \in Seq(Slots) /\ Distinct(waiting)
  /\ tickets \in Nat
  /\ unreleased \subseteq 1 .. tickets
  /\ tasks \subseteq Tasks
  /\ worker \in {0} \cup Isolate
  /\ isolate \in [Isolate -> Isolates]
  /\ creds \in [Key -> Nat]
  /\ applied \subseteq Nat
  /\ conflicts \subseteq [req : Nat, key : Key, pair : Nat]
  /\ reloads \subseteq [req : Nat, key : Key, abandons : BOOLEAN]
  /\ dialog \subseteq Dialogs /\ \A d, e \in dialog : d = e
  /\ closed \in Seq(Dialogs)
  /\ fileSeed \in [Key -> Nat] /\ seed \in [Key -> Nat]
  /\ faults \in 0 .. MaxFaults

(* saving, the queue and the `released` guards of the rounds agree: one     *)
(* round at most holds the lock, the flag is set exactly while one does,    *)
(* and no slot waits in the queue of a free lock.                           *)
SingleFlight ==
  /\ \A m, n \in unreleased : m = n
  /\ saving <=> unreleased # {}
  /\ queue # <<>> => saving

(* The lock is never held by a round nobody will release: its code or its   *)
(* worker has something left to do, or the onexit of its worker is to come. *)
HolderLives ==
  \A n \in unreleased :
     \/ \E t \in tasks : t.round.ticket = n
     \/ \E i \in Isolate : /\ isolate[i].state = "exiting"
                           /\ \E h \in isolate[i].handler : h.ticket = n

(* Nothing is under way that may still use the pending credentials of k.    *)
Quiet(k) ==
  /\ ~Has(queue, k) /\ ~Has(waiting, k)
  /\ \A t \in tasks : t.round.key # k
  /\ \A c \in conflicts : c.key # k
  /\ \A i \in Isolate :
        isolate[i].state = "exiting" => \A h \in isolate[i].handler : h.key # k

(* A change of credentials whose save was given up, in whichever way, does  *)
(* not stay in the session for a later save to apply.                       *)
NoIntentLeft ==
  \A k \in Key : Quiet(k) /\ creds[k] # 0 => creds[k] \in applied

(* When a save of an XC database has been reported done, and no later one   *)
(* has replaced its file, the session's response opens the file.            *)
SeedKnown ==
  \A k \in XCKey :
     fileSeed[k] # 0 /\ "saved" \in calls[fileSeed[k]].told => Opens(k)

(* Every period of saving ends, and with it the queue is empty.             *)
QueueDrains == saving ~> ~saving

(* Claims of comments the code does not keep.                               *)

(* KdbxSaveService.ets:590: no save is in a worker beside another, as the   *)
(* lock guarantees.                                                         *)
NoConcurrentSaves ==
  \A s, t \in tasks : s.stage \in InWorker /\ t.stage \in InWorker => s = t

(* FileService.ets:131: a pending change of credentials is used by the save *)
(* it was entered for, or by one that follows its having been stored.       *)
CredentialsOwn ==
  \A t \in tasks : t.round.cred \in {0, t.round.req} \cup applied

(* KdbxSaveService.ets:485: a change of credentials that ends in a reload   *)
(* is not reported as done.                                                 *)
ReloadIsNoChange ==
  \A r \in DOMAIN calls : calls[r].change => "reloaded" \notin calls[r].told

(* KdbxSaveService.ets:72: challengeDialogOpen stands for a dialog that is  *)
(* open or closing, after which the next slot is looked at.                 *)
OpenMeansDialog == dialogOpen => dialog # {} \/ closed # <<>>
=============================================================================
