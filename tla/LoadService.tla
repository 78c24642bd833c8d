---------------------------- MODULE LoadService ----------------------------
(***************************************************************************)
(* Opening databases in one app instance: the static state of              *)
(* services/kdbx/KdbxLoadService.ets (the persistent load worker, its busy *)
(* flag, the queue of background loads), the registry of open databases    *)
(* (DatabaseRegistry, behind the FileService facade), the automatic        *)
(* opening of child databases (AutoOpenCoordinator), and the pages that    *)
(* start loads: Password, DatabaseView (refresh), the database switcher.   *)
(*                                                                         *)
(* A load is known by its place in the history of loads; 0 is none.  What  *)
(* a load reads is known by the database it is of.  The registry keeps its *)
(* records in insertion order, which decides the next current database     *)
(* when the current one is removed: here it is any that remains.           *)
(*                                                                         *)
(* Taken from the platform (external): an isolate that terminate() was     *)
(* called on sends no more messages, and its onexit comes later.           *)
(***************************************************************************)
EXTENDS Naturals, Sequences, FiniteSets

CONSTANTS
  Database,   \* the database files, by iocKey
  None,       \* no database: null, undefined
  AutoOpen,   \* AutoOpen[d]: the children d lists and this device may open
  Direct,     \* bound: those whose size, known or remembered, may be small
  Primary,    \* bound: those the user opens with the password page
  MaxAsks,    \* bound: loads, closings, settings, restarts of the ability
  MaxFaults   \* bound: failed creations and posts, dying workers

ASSUME DatabaseAssumption ==
  /\ None \notin Database
  /\ AutoOpen \in [Database -> Seq(Database)]
  /\ Direct \cup Primary \subseteq Database
ASSUME BoundAssumption == MaxAsks \in Nat /\ MaxFaults \in Nat

VARIABLES
  loads,               \* the loads so far, and where each of them is
  pendingLoads,        \* KdbxLoadService.pendingLoads
  currentPendingLoad,  \* the load of the queue that is under way, 0 when null
  databaseWorker,      \* 0 when null
  workerBusy,
  isolate,             \* the worker isolates: what lives, and its handlers
  uncreated,           \* history: a load could not create its worker
  records,             \* records[d]: the database whose model, version and
                       \* hash the session object of d holds; None: not open
  childRecords,        \* the open databases with isChild
  currentKey,          \* None when null
  emptyParam,          \* what the object for "no session" holds
  attempted,
  pendingByParent,
  announced,           \* history: the parents whose AUTO_OPEN_DONE followed
                       \* the last scan of them
  childDbEnable,       \* SettingsService.isChildDbEnable()
  ability,             \* the ability exists: pages can be used
  asks,                \* what the user has asked for so far
  faults               \* failed creations and posts, dead workers so far

queueVars == <<pendingLoads, currentPendingLoad>>
workerVars == <<databaseWorker, workerBusy, isolate, uncreated>>
sessionVars == <<records, childRecords, currentKey, emptyParam, attempted>>
countVars == <<pendingByParent, announced>>
userVars == <<childDbEnable, ability, asks>>
vars == <<loads, queueVars, workerVars, sessionVars, countVars, userVars, faults>>

(* Password without and with the mode "add", DatabaseView, AutoOpen.        *)
Kinds == {"unlock", "add", "refresh", "child"}

(* Before loadDatabase(), in it, and after its callback.                    *)
Asked == {"probing", "opening"}
InFlight == {"queued", "sizing", "main", "posted"}
Answered == {"restoring", "noting", "scanning"}
(* A load is lost whose caller does nothing about how it ended.             *)
Over == {"done", "lost"}
Stages == Asked \cup InFlight \cup Answered \cup Over

Loads == [db : Database \cup {None}, kind : Kinds, makeCurrent : BOOLEAN,
          by : Nat, parent : Database \cup {None}, stage : Stages,
          left : Seq(Database), queued : BOOLEAN]

(* A restart may stop two workers.                                          *)
Isolate == 1 .. 2 * MaxAsks + MaxFaults + 1
Isolates == [state : {"none", "live", "exiting"}, handler : Nat, working : SUBSET Nat]
NoIsolate == [state |-> "none", handler |-> 0, working |-> {}]

Open == {d \in Database : records[d] # None}

Init ==
  /\ loads = <<>>
  /\ pendingLoads = <<>>
  /\ currentPendingLoad = 0
  /\ databaseWorker = 0
  /\ workerBusy = FALSE
  /\ isolate = [w \in Isolate |-> NoIsolate]
  /\ uncreated = FALSE
  /\ records = [d \in Database |-> None]
  /\ childRecords = {}
  /\ currentKey = None
  /\ emptyParam = None
  /\ attempted = {}
  /\ pendingByParent = [d \in Database |-> 0]
  /\ announced = {}
  /\ childDbEnable = TRUE
  /\ ability = TRUE
  /\ asks = 0
  /\ faults = 0

-----------------------------------------------------------------------------
(* The queue.                                                               *)

To(L, i, stage) == [L EXCEPT ![i].stage = stage]

(* dispatchNextPendingLoad() when no load of the queue is under way; L are  *)
(* the loads as they have just become.                                      *)
DispatchNextPendingLoad(L, q) ==
  IF q = <<>>
  THEN loads' = L /\ pendingLoads' = <<>> /\ currentPendingLoad' = 0
  ELSE /\ loads' = To(L, Head(q), "sizing")
       /\ pendingLoads' = Tail(q)
       /\ currentPendingLoad' = Head(q)

EnqueueLoad(L, i) ==
  IF currentPendingLoad # 0
  THEN /\ loads' = To(L, i, "queued")
       /\ pendingLoads' = Append(pendingLoads, i)
       /\ UNCHANGED currentPendingLoad
  ELSE DispatchNextPendingLoad(To(L, i, "queued"), Append(pendingLoads, i))

(* Mutated FinishPendingLoad: any end moves the queue.                      *)
FinishAny(L, i) == DispatchNextPendingLoad(L, pendingLoads)

(* finishPendingLoad(), which any end of any load of the queue calls.       *)
FinishPendingLoad(L, i) ==
  IF currentPendingLoad # i
  THEN loads' = L /\ UNCHANGED queueVars
  ELSE DispatchNextPendingLoad(L, pendingLoads)

-----------------------------------------------------------------------------
(* What the callbacks of a load do.  A worker keeps the handlers of its     *)
(* last load, so one that has ended may be told again; `finished` of        *)
(* ChildOpenTask, and the lack of a state to change elsewhere, make that a  *)
(* call that only comes to finishPendingLoad().                             *)

Unanswered(i) == loads[i].stage \in InFlight
IsChild(i) == loads[i].kind = "child"

(* endPending(): the last one announces AUTO_OPEN_DONE.                     *)
EndPending(p, done) ==
  /\ pendingByParent' = [pendingByParent EXCEPT ![p] = IF @ <= 1 THEN 0 ELSE @ - 1]
  /\ announced' = IF pendingByParent[p] <= 1 THEN done \cup {p} ELSE done

(* FileService.init(), close()                                              *)
CloseAll ==
  /\ records' = [d \in Database |-> None]
  /\ childRecords' = {}
  /\ currentKey' = None
  /\ emptyParam' = None
  /\ attempted' = {}

(* The model is restored in a later step; Password first closes what is     *)
(* open, unless it is in the mode "add".                                    *)
OnSuccessMessage(i) ==
  /\ FinishPendingLoad(IF Unanswered(i) THEN To(loads, i, "restoring") ELSE loads, i)
  /\ IF Unanswered(i) /\ loads[i].kind = "unlock"
     THEN CloseAll
     ELSE UNCHANGED sessionVars
  /\ UNCHANGED countVars

(* onErrorMessage, and onAllErrors of all but the refresh, which has none.  *)
OnErrorMessage(i, stage) ==
  /\ FinishPendingLoad(IF Unanswered(i) THEN To(loads, i, stage) ELSE loads, i)
  /\ IF Unanswered(i) /\ IsChild(i)
     THEN EndPending(loads[i].parent, announced)
     ELSE UNCHANGED countVars
  /\ UNCHANGED sessionVars

OnAllErrors(i) ==
  OnErrorMessage(i, IF loads[i].kind = "refresh" THEN "lost" ELSE "done")

(* Mutated OnExit: an exit does not move the queue.                         *)
OnExitLogged(i) ==
  /\ loads' = IF Unanswered(i) THEN To(loads, i, "lost") ELSE loads
  /\ UNCHANGED <<queueVars, sessionVars, countVars>>

(* The page of a password closes its dialog, a child load only logs it, a   *)
(* refresh does not ask for it.                                             *)
OnExit(i) ==
  /\ FinishPendingLoad(
       IF Unanswered(i)
       THEN To(loads, i, IF loads[i].kind \in {"unlock", "add"} THEN "done" ELSE "lost")
       ELSE loads, i)
  /\ UNCHANGED <<sessionVars, countVars>>

(* The handlers of a worker without a load.                                 *)
NoCallback == UNCHANGED <<loads, queueVars, sessionVars, countVars>>

-----------------------------------------------------------------------------
(* loadDatabase(): the size decides between main thread and worker.         *)

Free == {w \in Isolate : isolate[w].state = "none"}

(* ensureWorker()                                                           *)
Target == IF databaseWorker = 0 THEN CHOOSE w \in Free : TRUE ELSE databaseWorker

(* The end of a worker concerns the service if it is the current one.       *)
ForgetIf(isCurrent) ==
  /\ IF isCurrent
     THEN databaseWorker' = 0 /\ workerBusy' = FALSE
     ELSE UNCHANGED <<databaseWorker, workerBusy>>
  /\ UNCHANGED uncreated

Ended(w) == [isolate EXCEPT ![w].state = "exiting", ![w].working = {}]

(* A database whose size is small, or was when it was remembered, is read   *)
(* on the main thread, whoever else is loading.                             *)
LoadOnMain(i) ==
  /\ loads[i].stage = "sizing"
  /\ loads[i].db \in Direct
  /\ loads' = To(loads, i, "main")
  /\ UNCHANGED <<queueVars, workerVars, sessionVars, countVars, userVars, faults>>

(* asyncLoadDatabase(): one whose size is large or not known.               *)
RefuseBusy(i) ==
  /\ loads[i].stage = "sizing"
  /\ workerBusy
  /\ OnErrorMessage(i, "done")
  /\ UNCHANGED <<workerVars, userVars, faults>>

(* Mutated Post: a busy worker takes another load.                          *)
PostAnyway(i) ==
  /\ loads[i].stage = "sizing"
  /\ databaseWorker = 0 => Free # {}
  /\ workerBusy' = TRUE
  /\ databaseWorker' = Target
  /\ isolate' = [isolate EXCEPT ![Target] =
       [state |-> "live", handler |-> i, working |-> @.working \cup {i}]]
  /\ loads' = To(loads, i, "posted")
  /\ UNCHANGED <<uncreated, queueVars, sessionVars, countVars, userVars, faults>>

Post(i) ==
  /\ loads[i].stage = "sizing"
  /\ ~workerBusy
  /\ databaseWorker = 0 => Free # {}
  /\ workerBusy' = TRUE
  /\ databaseWorker' = Target
  /\ isolate' = [isolate EXCEPT ![Target] =
       [state |-> "live", handler |-> i, working |-> @.working \cup {i}]]
  /\ loads' = To(loads, i, "posted")
  /\ UNCHANGED <<uncreated, queueVars, sessionVars, countVars, userVars, faults>>

(* ensureWorker() throws when there is no worker yet: the flag is set, and  *)
(* the load, tried again by dispatchAndLoad(), is told that the worker is   *)
(* busy.  An isolate whose first message failed lives, and is nobody's.     *)
CreateFails(i) ==
  /\ loads[i].stage = "sizing"
  /\ ~workerBusy
  /\ databaseWorker = 0
  /\ faults < MaxFaults
  /\ faults' = faults + 1
  /\ workerBusy' = TRUE
  /\ uncreated' = TRUE
  /\ \/ UNCHANGED isolate
     \/ Free # {} /\ isolate' = [isolate EXCEPT ![Target].state = "live"]
  /\ OnErrorMessage(i, "done")
  /\ UNCHANGED <<databaseWorker, userVars>>

(* postMessage() throws: the reference is dropped, the isolate stays.       *)
PostFails(i) ==
  /\ loads[i].stage = "sizing"
  /\ ~workerBusy
  /\ faults < MaxFaults
  /\ databaseWorker = 0 => Free # {}
  /\ faults' = faults + 1
  /\ isolate' = [isolate EXCEPT ![Target].state = "live"]
  /\ databaseWorker' = 0
  /\ workerBusy' = FALSE
  /\ OnErrorMessage(i, "done")
  /\ UNCHANGED <<uncreated, userVars>>

MainAnswers(i) ==
  /\ loads[i].stage = "main"
  /\ OnSuccessMessage(i) \/ OnErrorMessage(i, "done")
  /\ UNCHANGED <<workerVars, userVars, faults>>

(* SUCCESS or ERROR for load i of isolate w, told to the handlers w has.    *)
(* The load of a session that was closed has no path, and fails.            *)
Answer(w, i) ==
  /\ isolate[w].state = "live"
  /\ i \in isolate[w].working
  /\ isolate' = [isolate EXCEPT ![w].working = @ \ {i}]
  /\ workerBusy' = (workerBusy /\ w # databaseWorker)
  /\ \/ loads[i].db # None /\ OnSuccessMessage(isolate[w].handler)
     \/ OnErrorMessage(isolate[w].handler, "done")
  /\ UNCHANGED <<databaseWorker, uncreated, userVars, faults>>

(* onAllErrors: the worker is terminated.                                   *)
WorkerFails(w) ==
  /\ faults < MaxFaults
  /\ isolate[w].state = "live"
  /\ faults' = faults + 1
  /\ isolate' = Ended(w)
  /\ ForgetIf(databaseWorker = w)
  /\ IF isolate[w].handler = 0 THEN NoCallback ELSE OnAllErrors(isolate[w].handler)
  /\ UNCHANGED userVars

(* onexit: of a worker that was terminated, or of its own.                  *)
WorkerExits(w) ==
  /\ isolate' = [isolate EXCEPT ![w] = NoIsolate]
  /\ ForgetIf(databaseWorker = w)
  /\ IF isolate[w].handler = 0 THEN NoCallback ELSE OnExit(isolate[w].handler)
  /\ UNCHANGED userVars

ExitFollows(w) == isolate[w].state = "exiting" /\ WorkerExits(w) /\ UNCHANGED faults

ExitUnasked(w) ==
  /\ faults < MaxFaults
  /\ isolate[w].state = "live"
  /\ faults' = faults + 1
  /\ WorkerExits(w)

(* LoadDispatchService.prepare(), prewarm(): the isolate is made ready.     *)
Prewarm ==
  /\ ability
  /\ ~workerBusy
  /\ databaseWorker = 0 /\ Free # {}
  /\ databaseWorker' = Target
  /\ isolate' = [isolate EXCEPT ![Target] = [NoIsolate EXCEPT !.state = "live"]]
  /\ UNCHANGED <<loads, workerBusy, uncreated, queueVars, sessionVars, countVars,
                 userVars, faults>>

StopWorker ==
  /\ isolate' = IF databaseWorker = 0 THEN isolate ELSE Ended(databaseWorker)
  /\ ForgetIf(databaseWorker # 0)

-----------------------------------------------------------------------------
(* The registry.                                                            *)

(* Mutated CurrentWithout: the pointer is left where it is.                 *)
CurrentKept(gone) == {currentKey}

(* Where currentKey goes when the records in `gone` are removed.            *)
CurrentWithout(gone) ==
  IF currentKey \notin gone
  THEN {currentKey}
  ELSE IF Open \subseteq gone THEN {None} ELSE Open \ gone

(* put() of a new session object: a record that exists keeps its isChild.   *)
Put(d, child) ==
  /\ records' = [records EXCEPT ![d] = d]
  /\ childRecords' = IF child /\ d \notin Open THEN childRecords \cup {d} ELSE childRecords

(* resetDbFileParam(): the object of the current database, or the one for   *)
(* no session.                                                              *)
ResetDbFileParam(d) ==
  /\ records' = IF currentKey = None THEN records ELSE [records EXCEPT ![currentKey] = d]
  /\ emptyParam' = IF currentKey = None THEN d ELSE emptyParam
  /\ UNCHANGED <<childRecords, currentKey, attempted>>

-----------------------------------------------------------------------------
(* After the answer: successMessageToKdbx(), then what the caller does.     *)

(* onParentUnlocked(), up to its first await.  The entries are those of the *)
(* model the session holds.                                                 *)
Scans(L, i, rec) ==
  [L EXCEPT ![i].stage = "scanning", ![i].left = AutoOpen[rec[L[i].db]]]

RestoreFails(i) ==
  /\ loads[i].stage = "restoring"
  /\ loads' = To(loads, i, "done")
  /\ IF IsChild(i) THEN EndPending(loads[i].parent, announced) ELSE UNCHANGED countVars
  /\ UNCHANGED <<queueVars, workerVars, sessionVars, userVars, faults>>

(* Password.setFileParam() and what follows it.  When the page was opened   *)
(* to choose a child, its parent is made the current database again.        *)
PageOpens(i) ==
  /\ loads[i].stage = "restoring"
  /\ loads[i].kind \in {"unlock", "add"}
  /\ Put(loads[i].db, FALSE)
  /\ currentKey' \in {loads[i].db} \cup IF loads[i].kind = "add" THEN Open ELSE {}
  /\ IF childDbEnable
     THEN /\ loads' = Scans(loads, i, records')
          /\ announced' = announced \ {loads[i].db}
     ELSE loads' = To(loads, i, "done") /\ UNCHANGED announced
  /\ UNCHANGED <<queueVars, workerVars, emptyParam, attempted, pendingByParent,
                 userVars, faults>>

(* DatabaseView.startForceRefreshLoad(), its onSuccessMessage.              *)
RefreshEnds(i) ==
  /\ loads[i].stage = "restoring"
  /\ loads[i].kind = "refresh"
  /\ ResetDbFileParam(loads[i].db)
  /\ loads' = To(loads, i, "done")
  /\ UNCHANGED <<queueVars, workerVars, countVars, userVars, faults>>

(* handleChildSuccess(): the record of a remote child is then noted among   *)
(* the recent files, which is awaited.                                      *)
ChildOpens(i) ==
  /\ loads[i].stage = "restoring"
  /\ IsChild(i)
  /\ Put(loads[i].db, TRUE)
  /\ currentKey' = IF loads[i].makeCurrent \/ currentKey = None
                   THEN loads[i].db ELSE currentKey
  /\ loads' = To(loads, i, "noting")
  /\ UNCHANGED <<queueVars, workerVars, emptyParam, attempted, countVars, userVars, faults>>

(* Its own children are looked for, unless it could not be noted or is no   *)
(* longer open.                                                             *)
ChildScans(i) ==
  /\ loads[i].stage = "noting"
  /\ \/ /\ loads[i].db \in Open
        /\ loads' = Scans(loads, i, records)
        /\ announced' = announced \ {loads[i].db}
        /\ UNCHANGED pendingByParent
     \/ /\ loads' = To(loads, i, "done")
        /\ EndPending(loads[i].parent, announced)
  /\ UNCHANGED <<queueVars, workerVars, sessionVars, userVars, faults>>

-----------------------------------------------------------------------------
(* The scan of a database's AutoOpen entries: one child after the other.    *)

NewChild(c, p, by, makeCurrent) ==
  [db |-> c, kind |-> "child", makeCurrent |-> makeCurrent, by |-> by,
   parent |-> p, stage |-> "opening", left |-> <<>>, queued |-> FALSE]

(* The scan is not waiting for an openChild().                              *)
Scanning(i) ==
  /\ loads[i].stage = "scanning"
  /\ \A j \in DOMAIN loads : loads[j].by = i => loads[j].stage # "opening"

(* openChild() up to its first await.                                       *)
ScanNext(i) ==
  /\ Scanning(i)
  /\ loads[i].left # <<>>
  /\ LET c == Head(loads[i].left)
         L == [loads EXCEPT ![i].left = Tail(@)]
     IN IF c \in Open \cup attempted
        THEN loads' = L /\ UNCHANGED attempted
        ELSE /\ loads' = Append(L, NewChild(c, loads[i].db, i, FALSE))
             /\ attempted' = attempted \cup {c}
  /\ UNCHANGED <<queueVars, workerVars, records, childRecords, currentKey,
                 emptyParam, countVars, userVars, faults>>

(* The end of onParentUnlocked(), and of handleChildSuccess() around it.    *)
ScanEnds(i) ==
  /\ Scanning(i)
  /\ loads[i].left = <<>>
  /\ LET done == IF loads[i].queued THEN announced ELSE announced \cup {loads[i].db}
     IN IF IsChild(i)
        THEN EndPending(loads[i].parent, done)
        ELSE announced' = done /\ UNCHANGED pendingByParent
  /\ loads' = To(loads, i, "done")
  /\ UNCHANGED <<queueVars, workerVars, sessionVars, userVars, faults>>

(* The rest of openChild(): the load is enqueued, or given up because the   *)
(* configuration cannot be rebuilt or a file it needs is not there.         *)
ChildQueued(i) ==
  /\ loads[i].stage = "opening"
  /\ pendingByParent' = [pendingByParent EXCEPT ![loads[i].parent] = @ + 1]
  /\ EnqueueLoad(IF loads[i].by = 0 THEN loads
                 ELSE [loads EXCEPT ![loads[i].by].queued = TRUE], i)
  /\ UNCHANGED <<workerVars, sessionVars, announced, userVars, faults>>

ChildSkipped(i) ==
  /\ loads[i].stage = "opening"
  /\ loads' = To(loads, i, "done")
  /\ UNCHANGED <<queueVars, workerVars, sessionVars, countVars, userVars, faults>>

-----------------------------------------------------------------------------
(* What the user does.                                                      *)

Ask == ability /\ asks < MaxAsks /\ asks' = asks + 1

PageLoad(d, kind, stage) ==
  [db |-> d, kind |-> kind, makeCurrent |-> FALSE, by |-> 0, parent |-> None,
   stage |-> stage, left |-> <<>>, queued |-> FALSE]

Unlock(d, kind) ==
  /\ Ask
  /\ loads' = Append(loads, PageLoad(d, kind, "sizing"))
  /\ UNCHANGED <<queueVars, workerVars, sessionVars, countVars, childDbEnable, ability, faults>>

(* refreshDatabase(): a refresh that has not ended keeps the list from      *)
(* starting another.                                                        *)
Refresh ==
  /\ Ask
  /\ (IF currentKey = None THEN emptyParam ELSE records[currentKey]) # None
  /\ \A i \in DOMAIN loads : loads[i].kind = "refresh" => loads[i].stage = "done"
  /\ loads' = Append(loads, PageLoad(None, "refresh", "probing"))
  /\ UNCHANGED <<queueVars, workerVars, sessionVars, countVars, childDbEnable, ability, faults>>

(* The answer of probeRemoteUnchanged(): unchanged, or the current database *)
(* of now is loaded.                                                        *)
ProbeEnds(i) ==
  /\ loads[i].stage = "probing"
  /\ \/ loads' = To(loads, i, "done")
     \/ loads' = [loads EXCEPT ![i].stage = "sizing", ![i].db = currentKey]
  /\ UNCHANGED <<queueVars, workerVars, sessionVars, countVars, userVars, faults>>

(* openManually()                                                           *)
OpenManually(p, c) ==
  /\ Ask
  /\ p \in Open
  /\ \E n \in DOMAIN AutoOpen[p] : AutoOpen[p][n] = c
  /\ IF c \in Open
     THEN currentKey' = c /\ UNCHANGED <<loads, attempted>>
     ELSE /\ loads' = Append(loads, NewChild(c, p, 0, TRUE))
          /\ attempted' = attempted \cup {c}
          /\ UNCHANGED currentKey
  /\ UNCHANGED <<queueVars, workerVars, records, childRecords, emptyParam,
                 countVars, childDbEnable, ability, faults>>

(* DatabaseSwitcherSheet.switchTo()                                         *)
SwitchTo(d) ==
  /\ ability
  /\ d \in Open \ {currentKey}
  /\ currentKey' = d
  /\ UNCHANGED <<loads, queueVars, workerVars, records, childRecords, emptyParam,
                 attempted, countVars, userVars, faults>>

(* The setting of child databases, closeAllChildDatabases().                *)
SetChildDbEnable(on) ==
  /\ Ask
  /\ childDbEnable' = on
  /\ on # childDbEnable
  /\ IF on
     THEN UNCHANGED <<records, childRecords, currentKey>>
     ELSE /\ records' = [d \in Database |-> IF d \in childRecords THEN None ELSE records[d]]
          /\ childRecords' = {}
          /\ currentKey' \in CurrentWithout(childRecords)
  /\ UNCHANGED <<loads, queueVars, workerVars, emptyParam, attempted, countVars,
                 ability, faults>>

(* The lock page, a new file from outside, a change of the password.        *)
Close ==
  /\ Ask
  /\ Open # {}
  /\ CloseAll
  /\ UNCHANGED <<loads, queueVars, workerVars, countVars, childDbEnable, ability, faults>>

(* EntryAbility.onDestroy() and, in the same process, onCreate().           *)
Destroy ==
  /\ Ask
  /\ ability' = FALSE
  /\ CloseAll
  /\ StopWorker
  /\ UNCHANGED <<loads, queueVars, countVars, childDbEnable, faults>>

Create ==
  /\ ~ability
  /\ ability' = TRUE
  /\ StopWorker
  /\ UNCHANGED <<loads, queueVars, sessionVars, countVars, childDbEnable, asks, faults>>

-----------------------------------------------------------------------------

Users ==
  \/ \E d \in Primary : Unlock(d, "unlock") \/ Unlock(d, "add")
  \/ \E d \in Database : SwitchTo(d)
  \/ \E p, c \in Database : OpenManually(p, c)
  \/ Refresh \/ SetChildDbEnable(TRUE) \/ SetChildDbEnable(FALSE)
  \/ Close \/ Prewarm \/ Destroy \/ Create

Load(i) ==
  \/ LoadOnMain(i) \/ RefuseBusy(i) \/ Post(i) \/ MainAnswers(i)
  \/ RestoreFails(i) \/ PageOpens(i) \/ RefreshEnds(i) \/ ChildOpens(i)
  \/ ChildScans(i) \/ ScanNext(i) \/ ScanEnds(i) \/ ChildQueued(i) \/ ChildSkipped(i)
  \/ ProbeEnds(i)

Worker(w) == ExitFollows(w) \/ \E i \in DOMAIN loads : Answer(w, i)

Faults ==
  \/ \E i \in DOMAIN loads : CreateFails(i) \/ PostFails(i)
  \/ \E w \in Isolate : WorkerFails(w) \/ ExitUnasked(w)

Progress ==
  \/ \E i \in DOMAIN loads : Load(i)
  \/ \E w \in Isolate : Worker(w)

Next == Users \/ Progress \/ Faults

Spec == Init /\ [][Next]_vars

(* Requests, promises and workers come to an end, and terminate() ends in   *)
(* an exit; the user and the faults need not come.  One condition for all   *)
(* of them is enough: a load and a worker take boundedly many steps, and    *)
(* there are finitely many.                                                 *)
Fairness == WF_vars(Progress)

FairSpec == Spec /\ Fairness

-----------------------------------------------------------------------------
(* Properties.                                                              *)

(* The state has its type; the current key is that of an open database, and *)
(* only open databases are marked as children.                              *)
TypeOK ==
  /\ loads \in Seq(Loads)
  /\ pendingLoads \in Seq(DOMAIN loads)
  /\ currentPendingLoad \in DOMAIN loads \cup {0}
  /\ databaseWorker \in Isolate \cup {0}
  /\ workerBusy \in BOOLEAN
  /\ isolate \in [Isolate -> Isolates]
  /\ \A w \in Isolate : isolate[w].handler \in DOMAIN loads \cup {0}
  /\ uncreated \in BOOLEAN
  /\ records \in [Database -> Database \cup {None}]
  /\ childRecords \subseteq Open
  /\ currentKey \in Open \cup {None}
  /\ emptyParam \in Database \cup {None}
  /\ attempted \subseteq Database
  /\ pendingByParent \in [Database -> Nat]
  /\ announced \subseteq Database
  /\ childDbEnable \in BOOLEAN /\ ability \in BOOLEAN
  /\ asks \in Nat /\ faults \in Nat

(* The load worker serves one load at a time and answers its caller: the    *)
(* handlers of an isolate are those of what it works on, a load that was    *)
(* posted has an isolate that will answer it or exit, and the busy flag     *)
(* says whether the current one works, whatever failed or died (the flag    *)
(* against double opening, the identity guards of the handlers) -- with one *)
(* exception: once a worker could not be created the flag stays set.        *)
WorkerServesOne ==
  /\ workerBusy <=>
       uncreated \/ (databaseWorker # 0 /\ isolate[databaseWorker].working # {})
  /\ \A w \in Isolate : isolate[w].working \subseteq {isolate[w].handler}
  /\ \A i \in DOMAIN loads : loads[i].stage = "posted" =>
       \E w \in Isolate : /\ isolate[w].handler = i
                          /\ isolate[w].state = "exiting" \/ isolate[w].working = {i}

(* The background loads run one at a time: what is under way is the load    *)
(* the token names, what waits is in the queue once, and nothing waits for  *)
(* a token nobody will give back (the token of finishPendingLoad).          *)
QueueSerial ==
  /\ \A i \in DOMAIN loads :
       /\ i = currentPendingLoad <=>
            IsChild(i) /\ loads[i].stage \in {"sizing", "main", "posted"}
       /\ loads[i].stage = "queued" <=> \E n \in DOMAIN pendingLoads : pendingLoads[n] = i
  /\ \A m, n \in DOMAIN pendingLoads : pendingLoads[m] = pendingLoads[n] => m = n
  /\ pendingLoads # <<>> => currentPendingLoad # 0

(* Every load ends, the queued ones included; and a scan for children ends  *)
(* with AUTO_OPEN_DONE, unless the worker of one of them has exited.        *)
InProgress(d) == \E i \in DOMAIN loads : loads[i].db = d /\ loads[i].stage \notin Over
ScanOf(p) == \E i \in DOMAIN loads : loads[i].db = p /\ loads[i].stage = "scanning"
LostChild(p) ==
  \E i \in DOMAIN loads : IsChild(i) /\ loads[i].parent = p /\ loads[i].stage = "lost"
AutoOpenEnds ==
  /\ \A d \in Database : InProgress(d) ~> ~InProgress(d)
  /\ \A p \in Database : ScanOf(p) ~> p \in announced \/ LostChild(p)

(* pendingByParent counts the child loads that are queued and not settled,  *)
(* each once, and those that were lost for good.                            *)
Counted(p) ==
  {i \in DOMAIN loads : /\ IsChild(i) /\ loads[i].parent = p
                        /\ loads[i].stage \in InFlight \cup Answered \cup {"lost"}}
PendingCounts == \A p \in Database : pendingByParent[p] = Cardinality(Counted(p))

(* Claims of comments the code does not keep.                               *)

(* KdbxLoadService.ets:422: stopWorker(), when the ability is made again,   *)
(* resets the pool of workers, and no busy flag is left behind.             *)
StopFrees == [][~ability /\ ability' => ~workerBusy']_vars

(* DatabaseRegistry.ets:10: the session object of a database stays its own  *)
(* through loading, saving and switching.                                   *)
SessionHoldsItsOwn == \A d \in Open : records[d] = d

(* AutoOpenCoordinator.ets:87: AUTO_OPEN_DONE is sent when all direct       *)
(* children of a parent have been dealt with.                               *)
DoneMeansDone ==
  \A p \in announced : \A i \in DOMAIN loads :
     IsChild(i) /\ loads[i].by # 0 /\ loads[i].parent = p => loads[i].stage \in Over

=============================================================================
