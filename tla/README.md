# KeePassHO: a TLA+ model of saving and synchronising databases

KeePassHO is a KeePass client for HarmonyOS.  It opens `.kdbx` files from
local, WebDAV, FTP, S3 and cloud storages, keeps the open databases in memory,
and writes each change back to a file that other devices may be writing too.
What is hard in it is not the cryptography but the *protocol* around the file:
detecting that another device wrote it, merging, keeping one save at a time on
one worker isolate that may die, and keeping the facts of the session
(version, hash, pending credentials, challenge response) true to the file.
Below the protocol lie the three things it relies on: the merge of two copies,
the format with its attachments, and a storage, of which FTP is modelled down to
its client library.  This directory models them, checks them with TLC and
proves the main invariants with TLAPS.

Paths below are relative to `src/entry/src/main/ets/`, those that begin with
`libs/` to `src/`.

## 1. Inventory

| part | state it keeps | operations | talks to | status |
|---|---|---|---|---|
| **Save worker** `workers/DatabaseSave.ets` | nothing between saves; one save's downloaded copy, version, retry count | `handleSaveDatabase`: guard, fast path, download, double baseline, merge, conditional write, bounded retry, `postSuccess` | storage adapters, main thread by messages | modelled, `DatabaseSave` |
| **Session** `services/FileService.ets`, `DbFileParam` | the model, `version`, `contentHash`, pending credential fields, `challengeResponseHex` | `resetDbFileParam`, `clearPendingCredentialChangesOf` | written by saves, reloads, refreshes, the change-password page | `DatabaseSave`, `SaveService` |
| **Save service** `services/kdbx/KdbxSaveService.ets` | `saving`, `pendingSaves`, `databaseWorker`, `pendingChallenges`, `challengeDialogOpen` | `saveDatabase*`, `executeSave`, `onSaveDone`, handlers of the worker, `handleConflict`, `reloadFromRemote`, `stopWorker` | the worker, dialogs, pages by callbacks | modelled, `SaveService` |
| **NFC challenge** `components/loading/PromptActionUtils.ets`, `components/yubikey` | registry of open dialogs | open, answer, cancel, close | the save service by promises | modelled, `SaveService` |
| **Refresh and load** `pages/DatabaseView.ets`, `workers/DatabaseLoad.ets` | none; the load's temporary files | probe, download, deliver | session, cache | the refresh in `DatabaseSave`, whose session it reaches in `LoadService` |
| **Local cache** `storage/cache` | the copy, its `.meta`, the one-shot `force_refresh` | `readToFile`, `readCacheToFile`, `write*`, `refreshCacheFromBuffer`, `getInfo`, deletions | between every adapter and its callers, in three isolates | modelled, `CacheStorage` |
| **Load service** `services/kdbx/KdbxLoadService.ets`, `LoadDispatchService.ets` | `databaseWorker`, `workerBusy`, `pendingLoads`, `currentPendingLoad` | `loadDatabase`, `enqueueLoad`, `prewarm`, `stopWorker` | load worker, AutoOpen, pages by callbacks | `LoadService` |
| **Open databases** `services/kdbx/DatabaseRegistry.ets`, `services/autoopen` | records, the current key, attempted keys, a counter for each parent | `put`, `setCurrent`, `remove`, `clear`; `onParentUnlocked`, `openManually` | load service, pages, event bus | `LoadService` |
| **Session, lock screen, clipboard** `services/SessionManager.ets`, `services/LockScreenService.ets`, `ClipboardUtils` | windows of time, lock window, copied value | start, expire, copy, lock, unlock | event bus, timers, window stage | planned |
| **Merge** `libs/kdbxweb/.../format/kdbx*.ts` | the tree of groups and entries, histories, tombstones, the pool of attachments | `merge` of groups, collections, entries, histories, settings; `cleanup`; edits, moves, deletions | save worker, reload | `KdbxMerge` |
| **Format** `libs/kdbxweb/.../format/kdbx-format.ts`, `kdbx-header.ts`, `kdbx-snapshot.ts`, `kdbx-binaries.ts`, `workers/DatabaseLoad.ets` | temporary files, the pool, `AttachmentStore`'s cache on disk | load by streams, by buffer, as container; snapshot between threads; save | load and save workers, cache directory | `KdbxFormat` |
| **FTP storage** `storage/ftp`, `libs/basic-ftp` | the chain of operations, the client, its task, sockets, received chunks, intervals | `serialize`, `ensureClient`, `handle`, `downloadTo`, `uploadFrom`, `close` | server, every caller of a storage | `FtpStorage`, refining `StorageQueue` |
| **Other storage clients, OAuth2** `storage/*`, `common/oauth2` | tokens, upload queues | HTTP | adapters | their promises only, as flags |
| **Settings, recent files, sync; import/export; templates; OTP; pages** | preferences, lists, UI state | | | not modelled: single-threaded conversions and UI |

Hard behaviours: several devices write one file with no lock; a conditional
write is a check and then an upload; a download and its metadata are two
requests; an answer can be lost; a refresh runs beside a save; the result of a
merge is adopted asynchronously; the worker can be terminated, replaced, and
its exit arrive late; one set of credential fields is shared by all saves of a
database; a dialog is closed across an await.  The merge changes the tree while it walks
it; the format falls back from one pipeline to another with state of the first
left over; an attachment in the pool may be a reference to a file that an
eviction removes; on an FTP connection, intervals and loops of an operation that
failed still run when the next one begins.  `PROJECT.json` lists each at its
line, with the properties that watch it.

## 2. The modules

### DatabaseSave: devices, one file

A database is the set of edits it holds; a merge is their union; every file
ever stored has a fresh `id`, which is its hash and its version at once (each
encryption draws fresh salts).  Five constants describe what a storage adapter
does: `FastPath`, `ReadInfoFirst`, `InfoFromResponse`, `FailOpenCheck`,
`CacheFallback` (see the head of the module).

| state | code |
|---|---|
| `remote` | the stored file |
| `model[d]`, `base[d]` | `dbFileParam.database`; `.version` and `.contentHash` |
| `job[d]` | the save that holds the lock: its request (`expectedVersion`, `baseContentHash`, data, strategy) and the locals of `handleSaveDatabase` |
| `pending[d]` | the slot of `pendingSaves` |
| `dialogs[d]` | open conflict dialogs |
| `load[d]` | a refresh or RELOAD in flight |

Each request to the storage is a step, so writes of other devices fall between
any two.  `GuardHit`/`GuardMiss` are `checkBeforeRead` and the version fast
path; `ReadFirst`/`ReadSecond` the two requests of `readToFile`;
`WriteUnchanged`, `WriteOverwrite`, `ReportConflict`, `MergeRemote` the four
branches; `CheckPasses`, `CheckSkipped`, `CheckConflict` the adapter's
re-check and the retry; `Put`, `PutUnanswered`, `PostInfo`,
`PostInfoFromCache` the upload and what is learnt of it; `Deliver*`, `Adopt*`
the main thread; `Refresh`, `Load*`, `DeliverLoad` the reload.  History
variables (`seen`, `want`, `reloaded`, `gap`) only serve the properties.

### SaveService: one app instance

Requests are numbered; a pending change of credentials and a challenge pair
are known by the request that caused them.  `unreleased` holds the rounds
whose `released` closure variable is false, `tasks` what still runs for a
round (serialising, in a worker, adopting), `isolate` the worker isolates that
live with the handlers last set on them, so that a late `onexit` of an old
isolate acts through the closures it really has.  The worker's answer is
nondeterministic: what it depends on is the other module.  `fileSeed` and
`seed` relate the stored file's KDF salt to the session's response.

### CacheStorage: the local copy

One device, one load and one save at a time (they run in different isolates
and overlap freely), other devices, one cache file with its metadata sidecar.
A file is a number; a stored file's number is its version and its size.

| state | code |
|---|---|
| `remote`, `stored` | the stored file, and all that ever were |
| `cache`, `meta` | the file `getCacheFilePath()` names; the `version` in its `.meta`. `Torn` is a copy partly written |
| `late` | files that `writeToCacheAsync()` has yet to rename into place |
| `op["load"]`, `op["save"]` | the locals of `loadKdbxFileToFile()` and `handleSaveDatabase()`, with the cache policy of the call (`mode`) |
| `known` | `dbFileParam.version` |
| `doubt`, `past` | history: why the copy may disagree with its metadata; what was stored before this device's last upload |

`Probe`, `MatchMeta`, `CopyOut` are the load's fast path
(`checkBeforeRead`, `readCacheToFile`); `ReadFirst`/`ReadSecond` and
`ReadFromCache` are `readToFile`; `FillBegins`, `FillEnds`, `FillFails` the
in-place copy of `refreshCache`, `RenameIn` the rename of
`refreshCacheFromBuffer`, `Label` the metadata of both; `Build` and
`LateWrite` the un-awaited copy of `write`; `Put*` and `Info` the upload and
what is learnt of it; `DeleteCopy`, `DeleteMeta` the deletions; `Crash` kills
the process and keeps the files.  The two modules meet in
`handleSaveDatabase`: `DatabaseSave` models its decisions for several devices
and takes a cached answer as "no version" (`CacheFallback`), `CacheStorage`
models what the same steps do to the copy of one device and leaves the merge
out.  `SaveService` is the caller of both.

### KdbxMerge: two copies become one

What `DatabaseSave` takes for a union of edits is here the real walk of
`Kdbx.merge()`.  A database is a tree of sequences, since the order of siblings
decides in which order the walk meets them.

| state | code |
|---|---|
| `db[d]` | the model of a device: `groups`, `entries` (the tree), `loc` (`locationChanged`), `rev` (the current revision of an object: `lastModTime`), `hist` (an entry's history), `dead` (`deletedObjects`), `pool` (the binaries), `name` and `max` (two settings of `meta`) |
| `stored` | the stored file |
| `stale`, `dirty` | devices whose baseline is not the stored file; devices with edits to store |
| `used`, `clock`, `edit` | ids ever given; time, and each device's last edit |
| `last` | history: the two sides of the merge just made |

`SaveMerged` makes `kdbx.ts`'s `merge()`: `getObjectMap` (with its error for an entry
listed twice, `MayMerge`), settings (`MergeMeta`), the walk (`Merging`, a
`Visit` for each call of `merge()` of a group or an entry: `MergeGroup`,
`MergeCollection`, `MergeEntry`, `MergeHistory`), then the clean-up (`Cleanup`,
`Compact`).  The walk is a record: the model being changed (`m`), the other side
(`theirs`), the objects that both had at the start (`own`, `all`), the times of
the edit state that the merge adds to itself (`added`), and the objects still to
visit (`todo`).  It passes on what it has changed so far, because a group
visited later is compared with what an earlier one left.  Every loop is a
recursive function over the number of its rounds.  The actions are the edits of
the application (`EditEntry`, `EditGroup`, `CreateEntry`, `CreateGroup`, `Move`,
`RemoveItem`, `EditSettings`), `Save`, `SaveMerged` and `Reload`.

*Merges that do not end.*  A walk makes at most `MaxVisits` rounds, and
`SaveMerged` needs one that is done.  In the run every walk is, but longer
histories reach one that never would be: this device moves a group into the recycle bin; the other
one moves the bin into the group, then moves the group again and edits it.  The
merge lists the group where the other side has it and takes over its
`locationChanged` with its contents (`kdbx-entry.ts:465`); the bin comes into the
group, and the bin, visited there, keeps the group, which by its new time has
not moved later.  Both are below each other, `merge()` of each calls that of the
other, and the recursion ends with a stack overflow: the merge fails.  It is the same cause as that of the run `duplicate`;
`MergesEnd` proves that there is no other.

*What the properties say precisely.*  `NothingLost` compares the tree with
`Ideal`, which is stated without a walk: what this side keeps in a group, what
the other side put there later or created there, and no dead object.  Where an
object ends up twice (the cases `DuplicatesExplained` names) nothing due is
missing, but something may be left beside it.  `NewestWins` asks for the other
side's own revision in the history only if no object is listed twice: an entry
visited a second time is merged with what the first visit left, and its history
may be full by then.

### KdbxFormat: a file, a thread, a pool

| state | code |
|---|---|
| `file` | the stored file: its binaries in order, the references of the XML, its last part, how it is damaged, how it was written |
| `cache` | the files of `AttachmentStore`, one for each content |
| `db` | the open model: pool (in memory or on disk), what each entry is bound to |
| `load`, `save` | the locals of the pipeline in the worker |

`Decrypt`, `Inflate`, `ReadBinary`, `WriteContainer`, `ParseModel` and `Arrive`
are the stages of a load, with the fall-backs of `DatabaseLoad.ets` (`ToModel`,
`InflateFallback`, `ReadBuffered`) and their failures (`InnerEnds`: the decrypted
bytes end too early); `SaveBegin` takes the
snapshot, `WriteBinary` and `SaveDone` write, `SaveAborts` fails.  `Attach` and
`RemoveEntry` are the user's; `Evict`, `DamageCache` and `DamageFile` the
environment's.  What a damaged file leads to follows the two readers of HMAC
blocks: both stop at a block whose length reads 0 and compare nothing there, and
the one that streams takes the end of the file for the end block too
(`StreamVerifies`, `BufferVerifies`).  Whether somebody notices the missing
blocks is then up to the inflater and the XML parser.  Two places of the code where an order matters are operators of
their own: `ComputeHashes` (the order of the map is that in which hashes
resolve) and `WriteRefs`.

### FtpStorage and StorageQueue: one control connection

| state | code |
|---|---|
| `ops`, `cur` | the calls of the storage and what each was told; the one `serialize()` runs |
| `plan`, `awaited` | the steps its code has yet to make; the task it waits for |
| `client`, `task`, `mode` | the handler's client and how its `FTPContext` stands; `_task`; the strategy of `prepareTransfer` |
| `data`, `up`, `cache`, `errInfo` | `dataSocket`, whether it stands, the entry of `cacheData` |
| `pollers`, `loops` | the intervals of `downloadTo()`, the read-and-send loops of `uploadFrom()` |
| `resolver` | the `TransferResolver`: the two halves of an end |
| `wire`, `pipe` | answers and chunks under way |
| `listener`, `xfer`, `remote` | the server (external) |

An operation is a plan of steps (`Login`, `Download`, `Upload`, `ListDir`);
`Handle` starts a step's task, `Receive` takes an answer, `Poll` and `Send` are
one turn of an interval and of a loop, `ControlClosed` and `FinishClose` the
callbacks of a closing connection.  A `save` is `ConditionalWriteStorage`'s
check by a listing and then the upload.  Intervals and loops are kept as sets,
each with the task and the client it belongs to, so that one left over by a
failed operation goes on beside those of the next.  `StorageQueue` is what
callers are promised: calls are run one at a time in their order, each is
answered once, and only a query is told that a file is missing.  `FtpStorage`
implements it (`ImplementsQueue`: `calls` is `ops` without the bookkeeping,
`running` is `cur`).

The server is external.  It takes the commands in turn: a transfer that the
client has left, by closing its data connection, is answered before the next
command is (`Before`).  A server that went on with both would let a stale
`226` confirm a later upload.

### LoadService: which database is open

A load is known by its place in the history of loads, and has a stage: what it
waits for.  What a session object holds is known by the database it was read
from.

| state | code |
|---|---|
| `loads` | the closures and parameters of each load: `LoadDatabase`, `ChildOpenTask`, what the page waits for; `left` are the entries a scan has yet to visit |
| `pendingLoads`, `currentPendingLoad` | the queue of background loads and its token |
| `databaseWorker`, `workerBusy`, `isolate` | the current worker and its flag; all isolates that live, with the handlers last set and the loads posted |
| `uncreated` | history: a load could not create its worker |
| `records`, `childRecords`, `currentKey`, `attempted`, `emptyParam` | `DatabaseRegistry`, and the object `getDbFileParam()` returns without a session |
| `pendingByParent` | of `AutoOpenCoordinator` |
| `announced` | history: parents whose `AUTO_OPEN_DONE` followed their last scan |

`LoadOnMain`, `RefuseBusy`, `Post`, `CreateFails`, `PostFails` are the outcomes of the dispatch
by size; `MainAnswers`, `Answer`, `WorkerFails`, `WorkerExits` call the
callbacks (`OnSuccessMessage`, `OnErrorMessage`, `OnAllErrors`, `OnExit`), each
of which moves the queue (`FinishPendingLoad`).  After the answer come the
steps that the code awaits: `RestoreFails`, `PageOpens`, `RefreshEnds`,
`ChildOpens`, `ChildScans`.  A scan opens one child after the other
(`ScanNext`, `ChildQueued`, `ChildSkipped`, `ScanEnds`).  `Unlock`, `Refresh`,
`OpenManually`, `SwitchTo`, `SetChildDbEnable`, `Close`, `Prewarm`, `Destroy`,
`Create` are the user's and the platform's.  A worker keeps the handlers of its
last load: an exit long after the answer calls them again.  In `CreateFails`
`ensureWorker()` throws (`KdbxLoadService.ets:201`) after the flag was raised
(`:190`); the load is dispatched once more, refused as busy and so answered, but
the flag has no worker that would lower it and stays up while the process lives:
every later load for the worker is refused (`MCLoadService_busy`).

### How the modules fit

`SaveService` starts the saves that `DatabaseSave` carries out; its merge step
is `KdbxMerge`, its temporary files are those of `KdbxFormat`; the storage it
talks to is `CacheStorage` over an adapter, and `FtpStorage` is one adapter.
Each module states what the one above takes for granted: that a read that
succeeded has the whole file (`ReadComplete`), that a write that succeeded is
stored (`WriteConfirmed`), that a load brings what the file holds (`LoadExact`),
that a merge keeps both sides but for named cases (`NothingLost`, `NewestWins`).
`LoadService` opens the sessions `SaveService` and `DatabaseSave` then work with,
and shows where a refresh may reach the session of another database, which
`DatabaseSave`, about one file, cannot.

### The MC and proof modules

`MC<Module>` instantiates a module for TLC (symmetry of devices and edits where
only safety is checked).  The theorems are in `DatabaseSave_proofs`,
`SaveService_proofs`, `CacheStorage_proofs`, `KdbxMerge_proofs`,
`KdbxFormat_proofs`, `FtpStorage_proofs` and `FtpTransfers_proofs` (both about
`FtpStorage`), and `LoadService_proofs`.

## 3. The runs

Each run is `tlc -config <cfg> <module>`; `PROJECT.json` names its properties.

| run | states | what it shows |
|---|---|---|
| `webdav` | 492,794 | Two devices, two edits, a storage that downloads before it asks for metadata and re-checks strictly. No edit leaves the storage but in the five ways `Excused` lists; a baseline that matches the stored file is covered by the model; a conflict dialog is never a false alarm. |
| `baidu` | 53,586 | The opposite storage (metadata first, version from the upload's answer, probes that fail open) with fairness: again no edit leaves the storage but in the excused ways, and every save ends and gives its lock back. |
| `xc` | 191,287 | A plain and a challenge-response database share the service, with one fault of the worker: a single holder of the lock who is always going to release it; credential fields that were given up do not stay; a save reported done leaves a response that opens the file; the queue drains. |
| `cache` | 6.0 million | Three files after the first: a hit of the fast path is the file its version names, but for visible damage and two named histories; no load takes the session back before the device's own last upload. |
| `merge` | 318,360 | Two devices edit, move, create and delete in their copies: the later revision wins and neither edit is lost; nothing disappears without a tombstone, and nothing deleted returns, but in the named cases; the later move wins; attachments in use stay; a save that is tried again changes nothing. |
| `ftp` | 649,618 | Loads, conditional saves and queries on one connection under refusals, aborts, losses, a switch of the configuration and a second writer: a read that is reported done is whole, a write is confirmed, an answer finds only the task that is waited for, operations end unless a fault hit a transfer, and the storage implements `StorageQueue`. |
| `format` | 2,983,982 | Every file of two attachments through loads, edits and saves: a load brings what the file holds, a file that lost content is not opened, with one named exception, a save writes what was asked, and nothing fails without a fault. |
| `load` | 181,622 | A database and its child are unlocked, opened in add mode, refreshed, switched, closed and disabled over one load worker with one fault and a restart of the ability: the worker serves one load at a time and its flag is true (until a worker could not be created), the queue runs one load at a time and never waits for nobody, every load ends, and a scan for children ends with `AUTO_OPEN_DONE` unless a worker has exited under one. |

Four runs end in a violation, each of one claim of a comment:

| run | claim | what the trace does |
|---|---|---|
| `swapped` | the pool is ordered, an index is a reference (`kdbx-snapshot.ts:57`) | the container keeps the ids of the file beside a pool in the order in which hashes resolve: a large attachment before a small one changes places with it |
| `append` | the offset 0 also applies to the local file (`Client.ts:670`) | the second download of a retried save is appended to the first |
| `duplicate` | an entry listed twice is an error (`kdbx.ts:713`) | an entry that the other side moved and edited ends in both groups; every later merge throws |
| `stranger` | a session object stays that of its database through loading, saving and switching (`DatabaseRegistry.ets:10`) | the user switches from a database to its child while the first is being refreshed; `resetDbFileParam()` puts model, version and hash of the first into the session of the child (`DatabaseView.ets:1701`). `KdbxSaveService.ets:502-503` avoids this call for this reason |

### Further configurations

These are kept beside the runs.  All but the first two end in a violation, each of
a claim the code does not keep in the situation named:

| configuration | claim | situation |
|---|---|---|
| `MCSaveService_one` | the safety of `xc` (passes, 2.9 million states) | one database, three requests |
| `MCLoadService_family` | the properties of `load`, and `PendingCounts`: `pendingByParent` counts each child load that is queued and not settled once (passes, 19,561 states) | two children, one of which lists its parent as a child |
| `MCDatabaseSave_unadopted` | a merge keeps both sides (`KdbxSaveService.ets:51`) | the baseline moves before the merged model is read back; reading fails; the next save drops the remote side |
| `MCKdbxMerge_history` | any unmodified state from past or modification of the current one is merged (`kdbx-entry.ts:522`) | the edit state does not cross the threads; a version that is in the local history and not in the remote's counts as deleted there |
| `MCLoadService_early` | `AUTO_OPEN_DONE` is sent when all direct children of a parent have been dealt with (`AutoOpenCoordinator.ets:87`) | the first child ends while the scan still awaits the configuration of the second: its counter reaches zero |
| `MCLoadService_busy` | the pool of workers is reset when the ability is made again (`KdbxLoadService.ets:422`), its busy flag with it | a worker could not be created (`:201`, outside the `try`); the flag raised before (`:190`) is lowered by nobody |
| `MCKdbxFormat_zeroed` | each block is read, then verified by its HMAC (`hmac-block-transform.ts:123`) | the length of a block reads 0 (one bit of that of a full block, 0x00100000): the block and those after it are not read, and no HMAC is compared (`:147`) |
| `MCDatabaseSave_alarm` | the hash of the content is the final judge of a conflict (`DatabaseSave.ets:230`) | on a storage that asks for the metadata first, a refresh beside a write of the other device keeps an old version beside a new hash; the next save downloads the content it was built on and reports a conflict by the version. `ConflictsAreReal` proves that this needs such a storage |
| `MCDatabaseSave_lost` | the conditional write prevents overwriting other devices (`DatabaseSave.ets:43`) | a write falls between the check of the version and the upload, which are two requests |
| `MCDatabaseSave_queued` | a queued save takes the newest model (`KdbxSaveService.ets:60-63`) | the adoption of a merge replaces the model under the queued save |
| `MCSaveService_orphan` | no saves are concurrent (`KdbxSaveService.ets:590`) | the late exit of a stopped worker nulls the reference to its successor, whose next error then releases the lock and terminates nothing: a second save starts beside it. Two faults are needed; with one `SavesRunAlone` proves the claim |
| `MCSaveService_own` | pending credentials serve their own save only (`FileService.ets:131`) | a queued save starts while they are pending and takes them |
| `MCSaveService_reload` | a reload does not report a change of credentials as done (`KdbxSaveService.ets:483-485`) | another save has cleared the fields the reload looks at |
| `MCSaveService_dialog` | `challengeDialogOpen` covers a dialog that is closing (`KdbxSaveService.ets:72`) | it falls before the await of the closing; the next challenge opens nothing and leaves the flag up |
| `MCCacheStorage_stale` | when version and size agree the copy is the remote fact (`CacheStorage.ets:177-178`) | another device writes between the content and the metadata of a download |
| `MCFtpStorage_chain` | one failing operation does not break the chain (`FTPStorage.ets:186-188`) | the interval of an aborted download takes a chunk of the next one, whose own interval then waits for ever (`libs/basic-ftp/.../transfer.ts:594`; its time-out is commented out), and the chain with it |
| `MCFtpStorage_missing` | `null` means that the file does certainly not exist (`FTPStorage.ets:393`) | a listing that comes later than the polls wait is empty (`transfer.ts:634`); `RecentFilesService.ets:257` drops the record |

**Mutants.** For each property of a passing run the module holds a variant of
one operation with a plausible bug (a dropped guard, a missing reset, a
swapped order: `GuardHitAnyVersion`, `ReleaseAgain`, `InfoLabels`,
`CanResolveEarly`, `RefOfUntested`, ...), which
violates the property under the same configuration.

### Bounds, and why they are enough

* `MaxSaves`, `MaxLoads`, `MAX_CONFLICT_RETRY` (`DatabaseSave`): two saves and
  two loads in all over two devices with one edit each are enough for any pair
  of them to race; a retry bound of 1 runs the loop twice (the code's is 3,
  used by the further configurations `unadopted`, `lost` and `queued`).  `MCDatabaseSave_alarm`
  has a third save: two writes of the other device surround a refresh.  A third
  device is, for the one that saves, the second one again.
* `MaxRequests`, `MaxFaults` (`SaveService`): two requests are one that runs
  and one queued, of the same or of another database; three (`MCSaveService_one`)
  add one that replaces the queued one.  One fault is enough for an old isolate
  to exit late.  `SeedKnown` needs the bound: with two faults saves may run
  side by side (`MCSaveService_orphan`) and it fails; `ResponseFollowsSeed` states it for one
  fault at most and any number of requests.
* `MaxFile` (`CacheStorage`): three files after the first give an upload, one
  that overtakes it and one that makes a stale version current.  The run
  takes the storage that downloads before it asks for metadata; the theorems
  cover the others.
* `MaxTime`, `MaxEdits` (`KdbxMerge`): three edits in two instants over two
  devices are an edit on each side with a move or a deletion beside it; edits of
  two devices may fall in one instant.  A group, the recycle bin and an entry are
  there, a group and an entry may be created; a history keeps one version or two,
  so that it can be full.  `MaxVisits` is larger than the number of visits any
  walk of the run makes; the theorems hold for every value of it.
* `FileSize`, `MaxOps`, `MaxFaults`, `Patience` (`FtpStorage`): two chunks give
  a transfer that is begun and not over; two operations one that fails and one
  that inherits what it left; two faults one that hits each.  One empty poll
  stands for the ten of the code.  The kind `write` is left out of the run: its
  upload is the second half of `save`; `read` is the middle of `load`.
* `MaxBins`, `DiskThreshold`, `MaxLoads`, `MaxSaves`, `MaxEdits`, `MaxFaults`
  (`KdbxFormat`): two attachments out of a plain, a protected and a large one
  give every order of the pool and two equal ones; one large one passes the
  threshold; load, edit, save, load again, with one fault anywhere.

* `MaxAsks`, `MaxFaults` (`LoadService`): two requests are any two that meet (an
  unlock and a refresh, two openings of a child, a load and a restart); the loads
  AutoOpen starts and switching are not counted.  One fault makes a worker fail
  or exit with or without a load, or a creation or a post throw.
* `Direct` (`LoadService`): the databases whose size, known or remembered, may be
  small.  Any load may go to the worker, those of `Direct` to the main thread as
  well.  In the run the parent may take both routes and the child one.

The theorems below hold without bounds on devices, edits, keys, requests and
files, for every combination of the storage flags.

### Fairness

`Spec` has none; it is the specification of all safety runs.  `FairSpec` of
`DatabaseSave` is weakly fair to the worker, the answers and the loader of
each device: the code's requests have time-outs and messages between isolates
are delivered.  `FairSpec` of `SaveService` is weakly fair to the steps of a
round (its conflict, error and success handlers included) and to the exit of a
terminated isolate.  `FairSpec` of `FtpStorage` is weakly fair to the
callbacks and timers of the event loop (`Ensure`, `Handle`, `Receive`,
`ControlClosed`, `FinishClose`, `Poll`, `Send`) and to the network and the
server (`Deliver`, `ServerSends`, `ServerConfirms`, `ServerNotices`): a
connection that stands delivers, and one that does not is reported closed.
`FairSpec` of `LoadService` is weakly fair
to the steps of loads and to each isolate: requests end, promises settle, and
`terminate()` ends in an exit.  One condition for all these steps (`Progress`) is
enough: a load takes boundedly many, there are finitely many loads, and an isolate
that is done takes none.
Users owe nothing: dialogs may stay open for ever and nobody has to call the
storage; no fault has to happen.
`CHECK_DEADLOCK FALSE` is set where the bounded users stop; `CacheStorage` has
no such state (a process may always die).

## 4. The proofs

Assumptions: the flags are Booleans and the bounds natural numbers
(`StorageAssumption`, `BoundAssumption`, `FileAssumption`,
`AdapterAssumption`; `SaveService`: `KeyAssumption`,
`BoundAssumption`; `KdbxMerge`: `GroupAssumption`, `BoundAssumption`,
`FirstAssumption`; `KdbxFormat`: `ContentAssumption`,
`NoneAssumption`, `BoundAssumption`; `FtpStorage`: `KindAssumption`, `BoundAssumption`;
`LoadService`: `DatabaseAssumption`, `BoundAssumption`).  Only `KdbxMerge` assumes a
set to be finite, that of the group ids.

* **DatabaseSave_proofs.** `TypeCorrect`; `Invariance`; `BaselineIsCovered`
  (`BaselineCovered`); `NoOtherLoss` (`RemoteKeepsEdits`); `ConflictsAreReal`
  (`ConflictIsReal`).  Neither of the first two properties
  is inductive: whether an upload may replace the stored file depends on what
  the request knew when it was built.  `IInv` says, of every copy, baseline
  and job, what it knows of the stored file, guarded by "its id is the stored
  file's".  Ids only grow, so a write of another device makes such a statement
  void (`NewerFile`) and only a device's own steps have to be looked at.
  `ConflictsAreReal` has a condition, `~ReadInfoFirst`: `OrderInv` says that a
  version never names an older file than the hash beside it, and that a download
  is never older than the baseline it is compared with, and only a storage that
  downloads before it asks for the metadata keeps that.  On one that asks first a
  write between the two requests leaves an old version beside a new hash, and the
  next save reports a conflict of the file with itself (`MCDatabaseSave_alarm`).
* **SaveService_proofs.** `TypeCorrect` (with one slot for each key in both
  maps); `Invariance`; `OneAtATime` (`SingleFlight`);
  `LockIsHeldByALivingRound` (`HolderLives`).  The invariant ties the rounds,
  their tasks, the isolates and the handlers set on them: a round is one task,
  a task in a worker has its own handlers there, and what is serialised or
  runs in the current worker has the lock.  It is stated of tuples
  `Sound(U, T, n, I, w)`, so that it can be asked of the moment between the
  release of a round and the start of the next, inside one step.
  Its second part: `GivenUpIsCleared` (`NoIntentLeft`),
  `SavesRunAlone` (`NoConcurrentSaves`) and `ResponseFollowsSeed` (`SeedKnown`),
  the last two with at most one fault.  `NoIntentLeft` speaks of sessions in
  which nothing is under way; `IntentInv` says of all others who carries the
  pending change: a request in the queue, the task whose round took it, an open
  conflict, or an isolate whose exit will clear it, and that what a round took is
  stored by the time its worker has stored the file.  `AloneInv` says that every
  round in a worker has the lock.  It rests on there being one isolate as long as
  there was no fault, and one fault cannot break it twice.  `PairInv` adds that
  each request is in one place, with the challenge pair it took, and that whoever
  has stored a file with a new seed will tell the session, before anybody else
  stores one.
* **CacheStorage_proofs.** `TypeCorrect` (the metadata only names versions the
  remote really had); `Invariance`; `HitsAreExact` (`HitIsExact`);
  `OwnWritesAreRead` (`ReadYourWrites`).  `Inv` says what overlaps with what
  (`Apart`, `Overlap`), that after an upload the metadata lag behind it until
  the device's own refresh (`Upload`), and what the copy may be for each thing
  the metadata may be or become (`Past`, `Exact`, `PastCache`, `ExactCache`).
  A step of one operation that leaves the files alone is one lemma
  (`LocalInv`); the writers of the cache have one each.
* **FtpStorage_proofs.** `TypeCorrect`; `OnlyAwaitedAnswered`
  (`AnswersAwaited`); `QueueImplemented` (`ImplementsQueue`: the initial state
  is one of the queue, and every step is a step of the queue or a stutter).
  The inductive invariant is `TypeOK /\ AnswersAwaited`.  `TypeOK` has to
  say, besides types, that the queue runs the last operation or none, that a
  plan is there exactly while one runs and ends with a transfer (so that only
  the last step can end it), and that only a running operation waits for a task.
  That a late answer of a failed step cannot reach the next operation needs
  `AnswersAwaited`: on a connection that stands the tracked task is the awaited
  one.  `Moves` states what one step may do to the queue; each part of an
  action (`Succeeds`, `Fails`, `Rejects`, `TryResolve`) has its lemma and each
  action cites them.
* **FtpTransfers_proofs.** `ReadsAreComplete` (`ReadComplete`),
  `WritesAreConfirmed` (`WriteConfirmed`) and `MissingOnlyWhenLate`
  (`MissingIsLate`), for any operations, file sizes and
  faults in any number.  `ReadInv` rests on a
  conservation (`Stream`): what is in the local file, in the cache, on the data
  connection and still to be sent *for the task that is waited for* (`Rest`) is
  never longer than the file, and is the file when it is as long (`Within`).  A
  poller left over from a failed download, a dropped connection or an abort only
  make it shorter (`Less`), so a poller that counts as many chunks as `SIZE`
  announced has them all (`EnoughIsGood`).  This needs that no chunk of another
  transfer comes in: tasks are numbered as they come, the answers that open a
  data connection arrive in that order (`Fresh`), a transfer of another task has
  no connection any more (`Foreign`), and a step that is about to start a
  transfer finds cache and connection empty (`Ready`).  `Planned` says that a
  transfer follows the step that opens its connection and that `SIZE` comes
  before the one `RETR`.  Steps that leave the transfer alone come to `Idles`,
  those that move chunks to `MovesReads`, those that end a step to `Quits`.

  `WriteInv` is an argument about the order of answers, because the client
  gives an answer to whatever task it tracks.  While it waits for a data
  connection the last answer under way is the one it waits for, or a refusal
  (`Asked`); so an upload starts with nothing under way, or with old answers the
  last of which is a refusal and none of which begins a transfer (`Poised`,
  `Unused`).  From then on (`Writing`) it is in step with the server (`InSync`: a
  confirmation under way, or taken, is its own, and noted as such), or a refusal
  will reach its task before it has sent its data (`Doomed`), and then it can only
  fail.  `Written` carries this to the end of the plan.  The argument needs the
  server to take commands in turn (`Before`).  Steps that give and take no
  answer come to `WaitsWrites`, those that end a step to `LeavesWrites`.

  `ListInv` is about the histories in which no fault has hit a transfer: refusals,
  failed logins, losses and closings between two transfers may have happened.  In
  these the connection, while it stands, is in one of three conditions
  (`Calm`): between two commands (`Idle`), with a request under way (`Asks`), or in
  a transfer (`Runs`) whose one poller or loop, server side and data connection
  are its own, and to which a refusal, a beginning and maybe an end, or only an
  end is to come; without a connection nothing is left running.  `Listed` adds
  that a poller which has got nothing has not waited in vain, for something is
  on the way (`Rest`); so a listing that ends has its chunk.  The steps that keep
  a transfer going come to `RunsOn`, the ends of one to `TriesCalm`.
* **KdbxMerge_proofs.** `TypeCorrect`; `NoAttachmentLost` (`AttachmentsKept`);
  `DeadStayDead` (`NoResurrection`); `NewestAlwaysWins` (`NewestWins`);
  `LaterMoveAlwaysWins` (`LaterMoveWins`); `DuplicatesAlwaysExplained`
  (`DuplicatesExplained`); `NothingIsLost` (`NothingLost`), for any devices,
  entries and finite set of groups, any first database, and merges of any size
  that end.  `AlwaysGood` is the inductive invariant: every copy and the file are
  `Good` (all that is listed is in the tree, the root is not dead, no attachment
  of a revision is missing, what is not in the tree is garbage already cleared),
  and the file after a merge is the merge of the two sides.  The rest is about one
  merge.
  First what each operator computes (`OnlyIs`, `MergeCollectionIs`, `SortedIs`,
  `MergeHistoryIs`, ...): each is a loop, whose states exist (`LoopExists`) and
  keep what each round keeps (`LoopKeeps`); the closure of a set of groups is the
  least closed one, reached within as many rounds as there are groups, which is
  why the groups are assumed finite.  Then the walk, in terms of the set `V` of
  objects merged so far.  `Walked` is its invariant, in five parts: `Fixed` (no
  visit changes the other side, the tombstones, or a group not merged yet),
  `Stamps` (an object has the later revision from the time it is merged, its own
  until then), `Lists` (what a merged group lists is not dead, was or will be
  merged, and is where the other side has it if that is later), `Met` (objects are
  met only by way of merged groups), `Histories` (an entry once merged has all
  times of the other side's history, and its own last revision).  When nothing is
  left to visit, `V` is what the root reaches through groups of both sides, which
  gives `MergedFields` of the result, and `NewestWins`, `NoResurrection` from it.
  For the shape of the tree each object needs a home: `Homes` says that the group
  an object is due in has it when it is merged.  Either no object was both moved
  and edited later by the other side (`Nice`), then its times change at no visit
  before the one of its old group and it is listed once (`Unique`); or one was, and
  the tree may list it twice (`Shared`).  Without such an object each round visits
  one that no round before has visited, so a merge ends within as many rounds as
  there are objects (`MergesEnd`, which assumes finitely many entries and a
  `MaxVisits` no smaller).  `RetryLosesNothing` applies the same invariant to a
  second walk, of the model with the result of the first.
* **KdbxFormat_proofs.** `TypeCorrect`; `Invariance`; `DamageIsNoticed`
  (`DamageNoticed`, with the exception it names); `PoolAlwaysHolds` (`PoolHolds`); `NothingFailsByItself`
  (`FailuresExplained`); the action properties `LoadsAreExact` (`LoadExact`) and
  `SavesAreExact` (`SavedExact`), for any attachments, entries and thresholds.
  First what the operators compute: the pool is a recursion over the attachments
  (`Setting`), and `SetAllIs`, `ResolvedIs` and `ResolvedInOrder` say what it
  holds and when it is in the order of the file.  They are inductions, done with
  a least element of a *set* (`LeastNatural`, `UpTo`), since the library's
  induction theorems take an operator.  `RoundTrip` says that references written
  against a pool and read through the places of the same pool are those of the
  entries.  Then `FormatInv`: `Sound` says of a load at each stage that what it
  has read, or is about to ship, is what its file holds (`ReadSound`,
  `ParcelSound`, `ModelSound`), and of a save that it writes its pool from the
  front; `Clean` that as long as nothing went wrong outside every disk reference
  of the database, of the load and of the save can be read back.  A step of one of
  the three is a step of its frame lemma (`LoadFrame`, `DbFrame`, `SaveFrame`);
  `Keeps` is what they need of the cache.
* **LoadService_proofs.** `TypeCorrect`; `Invariance`; `OneLoadPerWorker`
  (`WorkerServesOne`); `OneLoadOfTheQueue` (`QueueSerial`), for any databases
  and children, those that name each other included.  Neither property is
  inductive.  A worker keeps the handlers of its last load, and an exit calls
  them again, so `Workers` says that a handler belongs to a load that was
  posted once (`Told`): telling it again starts no second load of the queue; and
  that after a creation that threw there is no current worker any more
  (`uncreated => databaseWorker = 0`), which is why the flag never tells of one
  again.
  `LoadOK` says what a stage tells of a load: only children wait in the queue,
  what is read or restored has a database.  `Serial(L, q, c)` is `QueueSerial`
  stated of tuples, to be asked of the moment inside a step when a load has
  ended and the next one has not begun; `Dispatches` and `Finishes` are the two
  lemmas about it, and every callback comes to them.  `OneChanges` is the one
  lemma about the isolates.

### What is only model-checked

Liveness is beyond the prover: `LockReleased`, `QueueDrains`, `Settles`,
`AutoOpenEnds`.  Of `RetryKeeps` (`KdbxMerge`) the part about tombstones and
revisions is proved (`RetryLosesNothing`), and that no version of a history is
lost but to later ones; that the histories are the *same* sequences is only checked: it
would need the order that two versions of one instant have in a merged history,
where `MergeHistoryIs` only says which times there are.  The violations are TLC's.

## 5. What is not modelled, and why

* **DatabaseSave**: encryption and the pipeline of temporary files (a file is
  its edits); the guards for a null database or a file removed on both sides,
  which no legal call reaches; a storage whose versions repeat.
* **SaveService**: a reload that loses its worker, and messages of a worker
  that is already terminated (the isolate delivers none); the guard for a null
  database (`KdbxSaveService.ets:131`).  After a change of the password the page
  closes the session once `clearPassword()` is done (`ChangePassword.ets:167-176`);
  in the model it is closed when the callback comes.
* **CacheStorage**: `read()`, `exists()` and `getInfoOrNull()`, which neither a
  load nor a save calls; the switched-off decorator; a switch of
  `only_use_cache`, or the consumption of `force_refresh` by another call, in
  the middle of an operation; two writers of the same `.tmp` file; the retry
  bound (in `DatabaseSave`); a save without a known version
  (`DatabaseSave.ets:99`), which never takes the fast path.
* **KdbxMerge**: `importEntry()`; custom icons and custom data (maps merged
  key by key); the names, tags and fields of an object (part of its revision);
  `_editState`, which no code of the application transfers.
* **KdbxFormat**: KDBX 3; key derivation, ciphers, salts and inner random
  streams; the fields of the XML other than attachments and the tail; two loads
  at once.
* **FtpStorage**: TLS; the directory operations and the formats of listings;
  SFTP; an answer split over two packets or two answers in one; active mode; the
  second listing of `exists()` (`FTPStorage.ets:419-427`), the next candidate for
  the command LIST (`Client.ts:762-779`), the second attempt of a connect that is
  under way (`FTPHandler.ets:45-55`) and the extra SIZE of the progress bar
  (`FTPHandler.ets:131-137`).  A failed listing closes the client as a failed
  download does, where the code only removes the temporary file
  (`Client.ts:811-813`), and a left-over loop of an upload reports its error where
  `onDataDone` is silent: both are more than the code does wrong.
* **LoadService**: the sizes `LoadDispatchCache` remembers (a choice, see
  `Direct`); a callback of the page that throws, after which the main thread's
  load reports an error as well (`DatabaseLoad.ets:145-148`); a prewarming whose
  worker cannot be created (caught, nothing changes); the entry format of AutoOpen, `IfDevice`, paths,
  credentials and the entry written for a chosen child; the order of records; a
  RELOAD of the save service, which loads through the same worker (its outcomes
  are those of a refresh here, its adoption is in `SaveService`).
* Whole components: see the table of section 1.

## 6. Plan

Modules, in this order, each with its MC module, configuration and proofs:

1. **DatabaseSave**, **SaveService**, **CacheStorage**, **KdbxMerge**,
   **KdbxFormat**, **FtpStorage** with **StorageQueue**, **LoadService**: done.
2. In **LoadService**: the composition with `SaveService` (a refresh or a switch
   while a save of the other database runs).
3. **LockScreen**: `LockScreenService`, `SessionManager`, clipboard sessions.
   Questions: an unlock during `createSubWindow()`, two shows that overlap, a
   lock event after the unlock, a copied value that outlives its window.
4. An abstract shared store (a set of edits that only an overwrite shrinks)
   refined by `DatabaseSave`, with the refinement proved.
5. Candidates: the S3 multipart queue, the refresh of OAuth2 tokens, the
   synchronisation of settings, the one-shot `force_refresh` on the main
   thread.
