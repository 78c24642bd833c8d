----------------------------- MODULE CacheStorage -----------------------------
(***************************************************************************)
(* The local copy of a remote database (storage/cache/CacheStorage.ets) and *)
(* its metadata sidecar (CacheMetaService.ets) on one device, between the   *)
(* load worker or the main thread that loads, the save worker that saves,   *)
(* and other devices that write the same remote file.  The copy and the     *)
(* sidecar outlive the process; everything else dies with it.               *)
(*                                                                         *)
(* A file is a number: 2 is the file stored at first, every file encrypted  *)
(* since takes the next one.  The number of a stored file is also its       *)
(* version (and its size, which CacheMeta keeps beside the version).        *)
(* The local cache is switched on and database files have one path; the     *)
(* switched-off decorator is transparent.  FastPath, ReadInfoFirst and      *)
(* InfoFromResponse describe the decorated storage as in DatabaseSave.      *)
(***************************************************************************)
EXTENDS Naturals, FiniteSets

CONSTANTS
  FastPath, ReadInfoFirst, InfoFromResponse,
  MaxFile               \* bound: the last file encrypted

ASSUME FileAssumption == MaxFile \in Nat /\ MaxFile >= 2
ASSUME AdapterAssumption ==
  {FastPath, ReadInfoFirst, InfoFromResponse} \subseteq BOOLEAN

VARIABLES
  remote,   \* the file in the remote storage
  stored,   \* every file it has ever stored
  past,     \* history: what it had stored before this device's last upload
  made,     \* the last file encrypted, here or elsewhere
  cache,    \* the local copy
  meta,     \* CacheMeta.version
  late,     \* files that writeToCacheAsync() has yet to rename into place
  op,       \* op["load"], op["save"]: the load and the save in flight
  known,    \* dbFileParam.version of the open session
  doubt     \* history: how the copy may have come apart from its metadata

vars == <<remote, stored, past, made, cache, meta, late, op, known, doubt>>

Op == {"load", "save"}
Other(o) == CHOOSE p \in Op : p # o

None == 0      \* no local copy, no version
Torn == 1      \* a copy that is only partly written
Files == 2..MaxFile

(* The cache policy of a call.  "forced": force_refresh overrides           *)
(* only_use_cache, for the whole call in a worker (clearForceRefresh() does *)
(* not reach its snapshot); "forcedOnce": on the main thread, where the     *)
(* first call clears the flag, after which it is "spent".  A save that took *)
(* the flag behaves like one "online" whose fallbacks to the copy fail.     *)
Modes == {"online", "cacheOnly", "forced", "forcedOnce", "spent"}
Online(mode) == mode \in {"online", "forced", "forcedOnce"}
Consumed(mode) == IF mode = "forcedOnce" THEN "spent" ELSE mode

(* What an operation is about to put into the cache: the file it downloaded,*)
(* or the one it uploaded from a file (writeFromFile) or a buffer (write).  *)
Kinds == {"download", "stream", "buffer"}

(* The cache file an fs.copyFile() is writing: its own, one that another    *)
(* copy writes too, or one that was unlinked or renamed over meanwhile.     *)
Holds == {"own", "shared", "lost"}

(* History.  "overlap": a load, a save or an un-awaited copy ran at the same *)
(* time; "gap": another device wrote between the two requests that told the *)
(* content and its version.                                                 *)
Doubts == {"overlap", "gap"}

LoadSteps == {"idle", "probe", "match", "copy", "read", "read2", "fill",
              "filling", "label", "hit", "got", "offline"}
SaveSteps == {"idle", "guard", "read", "read2", "fill", "filling", "label",
              "write", "put", "info", "saved"}

Calls == [pc       : LoadSteps \cup SaveSteps,
          mode     : Modes,
          kind     : Kinds,
          expected : Nat,          \* request.expectedVersion
          version  : Nat,          \* FileInfo.version
          copy     : Nat,          \* the content at hand
          hold     : Holds,
          doubt    : SUBSET Doubts]

Idle == [pc |-> "idle", mode |-> "online", kind |-> "download", expected |-> None,
         version |-> None, copy |-> None, hold |-> "own", doubt |-> {}]

Busy(o) == op[o].pc # "idle"
Refilling(o) == op[o].pc = "filling" /\ op[o].hold # "lost"

Init ==
  /\ remote = 2 /\ stored = {2} /\ past = {} /\ made = 2
  /\ cache = None /\ meta = None /\ late = {}
  /\ op = [o \in Op |-> Idle]
  /\ known = None
  /\ doubt = {}

-----------------------------------------------------------------------------
(* Starting, ending and failing.                                            *)

Storage == <<remote, stored, past, made>>
Local == <<cache, meta, late, doubt>>

(* The operation o becomes r; one that was running overlaps with it.        *)
Started(o, r) ==
  LET alone == ~Busy(Other(o)) /\ late = {}
  IN op' = [op EXCEPT
              ![o] = [r EXCEPT !.doubt = IF alone THEN {} ELSE {"overlap"}],
              ![Other(o)].doubt = IF Busy(Other(o)) THEN @ \cup {"overlap"} ELSE @]

(* loadKdbxFileToFile(): with metadata at hand the remote version is asked  *)
(* for; without, the guard probes only when no size is known.               *)
StartLoad ==
  /\ ~Busy("load")
  /\ \E mode \in Modes \ {"spent"}, sized \in BOOLEAN :
       IF FastPath /\ meta # None
       THEN Started("load", [Idle EXCEPT !.pc = "probe", !.mode = mode])
       ELSE Started("load", [Idle EXCEPT !.pc = "read",
                                         !.mode = IF sized THEN mode ELSE Consumed(mode)])
  /\ UNCHANGED <<Storage, Local, known>>

StartSave ==
  /\ ~Busy("save")
  /\ known # None
  /\ \E mode \in {"online", "cacheOnly"} :
       Started("save", [Idle EXCEPT !.pc = "guard", !.mode = mode, !.expected = known])
  /\ UNCHANGED <<Storage, Local, known>>

Becomes(o, r) == op' = [op EXCEPT ![o] = r]
Ends(o) == Becomes(o, Idle)

(* A request that fails ends the operation.                                 *)
Fails(o) ==
  /\ op[o].pc \in {"read", "read2", "put", "info"}
  /\ Ends(o)
  /\ UNCHANGED <<Storage, Local, known>>

(* The session takes the version the operation reports.                     *)
Deliver(o) ==
  /\ op[o].pc \in {"hit", "got", "offline", "saved"}
  /\ known' = op[o].version
  /\ Ends(o)
  /\ UNCHANGED <<Storage, Local>>

-----------------------------------------------------------------------------
(* The load's version fast path.                                            *)

(* getInfo() of CacheStorage: the remote's version; none from the local     *)
(* copy (cache only, or the remote failed) nor from a failure the guard     *)
(* ignores.                                                                 *)
Probe ==
  LET l == op["load"]
  IN /\ l.pc = "probe"
     /\ \E v \in {None} \cup (IF Online(l.mode) THEN {remote} ELSE {}) :
          Becomes("load", [l EXCEPT !.pc = "match", !.version = v,
                                    !.mode = Consumed(@)])
     /\ UNCHANGED <<Storage, Local, known>>

(* readCacheToFile(): the metadata must name the version just seen, and the *)
(* policy must not be cache only (forced or not).                           *)
(* Mutated MatchMeta: any metadata will do.                                 *)
MatchAnyMeta ==
  LET l == op["load"]
  IN /\ l.pc = "match"
     /\ Becomes("load", [l EXCEPT !.pc =
          IF l.mode = "online" /\ l.version # None /\ meta # None
          THEN "copy" ELSE "read"])
     /\ UNCHANGED <<Storage, Local, known>>

MatchMeta ==
  LET l == op["load"]
  IN /\ l.pc = "match"
     /\ Becomes("load", [l EXCEPT !.pc =
          IF l.mode = "online" /\ l.version # None /\ meta = l.version
          THEN "copy" ELSE "read"])
     /\ UNCHANGED <<Storage, Local, known>>

(* fs.copyFile() out of the cache; a missing copy is a miss.                *)
CopyOut ==
  LET l == op["load"]
  IN /\ l.pc = "copy"
     /\ Becomes("load", IF cache = None
                        THEN [l EXCEPT !.pc = "read"]
                        ELSE [l EXCEPT !.pc = "hit", !.copy = cache,
                                       !.doubt = @ \cup doubt])
     /\ UNCHANGED <<Storage, Local, known>>

-----------------------------------------------------------------------------
(* The save up to its download.                                             *)

(* checkBeforeRead() found the version the session knows: no download.      *)
GuardHit ==
  LET s == op["save"]
  IN /\ s.pc = "guard"
     /\ FastPath /\ Online(s.mode) /\ s.expected = remote
     /\ Becomes("save", [s EXCEPT !.pc = "write", !.version = remote])
     /\ UNCHANGED <<Storage, Local, known>>

GuardMiss ==
  LET s == op["save"]
  IN /\ s.pc = "guard"
     /\ Becomes("save", [s EXCEPT !.pc = "read"])
     /\ UNCHANGED <<Storage, Local, known>>

-----------------------------------------------------------------------------
(* readToFile(), of both.                                                   *)

ReadFirst(o) ==
  /\ op[o].pc = "read"
  /\ Online(op[o].mode)
  /\ Becomes(o, IF ReadInfoFirst
                THEN [op[o] EXCEPT !.pc = "read2", !.version = remote]
                ELSE [op[o] EXCEPT !.pc = "read2", !.copy = remote])
  /\ UNCHANGED <<Storage, Local, known>>

ReadSecond(o) ==
  /\ op[o].pc = "read2"
  /\ Becomes(o, IF ReadInfoFirst
                THEN [op[o] EXCEPT !.pc = "fill", !.mode = "online", !.copy = remote]
                ELSE [op[o] EXCEPT !.pc = "fill", !.mode = "online", !.version = remote])
  /\ UNCHANGED <<Storage, Local, known>>

(* Cache only: the copy is the answer, and it has no version.               *)
ReadFromCache(o) ==
  /\ op[o].pc = "read"
  /\ ~Online(op[o].mode)
  /\ IF cache = None
     THEN Ends(o)
     ELSE Becomes(o, IF o = "load"
                     THEN [Idle EXCEPT !.pc = "offline", !.copy = cache]
                     ELSE [op[o] EXCEPT !.pc = "write"])
  /\ UNCHANGED <<Storage, Local, known>>

-----------------------------------------------------------------------------
(* Refreshing the cache: refreshCache() copies a file over the copy in      *)
(* place, refreshCacheFromBuffer() renames a temporary file over it; both   *)
(* then write the metadata, and both carry on when any of it fails.         *)

Refreshed(o) ==
  LET r == [op[o] EXCEPT !.hold = "own"]
  IN CASE o = "load" -> [r EXCEPT !.pc = "got"]
       [] o = "save" /\ r.kind = "download" -> [r EXCEPT !.pc = "write", !.copy = None]
       [] o = "save" /\ r.kind # "download" -> [Idle EXCEPT !.pc = "saved",
                                                            !.version = r.version]

DoubtOf(o) == op[o].doubt \cup (IF op[o].version # op[o].copy THEN {"gap"} ELSE {})

(* fs.copyFile() opens the copy and truncates it.                           *)
FillBegins(o) ==
  LET shared == Refilling(Other(o))
  IN /\ op[o].pc = "fill"
     /\ op[o].kind # "buffer"
     /\ cache' = Torn
     /\ doubt' = DoubtOf(o)
     /\ op' = [op EXCEPT ![o].pc = "filling",
                         ![o].hold = IF shared THEN "shared" ELSE "own",
                         ![Other(o)].hold = IF shared THEN "shared" ELSE @]
     /\ UNCHANGED <<Storage, meta, late, known>>

(* It is complete.  Of two copies that wrote one file, either may have had  *)
(* the last word on each part of it.                                        *)
FillEnds(o) ==
  /\ op[o].pc = "filling"
  /\ Becomes(o, [op[o] EXCEPT !.pc = "label"])
  /\ CASE op[o].hold = "own"    -> cache' = op[o].copy
       [] op[o].hold = "shared" -> cache' \in {Torn, cache, op[o].copy}
       [] op[o].hold = "lost"   -> UNCHANGED cache
  /\ UNCHANGED <<Storage, meta, late, doubt, known>>

(* The rename of refreshCacheFromBuffer().                                  *)
LoseHold == [o \in Op |-> [op[o] EXCEPT !.hold =
               IF op[o].pc = "filling" THEN "lost" ELSE @]]

RenameIn ==
  /\ op["save"].pc = "fill"
  /\ op["save"].kind = "buffer"
  /\ cache' = op["save"].copy
  /\ doubt' = DoubtOf("save")
  /\ op' = [LoseHold EXCEPT !["save"].pc = "label"]
  /\ UNCHANGED <<Storage, meta, late, known>>

(* The copy cannot be opened, or breaks off: it is left as it is.           *)
FillFails(o) ==
  /\ op[o].pc \in {"fill", "filling"}
  /\ Becomes(o, Refreshed(o))
  /\ UNCHANGED <<Storage, Local, known>>

(* writeMeta(): a temporary file and a rename; a failure leaves the old.    *)
Label(o) ==
  /\ op[o].pc = "label"
  /\ meta' \in {meta, op[o].version}
  /\ Becomes(o, Refreshed(o))
  /\ UNCHANGED <<Storage, cache, late, doubt, known>>

-----------------------------------------------------------------------------
(* The save from its download on.                                           *)

(* AUTO: the remote has changed, the user is asked and this save ends.      *)
ReportConflict ==
  /\ op["save"].pc = "write"
  /\ op["save"].version # op["save"].expected
  /\ Ends("save")
  /\ UNCHANGED <<Storage, Local, known>>

(* Cache only: write() and writeFromFile() throw READ_ONLY.                 *)
Refused ==
  /\ op["save"].pc = "write"
  /\ ~Online(op["save"].mode)
  /\ Ends("save")
  /\ UNCHANGED <<Storage, Local, known>>

(* buildSavedContent(), then write() or writeFromFile(): write() starts an  *)
(* un-awaited copy of the new file before it uploads it.                    *)
(* Mutated Build: write() labels the copy as well.                          *)
BuildLabels ==
  LET s == op["save"]
  IN /\ s.pc = "write" /\ Online(s.mode)
     /\ made < MaxFile
     /\ made' = made + 1
     /\ \E k \in {"stream", "buffer"} :
          /\ Becomes("save", [s EXCEPT !.pc = "put", !.kind = k, !.copy = made + 1])
          /\ late' = IF k = "buffer" THEN late \cup {made + 1} ELSE late
          /\ meta' = IF k = "buffer" THEN made + 1 ELSE meta
     /\ UNCHANGED <<remote, stored, past, cache, doubt, known>>

Build ==
  LET s == op["save"]
  IN /\ s.pc = "write" /\ Online(s.mode)
     /\ made < MaxFile
     /\ made' = made + 1
     /\ \E k \in {"stream", "buffer"} :
          /\ Becomes("save", [s EXCEPT !.pc = "put", !.kind = k, !.copy = made + 1])
          /\ late' = IF k = "buffer" THEN late \cup {made + 1} ELSE late
     /\ UNCHANGED <<remote, stored, past, cache, meta, doubt, known>>

Uploads(f) ==
  /\ remote' = f
  /\ stored' = stored \cup {f}
  /\ past' = stored

(* The upload, whose answer may carry the metadata of the written file.     *)
Put ==
  LET s == op["save"]
  IN /\ s.pc = "put"
     /\ Uploads(s.copy)
     /\ Becomes("save", IF s.kind = "stream" /\ InfoFromResponse
                        THEN [s EXCEPT !.pc = "fill", !.version = s.copy]
                        ELSE [s EXCEPT !.pc = "info", !.version = None])
     /\ UNCHANGED <<made, Local, known>>

PutUnanswered ==
  /\ op["save"].pc = "put"
  /\ Uploads(op["save"].copy)
  /\ Ends("save")
  /\ UNCHANGED <<made, Local, known>>

(* VERSION_CONFLICT: the save starts over with a download.                  *)
PutConflict ==
  LET s == op["save"]
  IN /\ s.pc = "put"
     /\ s.version \notin {None, remote}
     /\ Becomes("save", [s EXCEPT !.pc = "read", !.kind = "download",
                                  !.version = None, !.copy = None])
     /\ UNCHANGED <<Storage, Local, known>>

(* The metadata of the written file, asked for after the upload: by the     *)
(* adapter (stream), or by getInfo() of CacheStorage, which falls back to   *)
(* the local copy, of no version, when the remote fails.                    *)
(* Mutated Info: metadata before content.                                   *)
InfoLabels ==
  LET s == op["save"]
  IN /\ s.pc = "info"
     /\ Becomes("save", [s EXCEPT !.pc = "fill", !.version = remote])
     /\ meta' = remote
     /\ UNCHANGED <<Storage, cache, late, doubt, known>>

Info ==
  LET s == op["save"]
      fallback == s.kind = "buffer" /\ cache # None
  IN /\ s.pc = "info"
     /\ \E v \in {remote} \cup (IF fallback THEN {None} ELSE {}) :
          Becomes("save", [s EXCEPT !.pc = "fill", !.version = v])
     /\ UNCHANGED <<Storage, Local, known>>

-----------------------------------------------------------------------------
(* What happens beside them.                                                *)

(* The rename of an un-awaited writeToCacheAsync(), or its failure.         *)
LateWrite ==
  \E f \in late :
    /\ late' = late \ {f}
    /\ \/ cache' = f /\ op' = LoseHold
       \/ UNCHANGED <<cache, op>>
    /\ UNCHANGED <<Storage, meta, doubt, known>>

(* deleteCache() and deleteAllCache(), when the user clears recent files.   *)
DeleteCopy ==
  /\ cache # None
  /\ cache' = None
  /\ op' = LoseHold
  /\ UNCHANGED <<Storage, meta, late, doubt, known>>

DeleteMeta ==
  /\ meta # None
  /\ meta' = None
  /\ UNCHANGED <<Storage, cache, late, op, doubt, known>>

(* Another device stores a file.                                            *)
OtherWrites ==
  /\ made < MaxFile
  /\ made' = made + 1
  /\ remote' = made + 1
  /\ stored' = stored \cup {made + 1}
  /\ UNCHANGED <<past, Local, op, known>>

(* The process dies; the files stay.                                        *)
Crash ==
  /\ op' = [o \in Op |-> Idle]
  /\ late' = {}
  /\ known' = None
  /\ UNCHANGED <<Storage, cache, meta, doubt>>

LoadStep == StartLoad \/ Probe \/ MatchMeta \/ CopyOut
SaveStep == \/ StartSave \/ GuardHit \/ GuardMiss \/ ReportConflict \/ Refused
            \/ Build \/ Put \/ PutUnanswered \/ PutConflict \/ Info \/ RenameIn
Step(o) == \/ Fails(o) \/ Deliver(o) \/ ReadFirst(o) \/ ReadSecond(o)
           \/ ReadFromCache(o) \/ FillBegins(o) \/ FillEnds(o) \/ FillFails(o)
           \/ Label(o)

Next == \/ LoadStep \/ SaveStep \/ (\E o \in Op : Step(o))
        \/ LateWrite \/ DeleteCopy \/ DeleteMeta \/ OtherWrites \/ Crash

Spec == Init /\ [][Next]_vars

-----------------------------------------------------------------------------
(* The state is well formed; the metadata only ever names a version the     *)
(* remote really had, never that of a file still to be uploaded.            *)
TypeOK ==
  /\ remote \in stored /\ stored \subseteq 2..made /\ past \subseteq stored
  /\ made \in Files
  /\ cache \in {None, Torn} \cup 2..made
  /\ meta \in {None} \cup stored
  /\ late \subseteq 2..made
  /\ op \in [Op -> Calls]
  /\ op["load"].pc \in LoadSteps /\ op["save"].pc \in SaveSteps
  /\ known \in {None} \cup stored
  /\ doubt \subseteq Doubts

(* A load that skips the download (readCacheToFile, CacheStorage.ets:169)   *)
(* gets exactly the file its version names, whatever crashed, failed or was *)
(* deleted before, except for what is visibly not a stored file (a partly   *)
(* written copy, a file that was never uploaded) and for the two histories  *)
(* `doubt` names.                                                           *)
HitIsExact ==
  LET l == op["load"]
  IN l.pc = "hit" /\ l.doubt = {} =>
       l.copy \in {l.version, Torn} \/ l.copy \notin stored

(* A device reads its own writes: a load that answers for the remote never  *)
(* takes the session back to a file that was there before the device's last *)
(* upload, not even after a crash between the upload and the refresh of the *)
(* cache, unless it or the refresh it relies on overlapped with another.    *)
ReadYourWrites ==
  LET l == op["load"]
  IN l.pc \in {"hit", "got"} /\ "overlap" \notin l.doubt => l.copy \notin past

(* "When the remote's version and size agree with the cache metadata, the   *)
(* local copy is the remote fact" (CacheStorage.ets:177-178).               *)
HitIsRemoteFact ==
  op["load"].pc = "hit" => op["load"].copy = op["load"].version
=============================================================================
