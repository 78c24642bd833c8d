----------------------------- MODULE KdbxFormat -----------------------------
(***************************************************************************)
(* A KDBX 4 file between the storage and the open database: the load       *)
(* pipeline of the worker (decrypt, inflate, inner header, XML), the two   *)
(* ways the result crosses to the main thread, the pool of attachments and *)
(* its encrypted cache on disk, and the save pipeline back to a file       *)
(* (libs/kdbxweb: KdbxFormat, KdbxSnapshot, KdbxBinaries, KdbxHeader,      *)
(* HmacBlockTransform, AttachmentStore, the pull parser).                  *)
(*                                                                         *)
(* An attachment is its content, which stands for its SHA-256 too.  The    *)
(* XML is the references of the entries into the pool, numbered from 1     *)
(* (0: no attachment), and its tail, the tombstones after the last group.  *)
(* A database is an ordered pool, what each entry is bound to, and whether *)
(* the tail is there.  Keys, salts and the other fields are left out.      *)
(*                                                                         *)
(* Taken from the platform: HMAC, GCM and SHA-256 tell damage where the    *)
(* code compares them; a file is written, read and renamed as asked or the *)
(* call fails.                                                             *)
(***************************************************************************)
EXTENDS Naturals, FiniteSets, SequencesExt

CONSTANTS
  Content,        \* contents of attachments
  Large,          \* those of LARGE_BINARY_STREAM_THRESHOLD (4 MB) and more
  Protected,      \* those the file holds with the protected flag
  Entry,          \* entries, each with at most one attachment
  None,           \* no attachment, no database
  Wrong,          \* bytes that are no longer the attachment's
  MaxBins,        \* bound: attachments of a file
  DiskThreshold,  \* ATTACH_DISK_THRESHOLD_BYTES, in attachments of 4 MB
  MaxLoads,       \* bound: loads
  MaxSaves,       \* bound: saves
  MaxEdits,       \* bound: edits
  MaxFaults       \* bound: cache files evicted or damaged, damaged files, failed calls

ASSUME ContentAssumption == Large \subseteq Content /\ Protected \subseteq Content
ASSUME NoneAssumption == None \notin Content /\ Wrong \notin Content \cup {None}
ASSUME BoundAssumption == /\ MaxBins \in Nat /\ DiskThreshold \in Nat \ {0}
                          /\ {MaxLoads, MaxSaves, MaxEdits, MaxFaults} \subseteq Nat

VARIABLES
  file,   \* the file in the storage
  cache,  \* AttachmentStore: what its file of a content holds
  db,     \* the open database of the main thread, or None
  load,   \* the load
  save,   \* the save
  count   \* loads, saves, edits and faults so far

vars == <<file, cache, db, load, save, count>>

(* What is wrong with a file:                                               *)
(*   broken:  bytes changed, or the file cut, inside the header or a block; *)
(*   zeroed:  the length of a block of data reads 0;                        *)
(*   short:   the file ends before a block of data, or inside its HMAC;     *)
(*   end:     the end block is cut or gone, or its HMAC changed.            *)
Damages == {"none", "broken", "zeroed", "short", "end"}
Bin == [hash : Content \cup {Wrong}, prot : BOOLEAN]
Item == [hash : Content, at : {"mem", "disk"}, prot : BOOLEAN]
Refs == [Entry -> Nat]

(* stream: the cipher is ChaCha20, which the file pipelines need.           *)
File == [bins : Seq(Bin), refs : Refs, tail : BOOLEAN,
         gzip : BOOLEAN, stream : BOOLEAN, damage : Damages]
Model == [pool : Seq(Item), att : [Entry -> Content \cup {None}], tail : BOOLEAN]

(* What crosses a thread boundary: KPSN snapshot and v3 container alike.    *)
Parcel == [pool : Seq(Item), refs : Refs, tail : BOOLEAN]

InMemory(bin) == [hash |-> bin.hash, at |-> "mem", prot |-> bin.prot]
OnDisk(bin) == [hash |-> bin.hash, at |-> "disk", prot |-> bin.prot]
Hashes(pool) == {item.hash : item \in ToSet(pool)}

(***************************************************************************)
(* The pool: a Map from hash to value, in the order of insertion.          *)
(***************************************************************************)

(* The place of a hash in the order of the map, 0 if it is not there.       *)
PlaceOf(pool, hash) == SelectInSeq(pool, LAMBDA x : x.hash = hash)

(* KdbxBinaries.add(), addWithHash(): Map.set() keeps the place of a hash   *)
(* that is there.                                                           *)
SetItem(pool, item) ==
  LET i == PlaceOf(pool, item.hash) IN
  IF i = 0 THEN Append(pool, item) ELSE [pool EXCEPT ![i] = item]

(* Some of the items set in the pool, one after the other.  (A recursive    *)
(* function and not a fold, so that what it does can be proved.)            *)
Setting(pool, items, some) ==
  LET after[n \in 0 .. Len(items)] ==
        IF n = 0 THEN pool
        ELSE IF n \in some THEN SetItem(after[n - 1], items[n])
        ELSE after[n - 1]
  IN after
SetAll(pool, items, some) == Setting(pool, items, some)[Len(items)]

(* Mutated RefOf: the index of indexOf(), without its test for -1.           *)
RefOfUntested(pool, hash) == PlaceOf(pool, hash) - 1

(* getRefByHash(): the place in the pool, 0 if the hash is not there.       *)
RefOf(pool, hash) == PlaceOf(pool, hash)

(* getByRef(): through the map of ids to the pool.                          *)
ByRef(ids, pool, ref) ==
  IF ref \in DOMAIN ids /\ ids[ref] \in Hashes(pool) THEN ids[ref] ELSE None

(* importPool(): the place in the pool is taken for the id.                 *)
ImportPool(pool) == [i \in DOMAIN pool |-> pool[i].hash]

(* The promises of getBinaryHash() resolve after one turn for a disk        *)
(* reference, two for plain bytes and three for a protected value.          *)
Turns(item) == IF item.at = "disk" THEN 1 ELSE IF item.prot THEN 3 ELSE 2

(* The pool as the hashes resolve.                                          *)
Resolved(read) ==
  LET at(turn) == {i \in DOMAIN read : Turns(read[i]) = turn}
      first == SetAll(<<>>, read, at(1))
      second == SetAll(first, read, at(2))
  IN SetAll(second, read, at(3))

(* Mutated ComputeHashes: the ids are given out as the hashes resolve.       *)
ComputeHashesResolved(read) ==
  [ids |-> ImportPool(Resolved(read)), pool |-> Resolved(read)]

(* computeHashes(): the ids as read, the pool in the order of resolution.   *)
ComputeHashes(read) ==
  [ids |-> [i \in DOMAIN read |-> read[i].hash], pool |-> Resolved(read)]

(* setEntryBinary() and the pending references of the loader: an id that    *)
(* leads nowhere leaves the entry without its attachment.                   *)
Resolve(refs, ids, pool) == [e \in Entry |-> ByRef(ids, pool, refs[e])]

(* writeBinaries(): an attachment that is not in the pool is left out.      *)
WriteRefs(att, pool) == [e \in Entry |-> RefOf(pool, att[e])]

(* Mutated Compacted: a content that is used once counts as unused.          *)
CompactedShared(pool, att) ==
  SetAll(<<>>, pool, {i \in DOMAIN pool :
                        Cardinality({e \in Entry : att[e] = pool[i].hash}) > 1})

(* cleanupOrphanedBinaries() after an entry is removed: what is used stays, *)
(* in its order.                                                            *)
Compacted(pool, att) ==
  SetAll(<<>>, pool, {i \in DOMAIN pool : \E e \in Entry : att[e] = pool[i].hash})

(* totalMemoryBytes(), in units of 4 MB.                                    *)
Total(pool) == Cardinality(Hashes(pool) \cap Large)
Converts(pool) == pool # <<>> /\ Total(pool) >= DiskThreshold

(***************************************************************************)
(* The attachment cache.                                                   *)
(***************************************************************************)

(* Mutated Put: the reference is made, the bytes are not stored.             *)
PutNothing(hashes) == cache

(* put(), putFromFileRegion(): a file that is there is taken as it is.      *)
Put(hashes) ==
  [c \in Content |-> IF c \in hashes /\ cache[c] = "none" THEN "whole" ELSE cache[c]]

(* Mutated Serves: what is there is served without a look at the hash.       *)
ServesUnverified(c) == cache[c] # "none"

(* get(), getToFile(): the bytes, unless the tag or the hash is wrong.      *)
Serves(c) == cache[c] = "whole"

(* maybeConvertToDiskRefs().                                                *)
ToDisk(pool) ==
  IF Converts(pool) THEN [i \in DOMAIN pool |-> OnDisk(pool[i])] ELSE pool
ConvertedHashes(pool) ==
  IF Converts(pool) THEN {x.hash : x \in {y \in ToSet(pool) : y.at = "mem"}} ELSE {}

(***************************************************************************)
(* Parcels.                                                                *)
(***************************************************************************)

(* KdbxSnapshot.save(), synchronous: the XML refers into the same pool.     *)
Snapshot(model) ==
  [pool |-> model.pool, refs |-> WriteRefs(model.att, model.pool), tail |-> model.tail]

(* buildV3ContainerPrefix() and the copy of the XML: the references are     *)
(* those of the file.                                                       *)
Container(hashed, doc) == [pool |-> hashed.pool, refs |-> doc.refs, tail |-> doc.tail]

(* KdbxSnapshot.load() and loadFromReader().                                *)
Import(parcel) ==
  [pool |-> parcel.pool,
   att |-> Resolve(parcel.refs, ImportPool(parcel.pool), parcel.pool),
   tail |-> parcel.tail]

(***************************************************************************)
(* Reading a file.                                                         *)
(***************************************************************************)

(* Mutated StreamVerifies: the HMAC of a block is not compared.              *)
StreamVerifiesNothing(f) == f \in File

(* HmacBlockTransform.decryptFromFile(): the end of the file and a length   *)
(* of 0 both end it, and neither is looked at any further.                  *)
StreamVerifies(f) == f.damage # "broken"

(* decrypt(), on the whole file: a length of 0 ends it, whatever its HMAC;  *)
(* bytes that are not there are an error.                                   *)
BufferVerifies(f) == f.damage \in {"none", "zeroed", "end"}

Verifies(f) == IF f.stream THEN StreamVerifies(f) ELSE BufferVerifies(f)

(* What the buffer may notice all the same: the end block is cut and not    *)
(* changed, the padding of the text that is left is wrong (decryptData()).  *)
MayNotice(f) == ~f.stream /\ f.damage \in {"zeroed", "end"}

(* Blocks at the end are not decrypted.                                     *)
Short(f) == f.damage \in {"zeroed", "short"}

(* InflateRun(): the data must reach the end of the gzip stream.            *)
Inflates(f) == ~(f.gzip /\ Short(f))

(* The pull parser: at the end of the text there is no next event, and no   *)
(* error, whatever is open: the groups of the root, or what follows them.   *)
LeftOpen(f) == IF Short(f) THEN {"root", "tail"} ELSE {"nothing"}

(* commitContainer(): an element is taken when it ends.                     *)
Committed(f, open) ==
  [refs |-> IF open = "root" THEN [e \in Entry |-> 0] ELSE f.refs,
   tail |-> open = "nothing" /\ f.tail]

(* The model builder over the events of the parser.                         *)
Documents(f) == {Committed(f, open) : open \in LeftOpen(f)}

(* What the file holds.                                                     *)
Held(f) == [e \in Entry |-> IF f.refs[e] = 0 THEN None ELSE f.bins[f.refs[e]].hash]

Idle == [pc |-> "idle", worker |-> FALSE, container |-> FALSE, buffered |-> FALSE,
         src |-> None, read |-> <<>>, parcel |-> None, model |-> None]
NotSaving == [pc |-> "idle", model |-> None, asked |-> None, out |-> <<>>]

Files ==
  {f \in [bins : UNION {[1 .. n -> {[hash |-> c, prot |-> c \in Protected] : c \in Content}] :
                          n \in 0 .. MaxBins},
          refs : [Entry -> 0 .. MaxBins], tail : {TRUE},
          gzip : BOOLEAN, stream : BOOLEAN, damage : {"none"}] :
     \A e \in Entry : f.refs[e] <= Len(f.bins)}

Init ==
  /\ file \in Files
  /\ cache = [c \in Content |-> "none"]
  /\ db = None
  /\ load = Idle
  /\ save = NotSaving
  /\ count = [loads |-> 0, saves |-> 0, edits |-> 0, faults |-> 0]

Counted(what) == count' = [count EXCEPT ![what] = @ + 1]
Fault == count.faults < MaxFaults /\ Counted("faults")

-----------------------------------------------------------------------------
(***************************************************************************)
(* Loading.  In the worker the container is tried first; the synchronous   *)
(* load of the main thread builds the model.                               *)
(***************************************************************************)

LoadEnded == load.pc \in {"idle", "done", "failed"}

(* handleLoadDatabase(): the file is downloaded to T0.                      *)
LoadBegin(worker) ==
  /\ LoadEnded
  /\ count.loads < MaxLoads
  /\ load' = [Idle EXCEPT !.pc = "decrypt", !.worker = worker, !.container = worker,
                          !.src = file]
  /\ Counted("loads")
  /\ UNCHANGED <<file, cache, db, save>>

Fail == load' = [Idle EXCEPT !.pc = "failed"]

(* A container that is Unsupported: the load starts again at T0, with a new *)
(* Kdbx, on the way of the model.                                           *)
ToModel == load' = [load EXCEPT !.pc = "decrypt", !.container = FALSE]

(* loadToContainerFileInner(), loadV4FromFile(), loadV4FromFileFallback():  *)
(* T0 to T1.  The container is for ChaCha20; any other cipher is decrypted  *)
(* in memory.                                                               *)
Decrypt ==
  /\ load.pc = "decrypt"
  /\ IF load.container /\ ~load.src.stream THEN ToModel
     ELSE \/ /\ Verifies(load.src)
             /\ load' = [load EXCEPT !.pc = "inflate", !.buffered = ~load.src.stream]
          \/ (~Verifies(load.src) \/ MayNotice(load.src)) /\ Fail
  /\ UNCHANGED <<file, cache, db, save, count>>

(* What a failed inflate of a file leads to: a container goes to the model, *)
(* the streamed model to the buffer (parseDecryptedFile()), the buffer      *)
(* fails.                                                                   *)
InflateFallback ==
  IF load.container THEN ToModel
  ELSE load' = [load EXCEPT !.buffered = TRUE]

(* prepareInnerFileStreaming(), or ungzip() in memory: T1 to T2.            *)
Inflate ==
  /\ load.pc = "inflate"
  /\ IF Inflates(load.src) THEN load' = [load EXCEPT !.pc = "inner"]
     ELSE IF load.buffered THEN Fail ELSE InflateFallback
  /\ UNCHANGED <<file, cache, db, save, count>>

(* The file cannot be inflated for want of disk or by an I/O error.  The    *)
(* guards (NotEnoughDisk, DecompressedTooLarge) end the load.               *)
InflateFails ==
  /\ load.pc = "inflate" /\ load.src.gzip /\ ~load.buffered
  /\ Fault
  /\ \/ Fail
     \/ InflateFallback
  /\ UNCHANGED <<file, cache, db, save>>

ToRead == Len(load.read) < Len(load.src.bins)
NextBin == load.src.bins[Len(load.read) + 1]
Taken(item) == load' = [load EXCEPT !.read = Append(@, item)]

(* readBinaryFromFile(): a large attachment goes from T2 to the cache and   *)
(* leaves a disk reference; any other is read into memory.                  *)
ReadBinary ==
  /\ load.pc = "inner" /\ ~load.buffered /\ ToRead
  /\ IF NextBin.hash \in Large
     THEN Taken(OnDisk(NextBin)) /\ cache' = Put({NextBin.hash})
     ELSE Taken(InMemory(NextBin)) /\ UNCHANGED cache
  /\ UNCHANGED <<file, db, save, count>>

(* Its bytes cannot be stored: the load ends, nothing is tried again with   *)
(* the pool half read.                                                      *)
ReadBinaryFails ==
  /\ load.pc = "inner" /\ ~load.buffered /\ ToRead
  /\ NextBin.hash \in Large /\ cache[NextBin.hash] = "none" /\ Fault
  /\ Fail
  /\ UNCHANGED <<file, cache, db, save>>

(* The bytes end too early: inside the inner header, which both readers     *)
(* notice, or inside the XML, which XmlUtils.parse() does and the pull      *)
(* parser need not.                                                         *)
InnerEnds ==
  /\ load.pc = "inner" /\ Short(load.src)
  /\ Fail
  /\ UNCHANGED <<file, cache, db, save, count>>

(* The buffer is read to its end or not at all.                             *)
Readable == ~(load.buffered /\ Short(load.src))

(* parseDecryptedFileBuffered(), loadV4FromFileFallback(): readInnerHeader()*)
(* keeps every attachment in memory.                                        *)
ReadBuffered ==
  /\ load.pc = "inner" /\ load.buffered /\ ToRead /\ Readable
  /\ load' = [load EXCEPT !.read = [i \in DOMAIN load.src.bins |-> InMemory(load.src.bins[i])]]
  /\ UNCHANGED <<file, cache, db, save, count>>

(* writeContainerFromInnerFile(): the hashes, the prefix with the pool, the *)
(* XML as it is.                                                            *)
WriteContainer ==
  /\ load.pc = "inner" /\ load.container /\ ~ToRead
  /\ \E doc \in Documents(load.src) :
       load' = [load EXCEPT !.pc = "ship", !.read = <<>>,
                            !.parcel = Container(ComputeHashes(load.read), doc)]
  /\ UNCHANGED <<file, cache, db, save, count>>

(* parseInnerFileStreaming(), KdbxStreamingXmlLoader.load(): the entries    *)
(* are bound by the ids of the file, then postLoadBinaries() may move the   *)
(* pool to the cache.                                                       *)
ParseModel ==
  /\ load.pc = "inner" /\ ~load.container /\ ~ToRead /\ Readable
  /\ LET hashed == ComputeHashes(load.read) IN
     \E doc \in Documents(load.src) :
       /\ load' = [load EXCEPT !.pc = "ship", !.read = <<>>,
                     !.model = [pool |-> ToDisk(hashed.pool),
                                att |-> Resolve(doc.refs, hashed.ids, hashed.pool),
                                tail |-> doc.tail]]
       /\ cache' = Put(ConvertedHashes(hashed.pool))
  /\ UNCHANGED <<file, db, save, count>>

(* put() fails on the way to the cache: so does the load.                   *)
ConvertFails ==
  /\ load.pc = "inner" /\ ~load.container /\ ~ToRead
  /\ \E c \in ConvertedHashes(ComputeHashes(load.read).pool) : cache[c] = "none"
  /\ Fault
  /\ Fail
  /\ UNCHANGED <<file, cache, db, save>>

(* postSuccessMessage() and successMessageToKdbx(): a model crosses from    *)
(* the worker as a KPSN snapshot, or is passed by reference.                *)
Received ==
  IF load.container THEN Import(load.parcel)
  ELSE IF load.worker THEN Import(Snapshot(load.model))
  ELSE load.model

Arrive ==
  /\ load.pc = "ship"
  /\ db' = Received
  /\ load' = [Idle EXCEPT !.pc = "done"]
  /\ UNCHANGED <<file, cache, save, count>>

-----------------------------------------------------------------------------
(***************************************************************************)
(* Edits of the main thread.                                               *)
(***************************************************************************)

Edit == db # None /\ count.edits < MaxEdits /\ Counted("edits")

(* EntryEdit.addAttachmentFiles(): the bytes join the pool, the entry is    *)
(* bound to them, and the pool may move to the cache.                       *)
Attach(e, c) ==
  /\ Edit
  /\ db.att[e] = None
  /\ LET pool == SetItem(db.pool, InMemory([hash |-> c, prot |-> FALSE])) IN
       /\ db' = [db EXCEPT !.pool = ToDisk(pool), !.att[e] = c]
       /\ cache' = Put(ConvertedHashes(pool))
  /\ UNCHANGED <<file, load, save>>

(* An entry is removed for good: Kdbx.move() to no group, then the pool is  *)
(* cleaned of what nobody uses.                                             *)
RemoveEntry(e) ==
  /\ Edit
  /\ db.att[e] # None
  /\ LET att == [db.att EXCEPT ![e] = None] IN
       db' = [db EXCEPT !.att = att, !.pool = Compacted(@, att)]
  /\ UNCHANGED <<file, cache, load, save>>

-----------------------------------------------------------------------------
(***************************************************************************)
(* Saving.                                                                 *)
(***************************************************************************)

(* The snapshot is taken on the main thread and the worker rebuilds the     *)
(* model from it; edits made from now on are for the next save.             *)
SaveBegin ==
  /\ db # None
  /\ save.pc # "write"
  /\ count.saves < MaxSaves
  /\ save' = [pc |-> "write", model |-> Import(Snapshot(db)), asked |-> db.att, out |-> <<>>]
  /\ Counted("saves")
  /\ UNCHANGED <<file, cache, db, load>>

ToWrite == Len(save.out) < Len(save.model.pool)
NextItem == save.model.pool[Len(save.out) + 1]
Written(hash) == save' = [save EXCEPT !.out = Append(@, [hash |-> hash, prot |-> NextItem.prot])]
SaveFailed == save' = [NotSaving EXCEPT !.pc = "failed"]

(* writeBinaryToFile(), writeBinary(): a disk reference is read back from   *)
(* the cache and checked on the way; if it is gone or damaged the save      *)
(* fails and the file that was being made is deleted.                       *)
WriteBinary ==
  /\ save.pc = "write" /\ ToWrite
  /\ IF NextItem.at = "mem" \/ Serves(NextItem.hash)
     THEN Written(IF NextItem.at = "disk" /\ cache[NextItem.hash] = "damaged"
                  THEN Wrong ELSE NextItem.hash)
     ELSE SaveFailed
  /\ UNCHANGED <<file, cache, db, load, count>>

(* saveV4(): the inner header and the XML that buildXml() made of the same  *)
(* pool, compressed and encrypted as the file was.                          *)
Assembled(model, bins) ==
  [file EXCEPT !.bins = bins, !.refs = WriteRefs(model.att, model.pool),
               !.tail = model.tail, !.damage = "none"]

(* saveToFile(), saveV4ToFile(): the same through the files X1 to X3; the   *)
(* upload is the matter of the module DatabaseSave.                         *)
SaveDone ==
  /\ save.pc = "write" /\ ~ToWrite
  /\ file' = Assembled(save.model, save.out)
  /\ save' = [NotSaving EXCEPT !.pc = "done"]
  /\ UNCHANGED <<cache, db, load, count>>

(* No disk for the next file, or it cannot be written: it is unlinked.      *)
SaveAborts ==
  /\ save.pc = "write"
  /\ Fault
  /\ SaveFailed
  /\ UNCHANGED <<file, cache, db, load>>

-----------------------------------------------------------------------------
(***************************************************************************)
(* The environment.                                                        *)
(***************************************************************************)

(* sweep(), by any thread that creates its store, or the system clearing    *)
(* the cache directory.                                                     *)
Evict(c) ==
  /\ cache[c] # "none"
  /\ Fault
  /\ cache' = [cache EXCEPT ![c] = "none"]
  /\ UNCHANGED <<file, db, load, save>>

DamageCache(c) ==
  /\ cache[c] = "whole"
  /\ Fault
  /\ cache' = [cache EXCEPT ![c] = "damaged"]
  /\ UNCHANGED <<file, db, load, save>>

(* A transfer that was cut, or a bit that flipped, in the file.             *)
DamageFile(how) ==
  /\ file.damage = "none" /\ how # "none"
  /\ Fault
  /\ file' = [file EXCEPT !.damage = how]
  /\ UNCHANGED <<cache, db, load, save>>

Load == \/ \E worker \in BOOLEAN : LoadBegin(worker)
        \/ Decrypt \/ Inflate \/ InflateFails
        \/ ReadBinary \/ ReadBinaryFails \/ InnerEnds \/ ReadBuffered
        \/ WriteContainer \/ ParseModel \/ ConvertFails \/ Arrive
Edits == \/ \E e \in Entry, c \in Content : Attach(e, c)
         \/ \E e \in Entry : RemoveEntry(e)
Save == SaveBegin \/ WriteBinary \/ SaveDone \/ SaveAborts
Environment == \/ \E c \in Content : Evict(c) \/ DamageCache(c)
               \/ \E how \in Damages : DamageFile(how)

Next == Load \/ Edits \/ Save \/ Environment

Spec == Init /\ [][Next]_vars

-----------------------------------------------------------------------------
Loads == [pc : {"idle", "decrypt", "inflate", "inner", "ship", "done", "failed"},
          worker : BOOLEAN, container : BOOLEAN, buffered : BOOLEAN,
          src : File \cup {None}, read : Seq(Item),
          parcel : Parcel \cup {None}, model : Model \cup {None}]
Saves == [pc : {"idle", "write", "done", "failed"}, model : Model \cup {None},
          asked : [Entry -> Content \cup {None}] \cup {None}, out : Seq(Bin)]

TypeOK ==
  /\ file \in File
  /\ cache \in [Content -> {"none", "whole", "damaged"}]
  /\ db \in Model \cup {None}
  /\ load \in Loads
  /\ save \in Saves
  /\ count \in [{"loads", "saves", "edits", "faults"} -> Nat]

(* The order of the pool is that of the file: no content twice, and the     *)
(* hashes resolve in the order in which the attachments were read.          *)
InOrder(f) ==
  LET turn(i) == Turns(IF f.bins[i].hash \in Large THEN OnDisk(f.bins[i])
                       ELSE InMemory(f.bins[i]))
  IN \A i, j \in DOMAIN f.bins :
       i < j => f.bins[i].hash # f.bins[j].hash /\ turn(i) <= turn(j)

Restored(f) == db'.att = Held(f) /\ db'.tail = f.tail

Loaded == load.pc = "ship" /\ load'.pc = "done"

(* Nothing of the content is lost.                                          *)
Whole(f) == f.damage \in {"none", "end"}

(* What a load brings from a file that has all its content is what the file *)
(* holds: each entry has its own attachment again, whichever way the load   *)
(* took (a container given up for the model, the model given up for the     *)
(* buffer, the pool moved to the cache, the snapshot between the threads).  *)
(* For a file that came as a container this is so only when its pool is in  *)
(* order.                                                                   *)
LoadExact ==
  [][Loaded /\ Whole(load.src) /\ (load.container => InOrder(load.src))
       => Restored(load.src)]_vars

(* A file that lost content is not opened, with one exception: a file of    *)
(* ChaCha20, not compressed, that ends before a block, inside its HMAC or   *)
(* at a length that became 0 (decryptFromFile() takes each for the end).    *)
(* The inflater or the XML parser of the buffer notices the same elsewhere. *)
DamageNoticed ==
  load.pc = "ship" /\ ~Whole(load.src) =>
    Short(load.src) /\ load.src.stream /\ ~load.src.gzip

(* A save that succeeds wrote, for each entry, the attachment it had when   *)
(* the save was asked for, whatever happened to the cache and to the open   *)
(* database while the worker wrote.                                         *)
SavedExact ==
  [][save.pc = "write" /\ save'.pc = "done" => Held(file') = save.asked]_vars

(* What an entry is bound to is in the pool: writeBinaries() would leave    *)
(* the attachment out of the next file without a word.                      *)
PoolHolds ==
  db # None => \A e \in Entry : db.att[e] # None => db.att[e] \in Hashes(db.pool)

(* No load and no save fails by itself: every disk reference a load or an   *)
(* edit left in a pool can be read back until something removes it.         *)
FailuresExplained ==
  load.pc = "failed" \/ save.pc = "failed" => count.faults > 0

(* Every load of a file that has all its content brings what the file       *)
(* holds: what the format of the parcel promises ("pool entries (ordered,   *)
(* index = binary ref)").                                                   *)
ContainerExact == [][Loaded /\ Whole(load.src) => Restored(load.src)]_vars

(* Each block that is read is verified, so that no changed block is taken   *)
(* for the end: what the comment of decryptFromFile() says ("block by block *)
(* read, then HMAC verification").                                          *)
BlocksVerified == load.pc = "ship" => load.src.damage # "zeroed"

=============================================================================
