------------------------------ MODULE KdbxMerge ------------------------------
(***************************************************************************)
(* The merge of two copies of a database (libs/kdbxweb/.../format: kdbx.ts, *)
(* kdbx-group.ts, kdbx-entry.ts, kdbx-meta.ts, kdbx-binaries.ts), and the   *)
(* devices that edit their copies and merge them through one stored file.   *)
(*                                                                          *)
(* A database is a tree: sequences of subgroups and of entries.  What an    *)
(* object holds is known by its revision, a stamp: the lastModTime and the  *)
(* device that wrote it.  An entry has one attachment for each revision,    *)
(* whose hash is the stamp.  Names, icons, fields are part of the revision. *)
(* The edit state of kdbxweb (_editState) does not cross the threads of the *)
(* application, so that a merge only has what it adds to it itself.         *)
(*                                                                          *)
(* The merge walks the tree and changes it on its way, and the order of its *)
(* changes matters.  Its loops are recursive functions over the number of   *)
(* their rounds, so that what they do can be proved.                        *)
(***************************************************************************)
EXTENDS Integers, FiniteSets, SequencesExt

CONSTANTS Device,      \* the devices that share the file
          Groups,      \* group ids
          Entries,     \* entry ids
          Root,        \* the default group
          RecycleBin,  \* the recycle bin group
          None,        \* "undefined"
          HistoryMax,  \* the values of meta.historyMaxItems
          MaxTime,     \* bound: the clock
          MaxVisits,   \* bound: objects a merge visits
          MaxEdits     \* bound: edits of all devices

ASSUME GroupAssumption ==
    /\ IsFiniteSet(Groups) /\ Groups \cap Entries = {}
    /\ Root \in Groups /\ RecycleBin \in Groups \ {Root}
ASSUME BoundAssumption ==
    MaxTime \in Nat /\ MaxEdits \in Nat /\ MaxVisits \in Nat /\ HistoryMax \subseteq Nat

VARIABLES db,      \* db[d]: the model in the memory of device d
          stored,  \* the stored file
          stale,   \* devices whose baseline is not the stored file
          dirty,   \* devices with edits that are not stored
          used,    \* ids ever given: KdbxUuid.random() repeats none
          clock,   \* the time of day; edit[d]: d's last edit
          edit,
          edits,   \* number of edits so far (bound)
          last     \* history: the two sides of the merge just made, or None

vars == <<db, stored, stale, dirty, used, clock, edit, edits, last>>

Objects == Groups \cup Entries
Time    == 0 .. MaxTime
Stamp   == [at : Time, by : Device \cup {None}]
Origin  == [at |-> 0, by |-> None]

Db == [groups  : [Groups -> Seq(Groups)],
       entries : [Groups -> Seq(Entries)],
       loc     : [Objects -> Time],        \* times.locationChanged
       rev     : [Objects -> Stamp],       \* times.lastModTime and contents
       hist    : [Entries -> Seq(Stamp)],
       dead    : SUBSET Objects,           \* deletedObjects
       pool    : SUBSET Stamp,             \* binaries._mapByHash
       name    : Stamp,                    \* meta.name, nameChanged
       max     : HistoryMax]               \* meta.historyMaxItems

----------------------------------------------------------------------------
(* The tree.                                                               *)

Held(m, g) == ToSet(m.groups[g]) \cup ToSet(m.entries[g])

\* The groups of S and all that are met from them on; next[g] is what g holds.
Closure(next, S) ==
    LET near[n \in 0..Cardinality(Groups)] ==
          IF n = 0 THEN S
          ELSE LET T == near[n - 1] IN T \cup UNION {next[g] : g \in T}
    IN  near[Cardinality(Groups)]

\* The groups of S and all below them (allGroups).
Reached(m, S) == Closure([g \in Groups |-> ToSet(m.groups[g])], S)

\* The objects below a group of S (allGroupsAndEntries of each).
Below(m, S) == UNION {Held(m, g) : g \in Reached(m, S \cap Groups)}

Present(m) == {Root} \cup Below(m, {Root})

\* allGroupsAndEntries() meets an object twice.
HasDuplicates(m) ==
    LET here == Reached(m, {Root})
    IN  \/ Root \in Below(m, {Root})
        \/ \E g \in here : ~IsInjective(m.groups[g]) \/ ~IsInjective(m.entries[g])
        \/ \E g, h \in here : g # h /\ Held(m, g) \cap Held(m, h) # {}

Parents(m, o) == {g \in Groups : o \in Held(m, g)}

InRecycleBin(m, o) == o \in Below(m, {RecycleBin})

\* Objects that are no longer in the tree are garbage.
Compact(m) ==
    LET here == Present(m)
        Reset(f, zero) == [o \in DOMAIN f |-> IF o \in here THEN f[o] ELSE zero]
    IN  [m EXCEPT !.groups  = Reset(@, <<>>), !.entries = Reset(@, <<>>),
                  !.loc     = Reset(@, 0),    !.rev     = Reset(@, Origin),
                  !.hist    = Reset(@, <<>>)]

Revisions(m) == {m.rev[e] : e \in Present(m) \cap Entries}
                \cup UNION {ToSet(m.hist[e]) : e \in Present(m) \cap Entries}

----------------------------------------------------------------------------
(* History.                                                                *)

Earlier(x, y) == x.at < y.at

\* Array.sort: stable.
Sorted(h) ==
    LET sorted[n \in 0..Len(h)] ==
          IF n = 0 THEN <<>>
          ELSE LET s == sorted[n - 1]
               IN  InsertAt(s, 1 + Cardinality({j \in 1..Len(s) : s[j].at <= h[n].at}), h[n])
    IN  sorted[Len(h)]

\* Mutated RemoveOldest: the newest goes.
RemoveLast(h) == RemoveAt(h, Len(h))

RemoveOldest(h) ==
    RemoveAt(h, CHOOSE i \in 1..Len(h) :
                   \A j \in 1..Len(h) : h[i].at < h[j].at \/ (h[i].at = h[j].at /\ i <= j))

MaintainHistory(h, max) ==
    LET left[n \in 0..Len(h)] == IF n = 0 THEN h ELSE RemoveOldest(left[n - 1])
    IN  IF Len(h) <= max THEN h ELSE left[Len(h) - max]

\* Mutated HistoryStep: a version that both have is taken twice.
HistoryStepBoth(s, added, theirTime) ==
    CASE s.theirs # <<>> /\ (s.mine = <<>> \/ Head(s.mine).at >= Head(s.theirs).at) ->
            [s EXCEPT !.theirs = Tail(@), !.out = Append(@, Head(s.theirs))]
      [] s.mine # <<>> /\ (s.theirs = <<>> \/ Head(s.mine).at < Head(s.theirs).at) ->
            [s EXCEPT !.mine = Tail(@), !.out = Append(@, Head(s.mine))]
      [] OTHER -> s

\* One round of mergeHistory(); added holds the times of the edit state.
HistoryStep(s, added, theirTime) ==
    CASE s.mine # <<>> /\ s.theirs # <<>> /\ Head(s.mine).at = Head(s.theirs).at ->
            [mine |-> Tail(s.mine), theirs |-> Tail(s.theirs), out |-> Append(s.out, Head(s.mine))]
      [] s.theirs # <<>> /\ (s.mine = <<>> \/ Head(s.mine).at > Head(s.theirs).at) ->
            [s EXCEPT !.theirs = Tail(@), !.out = Append(@, Head(s.theirs))]
      [] s.mine # <<>> /\ (s.theirs = <<>> \/ Head(s.mine).at < Head(s.theirs).at) ->
            [s EXCEPT !.mine = Tail(@),
                      !.out = IF Head(s.mine).at \in added \/ Head(s.mine).at > theirTime
                              THEN Append(@, Head(s.mine)) ELSE @]
      [] OTHER -> s

\* Both histories are sorted.
MergeHistory(mine, theirs, added, theirTime) ==
    LET round[n \in 0..Len(mine) + Len(theirs)] ==
          IF n = 0 THEN [mine |-> mine, theirs |-> theirs, out |-> <<>>]
          ELSE HistoryStep(round[n - 1], added, theirTime)
    IN  round[Len(mine) + Len(theirs)].out

----------------------------------------------------------------------------
(* Collections of one group.                                               *)

\* The items of s that are in S, in their order.
Only(s, S) ==
    LET some[n \in 0..Len(s)] ==
          IF n = 0 THEN <<>>
          ELSE IF s[n] \in S THEN Append(some[n - 1], s[n]) ELSE some[n - 1]
    IN  some[Len(s)]

\* The place of src[i] in dst that has the most of its neighbours.
FindInsertIx(dst, src, i) ==
    LET At(s, k) == IF k \in 1..Len(s) THEN s[k] ELSE None
        Match(a, b, end) == IF a = None /\ b = None THEN end ELSE IF a = b THEN 5 ELSE 0
        Score(k) == Match(At(src, i - 1), At(dst, k - 1), 1) + Match(At(src, i + 1), At(dst, k), 2)
    IN  CHOOSE k \in 1..Len(dst) + 1 :
           \A j \in 1..Len(dst) + 1 : Score(k) > Score(j) \/ (Score(k) = Score(j) /\ k <= j)

\* Mutated Stays: an item moved away on the other side stays too.
StaysMoved(x, o) == o \notin x.m.dead

\* Mutated Comes: what is new on the other side is not taken.
ComesMoved(x, o) ==
    o \notin x.m.dead /\ o \in x.own /\ x.theirs.loc[o] > x.m.loc[o]

\* Mutated Comes: no look at the tombstones.
ComesDead(x, o) == o \in x.own => x.theirs.loc[o] > x.m.loc[o]

\* What stays in a collection: items that are not dead and that the other side
\* does not know or has not moved later.  x is the merge: the model being
\* changed (x.m), the objects it had at the start (x.own), the other side.
Stays(x, o) ==
    /\ o \notin x.m.dead
    /\ o \in x.all => x.theirs.loc[o] <= x.m.loc[o]

\* What comes in: items moved later on the other side, or new to this one.
Comes(x, o) ==
    /\ o \notin x.m.dead
    /\ o \in x.own => x.theirs.loc[o] > x.m.loc[o]

\* Mutated MergeCollection: a move on the other side is not followed.
CollectNew(x, mine, theirs) ==
    Only(mine, Objects \ x.m.dead) \o Only(theirs, Objects \ (x.m.dead \cup x.own))

MergeCollection(x, mine, theirs) ==
    LET with[i \in 0..Len(theirs)] ==
          IF i = 0 THEN Only(mine, {o \in Objects : Stays(x, o)})
          ELSE LET s == with[i - 1]
               IN  IF Comes(x, theirs[i])
                   THEN InsertAt(s, FindInsertIx(s, theirs, i), theirs[i])
                   ELSE s
    IN  with[Len(theirs)]

\* new KdbxGroup() or KdbxEntry() with copyFrom() for each item created remotely.
CreateRemote(x, items) ==
    LET new == ToSet(items) \ x.own
    IN  [x EXCEPT !.m.loc = [o \in Objects |-> IF o \in new THEN x.theirs.loc[o] ELSE @[o]],
                  !.m.rev = [o \in Objects |-> IF o \in new THEN x.theirs.rev[o] ELSE @[o]]]

\* copyFrom(): the contents and the times, the time of the move among them.
CopyFrom(x, o) == [x EXCEPT !.m.rev[o] = x.theirs.rev[o], !.m.loc[o] = x.theirs.loc[o]]

MergeEntry(x, e) ==
    LET mine   == x.m.rev[e]
        theirs == x.theirs.rev[e]
        known  == \E i \in 1..Len(x.m.hist[e]) : x.m.hist[e][i].at = theirs.at
        older  == Earlier(mine, theirs)
        y      == IF older THEN [CopyFrom(x, e) EXCEPT !.added[e] = @ \cup {mine.at}] ELSE x
        myHist == IF older THEN Append(x.m.hist[e], mine) ELSE x.m.hist[e]
        itsHist == IF Earlier(theirs, mine) /\ ~known
                   THEN Append(x.theirs.hist[e], theirs) ELSE x.theirs.hist[e]
    IN  [y EXCEPT !.m.hist[e] =
             MergeHistory(Sorted(myHist), Sorted(itsHist), y.added[e], theirs.at)]

\* The subgroups are visited next, then the entries, then what was to do before.
MergeGroup(x, g) ==
    LET x1 == IF Earlier(x.m.rev[g], x.theirs.rev[g]) THEN CopyFrom(x, g) ELSE x
        gs == MergeCollection(x1, x1.m.groups[g], x1.theirs.groups[g])
        es == MergeCollection(x1, x1.m.entries[g], x1.theirs.entries[g])
    IN  CreateRemote([x1 EXCEPT !.m.groups[g] = gs, !.m.entries[g] = es,
                                !.todo = gs \o es \o @], gs \o es)

\* merge() of the next object; at one that the other side does not know it
\* returns at once.
Visit(x) ==
    LET o == Head(x.todo)
        y == [x EXCEPT !.todo = Tail(@)]
    IN  IF o \notin x.all THEN y
        ELSE IF o \in Groups THEN MergeGroup(y, o) ELSE MergeEntry(y, o)

\* Mutated Cleanup: attachments of the history count as unused.
CleanupCurrent(m) ==
    LET n == [m EXCEPT !.hist = [e \in Entries |-> MaintainHistory(@[e], m.max)]]
    IN  [n EXCEPT !.pool = @ \cap {n.rev[e] : e \in Present(n) \cap Entries}]

\* remove extra history and unused binaries
Cleanup(m) ==
    LET n == [m EXCEPT !.hist = [e \in Entries |-> MaintainHistory(@[e], m.max)]]
    IN  [n EXCEPT !.pool = @ \cap Revisions(n)]

MergeMeta(m, theirs) ==
    [m EXCEPT !.name = IF Earlier(@, theirs.name) THEN theirs.name ELSE @,
              !.max  = theirs.max]

\* The walk.  It ends with something to do if groups are below each other: the
\* code recurses until the stack overflows, and the merge fails.
Merging(mine, theirs) ==
    LET walk[n \in 0..MaxVisits] ==
          IF n = 0
          THEN [m      |-> MergeMeta([mine EXCEPT !.dead = @ \cup theirs.dead,
                                                  !.pool = @ \cup theirs.pool], theirs),
                theirs |-> theirs,
                own    |-> Present(mine),
                all    |-> Present(theirs),
                added  |-> [e \in Entries |-> {}],
                todo   |-> <<Root>>]
          ELSE LET x == walk[n - 1] IN IF x.todo = <<>> THEN x ELSE Visit(x)
    IN  walk[MaxVisits]

Merged(x) == Cleanup(Compact(x.m))

----------------------------------------------------------------------------
(* Edits of a device.  t is the time of the edit: the clock moves on by at  *)
(* most one tick between two edits, and a device never edits twice in one.  *)

Edits(d, t, m) ==
    /\ db' = [db EXCEPT ![d] = m]
    /\ dirty' = dirty \cup {d}
    /\ clock' = t
    /\ edit' = [edit EXCEPT ![d] = t]
    /\ edits' = edits + 1
    /\ last' = None
    /\ UNCHANGED <<stored, stale>>

\* Mutated Now: the next tick.
NowNext(d, t) == [at |-> t + 1, by |-> d]

Now(d, t) == [at |-> t, by |-> d]

\* A revision of an entry, with a new attachment.
EditEntry(d, e, t) ==
    LET m == db[d] IN
    /\ Edits(d, t, [m EXCEPT !.hist[e] = MaintainHistory(Append(@, m.rev[e]), m.max),
                             !.rev[e]  = Now(d, t),
                             !.pool    = @ \cup {Now(d, t)}])
    /\ UNCHANGED used

EditGroup(d, g, t) ==
    /\ Edits(d, t, [db[d] EXCEPT !.rev[g] = Now(d, t)])
    /\ UNCHANGED used

CreateEntry(d, e, g, t) ==
    /\ e \notin used
    /\ Edits(d, t, [db[d] EXCEPT !.entries[g] = Append(@, e), !.rev[e] = Now(d, t),
                                 !.loc[e] = t, !.pool = @ \cup {Now(d, t)}])
    /\ used' = used \cup {e}

CreateGroup(d, g, p, t) ==
    /\ g \notin used
    /\ Edits(d, t, [db[d] EXCEPT !.groups[p] = Append(@, g), !.rev[g] = Now(d, t), !.loc[g] = t])
    /\ used' = used \cup {g}

\* move() to a group
Moved(m, o, to, t) ==
    LET Put(f) == [g \in Groups |-> LET rest == Only(f[g], Objects \ {o})
                                    IN  IF g = to THEN Append(rest, o) ELSE rest]
    IN  IF o \in Groups THEN [m EXCEPT !.groups  = Put(@), !.loc[o] = t]
                        ELSE [m EXCEPT !.entries = Put(@), !.loc[o] = t]

\* move() to no group: a deletedObject for all that was below
Deleted(m, o) ==
    LET below == {o} \cup Below(m, {o})
        n == Compact([m EXCEPT !.groups  = [g \in Groups |-> Only(@[g], Objects \ {o})],
                               !.entries = [g \in Groups |-> Only(@[g], Objects \ {o})],
                               !.dead    = @ \cup below])
    IN  [n EXCEPT !.pool = @ \cap Revisions(n)]

\* The user moves an item; never a group into itself or below itself.
Move(d, o, to, t) ==
    /\ o # Root
    /\ to \notin {o} \cup Below(db[d], {o})
    /\ Edits(d, t, Moved(db[d], o, to, t))
    /\ UNCHANGED used

\* remove(): to the recycle bin, or for good when the item is in it.  The bin,
\* and a group that holds it, are not removed here.
RemoveItem(d, o, t) ==
    LET m == db[d] IN
    /\ o # Root /\ RecycleBin \in Present(m)
    /\ RecycleBin \notin {o} \cup Below(m, {o})
    /\ Edits(d, t, IF InRecycleBin(m, o) THEN Deleted(m, o) ELSE Moved(m, o, RecycleBin, t))
    /\ UNCHANGED used

EditSettings(d, n, t) ==
    /\ Edits(d, t, [db[d] EXCEPT !.max = n, !.name = Now(d, t),
                                 !.hist = [e \in Entries |-> MaintainHistory(@[e], n)]])
    /\ UNCHANGED used

----------------------------------------------------------------------------
(* The shared file.  The steps of a save, its races and its failures are    *)
(* those of module DatabaseSave; here a save is one step.                   *)

Stores(d, m) ==
    /\ stored' = m
    /\ dirty' = dirty \ {d}
    /\ stale' = Device \ {d}
    /\ UNCHANGED <<used, clock, edit, edits>>

Save(d) ==
    /\ d \in dirty \ stale
    /\ Stores(d, db[d])
    /\ last' = None
    /\ UNCHANGED db

\* getObjectMap() throws when it meets an entry twice.  A group met twice is not
\* noticed; after the next load it is two groups of one uuid, and the model goes
\* no further there either.
MayMerge(mine, theirs) == ~HasDuplicates(mine) /\ ~HasDuplicates(theirs)

\* The worker merges the stored file into the model, stores the result, and
\* the session takes it over.
SaveMerged(d) ==
    /\ d \in dirty \cap stale
    /\ MayMerge(db[d], stored)
    /\ LET x == Merging(db[d], stored)
       IN  x.todo = <<>> /\ Stores(d, Merged(x))
    /\ db' = [db EXCEPT ![d] = stored']
    /\ last' = [mine |-> db[d], theirs |-> stored]

\* A refresh, or the user's RELOAD in the conflict dialog.
Reload(d) ==
    /\ d \in stale
    /\ db' = [db EXCEPT ![d] = stored]
    /\ last' = None
    /\ stale' = stale \ {d}
    /\ dirty' = dirty \ {d}
    /\ UNCHANGED <<stored, used, clock, edit, edits>>

\* An edit of what is there.  A copy that lists an object twice is not edited
\* any more.
EditStep(d) ==
    LET here == Present(db[d]) IN
    /\ edits < MaxEdits
    /\ ~HasDuplicates(db[d])
    /\ \E t \in {clock, clock + 1} \cap edit[d] + 1 .. MaxTime :
        \/ \E e \in here \cap Entries : EditEntry(d, e, t)
        \/ \E g \in here \cap Groups : EditGroup(d, g, t)
        \/ \E e \in Entries, g \in here \cap Groups : CreateEntry(d, e, g, t)
        \/ \E g \in Groups, p \in here \cap Groups : CreateGroup(d, g, p, t)
        \/ \E o \in here, g \in here \cap Groups : Move(d, o, g, t)
        \/ \E o \in here : RemoveItem(d, o, t)
        \/ \E n \in HistoryMax : EditSettings(d, n, t)

Next == \E d \in Device : EditStep(d) \/ Save(d) \/ SaveMerged(d) \/ Reload(d)

CONSTANT First    \* a database to start from
ASSUME FirstAssumption ==
    /\ First \in Db /\ Compact(First) = First /\ ~HasDuplicates(First)
    /\ Root \notin First.dead /\ Revisions(First) \subseteq First.pool

Init ==
    /\ db = [d \in Device |-> First]
    /\ stored = First
    /\ stale = {} /\ dirty = {}
    /\ used = Present(First)
    /\ clock = 0 /\ edit = [d \in Device |-> 0] /\ edits = 0 /\ last = None

Spec == Init /\ [][Next]_vars

----------------------------------------------------------------------------
(* Properties.                                                             *)

\* Every copy is a database; the ids, the clock and the counters are in range.
TypeOK ==
    /\ db \in [Device -> Db] /\ stored \in Db
    /\ stale \subseteq Device /\ dirty \subseteq Device
    /\ used \subseteq Objects
    /\ clock \in Time /\ edit \in [Device -> Time] /\ edits \in 0..MaxEdits
    /\ last = None \/ last \in [mine : Db, theirs : Db]

\* Below a group that the other side does not know.  KdbxGroup.merge() returns
\* at once at such a group, and nothing below it is merged.
Unvisited(m, theirs) ==
    Below(m, Groups \ Present(theirs))

\* The revision is the current one, or in the history, or the history is full
\* of later ones.
Keeps(m, e, stamp) ==
    \/ m.rev[e].at = stamp.at
    \/ \E i \in 1..Len(m.hist[e]) : m.hist[e][i].at = stamp.at
    \/ /\ Len(m.hist[e]) = m.max
       /\ \A i \in 1..m.max : m.hist[e][i].at > stamp.at

NewestIn(mine, theirs, r) ==
    \A o \in (Present(r) \cap Present(mine) \cap Present(theirs)) \ Unvisited(r, theirs) :
       /\ r.rev[o] = IF Earlier(mine.rev[o], theirs.rev[o]) THEN theirs.rev[o] ELSE mine.rev[o]
       /\ o \in Entries =>
             /\ \A stamp \in ToSet(theirs.hist[o]) : Keeps(r, o, stamp)
             /\ theirs.rev[o].at \notin {stamp.at : stamp \in ToSet(mine.hist[o])} =>
                    Keeps(r, o, mine.rev[o]) /\ (HasDuplicates(r) \/ Keeps(r, o, theirs.rev[o]))

\* Of what both sides have, the later revision becomes the current one
\* (KdbxEntry.merge, KdbxGroup.merge).  No revision in the history of the stored
\* file is lost, and when both sides edited an entry, neither edit is.
NewestWins == last # None => NewestIn(last.mine, last.theirs, stored)

\* What a merge finds for a group: what this side keeps there, and what the other
\* side moved there later or created there, but for the dead.
Belongs(mine, theirs, g) ==
    {o \in Held(mine, g) : o \in Present(theirs) => theirs.loc[o] <= mine.loc[o]}
    \cup {o \in Held(theirs, g) : o \in Present(mine) => theirs.loc[o] > mine.loc[o]}

\* The tree of a merge, without an order: what belongs to a group that is met
\* from the root on through groups of both sides; in the others, what this side
\* has there.
Ideal(mine, theirs) ==
    LET dead   == mine.dead \cup theirs.dead
        all    == Present(theirs)
        due    == [g \in Groups |-> IF g \in all THEN Belongs(mine, theirs, g) \ dead ELSE {}]
        common == Closure([g \in Groups |-> due[g] \cap Groups], {Root}) \cap all
    IN  [common |-> common,
         tree   |-> [g \in Groups |-> IF g \in common THEN due[g] ELSE Held(mine, g)]]

TreeIn(mine, theirs, r) ==
    LET ideal == Ideal(mine, theirs)
        here  == Closure([g \in Groups |-> ideal.tree[g] \cap Groups], {Root}) IN
    /\ \A g \in ideal.common : ideal.tree[g] \subseteq Held(r, g) /\ g \in Reached(r, {Root})
    /\ ~HasDuplicates(r) =>
          /\ Reached(r, {Root}) = here
          /\ \A g \in here : Held(r, g) = ideal.tree[g]

\* A merge loses and misplaces nothing: whatever the order of the visits, and
\* although the lists change under them, every group of both sides ends with what
\* is due there, and if no object is listed twice, with no more.
NothingLost == last # None => TreeIn(last.mine, last.theirs, stored)

\* What one side deleted for good does not come back (a 2P-set with tombstones,
\* says mergeCollection), but for what is in a group of this side only.
NoResurrection ==
    last # None => Present(stored) \cap (last.mine.dead \cup last.theirs.dead)
                      \subseteq Unvisited(stored, last.theirs)

DuplicatesIn(mine, theirs, r) ==
    HasDuplicates(r) =>
       \E o \in Present(mine) \cap Present(theirs) :
          /\ theirs.loc[o] > mine.loc[o]
          /\ Earlier(mine.rev[o], theirs.rev[o]) \/ o \in Unvisited(mine, theirs)

\* An object is listed twice after a merge only if the other side moved it, and
\* edited it too, or this side put it into a group of its own.
DuplicatesExplained == last # None => DuplicatesIn(last.mine, last.theirs, stored)

LaterMoveIn(mine, theirs, r) ==
    HasDuplicates(r) \/
    \A o \in (Present(r) \cap Present(mine) \cap Present(theirs)) \ Unvisited(r, theirs) :
       Parents(r, o) = Parents(IF theirs.loc[o] > mine.loc[o] THEN theirs ELSE mine, o)

\* An object that both sides have ends where the later of them put it.
LaterMoveWins == last # None => LaterMoveIn(last.mine, last.theirs, stored)

\* The attachment of a revision is in the pool as long as the revision is in an
\* entry or in a history: no removal of unused binaries takes one in use.
AttachmentsKept ==
    \A m \in {db[d] : d \in Device} \cup {stored} : Revisions(m) \subseteq m.pool

RetryIn(mine, r) ==
    LET x     == Merging(mine, r)
        again == Merged(x)
    IN  MayMerge(mine, r) /\ x.todo = <<>> =>
          /\ again.dead = r.dead
          /\ \A o \in (Present(r) \cap Present(again)) \ Unvisited(again, r) :
                /\ again.rev[o] = r.rev[o]
                /\ o \in Entries => again.hist[o] = r.hist[o]

\* A save that is tried again, for its answer was lost, merges the model with
\* what it has stored itself: no revision and no tombstone changes.
RetryKeeps == last # None => RetryIn(last.mine, stored)

\* "Any unmodified state from past or modifications of current state synced
\* with central upstream will be successfully merged" (kdbx-entry.ts:522): no
\* revision of an entry of this side is lost.
EditsSurvive ==
    last # None =>
    \A e \in (Present(stored) \cap Present(last.mine) \cap Entries) \ Unvisited(stored, last.theirs) :
       \A stamp \in ToSet(last.mine.hist[e]) \cup {last.mine.rev[e]} : Keeps(stored, e, stamp)

\* getObjectMap() of the next merge throws "duplicate" at an entry listed twice
\* (kdbx.ts:713-715): a merge makes none.
NoDuplicates == last # None => ~HasDuplicates(stored)

============================================================================
