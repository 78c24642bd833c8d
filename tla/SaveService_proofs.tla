------------------------- MODULE SaveService_proofs -------------------------
(***************************************************************************)
(* Proofs about SaveService, for every set of databases and every bound:   *)
(* its type invariant, that the saving lock is held by one round at most   *)
(* and agrees with its queue, that it never stays with a round which       *)
(* nobody will release, that a change of credentials that was given up     *)
(* does not stay in the session, and that the session's response opens the *)
(* file a save has been reported for.                                      *)
(***************************************************************************)
EXTENDS SaveService, SequenceTheorems, TLAPS

-----------------------------------------------------------------------------
(* The maps.                                                                *)

(* Setting a key keeps one slot for each key.                               *)
LEMMA SetType ==
  ASSUME NEW map \in Seq(Slots), Distinct(map), NEW slot \in Slots
  PROVE  /\ Set(map, slot) \in Seq(Slots)
         /\ Distinct(Set(map, slot))
         /\ Set(map, slot) # <<>>
<1>1. CASE Has(map, slot.key)
  <2> DEFINE new == [i \in DOMAIN map |-> IF map[i].key = slot.key THEN slot ELSE map[i]]
  <2>1. Set(map, slot) = new
    BY <1>1 DEF Set
  <2>2. DOMAIN map = 1 .. Len(map) /\ Len(map) \in Nat
    OBVIOUS
  <2>3. \A i \in 1 .. Len(map) : new[i] \in Slots
    BY <2>2
  <2>4. new \in Seq(Slots) /\ Len(new) = Len(map)
    BY <2>2, <2>3, IsASeq
  <2>5. \A i \in DOMAIN map : new[i].key = map[i].key
    OBVIOUS
  <2>6. Distinct(new)
    BY <2>5 DEF Distinct
  <2>7. new # <<>>
    BY <1>1, <2>2, <2>4 DEF Has
  <2> QED BY <2>1, <2>4, <2>6, <2>7
<1>2. CASE ~Has(map, slot.key)
  <2> DEFINE new == Append(map, slot)
  <2>1. Set(map, slot) = new
    BY <1>2 DEF Set
  <2>2. new \in Seq(Slots) /\ Len(new) = Len(map) + 1 /\ new[Len(map) + 1] = slot
    OBVIOUS
  <2>3. \A i \in 1 .. Len(map) : new[i] = map[i] /\ new[i].key # slot.key
    BY <1>2 DEF Has
  <2>4. DOMAIN new = 1 .. Len(map) + 1 /\ DOMAIN map = 1 .. Len(map) /\ Len(map) \in Nat
    BY <2>2
  <2>5. Distinct(new)
    BY <2>2, <2>3, <2>4 DEF Distinct
  <2> QED BY <2>1, <2>2, <2>5
<1> QED BY <1>1, <1>2

(* So does taking the first slot out.                                       *)
LEMMA TailType ==
  ASSUME NEW map \in Seq(Slots), Distinct(map), map # <<>>
  PROVE  /\ Head(map) \in Slots
         /\ Tail(map) \in Seq(Slots)
         /\ Distinct(Tail(map))
<1>1. Head(map) \in Slots /\ Tail(map) \in Seq(Slots) /\ Len(Tail(map)) = Len(map) - 1
  OBVIOUS
<1>2. \A i \in 1 .. Len(map) - 1 : Tail(map)[i] = map[i + 1]
  OBVIOUS
<1>3. Distinct(Tail(map))
  BY <1>1, <1>2 DEF Distinct
<1> QED BY <1>1, <1>3

(* A slot that is in a map can be looked up.                                *)
LEMMA AtType ==
  ASSUME NEW map \in Seq(Slots), NEW k, Has(map, k)
  PROVE  /\ At(map, k) \in 1 .. Len(map)
         /\ map[At(map, k)] \in Slots
         /\ map[At(map, k)].key = k
  BY DEF Has, At

(* And taking any slot out.                                                 *)
LEMMA DeleteType ==
  ASSUME NEW map \in Seq(Slots), Distinct(map), NEW k
  PROVE  Delete(map, k) \in Seq(Slots) /\ Distinct(Delete(map, k))
<1>1. CASE ~Has(map, k)
  BY <1>1 DEF Delete
<1>2. CASE Has(map, k)
  <2> DEFINE at == At(map, k)
  <2> DEFINE low == SubSeq(map, 1, at - 1)
  <2> DEFINE high == SubSeq(map, at + 1, Len(map))
  <2>1. at \in 1 .. Len(map) /\ Len(map) \in Nat
    BY <1>2, AtType
  <2>2. Delete(map, k) = low \o high
    BY <1>2 DEF Delete
  <2> HIDE DEF at
  <2>3. /\ low \in Seq(Slots) /\ Len(low) = at - 1
        /\ \A i \in 1 .. at - 1 : low[i] = map[i]
    BY <2>1
  <2>4. /\ high \in Seq(Slots) /\ Len(high) = Len(map) - at
        /\ \A i \in 1 .. Len(map) - at : high[i] = map[at + i]
    BY <2>1
  <2> HIDE DEF low, high
  <2> DEFINE new == low \o high
  <2>5. new \in Seq(Slots) /\ Len(new) = Len(low) + Len(high)
    BY <2>3, <2>4, ConcatProperties
  <2>6. Len(new) = Len(map) - 1
    BY <2>1, <2>3, <2>4, <2>5
  <2>7. \A i \in 1 .. Len(map) - 1 :
           new[i] = IF i < at THEN map[i] ELSE map[i + 1]
    BY <2>1, <2>3, <2>4, <2>6
  <2> HIDE DEF new
  <2>8. \A i, j \in 1 .. Len(map) - 1 : new[i].key = new[j].key => i = j
    <3> SUFFICES ASSUME NEW i \in 1 .. Len(map) - 1, NEW j \in 1 .. Len(map) - 1,
                        new[i].key = new[j].key
                 PROVE  i = j
      OBVIOUS
    <3> DEFINE p == IF i < at THEN i ELSE i + 1
    <3> DEFINE q == IF j < at THEN j ELSE j + 1
    <3>1. p \in 1 .. Len(map) /\ q \in 1 .. Len(map)
      BY <2>1
    <3>2. new[i] = map[p] /\ new[j] = map[q]
      BY <2>7
    <3>3. p = q
      BY <3>1, <3>2 DEF Distinct
    <3> QED BY <3>3, <2>1
  <2>9. Distinct(new)
    BY <2>5, <2>6, <2>8 DEF Distinct
  <2> QED BY <2>2, <2>5, <2>9 DEF new
<1> QED BY <1>1, <1>2

-----------------------------------------------------------------------------
(* Types, group by group.                                                   *)

LockOK ==
  /\ saving \in BOOLEAN
  /\ queue \in Seq(Slots) /\ Distinct(queue)
  /\ tickets \in Nat
  /\ unreleased \subseteq 1 .. tickets
  /\ tasks \subseteq Tasks

WorkerOK ==
  /\ worker \in {0} \cup Isolate
  /\ isolate \in [Isolate -> Isolates]
  /\ faults \in 0 .. MaxFaults

ChallengeOK ==
  /\ dialogOpen \in BOOLEAN
  /\ waiting \in Seq(Slots) /\ Distinct(waiting)
  /\ dialog \subseteq Dialogs /\ \A d, e \in dialog : d = e
  /\ closed \in Seq(Dialogs)

FileOK ==
  /\ applied \subseteq Nat
  /\ fileSeed \in [Key -> Nat]
  /\ seed \in [Key -> Nat]

DialogsOK ==
  /\ conflicts \subseteq [req : Nat, key : Key, pair : Nat]
  /\ reloads \subseteq [req : Nat, key : Key, abandons : BOOLEAN]

CredsOK == creds \in [Key -> Nat]
CallsOK == calls \in Seq(Calls)

(* The type invariant is the sum of the groups.                             *)
LEMMA Groups ==
  TypeOK <=> /\ LockOK /\ WorkerOK /\ ChallengeOK /\ FileOK
             /\ DialogsOK /\ CredsOK /\ CallsOK
  BY DEF TypeOK, LockOK, WorkerOK, ChallengeOK, FileOK, DialogsOK, CredsOK, CallsOK

(* And so is it in the next state.                                          *)
LEMMA GroupsPrimed ==
  TypeOK' <=> /\ LockOK' /\ WorkerOK' /\ ChallengeOK' /\ FileOK'
              /\ DialogsOK' /\ CredsOK' /\ CallsOK'
  BY DEF TypeOK, LockOK, WorkerOK, ChallengeOK, FileOK, DialogsOK, CredsOK, CallsOK

(* A group whose variables stay keeps its types.                            *)
LEMMA GroupsKept ==
  /\ LockOK /\ UNCHANGED lockVars => LockOK'
  /\ WorkerOK /\ UNCHANGED workerVars => WorkerOK'
  /\ ChallengeOK /\ UNCHANGED challengeVars => ChallengeOK'
  /\ FileOK /\ UNCHANGED fileVars => FileOK'
  /\ DialogsOK /\ UNCHANGED dialogVars => DialogsOK'
  /\ CredsOK /\ UNCHANGED creds => CredsOK'
  /\ CallsOK /\ UNCHANGED calls => CallsOK'
  BY DEF LockOK, WorkerOK, ChallengeOK, FileOK, DialogsOK, CredsOK, CallsOK,
         lockVars, workerVars, challengeVars, fileVars, dialogVars, Distinct

(* A round starts as a task.                                                *)
LEMMA StartedType ==
  ASSUME tickets \in Nat, NEW slot \in Slots, NEW cr \in [Key -> Nat]
  PROVE  Started(slot, cr) \in Tasks
  BY DEF Started, Slots, Tasks, Rounds

(* Asking for the lock keeps its types.                                     *)
LEMMA SubmitType ==
  ASSUME LockOK, NEW slot \in Slots, NEW cr \in [Key -> Nat], Submit(slot, cr)
  PROVE  LockOK'
<1>1. CASE saving
  <2>1. Set(queue, slot) \in Seq(Slots) /\ Distinct(Set(queue, slot))
    BY SetType DEF LockOK
  <2>2. queue' \in Seq(Slots) /\ Distinct(queue')
    BY <1>1, <2>1 DEF Submit
  <2> QED BY <1>1, <2>2 DEF Submit, LockOK, Distinct
<1>2. CASE ~saving
  <2>1. Started(slot, cr) \in Tasks
    BY StartedType DEF LockOK
  <2>2. /\ saving' = TRUE /\ tickets' = tickets + 1
        /\ unreleased' = unreleased \cup {tickets + 1}
        /\ tasks' = tasks \cup {Started(slot, cr)}
        /\ queue' = queue
    BY <1>2 DEF Submit
  <2>3. unreleased' \subseteq 1 .. tickets' /\ tickets' \in Nat
    BY <2>2 DEF LockOK
  <2>4. tasks' \subseteq Tasks
    BY <2>1, <2>2 DEF LockOK
  <2> QED BY <2>2, <2>3, <2>4 DEF LockOK, Distinct
<1> QED BY <1>1, <1>2

(* So does releasing it.                                                    *)
LEMMA ReleaseType ==
  ASSUME LockOK, NEW ticket, NEW left \in SUBSET Tasks, NEW cr \in [Key -> Nat],
         Release(ticket, left, cr)
  PROVE  LockOK'
<1>1. CASE ticket \notin unreleased
  BY <1>1 DEF Release, LockOK, Distinct
<1>2. CASE ticket \in unreleased /\ queue = <<>>
  BY <1>2 DEF Release, OnSaveDone, LockOK, Distinct
<1>3. CASE ticket \in unreleased /\ queue # <<>>
  <2>1. Head(queue) \in Slots /\ Tail(queue) \in Seq(Slots) /\ Distinct(Tail(queue))
    BY <1>3, TailType DEF LockOK
  <2>2. Started(Head(queue), cr) \in Tasks
    BY <2>1, StartedType DEF LockOK
  <2>3. /\ queue' = Tail(queue) /\ saving' = TRUE /\ tickets' = tickets + 1
        /\ unreleased' = (unreleased \ {ticket}) \cup {tickets + 1}
        /\ tasks' = left \cup {Started(Head(queue), cr)}
    BY <1>3 DEF Release, OnSaveDone
  <2>4. queue' \in Seq(Slots) /\ Distinct(queue')
    BY <2>1, <2>3
  <2>5. unreleased' \subseteq 1 .. tickets' /\ tickets' \in Nat
    <3>1. tickets \in Nat /\ unreleased \subseteq 1 .. tickets
      BY DEF LockOK
    <3>2. 1 .. tickets \subseteq 1 .. tickets + 1 /\ tickets + 1 \in 1 .. tickets + 1
      BY <3>1
    <3>3. (unreleased \ {ticket}) \cup {tickets + 1} \subseteq 1 .. tickets + 1
      BY <3>1, <3>2
    <3>4. tickets' \in Nat
      BY <2>3, <3>1
    <3> QED BY <2>3, <3>3, <3>4
  <2>6. tasks' \subseteq Tasks
    BY <2>2, <2>3
  <2> QED BY <2>3, <2>4, <2>5, <2>6 DEF LockOK, Distinct
<1> QED BY <1>1, <1>2, <1>3

(* Looking for the next challenge keeps the types of the NFC dialog.        *)
LEMMA OpenSaveChallengeType ==
  ASSUME ChallengeOK, NEW map \in Seq(Slots), Distinct(map), NEW isOpen \in BOOLEAN,
         OpenSaveChallenge(map, isOpen), closed' \in Seq(Dialogs)
  PROVE  ChallengeOK'
<1>1. waiting' = map
  BY DEF OpenSaveChallenge
<1>2. waiting' \in Seq(Slots) /\ Distinct(waiting')
  BY <1>1
<1>3. map # <<>> => [key |-> Head(map).key, stage |-> "opening"] \in Dialogs
  <2>1. map # <<>> => Head(map) \in Slots
    BY TailType
  <2> QED BY <2>1 DEF Dialogs, Slots
<1>4. dialog' \subseteq Dialogs /\ \A d, e \in dialog' : d = e
  BY <1>3 DEF OpenSaveChallenge, ChallengeOK
<1>5. dialogOpen' \in BOOLEAN
  BY DEF OpenSaveChallenge
<1> QED BY <1>2, <1>4, <1>5 DEF ChallengeOK, Distinct

(* Asking for a save keeps the types of both.                               *)
LEMMA SaveForType ==
  ASSUME LockOK, ChallengeOK, NEW slot \in Slots, NEW cr \in [Key -> Nat],
         SaveFor(slot, cr)
  PROVE  LockOK' /\ ChallengeOK'
<1>1. CASE slot.key \in XCKey /\ slot.pair = 0
  <2>1. /\ OpenSaveChallenge(Set(waiting, slot), dialogOpen)
        /\ UNCHANGED <<lockVars, closed>>
    BY <1>1 DEF SaveFor
  <2>2. Set(waiting, slot) \in Seq(Slots) /\ Distinct(Set(waiting, slot))
    BY SetType DEF ChallengeOK
  <2>3. closed' \in Seq(Dialogs) /\ dialogOpen \in BOOLEAN
    BY <2>1 DEF ChallengeOK
  <2>4. ChallengeOK'
    BY <2>1, <2>2, <2>3, OpenSaveChallengeType
  <2> QED BY <2>1, <2>4, GroupsKept
<1>2. CASE ~(slot.key \in XCKey /\ slot.pair = 0)
  <2>1. Submit(slot, cr) /\ UNCHANGED challengeVars
    BY <1>2 DEF SaveFor
  <2> QED BY <2>1, SubmitType, GroupsKept
<1> QED BY <1>1, <1>2

(* The answers of a request only grow.                                      *)
LEMMA TellType ==
  ASSUME CallsOK, NEW req, NEW answer \in Answers, Tell(req, answer)
  PROVE  CallsOK'
<1> DEFINE new == [calls EXCEPT ![req].told = @ \cup {answer}]
<1>1. DOMAIN calls = 1 .. Len(calls) /\ Len(calls) \in Nat
  BY DEF CallsOK
<1>2. \A i \in 1 .. Len(calls) : calls[i] \in Calls
  BY DEF CallsOK
<1>3. \A i \in 1 .. Len(calls) : new[i] \in Calls
  <2> TAKE i \in 1 .. Len(calls)
  <2>1. CASE i = req
    BY <1>1, <1>2, <2>1 DEF Calls
  <2>2. CASE i # req
    BY <1>1, <1>2, <2>2
  <2> QED BY <2>1, <2>2
<1>4. new \in [1 .. Len(calls) -> Calls]
  BY <1>1, <1>3
<1>5. new \in Seq(Calls)
  BY <1>1, <1>4, SeqDef
<1> QED BY <1>5 DEF Tell, CallsOK

(* Credentials are cleared, and the response of a pair is taken over.       *)
LEMMA FieldTypes ==
  ASSUME CredsOK, FileOK, NEW k \in Key, NEW h \in Rounds
  PROVE  Cleared(k) \in [Key -> Nat] /\ SeedOf(h) \in [Key -> Nat]
  BY DEF CredsOK, FileOK, Cleared, SeedOf, Rounds

(* A failing round keeps the types of all it touches.                       *)
LEMMA RoundFailsType ==
  ASSUME LockOK, CredsOK, FileOK, CallsOK, NEW h \in Rounds,
         NEW left \in SUBSET Tasks, RoundFails(h, left)
  PROVE  LockOK' /\ CredsOK' /\ CallsOK'
<1>1. h.key \in Key
  BY DEF Rounds
<1>2. creds' \in [Key -> Nat]
  BY <1>1, FieldTypes DEF RoundFails
<1>3. LockOK'
  BY <1>2, ReleaseType DEF RoundFails
<1>4. CallsOK'
  BY TellType DEF RoundFails, Answers
<1> QED BY <1>2, <1>3, <1>4 DEF CredsOK

-----------------------------------------------------------------------------
(* The type invariant.                                                      *)

(* A task in the worker changes its stage.                                  *)
LEMMA TaskTypes ==
  ASSUME NEW t \in Tasks
  PROVE  /\ t.round \in Rounds
         /\ t.stage \in InWorker => t.on \in Isolate
         /\ \A i \in Isolate : [round |-> t.round, stage |-> "posted", on |-> i] \in Tasks
         /\ t.stage = "posted" => [t EXCEPT !.stage = "stored"] \in Tasks
         /\ t.stage = "posted" => [t EXCEPT !.stage = "merged"] \in Tasks
         /\ \A h \in Rounds : [round |-> h, stage |-> "adopt", on |-> 0] \in Tasks
<1>1. \/ t \in [round : Rounds, stage : {"serialize", "adopt"}, on : {0}]
      \/ t \in [round : Rounds, stage : InWorker, on : Isolate]
  BY DEF Tasks
<1>2. t.round \in Rounds /\ (t.stage \in InWorker => t.on \in Isolate)
  BY <1>1 DEF InWorker
<1>3. t = [round |-> t.round, stage |-> t.stage, on |-> t.on]
  BY <1>1
<1>4. \A i \in Isolate : [round |-> t.round, stage |-> "posted", on |-> i] \in Tasks
  BY <1>2 DEF Tasks, InWorker
<1>5. t.stage = "posted" => t.on \in Isolate
  BY <1>2 DEF InWorker
<1>6. t.stage = "posted" => /\ [round |-> t.round, stage |-> "stored", on |-> t.on] \in Tasks
                            /\ [round |-> t.round, stage |-> "merged", on |-> t.on] \in Tasks
  BY <1>2, <1>5 DEF Tasks, InWorker
<1>7. \A h \in Rounds : [round |-> h, stage |-> "adopt", on |-> 0] \in Tasks
  BY DEF Tasks
<1>9. /\ [t EXCEPT !.stage = "stored"]
            = [round |-> t.round, stage |-> "stored", on |-> t.on]
      /\ [t EXCEPT !.stage = "merged"]
            = [round |-> t.round, stage |-> "merged", on |-> t.on]
  <2>1. CASE t \in [round : Rounds, stage : {"serialize", "adopt"}, on : {0}]
    BY <2>1
  <2>2. CASE t \in [round : Rounds, stage : InWorker, on : Isolate]
    BY <2>2
  <2> QED BY <1>1, <2>1, <2>2
<1> QED BY <1>2, <1>4, <1>6, <1>7, <1>9

(* The handlers of an isolate are rounds.                                   *)
LEMMA HandlerType ==
  ASSUME WorkerOK, NEW i \in Isolate, NEW h \in isolate[i].handler
  PROVE  h \in Rounds
  BY DEF WorkerOK, Isolates

(* The worker a request is posted to exists.                                *)
LEMMA TargetType ==
  ASSUME WorkerOK, worker = 0 => Free # {}
  PROVE  Target \in Isolate
  BY DEF WorkerOK, Target, Free

(* Terminating the worker keeps the types of the isolates.                  *)
LEMMA TerminateType ==
  ASSUME WorkerOK, Terminate
  PROVE  isolate' \in [Isolate -> Isolates]
  BY DEF WorkerOK, Terminate, Isolates, States

(* Initially the types hold.                                                *)
LEMMA TypeInit == Init => TypeOK
<1> SUFFICES ASSUME Init PROVE TypeOK
  OBVIOUS
<1>0. <<>> \in Seq(Slots) /\ <<>> \in Seq(Dialogs) /\ Distinct(<<>>)
  BY EmptySeq DEF Distinct
<1>1. LockOK
  BY <1>0 DEF Init, LockOK
<1>2. WorkerOK
  BY BoundAssumption DEF Init, WorkerOK, Isolates, States
<1>3. ChallengeOK
  BY <1>0 DEF Init, ChallengeOK
<1>4. FileOK /\ DialogsOK /\ CredsOK /\ CallsOK
  BY DEF Init, FileOK, DialogsOK, CredsOK, CallsOK
<1> QED BY <1>1, <1>2, <1>3, <1>4, Groups

(* A request keeps the types.                                               *)
LEMMA RequestType ==
  ASSUME TypeOK, NEW k \in Key,
         SaveDatabase(k) \/ ChangePassword(k)
  PROVE  TypeOK'
<1>1. CallsOK'
  <2>1. \A change \in BOOLEAN : [key |-> k, change |-> change, told |-> {}] \in Calls
    BY DEF Calls
  <2>2. \E change \in BOOLEAN :
           calls' = Append(calls, [key |-> k, change |-> change, told |-> {}])
    BY DEF SaveDatabase, ChangePassword, Request
  <2> QED BY <2>1, <2>2 DEF TypeOK, CallsOK
<1>2. Asked(k) \in Slots
  BY DEF TypeOK, Asked, Slots, Strategies
<1>3. LockOK /\ ChallengeOK /\ creds \in [Key -> Nat]
  BY Groups DEF CredsOK
<1>4. CASE SaveDatabase(k)
  <2>1. SaveFor(Asked(k), creds)
    BY <1>4 DEF SaveDatabase
  <2>2. LockOK' /\ ChallengeOK'
    BY <1>2, <1>3, <2>1, SaveForType
  <2> QED BY <1>1, <1>4, <2>2, Groups, GroupsPrimed, GroupsKept DEF SaveDatabase
<1>5. CASE ChangePassword(k)
  <2>1. SaveFor(Asked(k), creds')
    BY <1>5 DEF ChangePassword
  <2>2. creds' \in [Key -> Nat]
    BY <1>3, <1>5 DEF ChangePassword, TypeOK
  <2>3. LockOK' /\ ChallengeOK'
    BY <1>2, <1>3, <2>1, <2>2, SaveForType
  <2>4. CredsOK'
    BY <2>2 DEF CredsOK
  <2> QED BY <1>1, <1>5, <2>3, <2>4, Groups, GroupsPrimed, GroupsKept DEF ChangePassword
<1> QED BY <1>4, <1>5

(* The main-thread half of a round keeps the types.                         *)
LEMMA RoundType ==
  ASSUME TypeOK, NEW t \in tasks,
         SerializeFails(t) \/ Post(t) \/ PostFails(t)
  PROVE  TypeOK'
<1>1. t \in Tasks /\ t.round \in Rounds
  BY TaskTypes DEF TypeOK
<1>2. tasks \ {t} \in SUBSET Tasks
  BY DEF TypeOK
<1>3. LockOK /\ WorkerOK /\ ChallengeOK /\ FileOK /\ DialogsOK /\ CredsOK /\ CallsOK
  BY Groups
<1>4. CASE SerializeFails(t)
  <2>1. LockOK' /\ CredsOK' /\ CallsOK'
    BY <1>1, <1>2, <1>3, <1>4, RoundFailsType DEF SerializeFails
  <2> QED BY <1>3, <1>4, <2>1, GroupsPrimed, GroupsKept DEF SerializeFails
<1>5. CASE Post(t)
  <2>1. Target \in Isolate
    BY <1>3, <1>5, TargetType DEF Post
  <2>2. [round |-> t.round, stage |-> "posted", on |-> Target] \in Tasks
    BY <1>1, <2>1, TaskTypes
  <2>3. tasks' \subseteq Tasks
    BY <1>2, <1>5, <2>2 DEF Post
  <2>4. LockOK'
    BY <1>3, <1>5, <2>3 DEF Post, LockOK, Distinct
  <2>5. [state |-> "live", handler |-> {t.round}] \in Isolates
    BY <1>1 DEF Isolates, States
  <2>6. WorkerOK'
    BY <1>3, <1>5, <2>1, <2>5 DEF Post, WorkerOK
  <2> QED BY <1>3, <1>5, <2>4, <2>6, GroupsPrimed, GroupsKept DEF Post
<1>6. CASE PostFails(t)
  <2>1. Target \in Isolate
    BY <1>3, <1>6, TargetType DEF PostFails
  <2>2. LockOK' /\ CredsOK' /\ CallsOK'
    BY <1>1, <1>2, <1>3, <1>6, RoundFailsType DEF PostFails
  <2>3. isolate' \in [Isolate -> Isolates]
    BY <1>3, <1>6, <2>1 DEF PostFails, WorkerOK, Isolates, States
  <2>4. faults' \in 0 .. MaxFaults /\ worker' = 0
    BY <1>3, <1>6, BoundAssumption DEF PostFails, WorkerOK
  <2>5. WorkerOK'
    BY <2>3, <2>4 DEF WorkerOK
  <2> QED BY <1>3, <1>6, <2>2, <2>5, GroupsPrimed, GroupsKept DEF PostFails
<1> QED BY <1>4, <1>5, <1>6

(* So does the worker's half, and what its messages do.                     *)
LEMMA WorkType ==
  ASSUME TypeOK, NEW t \in tasks,
         \/ Store(t, "stored") \/ Store(t, "merged")
         \/ DeliverSuccess(t) \/ DeliverMerge(t) \/ DeliverConflict(t) \/ DeliverError(t)
         \/ Adopt(t, "saved") \/ Adopt(t, "error")
  PROVE  TypeOK'
<1>1. t \in Tasks /\ t.round \in Rounds
  BY TaskTypes DEF TypeOK
<1>2. tasks \ {t} \in SUBSET Tasks
  BY DEF TypeOK
<1>3. LockOK /\ WorkerOK /\ ChallengeOK /\ FileOK /\ DialogsOK /\ CredsOK /\ CallsOK
  BY Groups
<1>4. t.stage \in InWorker => \A h \in Handlers(t) : h \in Rounds
  BY <1>1, <1>3, TaskTypes, HandlerType DEF Handlers
<1>5. ASSUME NEW stage \in {"stored", "merged"}, Store(t, stage) PROVE TypeOK'
  <2>1. [t EXCEPT !.stage = stage] \in Tasks
    BY <1>1, <1>5, TaskTypes DEF Store
  <2>2. tasks' \subseteq Tasks
    BY <1>2, <1>5, <2>1 DEF Store
  <2>3. LockOK'
    BY <1>3, <1>5, <2>2 DEF Store, LockOK, Distinct
  <2>4. t.round.pair \in Nat /\ t.round.cred \in Nat
    BY <1>1 DEF Rounds
  <2>5. FileOK'
    BY <1>3, <1>5, <2>4 DEF Store, FileOK
  <2> QED BY <1>3, <1>5, <2>3, <2>5, GroupsPrimed, GroupsKept DEF Store
<1>6. CASE DeliverSuccess(t)
  <2>1. t.stage \in InWorker
    BY <1>6 DEF DeliverSuccess, InWorker
  <2>2. PICK h \in Handlers(t) : /\ seed' = SeedOf(h)
                                 /\ Tell(h.req, "saved")
                                 /\ Release(h.ticket, tasks \ {t}, creds)
    BY <1>6 DEF DeliverSuccess
  <2>3. LockOK'
    BY <1>2, <1>3, <2>2, ReleaseType DEF CredsOK
  <2>4. CallsOK'
    BY <1>3, <2>2, TellType DEF Answers
  <2>5. h \in Rounds /\ h.key \in Key
    BY <1>4, <2>1 DEF Rounds
  <2>6. FileOK'
    BY <1>3, <1>6, <2>2, <2>5, FieldTypes DEF DeliverSuccess, FileOK
  <2> QED BY <1>3, <1>6, <2>3, <2>4, <2>6, GroupsPrimed, GroupsKept DEF DeliverSuccess
<1>7. CASE DeliverMerge(t)
  <2>1. t.stage \in InWorker
    BY <1>7 DEF DeliverMerge, InWorker
  <2>2. PICK h \in Handlers(t) :
           /\ seed' = SeedOf(h)
           /\ tasks' = (tasks \ {t}) \cup {[round |-> h, stage |-> "adopt", on |-> 0]}
    BY <1>7 DEF DeliverMerge
  <2>3. h \in Rounds /\ h.key \in Key
    BY <1>4, <2>1 DEF Rounds
  <2>4. [round |-> h, stage |-> "adopt", on |-> 0] \in Tasks
    BY <1>1, <2>3, TaskTypes
  <2>5. tasks' \subseteq Tasks
    BY <1>2, <2>2, <2>4
  <2>6. LockOK'
    BY <1>3, <1>7, <2>5 DEF DeliverMerge, LockOK, Distinct
  <2>7. FileOK'
    BY <1>3, <1>7, <2>2, <2>3, FieldTypes DEF DeliverMerge, FileOK
  <2> QED BY <1>3, <1>7, <2>6, <2>7, GroupsPrimed, GroupsKept DEF DeliverMerge
<1>8. CASE DeliverConflict(t)
  <2>1. t.stage \in InWorker
    BY <1>8 DEF DeliverConflict, InWorker
  <2>2. PICK h \in Handlers(t) :
           /\ conflicts' = conflicts \cup {[req |-> h.req, key |-> h.key, pair |-> h.pair]}
           /\ Release(h.ticket, tasks \ {t}, creds)
    BY <1>8 DEF DeliverConflict
  <2>3. h \in Rounds
    BY <1>4, <2>1
  <2>4. [req |-> h.req, key |-> h.key, pair |-> h.pair] \in [req : Nat, key : Key, pair : Nat]
    BY <2>3 DEF Rounds
  <2>5. LockOK'
    BY <1>2, <1>3, <2>2, ReleaseType DEF CredsOK
  <2>6. DialogsOK'
    BY <1>3, <1>8, <2>2, <2>4 DEF DeliverConflict, DialogsOK
  <2> QED BY <1>3, <1>8, <2>5, <2>6, GroupsPrimed, GroupsKept DEF DeliverConflict
<1>9. CASE DeliverError(t)
  <2>1. PICK h \in Handlers(t) : RoundFails(h, tasks \ {t})
    BY <1>9 DEF DeliverError
  <2>2. h \in Rounds
    BY <1>4, <1>9 DEF DeliverError
  <2>3. LockOK' /\ CredsOK' /\ CallsOK'
    BY <1>2, <1>3, <2>1, <2>2, RoundFailsType
  <2> QED BY <1>3, <1>9, <2>3, GroupsPrimed, GroupsKept DEF DeliverError
<1>10. ASSUME NEW answer \in {"saved", "error"}, Adopt(t, answer) PROVE TypeOK'
  <2>1. LockOK'
    BY <1>2, <1>3, <1>10, ReleaseType DEF Adopt, CredsOK
  <2>2. CallsOK'
    BY <1>3, <1>10, TellType DEF Adopt, Answers
  <2> QED BY <1>3, <1>10, <2>1, <2>2, GroupsPrimed, GroupsKept DEF Adopt
<1> QED BY <1>5, <1>6, <1>7, <1>8, <1>9, <1>10

(* So does the end of a worker.                                             *)
LEMMA WorkerEndType ==
  ASSUME TypeOK,
         StopWorker \/ \E i \in Isolate : WorkerError(i) \/ OnExit(i)
  PROVE  TypeOK'
<1>1. LockOK /\ WorkerOK /\ ChallengeOK /\ FileOK /\ DialogsOK /\ CredsOK /\ CallsOK
  BY Groups
<1>2. tasks \ Dead \in SUBSET Tasks /\ tasks \in SUBSET Tasks
  BY <1>1 DEF LockOK
<1>3. CASE StopWorker
  <2>1. LockOK'
    BY <1>1, <1>2, <1>3 DEF StopWorker, LockOK, Distinct
  <2>2. isolate' \in [Isolate -> Isolates]
    BY <1>1, <1>3, TerminateType DEF StopWorker
  <2>3. faults' \in 0 .. MaxFaults /\ worker' = 0
    BY <1>1, <1>3, BoundAssumption DEF StopWorker, WorkerOK
  <2> QED BY <1>1, <1>3, <2>1, <2>2, <2>3, GroupsPrimed, GroupsKept DEF StopWorker, WorkerOK
<1>4. ASSUME NEW i \in Isolate, WorkerError(i) PROVE TypeOK'
  <2>1. PICK h \in isolate[i].handler : RoundFails(h, tasks \ Dead)
    BY <1>4 DEF WorkerError
  <2>2. LockOK' /\ CredsOK' /\ CallsOK'
    BY <1>1, <1>2, <2>1, HandlerType, RoundFailsType
  <2>3. isolate' \in [Isolate -> Isolates]
    BY <1>1, <1>4, TerminateType DEF WorkerError
  <2>4. faults' \in 0 .. MaxFaults /\ worker' = 0
    BY <1>1, <1>4, BoundAssumption DEF WorkerError, WorkerOK
  <2>5. WorkerOK'
    BY <2>3, <2>4 DEF WorkerOK
  <2> QED BY <1>1, <1>4, <2>2, <2>5, GroupsPrimed, GroupsKept DEF WorkerError
<1>5. ASSUME NEW i \in Isolate, OnExit(i) PROVE TypeOK'
  <2>1. PICK h \in isolate[i].handler : /\ creds' = Cleared(h.key)
                                        /\ Release(h.ticket, tasks, creds')
    BY <1>5 DEF OnExit
  <2>2. h.key \in Key
    BY <1>1, HandlerType DEF Rounds
  <2>3. creds' \in [Key -> Nat]
    BY <1>1, <2>1, <2>2 DEF Cleared, CredsOK
  <2>4. LockOK'
    BY <1>1, <1>2, <2>1, <2>3, ReleaseType
  <2>5. [state |-> "none", handler |-> {}] \in Isolates
    BY DEF Isolates, States
  <2>6. WorkerOK'
    BY <1>1, <1>5, <2>5 DEF OnExit, WorkerOK
  <2>7. CredsOK'
    BY <2>3 DEF CredsOK
  <2> QED BY <1>1, <1>5, <2>4, <2>6, <2>7, GroupsPrimed, GroupsKept DEF OnExit
<1> QED BY <1>3, <1>4, <1>5

(* So does an answer to a conflict dialog, and a reload.                    *)
LEMMA ConflictType ==
  ASSUME TypeOK,
         \/ \E c \in conflicts : \/ AnswerSave(c, "MERGE") \/ AnswerSave(c, "OVERWRITE")
                                 \/ AnswerReload(c) \/ Dismiss(c)
         \/ \E l \in reloads : ReloadDone(l) \/ ReloadFails(l)
  PROVE  TypeOK'
<1>1. LockOK /\ WorkerOK /\ ChallengeOK /\ FileOK /\ DialogsOK /\ CredsOK /\ CallsOK
  BY Groups
<1>2. \A c \in conflicts : c.req \in Nat /\ c.key \in Key /\ c.pair \in Nat
  BY <1>1 DEF DialogsOK
<1>3. ASSUME NEW c \in conflicts, NEW s \in {"MERGE", "OVERWRITE"}, AnswerSave(c, s)
      PROVE  TypeOK'
  <2>1. [req |-> c.req, key |-> c.key, strategy |-> s, pair |-> c.pair] \in Slots
    BY <1>2 DEF Slots, Strategies
  <2>2. LockOK' /\ ChallengeOK'
    BY <1>1, <1>3, <2>1, SaveForType DEF AnswerSave, CredsOK
  <2>3. DialogsOK'
    BY <1>1, <1>3 DEF AnswerSave, DialogsOK
  <2> QED BY <1>1, <1>3, <2>2, <2>3, GroupsPrimed, GroupsKept DEF AnswerSave
<1>4. ASSUME NEW c \in conflicts, AnswerReload(c) PROVE TypeOK'
  <2>1. [req |-> c.req, key |-> c.key, abandons |-> creds[c.key] # 0]
          \in [req : Nat, key : Key, abandons : BOOLEAN]
    BY <1>2
  <2>2. DialogsOK'
    BY <1>1, <1>4, <2>1 DEF AnswerReload, DialogsOK
  <2>3. CredsOK'
    BY <1>1, <1>2, <1>4 DEF AnswerReload, Cleared, CredsOK
  <2> QED BY <1>1, <1>4, <2>2, <2>3, GroupsPrimed, GroupsKept DEF AnswerReload
<1>5. ASSUME NEW c \in conflicts, Dismiss(c) PROVE TypeOK'
  <2>1. DialogsOK'
    BY <1>1, <1>5 DEF Dismiss, DialogsOK
  <2>2. CredsOK'
    BY <1>1, <1>2, <1>5 DEF Dismiss, Cleared, CredsOK
  <2> QED BY <1>1, <1>5, <2>1, <2>2, GroupsPrimed, GroupsKept DEF Dismiss
<1>6. ASSUME NEW l \in reloads, ReloadDone(l) \/ ReloadFails(l) PROVE TypeOK'
  <2>1. \E answer \in Answers : Tell(l.req, answer)
    BY <1>6 DEF ReloadDone, ReloadFails, Answers
  <2>2. CallsOK'
    BY <1>1, <2>1, TellType
  <2>3. DialogsOK'
    BY <1>1, <1>6 DEF ReloadDone, ReloadFails, DialogsOK
  <2> QED BY <1>1, <1>6, <2>2, <2>3, GroupsPrimed, GroupsKept DEF ReloadDone, ReloadFails
<1> QED BY <1>3, <1>4, <1>5, <1>6

(* A challenge given up clears the fields of its database.                  *)
LEMMA GiveUpType ==
  ASSUME ChallengeOK, CredsOK, CallsOK, NEW k \in Key, GiveUp(k)
  PROVE  CredsOK' /\ CallsOK'
<1>1. CASE Has(waiting, k)
  <2>1. creds' = Cleared(k) /\ Tell(waiting[At(waiting, k)].req, "error")
    BY <1>1 DEF GiveUp
  <2>2. CallsOK'
    BY <2>1, TellType DEF Answers
  <2> QED BY <2>1, <2>2 DEF CredsOK, Cleared
<1>2. CASE ~Has(waiting, k)
  BY <1>2, GroupsKept DEF GiveUp
<1> QED BY <1>1, <1>2

(* So does every step of the NFC dialog.                                    *)
LEMMA DialogType == ASSUME TypeOK, Dialog PROVE TypeOK'
<1>1. LockOK /\ WorkerOK /\ ChallengeOK /\ FileOK /\ DialogsOK /\ CredsOK /\ CallsOK
  BY Groups
<1>2. \A d \in dialog : d \in Dialogs /\ d.key \in Key
  BY <1>1 DEF ChallengeOK, Dialogs
<1>3. \A d \in dialog : \A s \in {"opening", "open", "response", "cancel"} :
         [d EXCEPT !.stage = s] \in Dialogs
  BY <1>2 DEF Dialogs
<1>4. ASSUME NEW s \in {"open", "response", "cancel"},
             \E d \in dialog : dialog' = {[d EXCEPT !.stage = s]},
             dialogOpen' \in BOOLEAN, UNCHANGED <<waiting, closed>>
      PROVE  ChallengeOK'
  <2>1. dialog' \subseteq Dialogs /\ \A d, e \in dialog' : d = e
    BY <1>3, <1>4
  <2> QED BY <1>1, <1>4, <2>1 DEF ChallengeOK, Distinct
<1>5. CASE DialogOpens
  <2>1. ChallengeOK'
    BY <1>1, <1>4, <1>5 DEF DialogOpens, ChallengeOK
  <2> QED BY <1>1, <1>5, <2>1, GroupsPrimed, GroupsKept DEF DialogOpens
<1>6. ASSUME NEW s \in {"response", "cancel"}, Answer(s) PROVE TypeOK'
  <2>1. ChallengeOK'
    BY <1>4, <1>6 DEF Answer
  <2> QED BY <1>1, <1>6, <2>1, GroupsPrimed, GroupsKept DEF Answer
<1>7. CASE OpenFails
  <2>1. PICK d \in dialog : GiveUp(d.key) /\ waiting' = Delete(waiting, d.key)
    BY <1>7 DEF OpenFails
  <2>2. CredsOK' /\ CallsOK'
    BY <1>1, <1>2, <2>1, GiveUpType
  <2>3. Delete(waiting, d.key) \in Seq(Slots) /\ Distinct(Delete(waiting, d.key))
    BY <1>1, DeleteType DEF ChallengeOK
  <2>4. waiting' \in Seq(Slots) /\ Distinct(waiting')
    BY <2>1, <2>3
  <2>5. ChallengeOK'
    BY <1>1, <1>7, <2>4 DEF OpenFails, ChallengeOK
  <2> QED BY <1>1, <1>7, <2>2, <2>5, GroupsPrimed, GroupsKept DEF OpenFails
<1>8. CASE DialogCloses
  <2>1. PICK d \in dialog : closed' = Append(closed, d)
    BY <1>8 DEF DialogCloses
  <2>2. closed' \in Seq(Dialogs)
    BY <1>1, <1>2, <2>1 DEF ChallengeOK
  <2>3. ChallengeOK'
    BY <1>1, <1>8, <2>2 DEF DialogCloses, ChallengeOK, Distinct
  <2> QED BY <1>1, <1>8, <2>3, GroupsPrimed, GroupsKept DEF DialogCloses
<1>9. ASSUME closed # <<>>
      PROVE  Head(closed).key \in Key /\ Tail(closed) \in Seq(Dialogs)
  <2>1. Head(closed) \in Dialogs /\ Tail(closed) \in Seq(Dialogs)
    BY <1>1, <1>9 DEF ChallengeOK
  <2> QED BY <2>1 DEF Dialogs
<1>10. CASE AfterResponse
  <2> DEFINE k == Head(closed).key
  <2>1. k \in Key /\ closed' \in Seq(Dialogs)
    BY <1>9, <1>10 DEF AfterResponse
  <2>2. Delete(waiting, k) \in Seq(Slots) /\ Distinct(Delete(waiting, k))
    BY <1>1, DeleteType DEF ChallengeOK
  <2>3. ChallengeOK'
    <3>1. OpenSaveChallenge(Delete(waiting, k), dialogOpen) /\ dialogOpen \in BOOLEAN
      BY <1>1, <1>10 DEF AfterResponse, ChallengeOK
    <3> HIDE DEF k
    <3> QED BY <1>1, <2>1, <2>2, <3>1, OpenSaveChallengeType
  <2>4. LockOK'
    <3>1. CASE Has(waiting, k)
      <4> DEFINE slot == waiting[At(waiting, k)]
      <4>1. slot \in Slots
        BY <1>1, <3>1, AtType DEF ChallengeOK
      <4>2. Submit([slot EXCEPT !.pair = slot.req], creds)
        BY <1>10, <3>1 DEF AfterResponse
      <4> HIDE DEF slot
      <4>3. [slot EXCEPT !.pair = slot.req] \in Slots
        BY <4>1 DEF Slots
      <4> QED BY <1>1, <4>2, <4>3, SubmitType DEF CredsOK
    <3>2. CASE ~Has(waiting, k)
      BY <1>1, <1>10, <3>2, GroupsKept DEF AfterResponse
    <3> QED BY <3>1, <3>2
  <2> QED BY <1>1, <1>10, <2>3, <2>4, GroupsPrimed, GroupsKept DEF AfterResponse
<1>11. CASE AfterCancel
  <2> DEFINE k == Head(closed).key
  <2>1. k \in Key /\ closed' \in Seq(Dialogs)
    BY <1>9, <1>11 DEF AfterCancel
  <2>2. Delete(waiting, k) \in Seq(Slots) /\ Distinct(Delete(waiting, k))
    BY <1>1, DeleteType DEF ChallengeOK
  <2>3. /\ OpenSaveChallenge(Delete(waiting, k), dialogOpen) /\ dialogOpen \in BOOLEAN
        /\ GiveUp(k)
    BY <1>1, <1>11 DEF AfterCancel, ChallengeOK
  <2> HIDE DEF k
  <2>4. ChallengeOK'
    BY <1>1, <2>1, <2>2, <2>3, OpenSaveChallengeType
  <2>5. CredsOK' /\ CallsOK'
    BY <1>1, <2>1, <2>3, GiveUpType
  <2> QED BY <1>1, <1>11, <2>4, <2>5, GroupsPrimed, GroupsKept DEF AfterCancel
<1> QED BY <1>5, <1>6, <1>7, <1>8, <1>10, <1>11 DEF Dialog

(* Every step keeps the types.                                              *)
LEMMA TypeStep == TypeOK /\ [Next]_vars => TypeOK'
<1> SUFFICES ASSUME TypeOK, [Next]_vars PROVE TypeOK'
  OBVIOUS
<1>1. ASSUME NEW k \in Key, SaveDatabase(k) \/ ChangePassword(k) PROVE TypeOK'
  BY <1>1, RequestType
<1>2. ASSUME NEW t \in tasks, Step(t) PROVE TypeOK'
  BY <1>2, RoundType, WorkType DEF Step
<1>3. CASE StopWorker \/ \E i \in Isolate : WorkerError(i) \/ OnExit(i)
  BY <1>3, WorkerEndType
<1>4. CASE \/ \E c \in conflicts : \/ AnswerSave(c, "MERGE") \/ AnswerSave(c, "OVERWRITE")
                                    \/ AnswerReload(c) \/ Dismiss(c)
           \/ \E l \in reloads : ReloadDone(l) \/ ReloadFails(l)
  BY <1>4, ConflictType
<1>5. CASE Dialog
  BY <1>5, DialogType
<1>6. CASE UNCHANGED vars
  BY <1>6, Groups, GroupsPrimed, GroupsKept DEF vars
<1> QED BY <1>1, <1>2, <1>3, <1>4, <1>5, <1>6 DEF Next

(* The state of KdbxSaveService keeps its shape: one slot for each database *)
(* in pendingSaves and pendingChallenges, one NFC dialog at most.           *)
THEOREM TypeCorrect == Spec => []TypeOK
  BY TypeInit, TypeStep, PTL DEF Spec

-----------------------------------------------------------------------------
(* The lock.  The invariant is stated of the rounds U that hold it, the     *)
(* tasks T, the number n of rounds started, the isolates I and the worker   *)
(* w, so that it can be asked of the state between the release of one round *)
(* and the start of the next.                                               *)

(* HolderLives                                                              *)
Held(U, T, I) ==
  \A m \in U :
     \/ \E t \in T : t.round.ticket = m
     \/ \E i \in Isolate : /\ I[i].state = "exiting"
                           /\ \E h \in I[i].handler : h.ticket = m

(* A round is one task, and rounds to come have other tickets.              *)
Unique(T) == \A s, t \in T : s.round.ticket = t.round.ticket => s = t
Known(T, n, I) ==
  /\ \A t \in T : t.round.ticket =< n
  /\ \A i \in Isolate : \A h \in I[i].handler : h.ticket =< n

(* The isolate a round was posted to lives and has its handlers, and only   *)
(* this one has.                                                            *)
OneHandler(I) == \A i \in Isolate : \A g, h \in I[i].handler : g = h
AtHome(T, I) ==
  \A t \in T : t.stage \in InWorker =>
                 I[t.on].state = "live" /\ I[t.on].handler = {t.round}
Bound(T, I) ==
  \A i \in Isolate : \A h \in I[i].handler : \A t \in T :
     h.ticket = t.round.ticket =>
        t.stage # "serialize" /\ (t.stage \in InWorker => t.on = i)

(* What is being serialised, or runs in the current worker, has the lock.   *)
Locked(U, T, w) ==
  \A t \in T :
     t.stage = "serialize" \/ (t.stage \in InWorker /\ t.on = w)
        => t.round.ticket \in U

Alive(I, w) == w # 0 => I[w].state = "live"

Sound(U, T, n, I, w) ==
  /\ Held(U, T, I) /\ Unique(T) /\ Known(T, n, I) /\ OneHandler(I)
  /\ AtHome(T, I) /\ Bound(T, I) /\ Locked(U, T, w) /\ Alive(I, w)

IInv ==
  /\ SingleFlight
  /\ Sound(unreleased, tasks, tickets, isolate, worker)

(* A round that starts keeps it.                                            *)
LEMMA StartSound ==
  ASSUME NEW U, NEW T \in SUBSET Tasks, NEW n \in Nat, NEW I, NEW w,
         \A i \in Isolate : I[i].handler \subseteq Rounds,
         Sound(U, T, n, I, w),
         NEW s \in Tasks, s.stage = "serialize", s.round.ticket = n + 1
  PROVE  Sound(U \cup {n + 1}, T \cup {s}, n + 1, I, w)
<1>1. \A t \in T : t.round.ticket \in Nat /\ t.round.ticket =< n
  BY TaskTypes DEF Sound, Known, Rounds
<1>2. \A i \in Isolate : \A h \in I[i].handler : h.ticket \in Nat /\ h.ticket =< n
  BY DEF Sound, Known, Rounds
<1>3. s.stage \notin InWorker
  BY DEF InWorker
<1>4. Held(U \cup {n + 1}, T \cup {s}, I)
  BY DEF Sound, Held
<1>5. Unique(T \cup {s})
  BY <1>1 DEF Sound, Unique
<1>6. Known(T \cup {s}, n + 1, I)
  BY <1>1, <1>2 DEF Known
<1>7. OneHandler(I) /\ Alive(I, w)
  BY DEF Sound
<1>8. AtHome(T \cup {s}, I)
  BY <1>3 DEF Sound, AtHome
<1>9. Bound(T \cup {s}, I)
  BY <1>2 DEF Sound, Bound
<1>10. Locked(U \cup {n + 1}, T \cup {s}, w)
  BY DEF Sound, Locked
<1> QED BY <1>4, <1>5, <1>6, <1>7, <1>8, <1>9, <1>10 DEF Sound

(* Asking for the lock keeps the invariant.                                 *)
LEMMA SubmitInv ==
  ASSUME TypeOK, IInv, NEW slot \in Slots, NEW cr \in [Key -> Nat],
         Submit(slot, cr), UNCHANGED <<isolate, worker>>
  PROVE  IInv'
<1>1. CASE saving
  <2>1. queue' # <<>> => saving'
    BY <1>1 DEF Submit
  <2> QED BY <1>1, <2>1 DEF Submit, IInv, SingleFlight, Sound, Held, Unique, Known,
             OneHandler, AtHome, Bound, Locked, Alive
<1>2. CASE ~saving
  <2>1. /\ saving' = TRUE /\ tickets' = tickets + 1 /\ queue' = queue
        /\ unreleased' = unreleased \cup {tickets + 1}
        /\ tasks' = tasks \cup {Started(slot, cr)}
    BY <1>2 DEF Submit
  <2>2. unreleased = {}
    BY <1>2 DEF IInv, SingleFlight
  <2>3. SingleFlight'
    BY <2>1, <2>2 DEF SingleFlight
  <2>4. /\ Started(slot, cr) \in Tasks
        /\ Started(slot, cr).stage = "serialize"
        /\ Started(slot, cr).round.ticket = tickets + 1
    BY StartedType DEF TypeOK, Started
  <2>5. \A i \in Isolate : isolate[i].handler \subseteq Rounds
    BY HandlerType, Groups
  <2>6. Sound(unreleased \cup {tickets + 1}, tasks \cup {Started(slot, cr)},
              tickets + 1, isolate, worker)
    BY <2>4, <2>5, StartSound DEF IInv, TypeOK
  <2>7. Sound(unreleased', tasks', tickets', isolate', worker')
    BY <2>1, <2>6
  <2> QED BY <2>3, <2>7 DEF IInv
<1> QED BY <1>1, <1>2

(* Releasing it does, if what is left of the others is sound.               *)
LEMMA ReleaseInv ==
  ASSUME TypeOK, TypeOK', SingleFlight, NEW ticket, NEW left \in SUBSET Tasks,
         NEW cr \in [Key -> Nat], Release(ticket, left, cr),
         Sound(unreleased \ {ticket}, left, tickets, isolate', worker')
  PROVE  IInv'
<1>1. CASE ticket \notin unreleased
  <2>1. /\ tasks' = left /\ unreleased' = unreleased /\ tickets' = tickets
        /\ saving' = saving /\ queue' = queue
    BY <1>1 DEF Release
  <2>2. unreleased \ {ticket} = unreleased
    BY <1>1
  <2>3. Sound(unreleased', tasks', tickets', isolate', worker')
    BY <2>1, <2>2
  <2>4. SingleFlight'
    BY <2>1 DEF SingleFlight
  <2> QED BY <2>3, <2>4 DEF IInv
<1>2. CASE ticket \in unreleased /\ queue = <<>>
  <2>1. /\ tasks' = left /\ unreleased' = unreleased \ {ticket} /\ tickets' = tickets
        /\ saving' = FALSE /\ queue' = queue
    BY <1>2 DEF Release, OnSaveDone
  <2>2. unreleased' = {}
    BY <1>2, <2>1 DEF SingleFlight
  <2>3. Sound(unreleased', tasks', tickets', isolate', worker')
    BY <2>1
  <2>4. SingleFlight'
    BY <1>2, <2>1, <2>2 DEF SingleFlight
  <2> QED BY <2>3, <2>4 DEF IInv
<1>3. CASE ticket \in unreleased /\ queue # <<>>
  <2> DEFINE s == Started(Head(queue), cr)
  <2>1. /\ tasks' = left \cup {s}
        /\ unreleased' = (unreleased \ {ticket}) \cup {tickets + 1}
        /\ tickets' = tickets + 1 /\ saving' = TRUE
    BY <1>3 DEF Release, OnSaveDone
  <2>2. unreleased \ {ticket} = {}
    BY <1>3 DEF SingleFlight
  <2>3. Head(queue) \in Slots
    BY <1>3, TailType DEF TypeOK
  <2>4. s \in Tasks /\ s.stage = "serialize" /\ s.round.ticket = tickets + 1
    BY <2>3, StartedType DEF TypeOK, Started
  <2>5. \A i \in Isolate : isolate'[i].handler \subseteq Rounds
    BY DEF TypeOK, Isolates
  <2>6. Sound((unreleased \ {ticket}) \cup {tickets + 1}, left \cup {s}, tickets + 1,
              isolate', worker')
    <3> HIDE DEF s
    <3> QED BY <2>4, <2>5, StartSound DEF TypeOK
  <2>7. Sound(unreleased', tasks', tickets', isolate', worker')
    BY <2>1, <2>6
  <2>8. SingleFlight'
    BY <2>1, <2>2 DEF SingleFlight
  <2> QED BY <2>7, <2>8 DEF IInv
<1> QED BY <1>1, <1>2, <1>3

(* Without a task, and with its lock, a round leaves the others sound.      *)
LEMMA LeaveSound ==
  ASSUME TypeOK, IInv, NEW t \in tasks
  PROVE  Sound(unreleased \ {t.round.ticket}, tasks \ {t}, tickets, isolate, worker)
<1>1. \A s \in tasks \ {t} : s.round.ticket # t.round.ticket
  BY DEF IInv, Sound, Unique
<1>2. Held(unreleased \ {t.round.ticket}, tasks \ {t}, isolate)
  BY DEF IInv, Sound, Held
<1>3. Locked(unreleased \ {t.round.ticket}, tasks \ {t}, worker)
  BY <1>1 DEF IInv, Sound, Locked
<1> QED BY <1>2, <1>3 DEF IInv, Sound, Unique, Known, AtHome, Bound

(* The handlers a message reaches are those of the round it answers.        *)
LEMMA OwnHandler ==
  ASSUME TypeOK, IInv, NEW t \in tasks, t.stage \in InWorker
  PROVE  Handlers(t) = {t.round}
  BY DEF Handlers, IInv, Sound, AtHome

(* An isolate that can be posted to is not on its way out, and runs nothing *)
(* when no round holds the lock but the one that posts.                     *)
LEMMA TargetState ==
  ASSUME TypeOK, IInv, worker = 0 => Free # {}
  PROVE  /\ Target \in Isolate
         /\ isolate[Target].state \in {"none", "live"}
         /\ \A s, t \in tasks : t.stage = "serialize" /\ s.stage \in InWorker => s.on # Target
<1>1. Target \in Isolate
  BY TargetType, Groups
<1>2. CASE worker = 0
  <2>1. isolate[Target].state = "none"
    BY <1>2 DEF Target, Free
  <2> QED BY <1>1, <2>1 DEF IInv, Sound, AtHome
<1>3. CASE worker # 0
  <2>1. Target = worker /\ isolate[Target].state = "live"
    BY <1>3 DEF Target, IInv, Sound, Alive
  <2>2. ASSUME NEW s \in tasks, NEW t \in tasks, t.stage = "serialize",
               s.stage \in InWorker, s.on = Target
        PROVE  FALSE
    <3>1. s.round.ticket \in unreleased /\ t.round.ticket \in unreleased
      BY <2>1, <2>2 DEF IInv, Sound, Locked
    <3>2. s.round.ticket = t.round.ticket
      BY <3>1 DEF IInv, SingleFlight
    <3>3. s = t
      BY <3>2 DEF IInv, Sound, Unique
    <3> QED BY <2>2, <3>3 DEF InWorker
  <2> QED BY <1>1, <2>1, <2>2
<1> QED BY <1>2, <1>3

(* The main-thread half of a round keeps the invariant.                     *)
LEMMA RoundInv ==
  ASSUME TypeOK, TypeOK', IInv, NEW t \in tasks,
         SerializeFails(t) \/ Post(t) \/ PostFails(t)
  PROVE  IInv'
<1>1. /\ t.round \in Rounds /\ t \in Tasks
      /\ tasks \ {t} \in SUBSET Tasks /\ creds' \in [Key -> Nat]
  BY TaskTypes DEF TypeOK
<1>2. SingleFlight
  BY DEF IInv
<1>3. CASE SerializeFails(t)
  <2>1. Release(t.round.ticket, tasks \ {t}, creds') /\ isolate' = isolate /\ worker' = worker
    BY <1>3 DEF SerializeFails, RoundFails, workerVars
  <2>2. Sound(unreleased \ {t.round.ticket}, tasks \ {t}, tickets, isolate', worker')
    BY <2>1, LeaveSound
  <2> QED BY <1>1, <1>2, <2>1, <2>2, ReleaseInv
<1>4. CASE PostFails(t)
  <2>1. Release(t.round.ticket, tasks \ {t}, creds')
    BY <1>4 DEF PostFails, RoundFails
  <2>2. /\ Target \in Isolate /\ isolate[Target].state \in {"none", "live"}
        /\ isolate' = [isolate EXCEPT ![Target].state = "live"] /\ worker' = 0
    BY <1>4, TargetState DEF PostFails
  <2>3. Sound(unreleased \ {t.round.ticket}, tasks \ {t}, tickets, isolate, worker)
    BY LeaveSound
  <2>4. /\ \A i \in Isolate : isolate'[i].handler = isolate[i].handler
        /\ \A i \in Isolate : isolate[i].state = "exiting" => isolate'[i].state = "exiting"
        /\ \A i \in Isolate : isolate[i].state = "live" => isolate'[i].state = "live"
    BY <2>2 DEF TypeOK, Isolates
  <2>5. \A s \in tasks : s.stage \in InWorker => s.on \in Isolate /\ s.on # 0
    <3>1. \A s \in tasks : s.stage \in InWorker => s.on \in Isolate
      BY TaskTypes DEF TypeOK
    <3>2. \A i \in Isolate : i # 0
      BY BoundAssumption DEF Isolate
    <3> QED BY <3>1, <3>2
  <2>6. Held(unreleased \ {t.round.ticket}, tasks \ {t}, isolate')
    BY <2>3, <2>4 DEF Sound, Held
  <2>7. Known(tasks \ {t}, tickets, isolate') /\ OneHandler(isolate')
    BY <2>3, <2>4 DEF Sound, Known, OneHandler
  <2>8. AtHome(tasks \ {t}, isolate') /\ Bound(tasks \ {t}, isolate')
    BY <2>3, <2>4, <2>5 DEF Sound, AtHome, Bound
  <2>9. Locked(unreleased \ {t.round.ticket}, tasks \ {t}, 0) /\ Alive(isolate', 0)
    BY <2>3, <2>5 DEF Sound, Locked, Alive
  <2>10. Sound(unreleased \ {t.round.ticket}, tasks \ {t}, tickets, isolate', worker')
    BY <2>2, <2>3, <2>6, <2>7, <2>8, <2>9 DEF Sound
  <2> QED BY <1>1, <1>2, <2>1, <2>10, ReleaseInv
<1>5. CASE Post(t)
  <2> DEFINE s == [round |-> t.round, stage |-> "posted", on |-> Target]
  <2>1. /\ t.stage = "serialize" /\ worker' = Target
        /\ isolate' = [isolate EXCEPT ![Target] = [state |-> "live", handler |-> {t.round}]]
        /\ tasks' = (tasks \ {t}) \cup {s}
        /\ unreleased' = unreleased /\ tickets' = tickets
        /\ saving' = saving /\ queue' = queue
    BY <1>5 DEF Post
  <2>2. /\ Target \in Isolate /\ isolate[Target].state \in {"none", "live"}
        /\ \A u \in tasks : u.stage \in InWorker => u.on # Target
    BY <1>5, <2>1, TargetState DEF Post
  <2>3. /\ isolate'[Target].state = "live" /\ isolate'[Target].handler = {t.round}
        /\ \A i \in Isolate : i # Target => isolate'[i] = isolate[i]
    BY <2>1, <2>2 DEF TypeOK
  <2>4. s.round = t.round /\ s.stage = "posted" /\ s.on = Target /\ s.stage \in InWorker
    BY DEF InWorker
  <2> HIDE DEF s
  <2>5. \A u \in tasks : u.stage \in InWorker => u.on \in Isolate
    BY TaskTypes DEF TypeOK
  <2>6. \A u \in tasks \ {t} : u.round.ticket # t.round.ticket
    BY DEF IInv, Sound, Unique
  <2>7. \A i \in Isolate : \A h \in isolate[i].handler : h.ticket # t.round.ticket
    BY <2>1 DEF IInv, Sound, Bound
  <2>8. t.round.ticket \in unreleased
    BY <2>1 DEF IInv, Sound, Locked
  <2>9. Held(unreleased, tasks', isolate')
    BY <2>1, <2>2, <2>3, <2>4 DEF IInv, Sound, Held
  <2>10. Unique(tasks')
    BY <2>1, <2>4, <2>6 DEF IInv, Sound, Unique
  <2>11. Known(tasks', tickets, isolate') /\ OneHandler(isolate')
    BY <2>1, <2>3, <2>4 DEF IInv, Sound, Known, OneHandler
  <2>12. AtHome(tasks', isolate')
    BY <2>1, <2>2, <2>3, <2>4, <2>5 DEF IInv, Sound, AtHome
  <2>13. Bound(tasks', isolate')
    BY <2>1, <2>2, <2>3, <2>4, <2>6, <2>7 DEF IInv, Sound, Bound
  <2>14. Locked(unreleased, tasks', worker')
    BY <2>1, <2>2, <2>4, <2>8 DEF IInv, Sound, Locked
  <2>15. Alive(isolate', worker')
    BY <2>1, <2>3 DEF Alive
  <2>16. Sound(unreleased', tasks', tickets', isolate', worker')
    BY <2>1, <2>9, <2>10, <2>11, <2>12, <2>13, <2>14, <2>15 DEF Sound
  <2>17. SingleFlight'
    BY <1>2, <2>1 DEF SingleFlight
  <2> QED BY <2>16, <2>17 DEF IInv
<1> QED BY <1>3, <1>4, <1>5

(* A task that goes on as another of the same round, elsewhere than in a    *)
(* worker or where it was, leaves all sound.                                *)
LEMMA ReplaceInv ==
  ASSUME TypeOK, IInv, NEW t \in tasks, t.stage \in InWorker,
         NEW s, s.round = t.round, s.stage # "serialize",
         s.stage \in InWorker => s.on = t.on,
         tasks' = (tasks \ {t}) \cup {s},
         UNCHANGED <<saving, queue, unreleased, tickets, worker, isolate>>
  PROVE  IInv'
<1>1. Held(unreleased, tasks', isolate)
  BY DEF IInv, Sound, Held
<1>2. Unique(tasks')
  BY DEF IInv, Sound, Unique
<1>3. Known(tasks', tickets, isolate)
  BY DEF IInv, Sound, Known
<1>4. AtHome(tasks', isolate)
  BY DEF IInv, Sound, AtHome
<1>5. Bound(tasks', isolate)
  BY DEF IInv, Sound, Bound
<1>6. Locked(unreleased, tasks', worker)
  BY DEF IInv, Sound, Locked
<1>7. Sound(unreleased, tasks', tickets, isolate, worker)
  BY <1>1, <1>2, <1>3, <1>4, <1>5, <1>6 DEF IInv, Sound
<1>8. Sound(unreleased', tasks', tickets', isolate', worker')
  BY <1>7
<1>9. SingleFlight'
  BY DEF IInv, SingleFlight
<1> QED BY <1>8, <1>9 DEF IInv

(* The worker's half keeps it, and what its messages do.                    *)
LEMMA WorkInv ==
  ASSUME TypeOK, TypeOK', IInv, NEW t \in tasks,
         \/ Store(t, "stored") \/ Store(t, "merged")
         \/ DeliverSuccess(t) \/ DeliverMerge(t) \/ DeliverConflict(t) \/ DeliverError(t)
         \/ Adopt(t, "saved") \/ Adopt(t, "error")
  PROVE  IInv'
<1>1. t \in Tasks /\ tasks \ {t} \in SUBSET Tasks
  BY DEF TypeOK
<1>2. SingleFlight /\ creds \in [Key -> Nat] /\ creds' \in [Key -> Nat]
  BY DEF IInv, TypeOK
<1>3. ASSUME NEW cr \in [Key -> Nat], Release(t.round.ticket, tasks \ {t}, cr),
             UNCHANGED workerVars
      PROVE  IInv'
  <2>1. Sound(unreleased \ {t.round.ticket}, tasks \ {t}, tickets, isolate', worker')
    BY <1>3, LeaveSound DEF workerVars
  <2> QED BY <1>1, <1>2, <1>3, <2>1, ReleaseInv
<1>4. ASSUME NEW stage \in {"stored", "merged"}, Store(t, stage) PROVE IInv'
  <2> DEFINE s == [t EXCEPT !.stage = stage]
  <2>1. s.round = t.round /\ s.stage = stage /\ s.on = t.on
    BY <1>1 DEF Tasks
  <2>2. /\ t.stage \in InWorker /\ s.stage # "serialize" /\ tasks' = (tasks \ {t}) \cup {s}
        /\ UNCHANGED <<saving, queue, unreleased, tickets, worker, isolate>>
    BY <1>4, <2>1 DEF Store, InWorker, workerVars
  <2> HIDE DEF s
  <2> QED BY <2>1, <2>2, ReplaceInv
<1>5. CASE DeliverSuccess(t)
  <2>1. Handlers(t) = {t.round}
    BY <1>5, OwnHandler DEF DeliverSuccess, InWorker
  <2>2. Release(t.round.ticket, tasks \ {t}, creds) /\ UNCHANGED workerVars
    BY <1>5, <2>1 DEF DeliverSuccess
  <2> QED BY <1>2, <1>3, <2>2
<1>6. CASE DeliverMerge(t)
  <2> DEFINE s == [round |-> t.round, stage |-> "adopt", on |-> 0]
  <2>1. t.stage \in InWorker
    BY <1>6 DEF DeliverMerge, InWorker
  <2>2. Handlers(t) = {t.round}
    BY <2>1, OwnHandler
  <2>3. s.round = t.round /\ s.stage = "adopt" /\ s.stage \notin InWorker
    BY DEF InWorker
  <2>4. /\ tasks' = (tasks \ {t}) \cup {s}
        /\ UNCHANGED <<saving, queue, unreleased, tickets, worker, isolate>>
    BY <1>6, <2>2 DEF DeliverMerge, workerVars
  <2> HIDE DEF s
  <2> QED BY <2>1, <2>3, <2>4, ReplaceInv
<1>7. CASE DeliverConflict(t)
  <2>1. Handlers(t) = {t.round}
    BY <1>7, OwnHandler DEF DeliverConflict, InWorker
  <2>2. Release(t.round.ticket, tasks \ {t}, creds) /\ UNCHANGED workerVars
    BY <1>7, <2>1 DEF DeliverConflict
  <2> QED BY <1>2, <1>3, <2>2
<1>8. CASE DeliverError(t)
  <2>1. Handlers(t) = {t.round}
    BY <1>8, OwnHandler DEF DeliverError
  <2>2. Release(t.round.ticket, tasks \ {t}, creds') /\ UNCHANGED workerVars
    BY <1>8, <2>1 DEF DeliverError, RoundFails
  <2> QED BY <1>2, <1>3, <2>2
<1>9. ASSUME NEW answer \in {"saved", "error"}, Adopt(t, answer) PROVE IInv'
  <2>1. Release(t.round.ticket, tasks \ {t}, creds) /\ UNCHANGED workerVars
    BY <1>9 DEF Adopt
  <2> QED BY <1>2, <1>3, <2>1
<1> QED BY <1>4, <1>5, <1>6, <1>7, <1>8, <1>9

(* Terminating the worker leaves every round somebody who releases it: its  *)
(* tasks are gone, and its onexit is to come.                               *)
LEMMA TerminateSound ==
  ASSUME TypeOK, IInv, Terminate
  PROVE  Sound(unreleased, tasks \ Dead, tickets, isolate', 0)
<1> DEFINE left == tasks \ Dead
<1>0. isolate \in [Isolate -> Isolates] /\ isolate' \in [Isolate -> Isolates]
  BY TerminateType, Groups DEF WorkerOK
<1>1. \A t \in tasks : t.stage \in InWorker => t.on \in Isolate /\ t.on # 0
  <2>1. \A s \in tasks : s.stage \in InWorker => s.on \in Isolate
    BY TaskTypes DEF TypeOK
  <2>2. \A i \in Isolate : i # 0
    BY BoundAssumption DEF Isolate
  <2> QED BY <2>1, <2>2
<1>2. /\ \A i \in Isolate : isolate'[i].handler = isolate[i].handler
      /\ \A i \in Isolate : i # worker => isolate'[i].state = isolate[i].state
      /\ worker \in Isolate => isolate'[worker].state = "exiting"
      /\ \A i \in Isolate : isolate[i].state = "exiting" => isolate'[i].state = "exiting"
  <2>1. CASE worker = 0
    <3>1. isolate' = isolate /\ worker \notin Isolate
      BY <2>1, BoundAssumption DEF Terminate, Isolate
    <3> QED BY <3>1
  <2>2. CASE worker # 0
    <3>1. worker \in Isolate
      BY <2>2 DEF TypeOK
    <3>2. isolate' = [isolate EXCEPT ![worker].state = "exiting"]
      BY <2>2 DEF Terminate
    <3> QED BY <1>0, <3>1, <3>2 DEF Isolates
  <2> QED BY <2>1, <2>2
<1>3. \A t \in left : t \in tasks /\ (t.stage \in InWorker => t.on # worker)
  BY DEF Dead
<1>4. Held(unreleased, left, isolate')
  <2> SUFFICES ASSUME NEW m \in unreleased
               PROVE  \/ \E t \in left : t.round.ticket = m
                      \/ \E i \in Isolate :
                            /\ isolate'[i].state = "exiting"
                            /\ \E h \in isolate'[i].handler : h.ticket = m
    BY DEF Held
  <2>1. CASE \E i \in Isolate : /\ isolate[i].state = "exiting"
                               /\ \E h \in isolate[i].handler : h.ticket = m
    BY <1>0, <1>2, <2>1 DEF Isolates
  <2>2. CASE \E t \in left : t.round.ticket = m
    BY <2>2
  <2>3. ASSUME NEW t \in Dead, t.round.ticket = m
        PROVE  \E i \in Isolate : /\ isolate'[i].state = "exiting"
                                  /\ \E h \in isolate'[i].handler : h.ticket = m
    <3>1. t \in tasks /\ t.stage \in InWorker /\ t.on = worker /\ worker \in Isolate
      BY <1>1 DEF Dead
    <3>2. isolate[worker].handler = {t.round}
      BY <3>1 DEF IInv, Sound, AtHome
    <3> QED BY <1>0, <1>2, <2>3, <3>1, <3>2 DEF Isolates
  <2> QED BY <2>1, <2>2, <2>3 DEF IInv, Sound, Held
<1>5. Unique(left) /\ Known(left, tickets, isolate') /\ OneHandler(isolate')
  BY <1>0, <1>2, <1>3 DEF Isolates, IInv, Sound, Unique, Known, OneHandler
<1>6. AtHome(left, isolate')
  BY <1>0, <1>1, <1>2, <1>3 DEF Isolates, IInv, Sound, AtHome
<1>7. Bound(left, isolate')
  BY <1>0, <1>2, <1>3 DEF Isolates, IInv, Sound, Bound
<1>8. Locked(unreleased, left, 0) /\ Alive(isolate', 0)
  BY <1>1, <1>3 DEF IInv, Sound, Locked, Alive
<1> QED BY <1>4, <1>5, <1>6, <1>7, <1>8 DEF Sound

(* The end of a worker keeps the invariant.                                 *)
LEMMA WorkerEndInv ==
  ASSUME TypeOK, TypeOK', IInv,
         StopWorker \/ \E i \in Isolate : WorkerError(i) \/ OnExit(i)
  PROVE  IInv'
<1>1. SingleFlight /\ creds' \in [Key -> Nat]
  BY DEF IInv, TypeOK
<1>2. tasks \in SUBSET Tasks /\ tasks \ Dead \in SUBSET Tasks
  BY DEF TypeOK
<1>3. CASE StopWorker
  <2>1. Sound(unreleased, tasks \ Dead, tickets, isolate', 0)
    BY <1>3, TerminateSound DEF StopWorker
  <2>2. /\ unreleased' = unreleased /\ tasks' = tasks \ Dead /\ tickets' = tickets
        /\ worker' = 0 /\ saving' = saving /\ queue' = queue
    BY <1>3 DEF StopWorker
  <2>3. Sound(unreleased', tasks', tickets', isolate', worker')
    BY <2>1, <2>2
  <2>4. SingleFlight'
    BY <1>1, <2>2 DEF SingleFlight
  <2> QED BY <2>3, <2>4 DEF IInv
<1>4. ASSUME NEW i \in Isolate, WorkerError(i) PROVE IInv'
  <2>1. PICK h \in isolate[i].handler : RoundFails(h, tasks \ Dead)
    BY <1>4 DEF WorkerError
  <2>2. Release(h.ticket, tasks \ Dead, creds') /\ worker' = 0
    BY <1>4, <2>1 DEF RoundFails, WorkerError
  <2>3. Sound(unreleased, tasks \ Dead, tickets, isolate', 0)
    BY <1>4, TerminateSound DEF WorkerError
  <2>4. \A t \in tasks \ Dead : t.stage = "serialize" => t.round.ticket # h.ticket
    BY <2>1 DEF IInv, Sound, Bound
  <2>5. \A t \in tasks : t.stage \in InWorker => t.on # 0
    <3>1. \A s \in tasks : s.stage \in InWorker => s.on \in Isolate
      BY TaskTypes DEF TypeOK
    <3>2. \A j \in Isolate : j # 0
      BY BoundAssumption DEF Isolate
    <3> QED BY <3>1, <3>2
  <2>6. Held(unreleased \ {h.ticket}, tasks \ Dead, isolate')
    BY <2>3 DEF Sound, Held
  <2>7. Locked(unreleased \ {h.ticket}, tasks \ Dead, 0)
    BY <2>3, <2>4, <2>5 DEF Sound, Locked
  <2>8. Sound(unreleased \ {h.ticket}, tasks \ Dead, tickets, isolate', worker')
    BY <2>2, <2>3, <2>6, <2>7 DEF Sound
  <2> QED BY <1>1, <1>2, <2>2, <2>8, ReleaseInv
<1>5. ASSUME NEW i \in Isolate, OnExit(i) PROVE IInv'
  <2>1. PICK h \in isolate[i].handler : Release(h.ticket, tasks, creds')
    BY <1>5 DEF OnExit
  <2>2. /\ isolate[i].state = "exiting" /\ worker' = 0
        /\ isolate' = [isolate EXCEPT ![i] = [state |-> "none", handler |-> {}]]
    BY <1>5 DEF OnExit
  <2>3. /\ isolate'[i].state = "none" /\ isolate'[i].handler = {}
        /\ \A j \in Isolate : j # i => isolate'[j] = isolate[j]
    BY <2>2 DEF TypeOK
  <2>4. \A g \in isolate[i].handler : g = h
    BY <2>1 DEF IInv, Sound, OneHandler
  <2>5. \A t \in tasks : t.stage \in InWorker => t.on \in Isolate /\ t.on # 0 /\ t.on # i
    <3>1. \A s \in tasks : s.stage \in InWorker => s.on \in Isolate
      BY TaskTypes DEF TypeOK
    <3>2. \A j \in Isolate : j # 0
      BY BoundAssumption DEF Isolate
    <3>3. \A s \in tasks : s.stage \in InWorker => s.on # i
      BY <2>2 DEF IInv, Sound, AtHome
    <3> QED BY <3>1, <3>2, <3>3
  <2>6. \A t \in tasks : t.stage = "serialize" => t.round.ticket # h.ticket
    BY <2>1 DEF IInv, Sound, Bound
  <2>7. Held(unreleased \ {h.ticket}, tasks, isolate')
    <3> SUFFICES ASSUME NEW m \in unreleased, m # h.ticket,
                        ~ \E t \in tasks : t.round.ticket = m
                 PROVE  \E j \in Isolate :
                           /\ isolate'[j].state = "exiting"
                           /\ \E g \in isolate'[j].handler : g.ticket = m
      BY DEF Held
    <3>1. PICK j \in Isolate : /\ isolate[j].state = "exiting"
                               /\ \E g \in isolate[j].handler : g.ticket = m
      BY DEF IInv, Sound, Held
    <3>2. j # i
      BY <2>4, <3>1
    <3> QED BY <2>3, <3>1, <3>2
  <2>8. Known(tasks, tickets, isolate')
    BY <2>3 DEF IInv, Sound, Known
  <2>9. OneHandler(isolate')
    BY <2>3 DEF IInv, Sound, OneHandler
  <2>10. AtHome(tasks, isolate')
    BY <2>3, <2>5 DEF IInv, Sound, AtHome
  <2>11. Bound(tasks, isolate')
    BY <2>3 DEF IInv, Sound, Bound
  <2>12. Locked(unreleased \ {h.ticket}, tasks, 0) /\ Alive(isolate', 0)
    BY <2>5, <2>6 DEF IInv, Sound, Locked, Alive
  <2>13. Unique(tasks)
    BY DEF IInv, Sound
  <2>14. Sound(unreleased \ {h.ticket}, tasks, tickets, isolate', 0)
    BY <2>7, <2>8, <2>9, <2>10, <2>11, <2>12, <2>13 DEF Sound
  <2>15. Sound(unreleased \ {h.ticket}, tasks, tickets, isolate', worker')
    BY <2>2, <2>14
  <2> QED BY <1>1, <1>2, <2>1, <2>15, ReleaseInv
<1> QED BY <1>3, <1>4, <1>5

(* A request, of the user or after a dialog, keeps it.                      *)
LEMMA SaveForInv ==
  ASSUME TypeOK, IInv, NEW slot \in Slots, NEW cr \in [Key -> Nat],
         SaveFor(slot, cr), UNCHANGED <<isolate, worker>>
  PROVE  IInv'
<1>1. CASE slot.key \in XCKey /\ slot.pair = 0
  <2>1. UNCHANGED <<saving, queue, unreleased, tickets, tasks>>
    BY <1>1 DEF SaveFor, lockVars
  <2> QED BY <2>1 DEF IInv, SingleFlight, Sound, Held, Unique, Known, OneHandler,
                      AtHome, Bound, Locked, Alive
<1>2. CASE ~(slot.key \in XCKey /\ slot.pair = 0)
  BY <1>2, SubmitInv DEF SaveFor
<1> QED BY <1>1, <1>2

(* What leaves the lock and the workers alone keeps it.                     *)
LEMMA KeptInv ==
  ASSUME IInv, UNCHANGED lockVars, UNCHANGED <<isolate, worker>>
  PROVE  IInv'
  BY DEF IInv, lockVars, SingleFlight, Sound, Held, Unique, Known, OneHandler,
         AtHome, Bound, Locked, Alive

(* Initially nothing runs.                                                  *)
LEMMA InvInit == Init => IInv
  BY DEF Init, IInv, SingleFlight, Sound, Held, Unique, Known, OneHandler,
         AtHome, Bound, Locked, Alive

(* Every step keeps the invariant.                                          *)
LEMMA InvStep == TypeOK /\ TypeOK' /\ IInv /\ [Next]_vars => IInv'
<1> SUFFICES ASSUME TypeOK, TypeOK', IInv, [Next]_vars PROVE IInv'
  OBVIOUS
<1>1. creds \in [Key -> Nat] /\ creds' \in [Key -> Nat]
  BY DEF TypeOK
<1>2. ASSUME NEW k \in Key, SaveDatabase(k) \/ ChangePassword(k) PROVE IInv'
  <2>1. Asked(k) \in Slots
    BY DEF TypeOK, Asked, Slots, Strategies
  <2>2. \E cr \in [Key -> Nat] : SaveFor(Asked(k), cr)
    BY <1>1, <1>2 DEF SaveDatabase, ChangePassword
  <2>3. UNCHANGED <<isolate, worker>>
    BY <1>2 DEF SaveDatabase, ChangePassword, workerVars
  <2> QED BY <2>1, <2>2, <2>3, SaveForInv
<1>3. ASSUME NEW t \in tasks, Step(t) PROVE IInv'
  BY <1>3, RoundInv, WorkInv DEF Step
<1>4. CASE StopWorker \/ \E i \in Isolate : WorkerError(i) \/ OnExit(i)
  BY <1>4, WorkerEndInv
<1>5. ASSUME NEW c \in conflicts, NEW s \in {"MERGE", "OVERWRITE"}, AnswerSave(c, s)
      PROVE  IInv'
  <2> DEFINE slot == [req |-> c.req, key |-> c.key, strategy |-> s, pair |-> c.pair]
  <2>1. slot \in Slots
    BY DEF TypeOK, Slots, Strategies
  <2>2. SaveFor(slot, creds) /\ UNCHANGED <<isolate, worker>>
    BY <1>5 DEF AnswerSave, workerVars
  <2> QED BY <1>1, <2>1, <2>2, SaveForInv
<1>6. ASSUME NEW c \in conflicts, AnswerReload(c) \/ Dismiss(c) PROVE IInv'
  BY <1>6, KeptInv DEF AnswerReload, Dismiss, workerVars
<1>7. ASSUME NEW l \in reloads, ReloadDone(l) \/ ReloadFails(l) PROVE IInv'
  BY <1>7, KeptInv DEF ReloadDone, ReloadFails, workerVars
<1>8. CASE AfterResponse
  <2> DEFINE k == Head(closed).key
  <2>1. CASE Has(waiting, k)
    <3> DEFINE slot == waiting[At(waiting, k)]
    <3>1. slot \in Slots
      BY <2>1, AtType DEF TypeOK
    <3>2. Submit([slot EXCEPT !.pair = slot.req], creds) /\ UNCHANGED <<isolate, worker>>
      BY <1>8, <2>1 DEF AfterResponse, workerVars
    <3> HIDE DEF slot
    <3>3. [slot EXCEPT !.pair = slot.req] \in Slots
      BY <3>1 DEF Slots
    <3> QED BY <1>1, <3>2, <3>3, SubmitInv
  <2>2. CASE ~Has(waiting, k)
    BY <1>8, <2>2, KeptInv DEF AfterResponse, workerVars
  <2> QED BY <2>1, <2>2
<1>9. CASE DialogOpens \/ OpenFails \/ DialogCloses \/ Answer("response") \/ Answer("cancel")
           \/ AfterCancel
  BY <1>9, KeptInv DEF DialogOpens, OpenFails, DialogCloses, Answer, AfterCancel, workerVars
<1>10. CASE UNCHANGED vars
  BY <1>10, KeptInv DEF vars, workerVars
<1> QED BY <1>2, <1>3, <1>4, <1>5, <1>6, <1>7, <1>8, <1>9, <1>10 DEF Next, Dialog

(* The invariant holds throughout.                                          *)
THEOREM Invariance == Spec => [](TypeOK /\ IInv)
<1>1. Init => TypeOK /\ IInv
  BY TypeInit, InvInit
<1>2. TypeOK /\ IInv /\ [Next]_vars => TypeOK' /\ IInv'
  BY TypeStep, InvStep
<1> QED BY <1>1, <1>2, PTL DEF Spec

(* Saves of all databases run one at a time: one round at most holds the    *)
(* lock, `saving` says exactly that, and no slot waits for a free lock.     *)
THEOREM OneAtATime == Spec => []SingleFlight
<1>1. IInv => SingleFlight
  BY DEF IInv
<1> QED BY <1>1, Invariance, PTL

(* The lock never stays with a round nobody will release, whatever becomes  *)
(* of the worker, and whenever an older isolate exits.                      *)
THEOREM LockIsHeldByALivingRound == Spec => []HolderLives
<1>1. IInv => HolderLives
  BY DEF IInv, Sound, Held, HolderLives
<1> QED BY <1>1, Invariance, PTL

-----------------------------------------------------------------------------
(* Which keys the maps have.                                                *)

(* Setting a slot loses no key and has its own.                             *)
LEMMA HasSet ==
  ASSUME NEW map \in Seq(Slots), NEW slot \in Slots
  PROVE  /\ Has(Set(map, slot), slot.key)
         /\ \A k : Has(map, k) => Has(Set(map, slot), k)
<1>1. CASE Has(map, slot.key)
  <2> DEFINE new == [i \in DOMAIN map |-> IF map[i].key = slot.key THEN slot ELSE map[i]]
  <2>1. Set(map, slot) = new
    BY <1>1 DEF Set
  <2>2. DOMAIN new = DOMAIN map /\ \A i \in DOMAIN map : new[i].key = map[i].key
    OBVIOUS
  <2>3. \A k : Has(map, k) => Has(new, k)
    BY <2>2 DEF Has
  <2> QED BY <1>1, <2>1, <2>3
<1>2. CASE ~Has(map, slot.key)
  <2>1. Set(map, slot) = Append(map, slot)
    BY <1>2 DEF Set
  <2>2. /\ DOMAIN map = 1 .. Len(map) /\ Len(map) \in Nat
        /\ DOMAIN Append(map, slot) = 1 .. Len(map) + 1
        /\ Append(map, slot)[Len(map) + 1] = slot
        /\ \A i \in 1 .. Len(map) : Append(map, slot)[i] = map[i]
    OBVIOUS
  <2>3. \A i \in 1 .. Len(map) : i \in 1 .. Len(map) + 1
    BY <2>2
  <2>4. Len(map) + 1 \in 1 .. Len(map) + 1
    BY <2>2
  <2> QED BY <2>1, <2>2, <2>3, <2>4 DEF Has
<1> QED BY <1>1, <1>2

(* A key is at the front or behind it.                                      *)
LEMMA HasTail ==
  ASSUME NEW map \in Seq(Slots), map # <<>>, NEW k, Has(map, k)
  PROVE  Head(map).key = k \/ Has(Tail(map), k)
<1>1. PICK i \in 1 .. Len(map) : map[i].key = k
  BY DEF Has
<1>2. CASE i = 1
  BY <1>1, <1>2
<1>3. CASE i # 1
  <2>1. i - 1 \in 1 .. Len(Tail(map)) /\ Tail(map)[i - 1] = map[i]
    BY <1>3
  <2>2. DOMAIN Tail(map) = 1 .. Len(Tail(map))
    OBVIOUS
  <2> QED BY <1>1, <2>1, <2>2 DEF Has
<1> QED BY <1>2, <1>3

(* What taking a key out leaves where.                                      *)
LEMMA DeleteAt ==
  ASSUME NEW map \in Seq(Slots), NEW k, Has(map, k)
  PROVE  /\ DOMAIN Delete(map, k) = 1 .. Len(map) - 1
         /\ \A j \in 1 .. Len(map) - 1 :
               Delete(map, k)[j] = IF j < At(map, k) THEN map[j] ELSE map[j + 1]
<1> DEFINE at == At(map, k)
<1> DEFINE low == SubSeq(map, 1, at - 1)
<1> DEFINE high == SubSeq(map, at + 1, Len(map))
<1>1. at \in 1 .. Len(map) /\ Len(map) \in Nat
  BY AtType
<1>2. Delete(map, k) = low \o high
  BY DEF Delete
<1> HIDE DEF at
<1>3. /\ low \in Seq(Slots) /\ Len(low) = at - 1
      /\ \A i \in 1 .. at - 1 : low[i] = map[i]
  BY <1>1
<1>4. /\ high \in Seq(Slots) /\ Len(high) = Len(map) - at
      /\ \A i \in 1 .. Len(map) - at : high[i] = map[at + i]
  BY <1>1
<1> HIDE DEF low, high
<1> DEFINE new == low \o high
<1>5. new \in Seq(Slots) /\ Len(new) = Len(low) + Len(high)
  BY <1>3, <1>4, ConcatProperties
<1>6. Len(new) = Len(map) - 1
  BY <1>1, <1>3, <1>4, <1>5
<1>7. \A i \in 1 .. Len(map) - 1 :
         new[i] = IF i < at THEN map[i] ELSE map[i + 1]
  BY <1>1, <1>3, <1>4, <1>6
<1> HIDE DEF new
<1>8. DOMAIN new = 1 .. Len(map) - 1 /\ Delete(map, k) = new
  BY <1>2, <1>5, <1>6 DEF new
<1> QED BY <1>7, <1>8 DEF at

(* Taking a key out leaves the others, with their slots.                    *)
LEMMA HasDelete ==
  ASSUME NEW map \in Seq(Slots), NEW k, NEW i \in DOMAIN map, map[i].key # k
  PROVE  \E j \in DOMAIN Delete(map, k) : Delete(map, k)[j] = map[i]
<1>1. CASE ~Has(map, k)
  BY <1>1 DEF Delete
<1>2. CASE Has(map, k)
  <2>1. /\ At(map, k) \in 1 .. Len(map) /\ map[At(map, k)].key = k
        /\ Len(map) \in Nat /\ i \in 1 .. Len(map) /\ i # At(map, k)
    BY <1>2, AtType
  <2>2. CASE i < At(map, k)
    <3>1. i \in 1 .. Len(map) - 1
      BY <2>1, <2>2
    <3> QED BY <1>2, <2>2, <3>1, DeleteAt
  <2>3. CASE i > At(map, k)
    <3>1. i - 1 \in 1 .. Len(map) - 1 /\ ~(i - 1 < At(map, k)) /\ (i - 1) + 1 = i
      BY <2>1, <2>3
    <3> QED BY <1>2, <3>1, DeleteAt
  <2> QED BY <2>1, <2>2, <2>3
<1> QED BY <1>1, <1>2

-----------------------------------------------------------------------------
(* Pending credential changes.  What NoIntentLeft says of a state in which  *)
(* nothing is under way is not inductive: the invariant names who carries   *)
(* the change meanwhile.  A task carries it only if its round took it; a    *)
(* slot or a conflict will take it, and an isolate that exits clears it.    *)

Late == {"stored", "merged", "adopt"}

(* What a round took is stored by the time its worker has stored the file.  *)
Stored(T, ap) == \A t \in T : t.stage \in Late => t.round.cred \in ap \cup {0}

Bears(T, k, c) == \E t \in T : t.round.key = k /\ t.round.cred = c
Leaving(I, k) ==
  \E i \in Isolate : I[i].state = "exiting" /\ \E h \in I[i].handler : h.key = k
Disputed(k) == \E c \in conflicts : c.key = k

Carried(k) ==
  \/ Has(queue, k) \/ Has(waiting, k)
  \/ Bears(tasks, k, creds[k])
  \/ Disputed(k)
  \/ Leaving(isolate, k)

Settled(k) == creds[k] \in applied \cup {0}

IntentInv ==
  /\ Stored(tasks, applied)
  /\ \A k \in Key : Settled(k) \/ Carried(k)

(* A request that asks for the lock waits in the queue or has taken the     *)
(* fields of its session.                                                   *)
LEMMA SubmitCarries ==
  ASSUME LockOK, NEW slot \in Slots, NEW cr, Submit(slot, cr)
  PROVE  /\ tasks \subseteq tasks'
         /\ \A t \in tasks' : t \in tasks \/ t.stage = "serialize"
         /\ \A k : Has(queue, k) => Has(queue', k)
         /\ Has(queue', slot.key) \/ Bears(tasks', slot.key, cr[slot.key])
<1>1. CASE saving
  <2>1. queue' = Set(queue, slot) /\ tasks' = tasks /\ queue \in Seq(Slots)
    BY <1>1 DEF Submit, LockOK
  <2> QED BY <2>1, HasSet
<1>2. CASE ~saving
  <2>1. queue' = queue /\ tasks' = tasks \cup {Started(slot, cr)}
    BY <1>2 DEF Submit
  <2>2. /\ Started(slot, cr).stage = "serialize"
        /\ Started(slot, cr).round.key = slot.key
        /\ Started(slot, cr).round.cred = cr[slot.key]
    BY DEF Started
  <2> QED BY <2>1, <2>2 DEF Bears
<1> QED BY <1>1, <1>2

(* The slot a release takes from the queue has started with them.           *)
LEMMA ReleaseCarries ==
  ASSUME LockOK, NEW ticket, NEW left, NEW cr, Release(ticket, left, cr)
  PROVE  /\ left \subseteq tasks'
         /\ \A t \in tasks' : t \in left \/ t.stage = "serialize"
         /\ \A k : Has(queue, k) => Has(queue', k) \/ Bears(tasks', k, cr[k])
<1>1. CASE ticket \notin unreleased \/ queue = <<>>
  BY <1>1 DEF Release, OnSaveDone
<1>2. CASE ticket \in unreleased /\ queue # <<>>
  <2>1. /\ queue' = Tail(queue)
        /\ tasks' = left \cup {Started(Head(queue), cr)}
    BY <1>2 DEF Release, OnSaveDone
  <2>2. /\ Started(Head(queue), cr).stage = "serialize"
        /\ Started(Head(queue), cr).round.key = Head(queue).key
        /\ Started(Head(queue), cr).round.cred = cr[Head(queue).key]
    BY DEF Started
  <2>3. \A k : Has(queue, k) => Head(queue).key = k \/ Has(queue', k)
    BY <1>2, <2>1, HasTail DEF LockOK
  <2>4. Bears(tasks', Head(queue).key, cr[Head(queue).key])
    BY <2>1, <2>2 DEF Bears
  <2> QED BY <2>1, <2>2, <2>3, <2>4
<1> QED BY <1>1, <1>2

(* A save that is asked for carries what its session has.                   *)
LEMMA SaveForCarries ==
  ASSUME LockOK, ChallengeOK, NEW slot \in Slots, NEW cr, SaveFor(slot, cr)
  PROVE  /\ tasks \subseteq tasks'
         /\ \A t \in tasks' : t \in tasks \/ t.stage = "serialize"
         /\ \A k : Has(queue, k) => Has(queue', k)
         /\ \A k : Has(waiting, k) => Has(waiting', k)
         /\ \/ Has(queue', slot.key) \/ Has(waiting', slot.key)
            \/ Bears(tasks', slot.key, cr[slot.key])
<1>1. CASE slot.key \in XCKey /\ slot.pair = 0
  <2>1. /\ waiting' = Set(waiting, slot) /\ waiting \in Seq(Slots)
        /\ tasks' = tasks /\ queue' = queue
    BY <1>1 DEF SaveFor, OpenSaveChallenge, lockVars, ChallengeOK
  <2> QED BY <2>1, HasSet
<1>2. CASE ~(slot.key \in XCKey /\ slot.pair = 0)
  <2>1. Submit(slot, cr) /\ waiting' = waiting
    BY <1>2 DEF SaveFor, challengeVars
  <2> QED BY <2>1, SubmitCarries
<1> QED BY <1>1, <1>2

(* A step that asks for a save of the database whose field it sets or       *)
(* whose conflict it takes away.                                            *)
LEMMA SaveForIntent ==
  ASSUME TypeOK, IntentInv, NEW slot \in Slots, SaveFor(slot, creds'),
         \A k \in Key : k # slot.key => creds'[k] = creds[k],
         \A c \in conflicts : c \in conflicts' \/ c.key = slot.key,
         applied' = applied, isolate' = isolate
  PROVE  IntentInv'
<1>1. LockOK /\ ChallengeOK
  BY Groups
<1>2. /\ tasks \subseteq tasks'
      /\ \A t \in tasks' : t \in tasks \/ t.stage = "serialize"
      /\ \A k : Has(queue, k) => Has(queue', k)
      /\ \A k : Has(waiting, k) => Has(waiting', k)
  BY <1>1, SaveForCarries
<1>3. \/ Has(queue', slot.key) \/ Has(waiting', slot.key)
      \/ Bears(tasks', slot.key, creds'[slot.key])
  BY <1>1, SaveForCarries
<1>4. Stored(tasks', applied')
  BY <1>2 DEF IntentInv, Stored, Late
<1>5. ASSUME NEW k \in Key PROVE Settled(k)' \/ Carried(k)'
  <2>1. CASE k = slot.key
    BY <1>3, <2>1 DEF Carried
  <2>2. CASE k # slot.key
    <3>1. creds'[k] = creds[k]
      BY <2>2
    <3>2. Settled(k) => Settled(k)'
      BY <3>1 DEF Settled
    <3>3. Bears(tasks, k, creds[k]) => Bears(tasks', k, creds'[k])
      BY <1>2, <3>1 DEF Bears
    <3>4. Disputed(k) => Disputed(k)'
      BY <2>2 DEF Disputed
    <3>5. Leaving(isolate, k) => Leaving(isolate', k)
      BY DEF Leaving
    <3>6. /\ Has(queue, k) => Has(queue', k)
          /\ Has(waiting, k) => Has(waiting', k)
      BY <1>2
    <3>7. Carried(k) => Carried(k)'
      BY <3>3, <3>4, <3>5, <3>6 DEF Carried
    <3> QED BY <3>2, <3>7 DEF IntentInv
  <2> QED BY <2>1, <2>2
<1> QED BY <1>4, <1>5 DEF IntentInv

(* A step that releases: what it takes away had its change stored, or the   *)
(* field is cleared, or a conflict or an exit still stands for it.          *)
LEMMA ReleaseIntent ==
  ASSUME TypeOK, IntentInv, NEW ticket, NEW left \in SUBSET tasks,
         Release(ticket, left, creds'),
         \A k \in Key : creds'[k] \in {creds[k], 0},
         \A k \in Key : Leaving(isolate, k) => Leaving(isolate', k) \/ creds'[k] = 0,
         \A s \in tasks \ left :
            \/ s.round.cred \in applied \cup {0} \/ creds'[s.round.key] = 0
            \/ Leaving(isolate', s.round.key) \/ Disputed(s.round.key)',
         applied' = applied, waiting' = waiting, conflicts \subseteq conflicts'
  PROVE  IntentInv'
<1>1. LockOK
  BY Groups
<1>2. /\ left \subseteq tasks'
      /\ \A t \in tasks' : t \in left \/ t.stage = "serialize"
      /\ \A k : Has(queue, k) => Has(queue', k) \/ Bears(tasks', k, creds'[k])
  BY <1>1, ReleaseCarries
<1>3. Stored(tasks', applied')
  BY <1>2 DEF IntentInv, Stored, Late
<1>4. ASSUME NEW k \in Key, ~Settled(k)' PROVE Carried(k)'
  <2>1. creds'[k] # 0 /\ creds'[k] = creds[k] /\ creds[k] \notin applied
    BY <1>4 DEF Settled
  <2>2. Carried(k)
    BY <2>1 DEF IntentInv, Settled
  <2>3. CASE Has(queue, k) \/ Has(waiting, k)
    BY <1>2, <2>3 DEF Carried
  <2>4. CASE Bears(tasks, k, creds[k])
    <3>1. PICK s \in tasks : s.round.key = k /\ s.round.cred = creds[k]
      BY <2>4 DEF Bears
    <3>2. CASE s \in left
      BY <1>2, <2>1, <3>1, <3>2 DEF Carried, Bears
    <3>3. CASE s \notin left
      BY <2>1, <3>1, <3>3 DEF Carried
    <3> QED BY <3>2, <3>3
  <2>5. CASE Disputed(k)
    BY <2>5 DEF Carried, Disputed
  <2>6. CASE Leaving(isolate, k)
    BY <2>1, <2>6 DEF Carried
  <2> QED BY <2>2, <2>3, <2>4, <2>5, <2>6 DEF Carried
<1> QED BY <1>3, <1>4 DEF IntentInv

(* What a failing task takes away is cleared with it.                       *)
LEMMA RoundFailsIntent ==
  ASSUME TypeOK, IntentInv, NEW h \in Rounds, NEW left \in SUBSET tasks,
         RoundFails(h, left),
         \A k \in Key : Leaving(isolate, k) => Leaving(isolate', k),
         \A s \in tasks \ left : s.round.key = h.key \/ Leaving(isolate', s.round.key),
         applied' = applied, waiting' = waiting, conflicts' = conflicts
  PROVE  IntentInv'
<1>1. /\ creds' = [creds EXCEPT ![h.key] = 0] /\ Release(h.ticket, left, creds')
  BY DEF RoundFails, Cleared
<1>2. creds \in [Key -> Nat] /\ h.key \in Key
  BY DEF TypeOK, Rounds
<1>3. \A k \in Key : creds'[k] \in {creds[k], 0}
  BY <1>1, <1>2
<1>4. \A s \in tasks \ left : creds'[s.round.key] = 0 \/ Leaving(isolate', s.round.key)
  BY <1>1, <1>2
<1> QED BY <1>1, <1>3, <1>4, ReleaseIntent

(* A step that leaves the lock, the workers and the files alone.            *)
LEMMA KeptIntent ==
  ASSUME TypeOK, IntentInv, UNCHANGED <<tasks, queue, isolate, applied>>,
         \A k \in Key : creds'[k] \in {creds[k], 0},
         \A k \in Key : \/ creds'[k] = 0
                       \/ /\ Has(waiting, k) => Has(waiting', k)
                          /\ Disputed(k) => Disputed(k)'
  PROVE  IntentInv'
<1>1. Stored(tasks', applied')
  BY DEF IntentInv, Stored
<1>2. ASSUME NEW k \in Key, ~Settled(k)' PROVE Carried(k)'
  <2>1. creds'[k] # 0 /\ creds'[k] = creds[k] /\ creds[k] \notin applied
    BY <1>2 DEF Settled
  <2>2. Carried(k)
    BY <2>1 DEF IntentInv, Settled
  <2>3. Has(waiting, k) => Has(waiting', k)
    BY <2>1
  <2>4. Disputed(k) => Disputed(k)'
    BY <2>1
  <2> QED BY <2>1, <2>2, <2>3, <2>4 DEF Carried
<1> QED BY <1>1, <1>2 DEF IntentInv

(* The main thread's half of a round.                                       *)
LEMMA RoundIntent ==
  ASSUME TypeOK, IInv, IntentInv, NEW t \in tasks,
         SerializeFails(t) \/ Post(t) \/ PostFails(t)
  PROVE  IntentInv'
<1>1. t.round \in Rounds
  BY TaskTypes DEF TypeOK
<1>2. CASE SerializeFails(t)
  <2>1. /\ RoundFails(t.round, tasks \ {t})
        /\ isolate' = isolate /\ applied' = applied /\ waiting' = waiting
        /\ conflicts' = conflicts
    BY <1>2 DEF SerializeFails, workerVars, fileVars, challengeVars, dialogVars
  <2>2. \A k \in Key : Leaving(isolate, k) => Leaving(isolate', k)
    BY <2>1 DEF Leaving
  <2> QED BY <1>1, <2>1, <2>2, RoundFailsIntent
<1>3. CASE PostFails(t)
  <2>1. /\ RoundFails(t.round, tasks \ {t})
        /\ isolate' = [isolate EXCEPT ![Target].state = "live"]
        /\ applied' = applied /\ waiting' = waiting /\ conflicts' = conflicts
    BY <1>3 DEF PostFails, fileVars, challengeVars, dialogVars
  <2>2. Target \in Isolate /\ isolate[Target].state \in {"none", "live"}
    BY <1>3, TargetState DEF PostFails
  <2>3. \A i \in Isolate : isolate[i].state = "exiting" => isolate'[i] = isolate[i]
    BY <2>1, <2>2 DEF TypeOK, Isolates
  <2>4. \A k \in Key : Leaving(isolate, k) => Leaving(isolate', k)
    BY <2>3 DEF Leaving
  <2> QED BY <1>1, <2>1, <2>4, RoundFailsIntent
<1>4. CASE Post(t)
  <2> DEFINE s == [round |-> t.round, stage |-> "posted", on |-> Target]
  <2>1. /\ isolate' = [isolate EXCEPT ![Target] = [state |-> "live", handler |-> {t.round}]]
        /\ tasks' = (tasks \ {t}) \cup {s}
        /\ queue' = queue /\ waiting' = waiting /\ conflicts' = conflicts
        /\ creds' = creds /\ applied' = applied
    BY <1>4 DEF Post, fileVars, challengeVars, dialogVars
  <2>2. Target \in Isolate /\ isolate[Target].state \in {"none", "live"}
    BY <1>4, TargetState DEF Post
  <2>3. \A i \in Isolate : isolate[i].state = "exiting" => isolate'[i] = isolate[i]
    BY <2>1, <2>2 DEF TypeOK
  <2>4. \A k \in Key : Leaving(isolate, k) => Leaving(isolate', k)
    BY <2>3 DEF Leaving
  <2>5. s.round = t.round /\ s.stage \notin Late
    BY DEF Late
  <2> HIDE DEF s
  <2>6. \A k, c : Bears(tasks, k, c) => Bears(tasks', k, c)
    BY <2>1, <2>5 DEF Bears
  <2>7. Stored(tasks', applied')
    BY <2>1, <2>5 DEF IntentInv, Stored
  <2>8. \A k \in Key : Carried(k) => Carried(k)'
    BY <2>1, <2>4, <2>6 DEF Carried, Disputed
  <2> QED BY <2>1, <2>7, <2>8 DEF IntentInv, Settled
<1> QED BY <1>2, <1>3, <1>4

(* What the worker does, and its answers.                                   *)
LEMMA WorkIntent ==
  ASSUME TypeOK, IInv, IntentInv, NEW t \in tasks,
         \/ Store(t, "stored") \/ Store(t, "merged")
         \/ DeliverSuccess(t) \/ DeliverMerge(t) \/ DeliverConflict(t) \/ DeliverError(t)
         \/ Adopt(t, "saved") \/ Adopt(t, "error")
  PROVE  IntentInv'
<1>1. /\ t.round \in Rounds /\ t.round.key \in Key /\ t \in Tasks
      /\ creds \in [Key -> Nat]
  BY TaskTypes DEF TypeOK, Rounds
<1>2. ASSUME NEW stage \in {"stored", "merged"}, Store(t, stage) PROVE IntentInv'
  <2> DEFINE s == [t EXCEPT !.stage = stage]
  <2>1. /\ tasks' = (tasks \ {t}) \cup {s}
        /\ applied' = applied \cup ({t.round.cred} \ {0})
        /\ queue' = queue /\ waiting' = waiting /\ conflicts' = conflicts
        /\ creds' = creds /\ isolate' = isolate
    BY <1>2 DEF Store, workerVars, challengeVars, dialogVars
  <2>2. s.round = t.round
    BY <1>1 DEF Tasks
  <2> HIDE DEF s
  <2>3. Stored(tasks', applied')
    BY <2>1, <2>2 DEF IntentInv, Stored
  <2>4. \A k, c : Bears(tasks, k, c) => Bears(tasks', k, c)
    BY <2>1, <2>2 DEF Bears
  <2>5. \A k \in Key : Carried(k) => Carried(k)'
    BY <2>1, <2>4 DEF Carried, Disputed, Leaving
  <2>6. \A k \in Key : Settled(k) => Settled(k)'
    BY <2>1 DEF Settled
  <2> QED BY <2>3, <2>5, <2>6 DEF IntentInv
<1>3. CASE DeliverSuccess(t) \/ Adopt(t, "saved") \/ Adopt(t, "error")
  <2>1. t.round.cred \in applied \cup {0}
    BY <1>3 DEF DeliverSuccess, Adopt, IntentInv, Stored, Late
  <2>2. /\ creds' = creds /\ isolate' = isolate /\ applied' = applied
        /\ waiting' = waiting /\ conflicts' = conflicts
    BY <1>3 DEF DeliverSuccess, Adopt, workerVars, fileVars, challengeVars, dialogVars
  <2>3. PICK ticket : Release(ticket, tasks \ {t}, creds')
    BY <1>3, <2>2 DEF DeliverSuccess, Adopt
  <2> QED BY <2>1, <2>2, <2>3, ReleaseIntent
<1>4. CASE DeliverMerge(t)
  <2> DEFINE s == [round |-> t.round, stage |-> "adopt", on |-> 0]
  <2>1. t.stage = "merged" /\ Handlers(t) = {t.round}
    BY <1>4, OwnHandler DEF DeliverMerge, InWorker
  <2>2. /\ tasks' = (tasks \ {t}) \cup {s}
        /\ queue' = queue /\ waiting' = waiting /\ conflicts' = conflicts
        /\ creds' = creds /\ isolate' = isolate /\ applied' = applied
    BY <1>4, <2>1 DEF DeliverMerge, workerVars, challengeVars, dialogVars
  <2>3. s.round = t.round
    OBVIOUS
  <2> HIDE DEF s
  <2>4. Stored(tasks', applied')
    BY <2>1, <2>2, <2>3 DEF IntentInv, Stored, Late
  <2>5. \A k, c : Bears(tasks, k, c) => Bears(tasks', k, c)
    BY <2>2, <2>3 DEF Bears
  <2>6. \A k \in Key : Carried(k) => Carried(k)'
    BY <2>2, <2>5 DEF Carried, Disputed, Leaving
  <2> QED BY <2>2, <2>4, <2>6 DEF IntentInv, Settled
<1>5. CASE DeliverConflict(t)
  <2>1. Handlers(t) = {t.round}
    BY <1>5, OwnHandler DEF DeliverConflict, InWorker
  <2>2. /\ conflicts' = conflicts \cup {[req |-> t.round.req, key |-> t.round.key,
                                        pair |-> t.round.pair]}
        /\ Release(t.round.ticket, tasks \ {t}, creds') /\ creds' = creds
        /\ isolate' = isolate /\ applied' = applied /\ waiting' = waiting
    BY <1>5, <2>1 DEF DeliverConflict, workerVars, fileVars, challengeVars
  <2> DEFINE c == [req |-> t.round.req, key |-> t.round.key, pair |-> t.round.pair]
  <2>3. c \in conflicts' /\ c.key = t.round.key
    BY <2>2
  <2> HIDE DEF c
  <2>4. Disputed(t.round.key)'
    BY <2>3 DEF Disputed
  <2> QED BY <2>2, <2>4, ReleaseIntent
<1>6. CASE DeliverError(t)
  <2>1. Handlers(t) = {t.round}
    BY <1>6, OwnHandler DEF DeliverError
  <2>2. /\ RoundFails(t.round, tasks \ {t})
        /\ isolate' = isolate /\ applied' = applied /\ waiting' = waiting
        /\ conflicts' = conflicts
    BY <1>6, <2>1 DEF DeliverError, workerVars, fileVars, challengeVars, dialogVars
  <2>3. \A k \in Key : Leaving(isolate, k) => Leaving(isolate', k)
    BY <2>2 DEF Leaving
  <2> QED BY <1>1, <2>2, <2>3, RoundFailsIntent
<1> QED BY <1>2, <1>3, <1>4, <1>5, <1>6

(* The end of a worker, whichever databaseWorker refers to.                 *)
LEMMA WorkerEndIntent ==
  ASSUME TypeOK, IInv, IntentInv,
         StopWorker \/ \E i \in Isolate : WorkerError(i) \/ OnExit(i)
  PROVE  IntentInv'
<1>1. isolate \in [Isolate -> Isolates] /\ worker \in {0} \cup Isolate
  BY DEF TypeOK
<1>2. \A i \in Isolate : \A h \in isolate[i].handler : h \in Rounds
  BY <1>1 DEF Isolates
<1>3. ASSUME Terminate
      PROVE  /\ \A k \in Key : Leaving(isolate, k) => Leaving(isolate', k)
             /\ \A s \in Dead : Leaving(isolate', s.round.key)
  <2>1. \A i \in Isolate : isolate'[i].handler = isolate[i].handler
    BY <1>1, <1>3 DEF Terminate, Isolates
  <2>2. \A i \in Isolate : isolate[i].state = "exiting" => isolate'[i].state = "exiting"
    BY <1>1, <1>3 DEF Terminate, Isolates
  <2>3. worker # 0 => isolate'[worker].state = "exiting"
    BY <1>1, <1>3 DEF Terminate, Isolates
  <2>4. ASSUME NEW s \in Dead PROVE Leaving(isolate', s.round.key)
    <3>1. s \in tasks /\ s.stage \in InWorker /\ s.on = worker
      BY DEF Dead
    <3>2. s.on \in Isolate /\ isolate[s.on].handler = {s.round}
      BY <3>1, TaskTypes DEF TypeOK, IInv, Sound, AtHome
    <3>3. worker # 0
      BY <3>1, <3>2, BoundAssumption DEF Isolate
    <3> QED BY <2>1, <2>3, <3>1, <3>2, <3>3 DEF Leaving
  <2> QED BY <2>1, <2>2, <2>4 DEF Leaving
<1>4. CASE StopWorker
  <2>1. /\ Terminate /\ tasks' = tasks \ Dead /\ queue' = queue /\ waiting' = waiting
        /\ conflicts' = conflicts /\ creds' = creds /\ applied' = applied
    BY <1>4 DEF StopWorker, fileVars, dialogVars, challengeVars
  <2>2. Stored(tasks', applied')
    BY <2>1 DEF IntentInv, Stored
  <2>3. ASSUME NEW k \in Key, Bears(tasks, k, creds[k])
        PROVE  Bears(tasks', k, creds'[k]) \/ Leaving(isolate', k)
    BY <1>3, <2>1, <2>3 DEF Bears
  <2>4. \A k \in Key : Carried(k) => Carried(k)'
    BY <1>3, <2>1, <2>3 DEF Carried, Disputed
  <2> QED BY <2>1, <2>2, <2>4 DEF IntentInv, Settled
<1>5. ASSUME NEW i \in Isolate, WorkerError(i) PROVE IntentInv'
  <2>1. PICK h \in isolate[i].handler : RoundFails(h, tasks \ Dead)
    BY <1>5 DEF WorkerError
  <2>2. /\ Terminate /\ applied' = applied /\ waiting' = waiting /\ conflicts' = conflicts
    BY <1>5 DEF WorkerError, fileVars, dialogVars, challengeVars
  <2>3. tasks \ Dead \in SUBSET tasks /\ tasks \ (tasks \ Dead) = Dead
    BY DEF Dead
  <2> QED BY <1>2, <1>3, <2>1, <2>2, <2>3, RoundFailsIntent
<1>6. ASSUME NEW i \in Isolate, OnExit(i) PROVE IntentInv'
  <2>1. PICK h \in isolate[i].handler :
           creds' = Cleared(h.key) /\ Release(h.ticket, tasks, creds')
    BY <1>6 DEF OnExit
  <2>2. /\ isolate' = [isolate EXCEPT ![i] = [state |-> "none", handler |-> {}]]
        /\ applied' = applied /\ waiting' = waiting /\ conflicts' = conflicts
    BY <1>6 DEF OnExit, fileVars, dialogVars, challengeVars
  <2>3. /\ creds' = [creds EXCEPT ![h.key] = 0]
        /\ creds \in [Key -> Nat] /\ h.key \in Key
    BY <1>2, <2>1 DEF Cleared, TypeOK, Rounds
  <2>4. \A k \in Key : creds'[k] \in {creds[k], 0}
    BY <2>3
  <2>5. ASSUME NEW k \in Key, Leaving(isolate, k)
        PROVE  Leaving(isolate', k) \/ creds'[k] = 0
    <3>1. PICK j \in Isolate : /\ isolate[j].state = "exiting"
                              /\ \E g \in isolate[j].handler : g.key = k
      BY <2>5 DEF Leaving
    <3>2. CASE j = i
      <4>1. \A g \in isolate[i].handler : g = h
        BY DEF IInv, Sound, OneHandler
      <4> QED BY <2>3, <3>1, <3>2, <4>1
    <3>3. CASE j # i
      BY <1>1, <2>2, <3>1, <3>3 DEF Leaving
    <3> QED BY <3>2, <3>3
  <2> QED BY <2>1, <2>2, <2>4, <2>5, ReleaseIntent
<1> QED BY <1>4, <1>5, <1>6

(* Giving up clears the field of the slot that goes.                        *)
LEMMA GiveUpIntent ==
  ASSUME TypeOK, IntentInv, NEW key \in Key, GiveUp(key),
         waiting' = Delete(waiting, key), UNCHANGED <<lockVars, isolate, applied, conflicts>>
  PROVE  IntentInv'
<1>1. waiting \in Seq(Slots) /\ creds \in [Key -> Nat]
  BY DEF TypeOK
<1>2. UNCHANGED <<tasks, queue, isolate, applied>>
  BY DEF lockVars
<1>3. \A k \in Key : Disputed(k) => Disputed(k)'
  BY DEF Disputed
<1>4. CASE Has(waiting, key)
  <2>1. creds' = [creds EXCEPT ![key] = 0]
    BY <1>4 DEF GiveUp, Cleared
  <2>2. \A k \in Key : creds'[k] \in {creds[k], 0}
    BY <1>1, <2>1
  <2>3. ASSUME NEW k \in Key, k # key, Has(waiting, k) PROVE Has(waiting', k)
    <3>1. PICK i \in DOMAIN waiting : waiting[i].key = k
      BY <2>3 DEF Has
    <3>2. \E j \in DOMAIN waiting' : waiting'[j] = waiting[i]
      BY <1>1, <2>3, <3>1, HasDelete
    <3> QED BY <3>1, <3>2 DEF Has
  <2>4. creds'[key] = 0
    BY <1>1, <2>1
  <2> QED BY <1>2, <1>3, <2>2, <2>3, <2>4, KeptIntent
<1>5. CASE ~Has(waiting, key)
  <2>1. creds' = creds /\ waiting' = waiting
    BY <1>5 DEF GiveUp, Delete
  <2>2. \A k \in Key : creds'[k] \in {creds[k], 0}
    BY <2>1
  <2>3. \A k \in Key : Has(waiting, k) => Has(waiting', k)
    BY <2>1
  <2> QED BY <1>2, <1>3, <2>2, <2>3, KeptIntent
<1> QED BY <1>4, <1>5

(* The NFC dialog.                                                          *)
LEMMA DialogIntent == ASSUME TypeOK, IntentInv, Dialog PROVE IntentInv'
<1>1. /\ waiting \in Seq(Slots) /\ closed \in Seq(Dialogs) /\ dialog \subseteq Dialogs
      /\ creds \in [Key -> Nat]
  BY DEF TypeOK
<1>2. \A d \in Dialogs : d.key \in Key
  BY DEF Dialogs
<1>3. CASE DialogOpens \/ DialogCloses \/ Answer("response") \/ Answer("cancel")
  <2>1. /\ UNCHANGED <<tasks, queue, isolate, applied>>
        /\ creds' = creds /\ waiting' = waiting /\ conflicts' = conflicts
    BY <1>3 DEF DialogOpens, DialogCloses, Answer, lockVars, workerVars, fileVars, dialogVars
  <2>2. \A k \in Key : creds'[k] \in {creds[k], 0}
    BY <2>1
  <2>3. \A k \in Key : /\ Has(waiting, k) => Has(waiting', k)
                      /\ Disputed(k) => Disputed(k)'
    BY <2>1 DEF Disputed
  <2> QED BY <2>1, <2>2, <2>3, KeptIntent
<1>4. CASE OpenFails
  <2>1. PICK d \in dialog : GiveUp(d.key) /\ waiting' = Delete(waiting, d.key)
    BY <1>4 DEF OpenFails
  <2>2. UNCHANGED <<lockVars, isolate, applied, conflicts>>
    BY <1>4 DEF OpenFails, workerVars, fileVars, dialogVars
  <2> QED BY <1>1, <1>2, <2>1, <2>2, GiveUpIntent
<1>5. CASE AfterCancel
  <2> DEFINE key == Head(closed).key
  <2>1. GiveUp(key) /\ waiting' = Delete(waiting, key)
    BY <1>5 DEF AfterCancel, OpenSaveChallenge
  <2>2. UNCHANGED <<lockVars, isolate, applied, conflicts>>
    BY <1>5 DEF AfterCancel, workerVars, fileVars, dialogVars
  <2>3. key \in Key
    <3>1. Head(closed) \in Dialogs
      BY <1>1, <1>5 DEF AfterCancel
    <3> QED BY <1>2, <3>1
  <2> HIDE DEF key
  <2> QED BY <2>1, <2>2, <2>3, GiveUpIntent
<1>6. CASE AfterResponse
  <2> DEFINE key == Head(closed).key
  <2>1. /\ waiting' = Delete(waiting, key)
        /\ creds' = creds /\ isolate' = isolate /\ applied' = applied
        /\ conflicts' = conflicts
    BY <1>6 DEF AfterResponse, OpenSaveChallenge, workerVars, fileVars, dialogVars
  <2>2. CASE ~Has(waiting, key)
    <3>1. UNCHANGED <<tasks, queue>> /\ waiting' = waiting
      BY <1>6, <2>1, <2>2 DEF AfterResponse, lockVars, Delete
    <3>2. \A k \in Key : creds'[k] \in {creds[k], 0}
      BY <2>1
    <3>3. \A k \in Key : /\ Has(waiting, k) => Has(waiting', k)
                        /\ Disputed(k) => Disputed(k)'
      BY <2>1, <3>1 DEF Disputed
    <3> QED BY <2>1, <3>1, <3>2, <3>3, KeptIntent
  <2>3. CASE Has(waiting, key)
    <3> DEFINE old == waiting[At(waiting, key)]
    <3> DEFINE slot == [old EXCEPT !.pair = old.req]
    <3>1. old \in Slots /\ old.key = key
      BY <1>1, <2>3, AtType
    <3>2. Submit(slot, creds)
      BY <1>6, <2>3 DEF AfterResponse
    <3> HIDE DEF old
    <3>3. slot \in Slots /\ slot.key = key
      BY <3>1 DEF Slots
    <3> HIDE DEF slot, key
    <3>4. /\ tasks \subseteq tasks'
          /\ \A t \in tasks' : t \in tasks \/ t.stage = "serialize"
          /\ \A k : Has(queue, k) => Has(queue', k)
          /\ Has(queue', key) \/ Bears(tasks', key, creds[key])
      BY <3>2, <3>3, SubmitCarries, Groups
    <3>5. Stored(tasks', applied')
      BY <2>1, <3>4 DEF IntentInv, Stored, Late
    <3>6. ASSUME NEW k \in Key, Carried(k) PROVE Carried(k)'
      <4>1. CASE k = key
        BY <2>1, <3>4, <4>1 DEF Carried
      <4>2. CASE k # key
        <5>1. Has(waiting, k) => Has(waiting', k)
          <6> SUFFICES ASSUME Has(waiting, k) PROVE Has(waiting', k)
            OBVIOUS
          <6>1. PICK i \in DOMAIN waiting : waiting[i].key = k
            BY DEF Has
          <6>2. \E j \in DOMAIN waiting' : waiting'[j] = waiting[i]
            BY <1>1, <2>1, <4>2, <6>1, HasDelete
          <6> QED BY <6>1, <6>2 DEF Has
        <5>2. Bears(tasks, k, creds[k]) => Bears(tasks', k, creds'[k])
          BY <2>1, <3>4 DEF Bears
        <5>3. Leaving(isolate, k) => Leaving(isolate', k)
          BY <2>1 DEF Leaving
        <5>4. Disputed(k) => Disputed(k)'
          BY <2>1 DEF Disputed
        <5> QED BY <3>4, <3>6, <5>1, <5>2, <5>3, <5>4 DEF Carried
      <4> QED BY <4>1, <4>2
    <3> QED BY <2>1, <3>5, <3>6 DEF IntentInv, Settled
  <2> QED BY <2>2, <2>3
<1> QED BY <1>3, <1>4, <1>5, <1>6 DEF Dialog

(* Every step keeps who carries a pending change.                           *)
LEMMA IntentStep == TypeOK /\ IInv /\ IntentInv /\ [Next]_vars => IntentInv'
<1> SUFFICES ASSUME TypeOK, IInv, IntentInv, [Next]_vars PROVE IntentInv'
  OBVIOUS
<1>1. creds \in [Key -> Nat] /\ calls \in Seq(Calls)
  BY DEF TypeOK
<1>2. ASSUME NEW k \in Key, SaveDatabase(k) \/ ChangePassword(k) PROVE IntentInv'
  <2>1. Asked(k) \in Slots /\ Asked(k).key = k
    BY <1>1 DEF Asked, Slots, Strategies
  <2>2. /\ SaveFor(Asked(k), creds')
        /\ conflicts' = conflicts /\ applied' = applied /\ isolate' = isolate
    BY <1>2 DEF SaveDatabase, ChangePassword, workerVars, fileVars, dialogVars
  <2>3. \A j \in Key : j # k => creds'[j] = creds[j]
    BY <1>1, <1>2 DEF SaveDatabase, ChangePassword
  <2> QED BY <2>1, <2>2, <2>3, SaveForIntent
<1>3. ASSUME NEW t \in tasks, Step(t) PROVE IntentInv'
  BY <1>3, RoundIntent, WorkIntent DEF Step
<1>4. CASE StopWorker \/ \E i \in Isolate : WorkerError(i) \/ OnExit(i)
  BY <1>4, WorkerEndIntent
<1>5. ASSUME NEW c \in conflicts, NEW s \in {"MERGE", "OVERWRITE"}, AnswerSave(c, s)
      PROVE  IntentInv'
  <2> DEFINE slot == [req |-> c.req, key |-> c.key, strategy |-> s, pair |-> c.pair]
  <2>1. slot \in Slots /\ slot.key = c.key
    BY DEF TypeOK, Slots, Strategies
  <2>2. /\ SaveFor(slot, creds) /\ conflicts' = conflicts \ {c}
        /\ creds' = creds /\ applied' = applied /\ isolate' = isolate
    BY <1>5 DEF AnswerSave, workerVars, fileVars
  <2> HIDE DEF slot
  <2>3. \A d \in conflicts : d \in conflicts' \/ d.key = slot.key
    BY <2>1, <2>2
  <2>4. \A j \in Key : j # slot.key => creds'[j] = creds[j]
    BY <2>2
  <2>5. SaveFor(slot, creds')
    BY <2>2
  <2> QED BY <2>1, <2>2, <2>3, <2>4, <2>5, SaveForIntent
<1>6. ASSUME NEW c \in conflicts, AnswerReload(c) \/ Dismiss(c) PROVE IntentInv'
  <2>1. /\ UNCHANGED <<tasks, queue, isolate, applied>> /\ waiting' = waiting
        /\ conflicts' = conflicts \ {c} /\ creds' = [creds EXCEPT ![c.key] = 0]
    BY <1>6 DEF AnswerReload, Dismiss, lockVars, workerVars, fileVars, challengeVars, Cleared
  <2>2. c.key \in Key
    BY DEF TypeOK
  <2>3. \A k \in Key : creds'[k] \in {creds[k], 0}
    BY <1>1, <2>1
  <2>4. ASSUME NEW k \in Key
        PROVE  \/ creds'[k] = 0
               \/ /\ Has(waiting, k) => Has(waiting', k)
                  /\ Disputed(k) => Disputed(k)'
    BY <1>1, <2>1 DEF Disputed
  <2> QED BY <2>1, <2>3, <2>4, KeptIntent
<1>7. CASE (\E l \in reloads : ReloadDone(l) \/ ReloadFails(l)) \/ UNCHANGED vars
  <2>1. /\ UNCHANGED <<tasks, queue, isolate, applied>>
        /\ creds' = creds /\ waiting' = waiting /\ conflicts' = conflicts
    BY <1>7 DEF ReloadDone, ReloadFails, vars, lockVars, workerVars, fileVars, challengeVars,
                dialogVars
  <2>2. \A k \in Key : creds'[k] \in {creds[k], 0}
    BY <2>1
  <2>3. \A k \in Key : /\ Has(waiting, k) => Has(waiting', k)
                      /\ Disputed(k) => Disputed(k)'
    BY <2>1 DEF Disputed
  <2> QED BY <2>1, <2>2, <2>3, KeptIntent
<1>8. CASE Dialog
  BY <1>8, DialogIntent
<1> QED BY <1>2, <1>3, <1>4, <1>5, <1>6, <1>7, <1>8 DEF Next

(* Initially nothing is pending.                                            *)
LEMMA IntentInit == Init => IntentInv
  BY DEF Init, IntentInv, Stored, Settled

(* Who carries a pending change, at every moment.                           *)
THEOREM IntentIsCarried == Spec => []IntentInv
<1>1. Init => IntentInv
  BY IntentInit
<1>2. TypeOK /\ IInv /\ IntentInv /\ [Next]_vars => IntentInv'
  BY IntentStep
<1> QED BY <1>1, <1>2, Invariance, PTL DEF Spec

(* A change of credentials whose save was given up, whether it failed, was  *)
(* dismissed or cancelled or lost its worker, does not stay in the session  *)
(* for a later save to apply (FileService.clearPendingCredentialChangesOf). *)
THEOREM GivenUpIsCleared == Spec => []NoIntentLeft
<1>1. ASSUME IntentInv PROVE NoIntentLeft
  <2> SUFFICES ASSUME NEW k \in Key, Quiet(k), creds[k] # 0, creds[k] \notin applied
               PROVE  FALSE
    BY DEF NoIntentLeft
  <2>1. Carried(k)
    BY <1>1 DEF IntentInv, Settled
  <2> QED BY <2>1 DEF Carried, Quiet, Bears, Disputed, Leaving
<1> QED BY <1>1, IntentIsCarried, PTL

-----------------------------------------------------------------------------
(* One save in the workers.  With one fault at most, every round that is in *)
(* a worker has the lock.  A second fault breaks this: the exit of an older *)
(* isolate nulls the reference to the one that works, whose next error then *)
(* releases the lock and terminates nothing.                                *)

AllLocked(U, T) == \A t \in T : t.stage \in InWorker => t.round.ticket \in U

AloneInv ==
  /\ faults = 0 => \A i \in Isolate : isolate[i].state # "none" => i = worker
  /\ faults =< 1 => AllLocked(unreleased, tasks)

(* Taking and releasing the lock.                                           *)
LEMMA SubmitLocked ==
  ASSUME AllLocked(unreleased, tasks), NEW slot, NEW cr, Submit(slot, cr)
  PROVE  AllLocked(unreleased', tasks')
<1>1. Started(slot, cr).stage \notin InWorker
  BY DEF Started, InWorker
<1> QED BY <1>1 DEF Submit, AllLocked

LEMMA ReleaseLocked ==
  ASSUME NEW ticket, NEW left, NEW cr, Release(ticket, left, cr),
         AllLocked(unreleased \ {ticket}, left)
  PROVE  AllLocked(unreleased', tasks')
<1>1. \A slot : Started(slot, cr).stage \notin InWorker
  BY DEF Started, InWorker
<1>2. CASE ticket \notin unreleased
  BY <1>2 DEF Release, AllLocked
<1>3. CASE ticket \in unreleased
  BY <1>1, <1>3 DEF Release, OnSaveDone, AllLocked
<1> QED BY <1>2, <1>3

(* What changes neither the faults nor the workers.                         *)
LEMMA KeptAlone ==
  ASSUME AloneInv, UNCHANGED workerVars,
         faults =< 1 => AllLocked(unreleased', tasks')
  PROVE  AloneInv'
  BY DEF AloneInv, workerVars

(* A task leaves with its lock.                                             *)
LEMMA LeaveLocked ==
  ASSUME TypeOK, IInv, AllLocked(unreleased, tasks), NEW t \in tasks
  PROVE  AllLocked(unreleased \ {t.round.ticket}, tasks \ {t})
  BY DEF IInv, Sound, Unique, AllLocked

(* Every step keeps the saves apart.                                        *)
LEMMA AloneStep == TypeOK /\ TypeOK' /\ IInv /\ AloneInv /\ [Next]_vars => AloneInv'
<1> SUFFICES ASSUME TypeOK, TypeOK', IInv, AloneInv, [Next]_vars PROVE AloneInv'
  OBVIOUS
<1>0. /\ faults \in Nat /\ worker \in {0} \cup Isolate /\ isolate \in [Isolate -> Isolates]
      /\ \A i \in Isolate : i # 0
  BY BoundAssumption DEF TypeOK, Isolate
<1>1. ASSUME NEW slot, NEW cr, SaveFor(slot, cr), UNCHANGED workerVars PROVE AloneInv'
  <2>1. CASE slot.key \in XCKey /\ slot.pair = 0
    <3>1. UNCHANGED <<unreleased, tasks>>
      BY <1>1, <2>1 DEF SaveFor, lockVars
    <3> QED BY <1>1, <3>1, KeptAlone DEF AloneInv
  <2>2. CASE ~(slot.key \in XCKey /\ slot.pair = 0)
    BY <1>1, <2>2, SubmitLocked, KeptAlone DEF SaveFor, AloneInv
  <2> QED BY <2>1, <2>2
<1>2. ASSUME NEW k \in Key, SaveDatabase(k) \/ ChangePassword(k) PROVE AloneInv'
  BY <1>1, <1>2 DEF SaveDatabase, ChangePassword
<1>3. ASSUME NEW c \in conflicts, AnswerSave(c, "MERGE") \/ AnswerSave(c, "OVERWRITE")
      PROVE  AloneInv'
  BY <1>1, <1>3 DEF AnswerSave
<1>4. ASSUME NEW t \in tasks, NEW cr, UNCHANGED workerVars,
             Release(t.round.ticket, tasks \ {t}, cr)
      PROVE  AloneInv'
  BY <1>4, LeaveLocked, ReleaseLocked, KeptAlone DEF AloneInv
<1>5. ASSUME NEW t \in tasks,
             \/ SerializeFails(t) \/ DeliverSuccess(t) \/ DeliverConflict(t) \/ DeliverError(t)
             \/ Adopt(t, "saved") \/ Adopt(t, "error")
      PROVE  AloneInv'
  <2>1. t.stage \in InWorker => Handlers(t) = {t.round}
    BY OwnHandler
  <2>2. /\ DeliverSuccess(t) => t.stage \in InWorker
        /\ DeliverConflict(t) => t.stage \in InWorker
        /\ DeliverError(t) => t.stage \in InWorker
    BY DEF DeliverSuccess, DeliverConflict, DeliverError, InWorker
  <2>3. \E cr : Release(t.round.ticket, tasks \ {t}, cr)
    BY <1>5, <2>1, <2>2 DEF SerializeFails, DeliverSuccess, DeliverConflict, DeliverError, Adopt,
                            RoundFails
  <2>4. UNCHANGED workerVars
    BY <1>5 DEF SerializeFails, DeliverSuccess, DeliverConflict, DeliverError, Adopt
  <2> QED BY <1>4, <2>3, <2>4
<1>6. ASSUME NEW t \in tasks, NEW s, s.round = t.round, t.stage \in InWorker,
             tasks' = (tasks \ {t}) \cup {s}, unreleased' = unreleased, UNCHANGED workerVars
      PROVE  AloneInv'
  BY <1>6, KeptAlone DEF AloneInv, AllLocked
<1>7. ASSUME NEW t \in tasks, Store(t, "stored") \/ Store(t, "merged") PROVE AloneInv'
  <2>1. PICK stage \in {"stored", "merged"} : Store(t, stage)
    BY <1>7
  <2>2. [t EXCEPT !.stage = stage].round = t.round
    BY DEF TypeOK, Tasks
  <2> DEFINE s == [t EXCEPT !.stage = stage]
  <2>3. /\ tasks' = (tasks \ {t}) \cup {s} /\ s.round = t.round /\ t.stage \in InWorker
        /\ unreleased' = unreleased /\ UNCHANGED workerVars
    BY <2>1, <2>2 DEF Store, InWorker
  <2> HIDE DEF s
  <2> QED BY <1>6, <2>3
<1>8. ASSUME NEW t \in tasks, DeliverMerge(t) PROVE AloneInv'
  <2> DEFINE s == [round |-> t.round, stage |-> "adopt", on |-> 0]
  <2>1. t.stage \in InWorker /\ Handlers(t) = {t.round}
    BY <1>8, OwnHandler DEF DeliverMerge, InWorker
  <2>2. /\ tasks' = (tasks \ {t}) \cup {s} /\ s.round = t.round
        /\ unreleased' = unreleased /\ UNCHANGED workerVars
    BY <1>8, <2>1 DEF DeliverMerge
  <2> HIDE DEF s
  <2> QED BY <1>6, <2>1, <2>2
<1>9. ASSUME NEW t \in tasks, Post(t) PROVE AloneInv'
  <2> DEFINE s == [round |-> t.round, stage |-> "posted", on |-> Target]
  <2>1. /\ t.stage = "serialize" /\ worker' = Target /\ faults' = faults
        /\ isolate' = [isolate EXCEPT ![Target] = [state |-> "live", handler |-> {t.round}]]
        /\ tasks' = (tasks \ {t}) \cup {s} /\ unreleased' = unreleased
        /\ s.round = t.round
    BY <1>9 DEF Post
  <2> HIDE DEF s
  <2>2. Target \in Isolate /\ (worker # 0 => Target = worker)
    BY <1>9, TargetState DEF Post, Target
  <2>3. t.round.ticket \in unreleased
    BY <2>1 DEF IInv, Sound, Locked
  <2>4. faults =< 1 => AllLocked(unreleased', tasks')
    BY <2>1, <2>3 DEF AloneInv, AllLocked
  <2>5. ASSUME faults = 0, NEW i \in Isolate, isolate'[i].state # "none" PROVE i = worker'
    BY <1>0, <2>1, <2>2, <2>5 DEF AloneInv
  <2> QED BY <2>1, <2>4, <2>5 DEF AloneInv
<1>10. ASSUME NEW t \in tasks, PostFails(t) PROVE AloneInv'
  <2>1. faults' = faults + 1 /\ Release(t.round.ticket, tasks \ {t}, creds')
    BY <1>10 DEF PostFails, RoundFails
  <2>3. faults' =< 1 => faults =< 1
    BY <1>0, <2>1
  <2>4. faults' =< 1 => AllLocked(unreleased \ {t.round.ticket}, tasks \ {t})
    BY <2>3, LeaveLocked DEF AloneInv
  <2>2. faults' =< 1 => AllLocked(unreleased', tasks')
    BY <2>1, <2>4, ReleaseLocked
  <2> QED BY <1>0, <2>1, <2>2 DEF AloneInv
<1>11. CASE StopWorker
  BY <1>0, <1>11 DEF StopWorker, AloneInv, AllLocked
<1>12. ASSUME NEW i \in Isolate, WorkerError(i) PROVE AloneInv'
  <2>1. PICK h \in isolate[i].handler : Release(h.ticket, tasks \ Dead, creds')
    BY <1>12 DEF WorkerError, RoundFails
  <2>2. faults' = faults + 1
    BY <1>12 DEF WorkerError
  <2>3. ASSUME faults = 0, NEW t \in tasks, t.stage \in InWorker PROVE t \in Dead
    <3>1. t.on \in Isolate /\ isolate[t.on].state = "live"
      BY <2>3, TaskTypes DEF TypeOK, IInv, Sound, AtHome
    <3> QED BY <2>3, <3>1 DEF AloneInv, Dead
  <2>4. faults = 0 => AllLocked(unreleased \ {h.ticket}, tasks \ Dead)
    BY <2>3 DEF AllLocked
  <2>5. faults' =< 1 => AllLocked(unreleased', tasks')
    BY <1>0, <2>1, <2>2, <2>4, ReleaseLocked
  <2> QED BY <1>0, <2>2, <2>5 DEF AloneInv
<1>13. ASSUME NEW i \in Isolate, OnExit(i) PROVE AloneInv'
  <2>1. PICK h \in isolate[i].handler : Release(h.ticket, tasks, creds')
    BY <1>13 DEF OnExit
  <2>2. faults' = faults /\ isolate[i].state = "exiting"
    BY <1>13 DEF OnExit
  <2>3. ASSUME NEW t \in tasks, t.stage \in InWorker PROVE t.round.ticket # h.ticket
    <3>1. t.round.ticket = h.ticket => t.on = i
      BY <2>3 DEF IInv, Sound, Bound
    <3>2. isolate[t.on].state = "live"
      BY <2>3 DEF IInv, Sound, AtHome
    <3> QED BY <2>2, <3>1, <3>2
  <2>4. faults =< 1 => AllLocked(unreleased \ {h.ticket}, tasks)
    BY <2>3 DEF AloneInv, AllLocked
  <2>5. faults' =< 1 => AllLocked(unreleased', tasks')
    BY <2>1, <2>2, <2>4, ReleaseLocked
  <2>6. faults # 0
    BY <1>0, <2>2 DEF AloneInv, IInv, Sound, Alive
  <2> QED BY <2>2, <2>5, <2>6 DEF AloneInv
<1>14. CASE AfterResponse
  <2>1. UNCHANGED workerVars
    BY <1>14 DEF AfterResponse
  <2>2. (\E slot, cr : Submit(slot, cr)) \/ UNCHANGED <<unreleased, tasks>>
    BY <1>14 DEF AfterResponse, lockVars
  <2>3. faults =< 1 => AllLocked(unreleased', tasks')
    BY <2>2, SubmitLocked DEF AloneInv
  <2> QED BY <2>1, <2>3, KeptAlone
<1>15. CASE \/ \E c \in conflicts : AnswerReload(c) \/ Dismiss(c)
            \/ \E l \in reloads : ReloadDone(l) \/ ReloadFails(l)
            \/ DialogOpens \/ OpenFails \/ DialogCloses \/ Answer("response") \/ Answer("cancel")
            \/ AfterCancel \/ UNCHANGED vars
  <2>1. UNCHANGED workerVars /\ UNCHANGED <<unreleased, tasks>>
    BY <1>15 DEF AnswerReload, Dismiss, ReloadDone, ReloadFails, DialogOpens, OpenFails,
                 DialogCloses, Answer, AfterCancel, vars, lockVars
  <2> QED BY <2>1, KeptAlone DEF AloneInv
<1> QED BY <1>2, <1>3, <1>5, <1>7, <1>8, <1>9, <1>10, <1>11, <1>12, <1>13, <1>14, <1>15
        DEF Next, Step, Dialog

(* Initially nothing runs.                                                  *)
LEMMA AloneInit == Init => AloneInv
  BY DEF Init, AloneInv, AllLocked

(* With one fault at most, no save is in a worker beside another, which is  *)
(* what KdbxSaveService.ets:590 says of the saving lock.                    *)
THEOREM SavesRunAlone == Spec => [](faults =< 1 => NoConcurrentSaves)
<1>1. Init => AloneInv
  BY AloneInit
<1>2. TypeOK /\ TypeOK' /\ IInv /\ AloneInv /\ [Next]_vars => AloneInv'
  BY AloneStep
<1>3. IInv /\ AloneInv => (faults =< 1 => NoConcurrentSaves)
  BY DEF IInv, Sound, Unique, SingleFlight, AloneInv, AllLocked, NoConcurrentSaves
<1> QED BY <1>1, <1>2, <1>3, Invariance, PTL DEF Spec

-----------------------------------------------------------------------------
(* Where a request is.  It is in one place at most: a slot of the queue or  *)
(* of the waiting challenges, a task, or a conflict dialog; while it is, it *)
(* has not been reported saved, and it carries the pair obtained for it.    *)
(* Stated of the slots Q and W, the tasks T, the conflicts C and the calls. *)

SlotsOf(map) == {map[i] : i \in DOMAIN map}

(* What a map has after it was set, shortened or had a key taken out.       *)
LEMMA SlotsSet ==
  ASSUME NEW map \in Seq(Slots), NEW slot \in Slots
  PROVE  SlotsOf(Set(map, slot)) \subseteq SlotsOf(map) \cup {slot}
<1>1. CASE Has(map, slot.key)
  BY <1>1 DEF Set, SlotsOf
<1>2. CASE ~Has(map, slot.key)
  <2>1. Set(map, slot) = Append(map, slot)
    BY <1>2 DEF Set
  <2>2. /\ DOMAIN map = 1 .. Len(map) /\ Len(map) \in Nat
        /\ DOMAIN Append(map, slot) = 1 .. Len(map) + 1
        /\ Append(map, slot)[Len(map) + 1] = slot
        /\ \A i \in 1 .. Len(map) : Append(map, slot)[i] = map[i]
    OBVIOUS
  <2>3. \A i \in 1 .. Len(map) + 1 : i \in 1 .. Len(map) \/ i = Len(map) + 1
    BY <2>2
  <2> QED BY <2>1, <2>2, <2>3 DEF SlotsOf
<1> QED BY <1>1, <1>2

LEMMA SlotsTail ==
  ASSUME NEW map \in Seq(Slots), Distinct(map), map # <<>>
  PROVE  /\ Head(map) \in SlotsOf(map)
         /\ SlotsOf(Tail(map)) \subseteq SlotsOf(map) \ {Head(map)}
<1>1. /\ DOMAIN map = 1 .. Len(map) /\ Len(map) \in Nat /\ Len(map) >= 1
      /\ Head(map) = map[1]
      /\ DOMAIN Tail(map) = 1 .. Len(map) - 1
      /\ \A i \in 1 .. Len(map) - 1 : Tail(map)[i] = map[i + 1]
  OBVIOUS
<1>2. \A i \in 1 .. Len(map) - 1 : i + 1 \in 1 .. Len(map) /\ i + 1 # 1
  BY <1>1
<1>3. \A i \in 1 .. Len(map) - 1 : map[i + 1] # map[1]
  <2> SUFFICES ASSUME NEW i \in 1 .. Len(map) - 1, map[i + 1] = map[1] PROVE FALSE
    OBVIOUS
  <2>1. i + 1 \in DOMAIN map /\ 1 \in DOMAIN map /\ map[i + 1].key = map[1].key
    BY <1>1, <1>2
  <2>2. i + 1 = 1
    BY <2>1 DEF Distinct
  <2> QED BY <1>2, <2>2
<1> QED BY <1>1, <1>2, <1>3 DEF SlotsOf

LEMMA SlotsDelete ==
  ASSUME NEW map \in Seq(Slots), Distinct(map), NEW k, Has(map, k)
  PROVE  /\ map[At(map, k)] \in SlotsOf(map)
         /\ SlotsOf(Delete(map, k)) \subseteq SlotsOf(map) \ {map[At(map, k)]}
<1> DEFINE at == At(map, k)
<1>1. /\ DOMAIN map = 1 .. Len(map) /\ Len(map) \in Nat
      /\ at \in 1 .. Len(map)
  BY AtType
<1>2. /\ DOMAIN Delete(map, k) = 1 .. Len(map) - 1
      /\ \A j \in 1 .. Len(map) - 1 :
            Delete(map, k)[j] = IF j < at THEN map[j] ELSE map[j + 1]
  BY DeleteAt
<1> HIDE DEF at
<1>3. \A i \in 1 .. Len(map) : i # at => map[i] # map[at]
  BY <1>1 DEF Distinct
<1>4. \A j \in 1 .. Len(map) - 1 :
         \E i \in 1 .. Len(map) : i # at /\ Delete(map, k)[j] = map[i]
  <2> TAKE j \in 1 .. Len(map) - 1
  <2>1. CASE j < at
    BY <1>1, <1>2, <2>1
  <2>2. CASE ~(j < at)
    <3>1. j + 1 \in 1 .. Len(map) /\ j + 1 # at
      BY <1>1, <2>2
    <3> QED BY <1>2, <2>2, <3>1
  <2> QED BY <2>1, <2>2
<1>5. \A d \in SlotsOf(Delete(map, k)) : d \in SlotsOf(map) /\ d # map[at]
  BY <1>1, <1>2, <1>3, <1>4 DEF SlotsOf
<1> QED BY <1>1, <1>5 DEF SlotsOf, at

PairOf(k, r) == IF k \in XCKey THEN r ELSE 0

Owned(x, cs) == x.req \in DOMAIN cs /\ cs[x.req].key = x.key
Untold(x, cs) == "saved" \notin cs[x.req].told

(* A request that has its pair, and one that still waits for it.            *)
Ready(x, cs) == Owned(x, cs) /\ Untold(x, cs) /\ x.pair = PairOf(x.key, x.req)
Unpaired(x, cs) == Owned(x, cs) /\ Untold(x, cs) /\ x.pair = 0 /\ x.key \in XCKey

Apart(Q, W, T, C) ==
  /\ \A p, q \in Q : p.req = q.req => p = q
  /\ \A v, w \in W : v.req = w.req => v = w
  /\ \A s, t \in T : s.round.req = t.round.req => s = t
  /\ \A b, c \in C : b.req = c.req => b = c
  /\ \A q \in Q : \A w \in W : q.req # w.req
  /\ \A q \in Q : \A t \in T : q.req # t.round.req
  /\ \A q \in Q : \A c \in C : q.req # c.req
  /\ \A w \in W : \A t \in T : w.req # t.round.req
  /\ \A w \in W : \A c \in C : w.req # c.req
  /\ \A t \in T : \A c \in C : t.round.req # c.req

Fit(Q, W, T, C, cs) ==
  /\ \A q \in Q : Ready(q, cs)
  /\ \A w \in W : Unpaired(w, cs)
  /\ \A t \in T : Ready(t.round, cs)
  /\ \A c \in C : Ready(c, cs)

Places(Q, W, T, C, cs) == Apart(Q, W, T, C) /\ Fit(Q, W, T, C, cs)

(* A request that is nowhere.                                               *)
Absent(r, Q, W, T, C) ==
  /\ \A q \in Q : q.req # r
  /\ \A w \in W : w.req # r
  /\ \A t \in T : t.round.req # r
  /\ \A c \in C : c.req # r

(* Leaving a place.                                                         *)
LEMMA PlacesDrop ==
  ASSUME NEW Q, NEW W, NEW T, NEW C, NEW cs, Places(Q, W, T, C, cs),
         NEW Q1 \in SUBSET Q, NEW W1 \in SUBSET W, NEW T1 \in SUBSET T, NEW C1 \in SUBSET C
  PROVE  /\ Places(Q1, W1, T1, C1, cs)
         /\ \A q \in Q \ Q1 : Absent(q.req, Q1, W1, T1, C1)
         /\ \A w \in W \ W1 : Absent(w.req, Q1, W1, T1, C1)
         /\ \A t \in T \ T1 : Absent(t.round.req, Q1, W1, T1, C1)
         /\ \A c \in C \ C1 : Absent(c.req, Q1, W1, T1, C1)
<1>1. Apart(Q1, W1, T1, C1)
  BY DEF Places, Apart
<1>2. Fit(Q1, W1, T1, C1, cs)
  BY DEF Places, Fit
<1>3. \A q \in Q \ Q1 : Absent(q.req, Q1, W1, T1, C1)
  BY DEF Places, Apart, Absent
<1>4. \A w \in W \ W1 : Absent(w.req, Q1, W1, T1, C1)
  BY DEF Places, Apart, Absent
<1>5. \A t \in T \ T1 : Absent(t.round.req, Q1, W1, T1, C1)
  BY DEF Places, Apart, Absent
<1>6. \A c \in C \ C1 : Absent(c.req, Q1, W1, T1, C1)
  BY DEF Places, Apart, Absent
<1> QED BY <1>1, <1>2, <1>3, <1>4, <1>5, <1>6 DEF Places

(* Entering one.                                                            *)
LEMMA PlacesAdd ==
  ASSUME NEW Q, NEW W, NEW T, NEW C, NEW cs, Places(Q, W, T, C, cs)
  PROVE  /\ \A x : Ready(x, cs) /\ Absent(x.req, Q, W, T, C)
                  => Places(Q \cup {x}, W, T, C, cs)
         /\ \A x : Unpaired(x, cs) /\ Absent(x.req, Q, W, T, C)
                  => Places(Q, W \cup {x}, T, C, cs)
         /\ \A x : Ready(x.round, cs) /\ Absent(x.round.req, Q, W, T, C)
                  => Places(Q, W, T \cup {x}, C, cs)
         /\ \A x : Ready(x, cs) /\ Absent(x.req, Q, W, T, C)
                  => Places(Q, W, T, C \cup {x}, cs)
<1>1. ASSUME NEW x, Ready(x, cs), Absent(x.req, Q, W, T, C)
      PROVE  Places(Q \cup {x}, W, T, C, cs)
  <2>1. Apart(Q \cup {x}, W, T, C)
    BY <1>1 DEF Places, Apart, Absent
  <2>2. Fit(Q \cup {x}, W, T, C, cs)
    BY <1>1 DEF Places, Fit
  <2> QED BY <2>1, <2>2 DEF Places
<1>2. ASSUME NEW x, Unpaired(x, cs), Absent(x.req, Q, W, T, C)
      PROVE  Places(Q, W \cup {x}, T, C, cs)
  <2>1. Apart(Q, W \cup {x}, T, C)
    BY <1>2 DEF Places, Apart, Absent
  <2>2. Fit(Q, W \cup {x}, T, C, cs)
    BY <1>2 DEF Places, Fit
  <2> QED BY <2>1, <2>2 DEF Places
<1>3. ASSUME NEW x, Ready(x.round, cs), Absent(x.round.req, Q, W, T, C)
      PROVE  Places(Q, W, T \cup {x}, C, cs)
  <2>1. Apart(Q, W, T \cup {x}, C)
    BY <1>3 DEF Places, Apart, Absent
  <2>2. Fit(Q, W, T \cup {x}, C, cs)
    BY <1>3 DEF Places, Fit
  <2> QED BY <2>1, <2>2 DEF Places
<1>4. ASSUME NEW x, Ready(x, cs), Absent(x.req, Q, W, T, C)
      PROVE  Places(Q, W, T, C \cup {x}, cs)
  <2>1. Apart(Q, W, T, C \cup {x})
    BY <1>4 DEF Places, Apart, Absent
  <2>2. Fit(Q, W, T, C \cup {x}, cs)
    BY <1>4 DEF Places, Fit
  <2> QED BY <2>1, <2>2 DEF Places
<1> QED BY <1>1, <1>2, <1>3, <1>4

(* The history of requests grows; those in R may have been reported saved.  *)
Grown(cs, ds, R) ==
  /\ DOMAIN cs \subseteq DOMAIN ds
  /\ \A r \in DOMAIN cs : ds[r].key = cs[r].key
  /\ \A r \in DOMAIN cs : "saved" \in ds[r].told => "saved" \in cs[r].told \/ r \in R

(* It does when a request is told something, and when one is made.          *)
LEMMA TellGrown ==
  ASSUME CallsOK, NEW req, NEW answer \in Answers, Tell(req, answer)
  PROVE  /\ Grown(calls, calls', {req})
         /\ answer # "saved" => Grown(calls, calls', {})
<1>1. /\ calls' = [calls EXCEPT ![req].told = @ \cup {answer}]
      /\ \A r \in DOMAIN calls : calls[r] \in Calls
  BY DEF Tell, CallsOK
<1>2. DOMAIN calls' = DOMAIN calls
  BY <1>1
<1>3. ASSUME NEW r \in DOMAIN calls
      PROVE  /\ calls'[r].key = calls[r].key
             /\ calls'[r].told = IF r = req THEN calls[r].told \cup {answer} ELSE calls[r].told
  <2>1. CASE r = req
    <3>1. calls'[r] = [calls[r] EXCEPT !.told = @ \cup {answer}]
      BY <1>1, <2>1
    <3> QED BY <1>1, <2>1, <3>1 DEF Calls
  <2>2. CASE r # req
    BY <1>1, <2>2
  <2> QED BY <2>1, <2>2
<1> QED BY <1>2, <1>3 DEF Grown

LEMMA RequestGrown ==
  ASSUME CallsOK, NEW k, NEW change, Request(k, change)
  PROVE  /\ Grown(calls, calls', {})
         /\ Len(calls) + 1 \notin DOMAIN calls /\ Len(calls) + 1 \in DOMAIN calls'
         /\ calls'[Len(calls) + 1] = [key |-> k, change |-> change, told |-> {}]
<1> DEFINE new == [key |-> k, change |-> change, told |-> {}]
<1>1. calls' = Append(calls, new) /\ calls \in Seq(Calls)
  BY DEF Request, CallsOK
<1> HIDE DEF new
<1>2. /\ Len(calls) \in Nat /\ DOMAIN calls = 1 .. Len(calls)
      /\ DOMAIN calls' = 1 .. Len(calls) + 1
      /\ calls'[Len(calls) + 1] = new
      /\ \A i \in 1 .. Len(calls) : calls'[i] = calls[i]
  BY <1>1
<1>3. 1 .. Len(calls) \subseteq 1 .. Len(calls) + 1
  BY <1>2
<1>4. Grown(calls, calls', {})
  BY <1>2, <1>3 DEF Grown
<1>5. Len(calls) + 1 \notin DOMAIN calls /\ Len(calls) + 1 \in DOMAIN calls'
  BY <1>2
<1> QED BY <1>2, <1>4, <1>5 DEF new

(* Requests stay where they are, if none that is somewhere was told.        *)
LEMMA PlacesGrown ==
  ASSUME NEW Q, NEW W, NEW T, NEW C, NEW cs, NEW ds, NEW R, Places(Q, W, T, C, cs),
         Grown(cs, ds, R), \A r \in R : Absent(r, Q, W, T, C)
  PROVE  Places(Q, W, T, C, ds)
<1>1. ASSUME NEW x, Owned(x, cs), Untold(x, cs), x.req \notin R
      PROVE  Owned(x, ds) /\ Untold(x, ds)
  BY <1>1 DEF Owned, Untold, Grown
<1>2. \A x : Ready(x, cs) /\ x.req \notin R => Ready(x, ds)
  BY <1>1 DEF Ready
<1>3. \A x : Unpaired(x, cs) /\ x.req \notin R => Unpaired(x, ds)
  BY <1>1 DEF Unpaired
<1>4. Fit(Q, W, T, C, ds)
  BY <1>2, <1>3 DEF Places, Fit, Absent
<1> QED BY <1>4 DEF Places

(* A request that asks for the lock.                                        *)
LEMMA PlacesSubmit ==
  ASSUME LockOK, NEW slot \in Slots, NEW cr, Submit(slot, cr), NEW W, NEW C, NEW cs,
         Places(SlotsOf(queue), W, tasks, C, cs),
         Ready(slot, cs), Absent(slot.req, SlotsOf(queue), W, tasks, C)
  PROVE  Places(SlotsOf(queue'), W, tasks', C, cs)
<1>1. CASE saving
  <2>1. queue' = Set(queue, slot) /\ tasks' = tasks /\ queue \in Seq(Slots)
    BY <1>1 DEF Submit, LockOK
  <2>2. SlotsOf(queue') \subseteq SlotsOf(queue) \cup {slot}
    BY <2>1, SlotsSet
  <2>3. Places(SlotsOf(queue) \cup {slot}, W, tasks, C, cs)
    BY PlacesAdd
  <2> QED BY <2>1, <2>2, <2>3, PlacesDrop
<1>2. CASE ~saving
  <2>1. queue' = queue /\ tasks' = tasks \cup {Started(slot, cr)}
    BY <1>2 DEF Submit
  <2>2. /\ Started(slot, cr).round.req = slot.req
        /\ Started(slot, cr).round.key = slot.key
        /\ Started(slot, cr).round.pair = slot.pair
    BY DEF Started
  <2>3. Ready(Started(slot, cr).round, cs)
    BY <2>2 DEF Ready, Owned, Untold
  <2> QED BY <2>1, <2>2, <2>3, PlacesAdd
<1> QED BY <1>1, <1>2

(* The release of a lock, of which the next request makes use.              *)
LEMMA PlacesRelease ==
  ASSUME LockOK, NEW ticket, NEW left, NEW cr, Release(ticket, left, cr),
         NEW W, NEW C, NEW cs, Places(SlotsOf(queue), W, left, C, cs)
  PROVE  Places(SlotsOf(queue'), W, tasks', C, cs)
<1>1. CASE ticket \notin unreleased \/ queue = <<>>
  BY <1>1 DEF Release, OnSaveDone
<1>2. CASE ticket \in unreleased /\ queue # <<>>
  <2> DEFINE head == Head(queue)
  <2> DEFINE s == Started(head, cr)
  <2>1. queue' = Tail(queue) /\ tasks' = left \cup {s}
    BY <1>2 DEF Release, OnSaveDone
  <2>2. s.round.req = head.req /\ s.round.key = head.key /\ s.round.pair = head.pair
    BY DEF Started
  <2>3. head \in SlotsOf(queue) /\ SlotsOf(queue') \subseteq SlotsOf(queue) \ {head}
    BY <1>2, <2>1, SlotsTail DEF LockOK
  <2> HIDE DEF head, s
  <2>4. /\ Places(SlotsOf(queue'), W, left, C, cs)
        /\ Absent(head.req, SlotsOf(queue'), W, left, C)
    BY <2>3, PlacesDrop
  <2>5. Ready(head, cs)
    BY <2>3 DEF Places, Fit
  <2>6. Ready(s.round, cs)
    BY <2>2, <2>5 DEF Ready, Owned, Untold
  <2>7. Absent(s.round.req, SlotsOf(queue'), W, left, C)
    BY <2>2, <2>4
  <2> QED BY <2>1, <2>4, <2>6, <2>7, PlacesAdd
<1> QED BY <1>1, <1>2

(* A save that is asked for.                                                *)
LEMMA PlacesSaveFor ==
  ASSUME LockOK, ChallengeOK, NEW slot \in Slots, NEW cr, SaveFor(slot, cr), NEW C, NEW cs,
         Places(SlotsOf(queue), SlotsOf(waiting), tasks, C, cs),
         Owned(slot, cs), Untold(slot, cs), slot.pair \in {0, PairOf(slot.key, slot.req)},
         Absent(slot.req, SlotsOf(queue), SlotsOf(waiting), tasks, C)
  PROVE  Places(SlotsOf(queue'), SlotsOf(waiting'), tasks', C, cs)
<1>1. CASE slot.key \in XCKey /\ slot.pair = 0
  <2>1. /\ waiting' = Set(waiting, slot) /\ waiting \in Seq(Slots)
        /\ tasks' = tasks /\ queue' = queue
    BY <1>1 DEF SaveFor, OpenSaveChallenge, lockVars, ChallengeOK
  <2>2. SlotsOf(waiting') \subseteq SlotsOf(waiting) \cup {slot}
    BY <2>1, SlotsSet
  <2>3. Places(SlotsOf(queue), SlotsOf(waiting) \cup {slot}, tasks, C, cs)
    BY <1>1, PlacesAdd DEF Unpaired
  <2> QED BY <2>1, <2>2, <2>3, PlacesDrop
<1>2. CASE ~(slot.key \in XCKey /\ slot.pair = 0)
  <2>1. Submit(slot, cr) /\ waiting' = waiting
    BY <1>2 DEF SaveFor, challengeVars
  <2>2. Ready(slot, cs)
    BY <1>2 DEF Ready, PairOf
  <2> QED BY <2>1, <2>2, PlacesSubmit
<1> QED BY <1>1, <1>2

(* Every request is in one place.                                           *)
PlacesInv == Places(SlotsOf(queue), SlotsOf(waiting), tasks, conflicts, calls)

(* A step after which no more is in any place, which reports nothing saved. *)
LEMMA PlacesShrink ==
  ASSUME PlacesInv, Grown(calls, calls', {}), queue' = queue,
         SlotsOf(waiting') \subseteq SlotsOf(waiting), tasks' \subseteq tasks,
         conflicts' \subseteq conflicts
  PROVE  PlacesInv'
<1>1. Places(SlotsOf(queue'), SlotsOf(waiting'), tasks', conflicts', calls)
  BY PlacesDrop DEF PlacesInv
<1>2. Places(SlotsOf(queue'), SlotsOf(waiting'), tasks', conflicts', calls')
  BY <1>1, PlacesGrown
<1> QED BY <1>2 DEF PlacesInv

(* Nothing was told.                                                        *)
LEMMA NothingGrown == calls' = calls => Grown(calls, calls', {})
  BY DEF Grown

(* A step that releases, and takes away the task of the request it tells.   *)
LEMMA PlacesLeave ==
  ASSUME TypeOK, PlacesInv, NEW ticket, NEW left \in SUBSET tasks, NEW cr,
         Release(ticket, left, cr), waiting' = waiting, conflicts' = conflicts,
         NEW R, Grown(calls, calls', R),
         \A r \in R : \E t \in tasks \ left : r = t.round.req
  PROVE  PlacesInv'
<1>1. /\ Places(SlotsOf(queue), SlotsOf(waiting), left, conflicts, calls)
      /\ \A t \in tasks \ left :
            Absent(t.round.req, SlotsOf(queue), SlotsOf(waiting), left, conflicts)
  BY PlacesDrop DEF PlacesInv
<1>2. Places(SlotsOf(queue), SlotsOf(waiting), left, conflicts, calls')
  BY <1>1, PlacesGrown
<1>3. LockOK
  BY Groups
<1>4. Places(SlotsOf(queue'), SlotsOf(waiting), tasks', conflicts, calls')
  BY <1>2, <1>3, PlacesRelease
<1> QED BY <1>4 DEF PlacesInv

(* A task that goes on as another of the same round.                        *)
LEMMA PlacesSwap ==
  ASSUME PlacesInv, NEW t \in tasks, NEW s, s.round = t.round,
         tasks' = (tasks \ {t}) \cup {s},
         UNCHANGED <<calls, queue, waiting, conflicts>>
  PROVE  PlacesInv'
<1>1. /\ Places(SlotsOf(queue), SlotsOf(waiting), tasks \ {t}, conflicts, calls)
      /\ Absent(t.round.req, SlotsOf(queue), SlotsOf(waiting), tasks \ {t}, conflicts)
  BY PlacesDrop DEF PlacesInv
<1>2. Ready(s.round, calls)
  BY DEF PlacesInv, Places, Fit
<1>3. Places(SlotsOf(queue), SlotsOf(waiting), (tasks \ {t}) \cup {s}, conflicts, calls)
  BY <1>1, <1>2, PlacesAdd
<1> QED BY <1>3 DEF PlacesInv

(* What a step tells: a save is only reported of the round that ends.       *)
Reports(R) ==
  \/ R = {}
  \/ \E t \in tasks : (DeliverSuccess(t) \/ Adopt(t, "saved")) /\ R = {t.round.req}

(* The steps of rounds.                                                     *)
LEMMA StepPlaces ==
  ASSUME TypeOK, IInv, PlacesInv, NEW t \in tasks, Step(t)
  PROVE  PlacesInv' /\ \E R : Grown(calls, calls', R) /\ Reports(R)
<1>1. CallsOK /\ t \in Tasks /\ t.round \in Rounds
  BY Groups, TaskTypes DEF TypeOK
<1>2. t.stage \in InWorker => Handlers(t) = {t.round}
  BY OwnHandler
<1>3. ASSUME RoundFails(t.round, tasks \ {t}), waiting' = waiting, conflicts' = conflicts
      PROVE  PlacesInv' /\ \E R : Grown(calls, calls', R) /\ Reports(R)
  <2>1. Grown(calls, calls', {})
    BY <1>1, <1>3, TellGrown DEF RoundFails, Answers
  <2>2. PlacesInv'
    BY <1>3, <2>1, PlacesLeave DEF RoundFails
  <2> QED BY <2>1, <2>2 DEF Reports
<1>4. CASE SerializeFails(t) \/ PostFails(t)
  BY <1>3, <1>4 DEF SerializeFails, PostFails, challengeVars, dialogVars
<1>5. CASE DeliverError(t)
  BY <1>2, <1>3, <1>5 DEF DeliverError, challengeVars, dialogVars
<1>6. CASE DeliverSuccess(t) \/ Adopt(t, "saved") \/ Adopt(t, "error")
  <2>1. DeliverSuccess(t) => t.stage \in InWorker
    BY DEF DeliverSuccess, InWorker
  <2>2. /\ waiting' = waiting /\ conflicts' = conflicts
        /\ Release(t.round.ticket, tasks \ {t}, creds)
    BY <1>2, <1>6, <2>1 DEF DeliverSuccess, Adopt, challengeVars, dialogVars
  <2>3. CASE DeliverSuccess(t) \/ Adopt(t, "saved")
    <3>1. Tell(t.round.req, "saved")
      BY <1>2, <2>1, <2>3 DEF DeliverSuccess, Adopt
    <3>2. Grown(calls, calls', {t.round.req})
      BY <1>1, <3>1, TellGrown DEF Answers
    <3>3. PlacesInv'
      BY <2>2, <3>2, PlacesLeave
    <3> QED BY <2>3, <3>2, <3>3 DEF Reports
  <2>4. CASE Adopt(t, "error")
    <3>1. Grown(calls, calls', {})
      BY <1>1, <2>4, TellGrown DEF Adopt, Answers
    <3>2. PlacesInv'
      BY <2>2, <3>1, PlacesLeave
    <3> QED BY <3>1, <3>2 DEF Reports
  <2> QED BY <1>6, <2>3, <2>4
<1>7. CASE DeliverConflict(t)
  <2> DEFINE c == [req |-> t.round.req, key |-> t.round.key, pair |-> t.round.pair]
  <2>1. /\ conflicts' = conflicts \cup {c} /\ calls' = calls /\ waiting' = waiting
        /\ Release(t.round.ticket, tasks \ {t}, creds)
    BY <1>2, <1>7 DEF DeliverConflict, InWorker, challengeVars
  <2>2. c.req = t.round.req /\ c.key = t.round.key /\ c.pair = t.round.pair
    OBVIOUS
  <2> HIDE DEF c
  <2>3. /\ Places(SlotsOf(queue), SlotsOf(waiting), tasks \ {t}, conflicts, calls)
        /\ Absent(c.req, SlotsOf(queue), SlotsOf(waiting), tasks \ {t}, conflicts)
    BY <2>2, PlacesDrop DEF PlacesInv
  <2>4. Ready(c, calls)
    BY <2>2 DEF PlacesInv, Places, Fit, Ready, Owned, Untold
  <2>5. Places(SlotsOf(queue), SlotsOf(waiting), tasks \ {t}, conflicts', calls)
    BY <2>1, <2>3, <2>4, PlacesAdd
  <2>6. Places(SlotsOf(queue'), SlotsOf(waiting), tasks', conflicts', calls)
    BY <2>1, <2>5, PlacesRelease, Groups
  <2>7. PlacesInv'
    BY <2>1, <2>6 DEF PlacesInv
  <2> QED BY <2>1, <2>7, NothingGrown DEF Reports
<1>8. ASSUME NEW s, s.round = t.round, tasks' = (tasks \ {t}) \cup {s},
             UNCHANGED <<calls, queue, waiting, conflicts>>
      PROVE  PlacesInv' /\ \E R : Grown(calls, calls', R) /\ Reports(R)
  BY <1>8, PlacesSwap, NothingGrown DEF Reports
<1>9. CASE Post(t)
  <2> DEFINE s == [round |-> t.round, stage |-> "posted", on |-> Target]
  <2>1. /\ s.round = t.round /\ tasks' = (tasks \ {t}) \cup {s}
        /\ UNCHANGED <<calls, queue, waiting, conflicts>>
    BY <1>9 DEF Post, challengeVars, dialogVars
  <2> HIDE DEF s
  <2> QED BY <1>8, <2>1
<1>10. ASSUME NEW stage \in {"stored", "merged"}, Store(t, stage)
       PROVE  PlacesInv' /\ \E R : Grown(calls, calls', R) /\ Reports(R)
  <2> DEFINE s == [t EXCEPT !.stage = stage]
  <2>1. s.round = t.round
    BY <1>1 DEF Tasks
  <2>2. /\ tasks' = (tasks \ {t}) \cup {s}
        /\ UNCHANGED <<calls, queue, waiting, conflicts>>
    BY <1>10 DEF Store, challengeVars, dialogVars
  <2> HIDE DEF s
  <2> QED BY <1>8, <2>1, <2>2
<1>11. CASE DeliverMerge(t)
  <2> DEFINE s == [round |-> t.round, stage |-> "adopt", on |-> 0]
  <2>1. /\ s.round = t.round /\ tasks' = (tasks \ {t}) \cup {s}
        /\ UNCHANGED <<calls, queue, waiting, conflicts>>
    BY <1>2, <1>11 DEF DeliverMerge, InWorker, challengeVars, dialogVars
  <2> HIDE DEF s
  <2> QED BY <1>8, <2>1
<1> QED BY <1>4, <1>5, <1>6, <1>7, <1>9, <1>10, <1>11 DEF Step

(* The steps of the workers' ends.                                          *)
LEMMA WorkerEndPlaces ==
  ASSUME TypeOK, PlacesInv,
         StopWorker \/ \E i \in Isolate : WorkerError(i) \/ OnExit(i)
  PROVE  PlacesInv' /\ Grown(calls, calls', {})
<1>1. CASE StopWorker
  <2>1. /\ tasks' \subseteq tasks /\ calls' = calls /\ queue' = queue
        /\ waiting' = waiting /\ conflicts' = conflicts
    BY <1>1 DEF StopWorker, dialogVars, challengeVars
  <2> QED BY <2>1, NothingGrown, PlacesShrink
<1>2. ASSUME NEW i \in Isolate, WorkerError(i) PROVE PlacesInv' /\ Grown(calls, calls', {})
  <2>1. PICK h \in isolate[i].handler : RoundFails(h, tasks \ Dead)
    BY <1>2 DEF WorkerError
  <2>2. Grown(calls, calls', {})
    <3>1. Tell(h.req, "error")
      BY <2>1 DEF RoundFails
    <3> QED BY <3>1, TellGrown, Groups DEF Answers
  <2>3. /\ waiting' = waiting /\ conflicts' = conflicts /\ tasks \ Dead \in SUBSET tasks
        /\ Release(h.ticket, tasks \ Dead, creds')
    BY <1>2, <2>1 DEF WorkerError, RoundFails, dialogVars, challengeVars
  <2> QED BY <2>2, <2>3, PlacesLeave
<1>3. ASSUME NEW i \in Isolate, OnExit(i) PROVE PlacesInv' /\ Grown(calls, calls', {})
  <2>1. PICK h \in isolate[i].handler : Release(h.ticket, tasks, creds')
    BY <1>3 DEF OnExit
  <2>2. waiting' = waiting /\ conflicts' = conflicts /\ calls' = calls
    BY <1>3 DEF OnExit, dialogVars, challengeVars
  <2> QED BY <2>1, <2>2, NothingGrown, PlacesLeave
<1> QED BY <1>1, <1>2, <1>3

(* What the user asks for, and answers.                                     *)
LEMMA UserPlaces ==
  ASSUME TypeOK, PlacesInv,
         \/ \E k \in Key : SaveDatabase(k) \/ ChangePassword(k)
         \/ \E c \in conflicts : \/ AnswerSave(c, "MERGE") \/ AnswerSave(c, "OVERWRITE")
                                 \/ AnswerReload(c) \/ Dismiss(c)
         \/ \E l \in reloads : ReloadDone(l) \/ ReloadFails(l)
  PROVE  PlacesInv' /\ Grown(calls, calls', {})
<1>1. LockOK /\ ChallengeOK /\ CallsOK
  BY Groups
<1>2. ASSUME NEW k \in Key, SaveDatabase(k) \/ ChangePassword(k)
      PROVE  PlacesInv' /\ Grown(calls, calls', {})
  <2>1. PICK change : Request(k, change)
    BY <1>2 DEF SaveDatabase, ChangePassword
  <2>2. /\ Grown(calls, calls', {})
        /\ Len(calls) + 1 \notin DOMAIN calls /\ Len(calls) + 1 \in DOMAIN calls'
        /\ calls'[Len(calls) + 1] = [key |-> k, change |-> change, told |-> {}]
    BY <1>1, <2>1, RequestGrown
  <2>3. /\ Asked(k) \in Slots /\ Asked(k).key = k /\ Asked(k).pair = 0
        /\ Asked(k).req = Len(calls) + 1
    BY <1>1 DEF Asked, Slots, Strategies, CallsOK
  <2>4. PICK cr : SaveFor(Asked(k), cr)
    BY <1>2 DEF SaveDatabase, ChangePassword
  <2>5. Owned(Asked(k), calls') /\ Untold(Asked(k), calls')
    BY <2>2, <2>3 DEF Owned, Untold
  <2>6. Absent(Asked(k).req, SlotsOf(queue), SlotsOf(waiting), tasks, conflicts)
    BY <2>2, <2>3 DEF Absent, PlacesInv, Places, Fit, Ready, Unpaired, Owned
  <2>7. Places(SlotsOf(queue), SlotsOf(waiting), tasks, conflicts, calls')
    BY <2>2, PlacesGrown DEF PlacesInv
  <2>8. Places(SlotsOf(queue'), SlotsOf(waiting'), tasks', conflicts, calls')
    BY <1>1, <2>3, <2>4, <2>5, <2>6, <2>7, PlacesSaveFor
  <2>9. conflicts' = conflicts
    BY <1>2 DEF SaveDatabase, ChangePassword, dialogVars
  <2> QED BY <2>2, <2>8, <2>9 DEF PlacesInv
<1>3. ASSUME NEW c \in conflicts, NEW s \in {"MERGE", "OVERWRITE"}, AnswerSave(c, s)
      PROVE  PlacesInv' /\ Grown(calls, calls', {})
  <2> DEFINE slot == [req |-> c.req, key |-> c.key, strategy |-> s, pair |-> c.pair]
  <2>1. /\ slot \in Slots
        /\ slot.req = c.req /\ slot.key = c.key /\ slot.pair = c.pair
    BY DEF TypeOK, Slots, Strategies
  <2>2. SaveFor(slot, creds) /\ conflicts' = conflicts \ {c} /\ calls' = calls
    BY <1>3 DEF AnswerSave
  <2> HIDE DEF slot
  <2>3. /\ Places(SlotsOf(queue), SlotsOf(waiting), tasks, conflicts', calls)
        /\ Absent(c.req, SlotsOf(queue), SlotsOf(waiting), tasks, conflicts')
    BY <2>2, PlacesDrop DEF PlacesInv
  <2>4. Ready(c, calls)
    BY DEF PlacesInv, Places, Fit
  <2>5. Owned(slot, calls) /\ Untold(slot, calls) /\ slot.pair \in {0, PairOf(slot.key, slot.req)}
    BY <2>1, <2>4 DEF Ready, Owned, Untold
  <2>6. Absent(slot.req, SlotsOf(queue), SlotsOf(waiting), tasks, conflicts')
    BY <2>1, <2>3
  <2>7. Places(SlotsOf(queue'), SlotsOf(waiting'), tasks', conflicts', calls)
    BY <1>1, <2>1, <2>2, <2>3, <2>5, <2>6, PlacesSaveFor
  <2> QED BY <2>2, <2>7, NothingGrown DEF PlacesInv
<1>4. ASSUME NEW c \in conflicts, AnswerReload(c) \/ Dismiss(c)
      PROVE  PlacesInv' /\ Grown(calls, calls', {})
  <2>1. /\ tasks' = tasks /\ calls' = calls /\ queue' = queue
        /\ waiting' = waiting /\ conflicts' \subseteq conflicts
    BY <1>4 DEF AnswerReload, Dismiss, lockVars, challengeVars
  <2> QED BY <2>1, NothingGrown, PlacesShrink
<1>5. ASSUME NEW l \in reloads, ReloadDone(l) \/ ReloadFails(l)
      PROVE  PlacesInv' /\ Grown(calls, calls', {})
  <2>1. \E answer \in {"error", "reloaded"} : Tell(l.req, answer)
    BY <1>5 DEF ReloadDone, ReloadFails
  <2>2. Grown(calls, calls', {})
    BY <1>1, <2>1, TellGrown DEF Answers
  <2>3. tasks' = tasks /\ queue' = queue /\ waiting' = waiting /\ conflicts' = conflicts
    BY <1>5 DEF ReloadDone, ReloadFails, lockVars, challengeVars
  <2> QED BY <2>2, <2>3, PlacesShrink
<1> QED BY <1>2, <1>3, <1>4, <1>5

(* The NFC dialog.                                                          *)
LEMMA DialogPlaces ==
  ASSUME TypeOK, PlacesInv, Dialog PROVE PlacesInv' /\ Grown(calls, calls', {})
<1>1. LockOK /\ ChallengeOK /\ CallsOK /\ waiting \in Seq(Slots) /\ Distinct(waiting)
  BY Groups DEF ChallengeOK
<1>2. ASSUME NEW k, GiveUp(k), waiting' = Delete(waiting, k), UNCHANGED lockVars,
             conflicts' = conflicts
      PROVE  PlacesInv' /\ Grown(calls, calls', {})
  <2>1. Grown(calls, calls', {})
    <3>1. Tell(waiting[At(waiting, k)].req, "error") \/ calls' = calls
      BY <1>2 DEF GiveUp
    <3> QED BY <1>1, <3>1, TellGrown, NothingGrown DEF Answers
  <2>2. SlotsOf(waiting') \subseteq SlotsOf(waiting)
    <3>1. CASE Has(waiting, k)
      BY <1>1, <1>2, <3>1, SlotsDelete
    <3>2. CASE ~Has(waiting, k)
      BY <1>2, <3>2 DEF Delete
    <3> QED BY <3>1, <3>2
  <2>3. tasks' = tasks /\ queue' = queue
    BY <1>2 DEF lockVars
  <2> QED BY <1>2, <2>1, <2>2, <2>3, PlacesShrink
<1>3. CASE DialogOpens \/ DialogCloses \/ Answer("response") \/ Answer("cancel")
  <2>1. UNCHANGED <<calls, tasks, queue, waiting, conflicts>>
    BY <1>3 DEF DialogOpens, DialogCloses, Answer, lockVars, dialogVars
  <2> QED BY <2>1, NothingGrown, PlacesShrink
<1>4. CASE OpenFails
  <2>1. PICK d \in dialog : GiveUp(d.key) /\ waiting' = Delete(waiting, d.key)
    BY <1>4 DEF OpenFails
  <2>2. UNCHANGED lockVars /\ conflicts' = conflicts
    BY <1>4 DEF OpenFails, dialogVars
  <2> QED BY <1>2, <2>1, <2>2
<1>5. CASE AfterCancel
  <2>1. /\ GiveUp(Head(closed).key) /\ waiting' = Delete(waiting, Head(closed).key)
        /\ UNCHANGED lockVars /\ conflicts' = conflicts
    BY <1>5 DEF AfterCancel, OpenSaveChallenge, dialogVars
  <2> QED BY <1>2, <2>1
<1>6. CASE AfterResponse
  <2> DEFINE k == Head(closed).key
  <2>1. waiting' = Delete(waiting, k) /\ calls' = calls /\ conflicts' = conflicts
    BY <1>6 DEF AfterResponse, OpenSaveChallenge, dialogVars
  <2>2. CASE ~Has(waiting, k)
    <3>1. UNCHANGED <<calls, tasks, queue, waiting, conflicts>>
      BY <1>6, <2>1, <2>2 DEF AfterResponse, lockVars, Delete
    <3> QED BY <3>1, NothingGrown, PlacesShrink
  <2>3. CASE Has(waiting, k)
    <3> DEFINE old == waiting[At(waiting, k)]
    <3> DEFINE slot == [old EXCEPT !.pair = old.req]
    <3>1. Submit(slot, creds)
      BY <1>6, <2>3 DEF AfterResponse
    <3>2. old \in Slots
      BY <1>1, <2>3, AtType
    <3>3. old \in SlotsOf(waiting) /\ SlotsOf(waiting') \subseteq SlotsOf(waiting) \ {old}
      BY <1>1, <2>1, <2>3, SlotsDelete
    <3> HIDE DEF old
    <3>4. /\ slot \in Slots /\ slot.req = old.req /\ slot.key = old.key
          /\ slot.pair = old.req
      BY <3>2 DEF Slots
    <3> HIDE DEF slot, k
    <3>5. /\ Places(SlotsOf(queue), SlotsOf(waiting'), tasks, conflicts, calls)
          /\ Absent(old.req, SlotsOf(queue), SlotsOf(waiting'), tasks, conflicts)
      BY <3>3, PlacesDrop DEF PlacesInv
    <3>6. Unpaired(old, calls)
      BY <3>3 DEF PlacesInv, Places, Fit
    <3>7. Ready(slot, calls)
      BY <3>4, <3>6 DEF Unpaired, Ready, Owned, Untold, PairOf
    <3>8. Absent(slot.req, SlotsOf(queue), SlotsOf(waiting'), tasks, conflicts)
      BY <3>4, <3>5
    <3>9. Places(SlotsOf(queue'), SlotsOf(waiting'), tasks', conflicts, calls)
      BY <1>1, <3>1, <3>4, <3>5, <3>7, <3>8, PlacesSubmit
    <3>10. PlacesInv'
      BY <2>1, <3>9 DEF PlacesInv
    <3> QED BY <2>1, <3>10, NothingGrown
  <2> QED BY <2>2, <2>3
<1> QED BY <1>3, <1>4, <1>5, <1>6 DEF Dialog

-----------------------------------------------------------------------------
(* The response of the session.                                             *)

(* A pair is that of a request of its database.                             *)
FileOwned ==
  \A k \in Key :
     fileSeed[k] # 0 => fileSeed[k] \in DOMAIN calls /\ calls[fileSeed[k]].key = k

(* The session has the response of the request before it is reported saved, *)
(* while its merged model is read back.                                     *)
Done(r, cs, T) ==
  "saved" \in cs[r].told \/ \E t \in T : t.stage = "adopt" /\ t.round.req = r

SeedInv ==
  faults =< 1 =>
    /\ \A k \in XCKey : fileSeed[k] # 0 /\ Done(fileSeed[k], calls, tasks) => Opens(k)
    /\ \A t \in tasks : t.stage \in {"stored", "merged"} /\ t.round.key \in XCKey
                          => fileSeed[t.round.key] = t.round.pair

(* What stores no file and takes over no response.                          *)
LEMMA KeptOwned ==
  ASSUME FileOwned, NEW R, Grown(calls, calls', R), fileSeed' = fileSeed
  PROVE  FileOwned'
  BY DEF FileOwned, Grown

LEMMA KeptSeed ==
  ASSUME FileOwned, SeedInv, fileSeed' = fileSeed, seed' = seed,
         faults' =< 1 => faults =< 1,
         \A t \in tasks' : t \in tasks \/ t.stage \notin Late,
         NEW R, Grown(calls, calls', R), \A r \in R : Done(r, calls, tasks)
  PROVE  SeedInv'
<1> SUFFICES ASSUME faults' =< 1
             PROVE  /\ \A k \in XCKey :
                          fileSeed[k] # 0 /\ Done(fileSeed[k], calls', tasks') => Opens(k)'
                    /\ \A t \in tasks' : t.stage \in {"stored", "merged"} /\ t.round.key \in XCKey
                                          => fileSeed[t.round.key] = t.round.pair
  BY DEF SeedInv, Done
<1>1. ASSUME NEW r \in DOMAIN calls, Done(r, calls', tasks') PROVE Done(r, calls, tasks)
  <2>1. CASE "saved" \in calls'[r].told
    <3>1. "saved" \in calls[r].told \/ r \in R
      BY <2>1 DEF Grown
    <3> QED BY <3>1 DEF Done
  <2>2. CASE \E t \in tasks' : t.stage = "adopt" /\ t.round.req = r
    BY <2>2 DEF Done, Late
  <2> QED BY <1>1, <2>1, <2>2 DEF Done
<1>2. ASSUME NEW k \in XCKey, fileSeed[k] # 0, Done(fileSeed[k], calls', tasks') PROVE Opens(k)'
  <2>1. fileSeed[k] \in DOMAIN calls
    BY <1>2, KeyAssumption DEF FileOwned
  <2>2. Opens(k)
    BY <1>1, <1>2, <2>1 DEF SeedInv
  <2> QED BY <2>2 DEF Opens
<1>3. ASSUME NEW t \in tasks', t.stage \in {"stored", "merged"}, t.round.key \in XCKey
      PROVE  fileSeed[t.round.key] = t.round.pair
  BY <1>3 DEF SeedInv, Late
<1> QED BY <1>2, <1>3

(* New tasks are not late ones.                                             *)
LEMMA ReleaseNew ==
  ASSUME LockOK, NEW ticket, NEW left \in SUBSET tasks, NEW cr, Release(ticket, left, cr)
  PROVE  \A t \in tasks' : t \in tasks \/ t.stage \notin Late
<1>1. \A t \in tasks' : t \in left \/ t.stage = "serialize"
  BY ReleaseCarries
<1> QED BY <1>1 DEF Late

(* The worker stores a file: the pair is that of a request which has not    *)
(* been reported, and no other round is in a worker.                        *)
LEMMA StoreSeed ==
  ASSUME TypeOK, IInv, AloneInv, PlacesInv, FileOwned, SeedInv,
         NEW t \in tasks, NEW stage \in {"stored", "merged"}, Store(t, stage)
  PROVE  FileOwned' /\ SeedInv'
<1> DEFINE s == [t EXCEPT !.stage = stage]
<1>1. /\ t \in Tasks /\ t.round \in Rounds /\ t.round.key \in Key
      /\ fileSeed \in [Key -> Nat] /\ seed \in [Key -> Nat]
  BY TaskTypes DEF TypeOK, Rounds
<1>2. s.round = t.round /\ s.stage = stage
  BY <1>1 DEF Tasks
<1>3. /\ t.stage = "posted" /\ tasks' = (tasks \ {t}) \cup {s}
      /\ calls' = calls /\ seed' = seed /\ faults' = faults
      /\ fileSeed' = [fileSeed EXCEPT ![t.round.key] =
                        IF t.round.pair = 0 THEN @ ELSE t.round.pair]
  BY DEF Store, workerVars
<1> HIDE DEF s
<1>4. /\ t.round.req \in DOMAIN calls /\ calls[t.round.req].key = t.round.key
      /\ "saved" \notin calls[t.round.req].told
      /\ t.round.pair = PairOf(t.round.key, t.round.req)
  BY DEF PlacesInv, Places, Fit, Ready, Owned, Untold
<1>5. \A u \in tasks : u.round.req = t.round.req => u = t
  BY DEF PlacesInv, Places, Apart
<1>6. t.round.pair # 0 => t.round.key \in XCKey /\ t.round.pair = t.round.req
  BY <1>4 DEF PairOf
<1>7. /\ \A k \in Key : k # t.round.key => fileSeed'[k] = fileSeed[k]
      /\ t.round.pair # 0 => fileSeed'[t.round.key] = t.round.req
      /\ t.round.pair = 0 => fileSeed' = fileSeed
  BY <1>1, <1>3, <1>6
<1>8. FileOwned'
  <2> SUFFICES ASSUME NEW k \in Key, fileSeed'[k] # 0
               PROVE  fileSeed'[k] \in DOMAIN calls /\ calls[fileSeed'[k]].key = k
    BY <1>3 DEF FileOwned
  <2>1. CASE k = t.round.key /\ t.round.pair # 0
    BY <1>4, <1>7, <2>1
  <2>2. CASE ~(k = t.round.key /\ t.round.pair # 0)
    BY <1>7, <2>2 DEF FileOwned
  <2> QED BY <2>1, <2>2
<1>9. ~Done(t.round.req, calls', tasks')
  <2>1. \A u \in tasks' : u.round.req = t.round.req => u.stage # "adopt"
    BY <1>2, <1>3, <1>5
  <2> QED BY <1>3, <1>4, <2>1 DEF Done
<1>10. ASSUME NEW r, Done(r, calls', tasks') PROVE Done(r, calls, tasks)
  BY <1>2, <1>3, <1>10 DEF Done
<1>11. ASSUME faults =< 1, NEW k \in XCKey, fileSeed'[k] # 0, Done(fileSeed'[k], calls', tasks')
       PROVE  fileSeed'[k] = seed'[k]
  <2>1. k \in Key
    BY KeyAssumption
  <2>2. ~(k = t.round.key /\ t.round.pair # 0)
    BY <1>7, <1>9, <1>11
  <2>3. fileSeed'[k] = fileSeed[k]
    BY <1>7, <2>1, <2>2
  <2>4. Done(fileSeed[k], calls, tasks)
    BY <1>10, <1>11, <2>3
  <2>5. Opens(k)
    BY <1>11, <2>3, <2>4 DEF SeedInv
  <2> QED BY <1>3, <2>3, <2>5 DEF Opens
<1>12. ASSUME faults =< 1, NEW u \in tasks', u.stage \in {"stored", "merged"}, u.round.key \in XCKey
       PROVE  fileSeed'[u.round.key] = u.round.pair
  <2>1. CASE u = s
    <3>1. t.round.pair = t.round.req /\ t.round.key \in XCKey
      BY <1>2, <1>4, <1>12, <2>1 DEF PairOf
    <3>2. t.round.pair # 0
      BY <1>4, <3>1 DEF TypeOK
    <3> QED BY <1>2, <1>7, <2>1, <3>1, <3>2
  <2>2. CASE u # s
    <3>1. u \in tasks /\ u # t
      BY <1>3, <2>2
    <3>2. u.stage \in InWorker /\ t.stage \in InWorker
      BY <1>3, <1>12 DEF InWorker
    <3>3. u.round.ticket \in unreleased /\ t.round.ticket \in unreleased
      BY <1>12, <3>1, <3>2 DEF AloneInv, AllLocked
    <3> QED BY <3>1, <3>3 DEF IInv, SingleFlight, Sound, Unique
  <2> QED BY <2>1, <2>2
<1>13. SeedInv'
  <2>1. ASSUME faults' =< 1, NEW k \in XCKey, fileSeed'[k] # 0, Done(fileSeed'[k], calls', tasks')
        PROVE  Opens(k)'
    BY <1>3, <1>11, <2>1 DEF Opens
  <2> QED BY <1>3, <1>12, <2>1 DEF SeedInv
<1> QED BY <1>8, <1>13

(* An answer of the worker: the session takes over the response of the pair *)
(* the file has.                                                            *)
LEMMA DeliverSeed ==
  ASSUME TypeOK, IInv, PlacesInv, FileOwned, SeedInv,
         NEW t \in tasks, DeliverSuccess(t) \/ DeliverMerge(t)
  PROVE  FileOwned' /\ SeedInv'
<1>1. /\ t \in Tasks /\ t.round \in Rounds /\ t.round.key \in Key
      /\ fileSeed \in [Key -> Nat] /\ seed \in [Key -> Nat] /\ CallsOK /\ LockOK
  BY TaskTypes, Groups DEF TypeOK, Rounds
<1>2. t.stage \in {"stored", "merged"} /\ Handlers(t) = {t.round}
  BY OwnHandler DEF DeliverSuccess, DeliverMerge, InWorker
<1>3. /\ t.round.req \in DOMAIN calls /\ calls[t.round.req].key = t.round.key
      /\ t.round.pair = PairOf(t.round.key, t.round.req)
  BY DEF PlacesInv, Places, Fit, Ready, Owned
<1>4. /\ seed' = SeedOf(t.round) /\ fileSeed' = fileSeed /\ faults' = faults
  BY <1>2 DEF DeliverSuccess, DeliverMerge, workerVars
<1>5. /\ Grown(calls, calls', {t.round.req})
      /\ \A u \in tasks' :
            u \in tasks \/ u.stage \notin Late \/ (u.stage = "adopt" /\ u.round = t.round)
  <2>1. CASE DeliverSuccess(t)
    <3>1. Tell(t.round.req, "saved") /\ Release(t.round.ticket, tasks \ {t}, creds)
      BY <1>2, <2>1 DEF DeliverSuccess
    <3>2. Grown(calls, calls', {t.round.req})
      BY <1>1, <3>1, TellGrown DEF Answers
    <3>3. \A u \in tasks' : u \in tasks \/ u.stage \notin Late
      BY <1>1, <3>1, ReleaseNew
    <3> QED BY <3>2, <3>3
  <2>2. CASE DeliverMerge(t)
    <3>1. /\ tasks' = (tasks \ {t}) \cup {[round |-> t.round, stage |-> "adopt", on |-> 0]}
          /\ calls' = calls
      BY <1>2, <2>2 DEF DeliverMerge
    <3> QED BY <3>1 DEF Grown
  <2> QED BY <2>1, <2>2
<1>6. FileOwned'
  BY <1>4, <1>5, KeptOwned
<1>7. ASSUME NEW r \in DOMAIN calls, r # t.round.req, Done(r, calls', tasks')
      PROVE  Done(r, calls, tasks)
  BY <1>5, <1>7 DEF Done, Grown, Late
<1>8. /\ t.round.pair # 0 => t.round.key \in XCKey
      /\ \A k \in Key : k # t.round.key \/ t.round.pair = 0 => seed'[k] = seed[k]
      /\ t.round.pair # 0 => seed'[t.round.key] = t.round.pair
  BY <1>1, <1>3, <1>4 DEF SeedOf, PairOf
<1>9. ASSUME faults =< 1, NEW k \in XCKey, fileSeed[k] # 0, Done(fileSeed[k], calls', tasks')
      PROVE  fileSeed[k] = seed'[k]
  <2>1. k \in Key /\ fileSeed[k] \in DOMAIN calls /\ calls[fileSeed[k]].key = k
    BY <1>9, KeyAssumption DEF FileOwned
  <2>2. CASE k = t.round.key
    <3>1. fileSeed[k] = t.round.pair
      BY <1>2, <1>9, <2>2 DEF SeedInv
    <3> QED BY <1>8, <1>9, <2>2, <3>1
  <2>3. CASE k # t.round.key
    <3>1. fileSeed[k] # t.round.req
      BY <1>3, <2>1, <2>3
    <3>2. Done(fileSeed[k], calls, tasks)
      BY <1>7, <1>9, <2>1, <3>1
    <3>3. Opens(k)
      BY <1>9, <3>2 DEF SeedInv
    <3> QED BY <1>8, <2>1, <2>3, <3>3 DEF Opens
  <2> QED BY <2>2, <2>3
<1>10. ASSUME faults =< 1, NEW u \in tasks', u.stage \in {"stored", "merged"},
              u.round.key \in XCKey
       PROVE  fileSeed[u.round.key] = u.round.pair
  BY <1>5, <1>10 DEF SeedInv, Late
<1>11. SeedInv'
  BY <1>4, <1>9, <1>10 DEF SeedInv, Opens
<1> QED BY <1>6, <1>11

(* All that is known of the pairs.                                          *)
PairInv == AloneInv /\ PlacesInv /\ FileOwned /\ SeedInv

(* Every step keeps it.                                                     *)
LEMMA PairStep == TypeOK /\ TypeOK' /\ IInv /\ PairInv /\ [Next]_vars => PairInv'
<1> SUFFICES ASSUME TypeOK, TypeOK', IInv, PairInv, [Next]_vars
             PROVE  PairInv'
  OBVIOUS
<1>0. faults \in Nat
  BY BoundAssumption DEF TypeOK
<1>1. /\ AloneInv /\ PlacesInv /\ FileOwned /\ SeedInv /\ AloneInv'
      /\ faults \in Nat /\ LockOK
  BY <1>0, AloneStep, Groups DEF PairInv
<1>2. ASSUME PlacesInv', NEW R, Grown(calls, calls', R), \A r \in R : Done(r, calls, tasks),
             fileSeed' = fileSeed, seed' = seed, faults' =< 1 => faults =< 1,
             \A t \in tasks' : t \in tasks \/ t.stage \notin Late
      PROVE  PairInv'
  BY <1>1, <1>2, KeptOwned, KeptSeed DEF PairInv
<1>3. ASSUME PlacesInv', Grown(calls, calls', {}), UNCHANGED fileVars,
             faults' \in {faults, faults + 1},
             \A t \in tasks' : t \in tasks \/ t.stage \notin Late
      PROVE  PairInv'
  <2>1. faults' =< 1 => faults =< 1
    BY <1>1, <1>3
  <2> QED BY <1>2, <1>3, <2>1 DEF fileVars
<1>4. CASE \/ \E k \in Key : SaveDatabase(k) \/ ChangePassword(k)
           \/ \E c \in conflicts : \/ AnswerSave(c, "MERGE") \/ AnswerSave(c, "OVERWRITE")
                                   \/ AnswerReload(c) \/ Dismiss(c)
           \/ \E l \in reloads : ReloadDone(l) \/ ReloadFails(l)
  <2>1. PlacesInv' /\ Grown(calls, calls', {})
    BY <1>1, <1>4, UserPlaces
  <2>2. UNCHANGED fileVars /\ faults' = faults
    BY <1>4 DEF SaveDatabase, ChangePassword, AnswerSave, AnswerReload, Dismiss, ReloadDone,
                ReloadFails, workerVars
  <2>3. (\E slot \in Slots : \E cr : SaveFor(slot, cr)) \/ tasks' = tasks
    <3>1. \A k \in Key : Asked(k) \in Slots
      BY <1>1, Groups DEF Asked, Slots, Strategies, CallsOK
    <3>2. \A c \in conflicts : \A s \in {"MERGE", "OVERWRITE"} :
             [req |-> c.req, key |-> c.key, strategy |-> s, pair |-> c.pair] \in Slots
      BY DEF TypeOK, Slots, Strategies
    <3> QED BY <1>4, <3>1, <3>2 DEF SaveDatabase, ChangePassword, AnswerSave, AnswerReload,
               Dismiss, ReloadDone, ReloadFails, lockVars
  <2>4. \A t \in tasks' : t \in tasks \/ t.stage \notin Late
    BY <1>1, <2>3, SaveForCarries, Groups DEF Late
  <2> QED BY <1>3, <2>1, <2>2, <2>4
<1>5. CASE StopWorker \/ \E i \in Isolate : WorkerError(i) \/ OnExit(i)
  <2>1. PlacesInv' /\ Grown(calls, calls', {})
    BY <1>1, <1>5, WorkerEndPlaces
  <2>2. UNCHANGED fileVars /\ faults' \in {faults, faults + 1}
    BY <1>5 DEF StopWorker, WorkerError, OnExit
  <2>3. \/ tasks' \subseteq tasks
        \/ \E ticket, cr, left : left \subseteq tasks /\ Release(ticket, left, cr)
    BY <1>5 DEF StopWorker, WorkerError, OnExit, RoundFails
  <2>4. \A t \in tasks' : t \in tasks \/ t.stage \notin Late
    BY <1>1, <2>3, ReleaseNew
  <2> QED BY <1>3, <2>1, <2>2, <2>4
<1>6. CASE Dialog
  <2>1. PlacesInv' /\ Grown(calls, calls', {})
    BY <1>1, <1>6, DialogPlaces
  <2>2. UNCHANGED fileVars /\ faults' = faults
    BY <1>6 DEF Dialog, DialogOpens, OpenFails, DialogCloses, Answer, AfterResponse, AfterCancel,
                workerVars
  <2>3. \A t \in tasks' : t \in tasks \/ t.stage \notin Late
    <3>1. CASE AfterResponse
      <4> DEFINE old == waiting[At(waiting, Head(closed).key)]
      <4>1. CASE Has(waiting, Head(closed).key)
        <5>1. old \in Slots
          BY <4>1, AtType DEF TypeOK
        <5>2. Submit([old EXCEPT !.pair = old.req], creds)
          BY <3>1, <4>1 DEF AfterResponse
        <5> HIDE DEF old
        <5>3. [old EXCEPT !.pair = old.req] \in Slots
          BY <5>1 DEF Slots
        <5> QED BY <1>1, <5>2, <5>3, SubmitCarries DEF Late
      <4>2. CASE ~Has(waiting, Head(closed).key)
        BY <3>1, <4>2 DEF AfterResponse, lockVars
      <4> QED BY <4>1, <4>2
    <3>2. CASE ~AfterResponse
      BY <1>6, <3>2 DEF Dialog, DialogOpens, OpenFails, DialogCloses, Answer, AfterCancel,
                        lockVars
    <3> QED BY <3>1, <3>2
  <2> QED BY <1>3, <2>1, <2>2, <2>3
<1>7. ASSUME NEW t \in tasks, Step(t) PROVE PairInv'
  <2>1. PlacesInv' /\ \E R : Grown(calls, calls', R) /\ Reports(R)
    BY <1>1, <1>7, StepPlaces
  <2>2. CASE Store(t, "stored") \/ Store(t, "merged") \/ DeliverSuccess(t) \/ DeliverMerge(t)
    BY <1>1, <2>1, <2>2, StoreSeed, DeliverSeed DEF PairInv
  <2>3. CASE \/ SerializeFails(t) \/ PostFails(t) \/ Post(t) \/ DeliverConflict(t)
             \/ DeliverError(t) \/ Adopt(t, "saved") \/ Adopt(t, "error")
    <3>1. UNCHANGED fileVars /\ faults' \in {faults, faults + 1}
      BY <2>3 DEF SerializeFails, PostFails, Post, DeliverConflict, DeliverError, Adopt,
                  RoundFails, workerVars, fileVars
    <3>2. \/ \E ticket, cr : Release(ticket, tasks \ {t}, cr)
          \/ Post(t)
      BY <2>3 DEF SerializeFails, PostFails, DeliverConflict, DeliverError, Adopt, RoundFails
    <3>3. \A u \in tasks' : u \in tasks \/ u.stage \notin Late
      <4>1. CASE Post(t)
        BY <4>1 DEF Post, Late
      <4>2. CASE ~Post(t)
        <5>1. PICK ticket, cr : Release(ticket, tasks \ {t}, cr)
          BY <3>2, <4>2
        <5>2. tasks \ {t} \in SUBSET tasks
          OBVIOUS
        <5> QED BY <1>1, <5>1, <5>2, ReleaseNew
      <4> QED BY <4>1, <4>2
    <3>4. CASE Adopt(t, "saved")
      <4>1. Grown(calls, calls', {t.round.req})
        BY <3>4, TellGrown, Groups DEF Adopt, Answers
      <4>2. Done(t.round.req, calls, tasks)
        BY <3>4 DEF Adopt, Done
      <4>3. faults' = faults
        BY <3>4 DEF Adopt, workerVars
      <4> QED BY <1>2, <2>1, <3>1, <3>3, <4>1, <4>2, <4>3 DEF fileVars
    <3>5. CASE ~Adopt(t, "saved")
      <4>1. Grown(calls, calls', {})
        <5>1. \/ calls' = calls
              \/ \E req : Tell(req, "error")
          BY <2>3, <3>5 DEF SerializeFails, PostFails, Post, DeliverConflict, DeliverError, Adopt,
                            RoundFails
        <5> QED BY <5>1, NothingGrown, TellGrown, Groups DEF Answers
      <4> QED BY <1>3, <2>1, <3>1, <3>3, <4>1
    <3> QED BY <3>4, <3>5
  <2> QED BY <1>7, <2>2, <2>3 DEF Step
<1>8. CASE UNCHANGED vars
  <2>1. UNCHANGED fileVars /\ faults' = faults /\ tasks' = tasks /\ calls' = calls
    BY <1>8 DEF vars, lockVars, workerVars
  <2>2. PlacesInv'
    BY <1>1, <1>8, <2>1, NothingGrown, PlacesShrink DEF vars, lockVars, challengeVars, dialogVars
  <2> QED BY <1>3, <2>1, <2>2, NothingGrown
<1> QED BY <1>4, <1>5, <1>6, <1>7, <1>8 DEF Next

(* Initially there is no request and no pair.                               *)
LEMMA PairInit == Init => PairInv
<1> SUFFICES ASSUME Init PROVE PairInv
  OBVIOUS
<1>1. SlotsOf(queue) = {} /\ SlotsOf(waiting) = {}
  BY DEF Init, SlotsOf
<1>2. PlacesInv
  BY <1>1 DEF Init, PlacesInv, Places, Apart, Fit
<1>3. FileOwned /\ SeedInv
  BY KeyAssumption DEF Init, FileOwned, SeedInv
<1> QED BY <1>2, <1>3, AloneInit DEF PairInv

(* The pairs, throughout.                                                   *)
THEOREM PairsAreFollowed == Spec => []PairInv
<1>1. Init => PairInv
  BY PairInit
<1>2. TypeOK /\ TypeOK' /\ IInv /\ PairInv /\ [Next]_vars => PairInv'
  BY PairStep
<1> QED BY <1>1, <1>2, Invariance, PTL DEF Spec

(* When a save of a challenge-response database has been reported and no    *)
(* later one has replaced its file, the session's response opens the file   *)
(* (handleSuccess), as long as no more than one fault has happened: with a  *)
(* second one, saves overlap and their answers may come in another order    *)
(* than their uploads.                                                      *)
THEOREM ResponseFollowsSeed == Spec => [](faults =< 1 => SeedKnown)
<1>1. ASSUME PairInv PROVE faults =< 1 => SeedKnown
  BY <1>1 DEF PairInv, SeedInv, SeedKnown, Done
<1> QED BY <1>1, PairsAreFollowed, PTL
=============================================================================
