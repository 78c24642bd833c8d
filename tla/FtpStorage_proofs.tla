-------------------------- MODULE FtpStorage_proofs --------------------------
(***************************************************************************)
(* The FTP storage keeps its types, an answer only comes to the task that  *)
(* the operation waits for, and the storage implements StorageQueue: for   *)
(* every kind of operation and of fault, and whatever the bounds are.      *)
(***************************************************************************)
EXTENDS FtpStorage, SequenceTheorems, TLAPS

Inv == TypeOK /\ AnswersAwaited

(* What a step may do to the operations: a step of the queue or none.       *)
Moves == CallsOK' /\ [Queue!Next]_(Queue!vars)

(* What it may do to the task: drop it, or leave it and the wait for it.    *)
TaskStays == task' = NoTask \/ UNCHANGED <<task, awaited>>

(* A longer sequence.                                                       *)
LEMMA Appended ==
  ASSUME NEW S, NEW s \in Seq(S), NEW e \in S
  PROVE  /\ Append(s, e) \in Seq(S) /\ Len(Append(s, e)) = Len(s) + 1
         /\ Len(s) \in Nat /\ DOMAIN s = 1 .. Len(s)
         /\ DOMAIN Append(s, e) = 1 .. Len(s) + 1
         /\ Append(s, e)[Len(s) + 1] = e
         /\ \A i \in 1 .. Len(s) : Append(s, e)[i] = s[i]
  OBVIOUS

(* The contents of a file, and a listing, are chunks.                       *)
LEMMA ContentTyped ==
  ASSUME NEW of \in 0 .. MaxOps + 1, NEW size \in 0 .. FileSize
  PROVE  Content(of, size) \in Seq(Chunk)
  BY BoundAssumption DEF Content, Chunk

(* So is a listing.                                                         *)
LEMMA ListingTyped == Listing \in Seq(Chunk)
  BY ContentTyped, BoundAssumption DEF Listing

(* No task, and no transfer, are well typed.                                *)
LEMMA NoTaskTyped ==
  ASSUME NEW n \in Nat
  PROVE  NoTask \in [id : 0 .. n, cmd : Requests \cup Transfers \cup {""}]
  BY DEF NoTask

(* The server in no transfer.                                               *)
LEMMA NoTransferTyped == NoTransfer \in Transferring
  <1>1. <<>> \in Seq(Chunk) /\ 0 \in 0 .. MaxOps /\ FALSE \in BOOLEAN /\ 0 \in Nat
    BY BoundAssumption
  <1> QED BY <1>1 DEF NoTransfer, Transferring

(* Steps before a plan make a plan.                                         *)
LEMMA LongerPlan ==
  ASSUME NEW s \in Seq(Steps), NEW t \in Plans, t # <<>>
  PROVE  s \o t \in Plans /\ s \o t # <<>>
  <1>1. t \in Seq(Steps) /\ Len(t) \in Nat \ {0} /\ t[Len(t)] \in Transfers
    <2>1. t \in Seq(Steps) /\ t[Len(t)] \in Transfers
      BY DEF Plans
    <2> QED BY <2>1, EmptySeq
  <1>2. s \o t \in Seq(Steps) /\ Len(s \o t) = Len(s) + Len(t) /\ Len(s) \in Nat
    BY <1>1
  <1>3. (s \o t)[Len(s) + Len(t)] = t[Len(t)]
    BY <1>1, <1>2
  <1>4. s \o t # <<>>
    BY <1>1, <1>2, EmptySeq
  <1>5. s \o t \in Plans
    BY <1>1, <1>2, <1>3 DEF Plans
  <1> QED BY <1>4, <1>5

(* The plan of an operation is made of steps, and ends with a transfer.     *)
LEMMA PlanTyped ==
  ASSUME NEW kind \in Kinds
  PROVE  Plan(kind) \in Plans /\ Plan(kind) # <<>>
  <1>1. {"ENSURE", "SIZE", "EPSV", "RETR", "LIST", "STOR"} \subseteq Steps
    BY DEF Steps, Requests, Transfers
  <1>2. /\ <<"ENSURE">> \in Seq(Steps)
        /\ Download \in Seq(Steps) /\ Upload \in Seq(Steps) /\ ListDir \in Seq(Steps)
    BY <1>1 DEF Download, Upload, ListDir
  <1>3. /\ Download \in Plans /\ Download # <<>>
        /\ Upload \in Plans /\ Upload # <<>>
        /\ ListDir \in Plans /\ ListDir # <<>>
    BY <1>2 DEF Plans, Transfers, Download, Upload, ListDir
  <1>4. /\ <<"ENSURE">> \o Download \in Plans /\ <<"ENSURE">> \o Download # <<>>
        /\ <<"ENSURE">> \o Upload \in Plans /\ <<"ENSURE">> \o Upload # <<>>
        /\ <<"ENSURE">> \o ListDir \in Plans /\ <<"ENSURE">> \o ListDir # <<>>
    BY <1>2, <1>3, LongerPlan
  <1>5. /\ <<"ENSURE">> \o Download \o <<"ENSURE">> \o ListDir \in Plans
        /\ <<"ENSURE">> \o Download \o <<"ENSURE">> \o ListDir # <<>>
    <2>1. <<"ENSURE">> \o Download \o <<"ENSURE">> \in Seq(Steps)
      BY <1>2
    <2> QED BY <1>3, <2>1, LongerPlan
  <1>6. /\ <<"ENSURE">> \o ListDir \o Upload \o <<"ENSURE">> \o ListDir \in Plans
        /\ <<"ENSURE">> \o ListDir \o Upload \o <<"ENSURE">> \o ListDir # <<>>
    <2>1. <<"ENSURE">> \o ListDir \o Upload \o <<"ENSURE">> \in Seq(Steps)
      BY <1>2
    <2> QED BY <1>3, <2>1, LongerPlan
  <1> QED BY <1>4, <1>5, <1>6, KindAssumption DEF Plan, AllKinds

-----------------------------------------------------------------------------
(* The operations.                                                          *)

(* The operation under way is the last.                                     *)
LEMMA Running ==
  ASSUME CallsOK, cur # 0
  PROVE  /\ cur = Len(ops) /\ Len(ops) \in Nat /\ DOMAIN ops = 1 .. Len(ops)
         /\ cur \in DOMAIN ops /\ ops[cur] \in Operation /\ ops[cur].told = ""
  <1>1. ops \in Seq(Operation) /\ cur = Len(ops)
    BY DEF CallsOK
  <1>2. Len(ops) \in Nat /\ DOMAIN ops = 1 .. Len(ops)
    BY <1>1
  <1>3. cur \in DOMAIN ops
    BY <1>1, <1>2
  <1>4. ops[cur] \in Operation
    BY <1>1, <1>3, <1>2, ElementOfSeq
  <1>5. ops[cur].told = ""
    BY <1>3 DEF CallsOK
  <1> QED BY <1>1, <1>2, <1>3, <1>4, <1>5

(* Another record at the place of the operation under way.                  *)
LEMMA Replaced ==
  ASSUME CallsOK, cur # 0, NEW o \in Operation
  PROVE  LET new == [ops EXCEPT ![cur] = o]
         IN  /\ new \in Seq(Operation) /\ Len(new) = Len(ops) /\ DOMAIN new = DOMAIN ops
             /\ \A i \in DOMAIN ops : new[i] = IF i = cur THEN o ELSE ops[i]
  <1> DEFINE new == [ops EXCEPT ![cur] = o]
  <1>1. ops \in Seq(Operation)
    BY DEF CallsOK
  <1>2. /\ new \in Seq(Operation) /\ Len(new) = Len(ops) /\ new[cur] = o
        /\ \A i \in 1 .. Len(ops) : i # cur => new[i] = ops[i]
    BY <1>1, Running, ExceptSeq
  <1> QED BY <1>2, Running

(* The end of an operation is the End of the queue.                         *)
LEMMA OverMoves ==
  ASSUME CallsOK, cur # 0, NEW told \in {"ok", "failed", "missing"},
         told = "missing" => ops[cur].kind = "info",
         Over(told), handles' \in Nat
  PROVE  Moves
  <1> DEFINE o == [ops[cur] EXCEPT !.told = told]
  <1>1. o \in Operation /\ o.kind = ops[cur].kind /\ o.told = told
    BY Running DEF Operation, Told
  <1>2. ops' = [ops EXCEPT ![cur] = o]
    BY DEF Over
  <1> HIDE DEF o
  <1>3. /\ ops' \in Seq(Operation) /\ Len(ops') = Len(ops) /\ DOMAIN ops' = DOMAIN ops
        /\ \A i \in DOMAIN ops : ops'[i] = IF i = cur THEN o ELSE ops[i]
    BY <1>1, <1>2, Replaced
  <1>4. \A i \in DOMAIN ops : i # 0
    <2>1. DOMAIN ops = 1 .. Len(ops) /\ Len(ops) \in Nat
      BY Running
    <2>2. \A i \in 1 .. Len(ops) : i # 0
      BY <2>1
    <2> QED BY <2>1, <2>2
  <1>5. \A i \in DOMAIN ops' : ops'[i].told = "" <=> i = cur'
    BY <1>1, <1>3, <1>4 DEF CallsOK, Over
  <1>6. CallsOK'
    <2>1. Len(ops') <= MaxOps
      BY <1>3 DEF CallsOK
    <2>2. cur' = 0 /\ plan' = <<>> /\ awaited' = 0
      BY DEF Over
    <2>3. plan' \in Plans /\ awaited' \in 0 .. handles' /\ cur' \in {0, Len(ops')}
      BY <2>1, <2>2 DEF Plans
    <2> QED BY <1>3, <1>5, <2>1, <2>2, <2>3 DEF CallsOK
  <1>7. Queue!End(told)
    <2>1. told \in Queue!Answers(ops[cur].kind)
      BY DEF Queue!Answers
    <2> DEFINE calls == [i \in DOMAIN ops |-> [kind |-> ops[i].kind, told |-> ops[i].told]]
    <2>2. calls[cur].told = "" /\ calls[cur].kind = ops[cur].kind
      BY Running
    <2>3. [i \in DOMAIN ops' |-> [kind |-> ops'[i].kind, told |-> ops'[i].told]]
            = [calls EXCEPT ![cur].told = told]
      BY <1>1, <1>3
    <2> QED BY <2>1, <2>2, <2>3 DEF Queue!End, Over
  <1> QED BY <1>6, <1>7 DEF Moves, Queue!Next

(* What leaves the operations alone is a stutter of the queue.              *)
LEMMA StayMoves ==
  ASSUME CallsOK, UNCHANGED <<ops, cur>>, plan' \in Plans, plan' = <<>> <=> cur = 0,
         handles' \in Nat, awaited' \in 0 .. handles', awaited' # 0 => cur # 0
  PROVE  Moves
  <1>1. CallsOK'
    BY DEF CallsOK
  <1> QED BY <1>1 DEF Moves, Queue!vars

(* One step less of a plan, or others before the rest.                      *)
LEMMA NextStep ==
  ASSUME CallsOK, cur # 0
  PROVE  /\ plan # <<>>
         /\ Tail(plan) \in Plans
         /\ Len(plan) # 1 => Tail(plan) # <<>>
         /\ Len(plan) = 1 => Head(plan) \in Transfers
         /\ \A s \in Seq(Steps) : Len(plan) # 1 => s \o Tail(plan) \in Plans /\ s \o Tail(plan) # <<>>
  <1>1. plan \in Seq(Steps) /\ plan # <<>> /\ plan[Len(plan)] \in Transfers
    BY DEF CallsOK, Plans
  <1>2. Tail(plan) \in Seq(Steps) /\ Len(plan) \in Nat \ {0} /\ Len(Tail(plan)) = Len(plan) - 1
    BY <1>1
  <1>3. Len(plan) # 1 => Tail(plan) # <<>>
    <2>1. Len(plan) # 1 => Len(Tail(plan)) # 0
      BY <1>2
    <2> QED BY <2>1, EmptySeq
  <1>4. Len(plan) = 1 => Head(plan) \in Transfers
    BY <1>1
  <1>5. Len(plan) # 1 => Tail(plan)[Len(Tail(plan))] \in Transfers
    <2> SUFFICES ASSUME Len(plan) # 1 PROVE Tail(plan)[Len(plan) - 1] \in Transfers
      BY <1>2
    <2>1. Len(plan) - 1 \in 1 .. Len(plan) - 1 /\ (Len(plan) - 1) + 1 = Len(plan)
      BY <1>2
    <2>2. Tail(plan)[Len(plan) - 1] = plan[Len(plan)]
      BY <1>1, <1>2, <2>1
    <2> QED BY <1>1, <2>2
  <1>6. Tail(plan) \in Plans
    <2>1. CASE Len(plan) = 1
      <3>1. Len(Tail(plan)) = 0
        BY <1>2, <2>1
      <3>2. Tail(plan) = <<>>
        BY <1>2, <3>1, EmptySeq
      <3> QED BY <1>2, <3>2 DEF Plans
    <2>2. CASE Len(plan) # 1
      BY <1>2, <1>5, <2>2 DEF Plans
    <2> QED BY <2>1, <2>2
  <1>7. ASSUME NEW s \in Seq(Steps), Len(plan) # 1
        PROVE  s \o Tail(plan) \in Plans /\ s \o Tail(plan) # <<>>
    BY <1>3, <1>6, <1>7, LongerPlan
  <1> QED BY <1>1, <1>3, <1>4, <1>6, <1>7

(* A step that succeeded: the next one, or the end of the operation.        *)
LEMMA SucceedsMoves ==
  ASSUME CallsOK, cur # 0, Succeeds, handles' \in Nat
  PROVE  Moves /\ awaited' = 0
  <1>1. CASE Len(plan) = 1
    BY <1>1, OverMoves DEF Succeeds, Over
  <1>2. CASE Len(plan) # 1
    <2>1. plan' = Tail(plan) /\ UNCHANGED <<ops, cur>> /\ awaited' = 0
      BY <1>2 DEF Succeeds
    <2>2. plan' \in Plans /\ plan' # <<>>
      BY <1>2, <2>1, NextStep
    <2> QED BY <2>1, <2>2, StayMoves
  <1> QED BY <1>1, <1>2

(* A step that failed: the other passive mode is tried, or the operation is over. *)
LEMMA FailsMoves ==
  ASSUME CallsOK, cur # 0, Fails, handles' \in Nat
  PROVE  Moves /\ awaited' = 0
  <1>1. CASE TriesNext
    <2>1. plan' = <<"PASV">> \o Tail(plan) /\ UNCHANGED <<ops, cur>> /\ awaited' = 0
      BY <1>1 DEF Fails
    <2>2. <<"PASV">> \in Seq(Steps)
      BY DEF Steps, Requests
    <2>3. Len(plan) # 1
      BY <1>1, NextStep DEF TriesNext, Step, Transfers
    <2>5. plan' \in Plans /\ plan' # <<>>
      BY <2>1, <2>2, <2>3, NextStep
    <2> QED BY <2>1, <2>5, StayMoves
  <1>2. CASE ~TriesNext
    BY <1>2, OverMoves DEF Fails, Over
  <1> QED BY <1>1, <1>2

(* What is noted of an operation besides its result is no step of the queue. *)
LEMMA NotedMoves ==
  ASSUME CallsOK, NEW n \in DOMAIN ops, NEW o \in Operation,
         o.kind = ops[n].kind, o.told = ops[n].told,
         ops' = [ops EXCEPT ![n] = o], UNCHANGED <<cur, plan>>,
         handles' \in Nat, awaited' \in 0 .. handles', awaited' # 0 => cur # 0
  PROVE  Moves
  <1>0. ops \in Seq(Operation)
    BY DEF CallsOK
  <1>1. ops \in Seq(Operation) /\ DOMAIN ops = 1 .. Len(ops)
    BY <1>0, LenProperties
  <1>2. /\ ops' \in Seq(Operation) /\ Len(ops') = Len(ops)
        /\ \A i \in 1 .. Len(ops) : ops'[i] = IF i = n THEN o ELSE ops[i]
    BY <1>1, ExceptSeq
  <1>3. DOMAIN ops' = DOMAIN ops
    BY <1>1
  <1>4. \A i \in DOMAIN ops : ops'[i].told = ops[i].told /\ ops'[i].kind = ops[i].kind
    BY <1>1, <1>2
  <1>5. CallsOK'
    BY <1>2, <1>3, <1>4 DEF CallsOK
  <1>6. UNCHANGED Queue!vars
    BY <1>3, <1>4 DEF Queue!vars
  <1> QED BY <1>5, <1>6 DEF Moves

-----------------------------------------------------------------------------
(* What the errors and the results of tasks do.                             *)

(* A task is rejected: the operation fails if it waits for it.              *)
LEMMA RejectsMoves ==
  ASSUME Inv, NEW id \in Nat \ {0}, Rejects(id), handles' = handles
  PROVE  Moves /\ task' = NoTask
  <1>1. CallsOK /\ handles' \in Nat
    BY DEF Inv, TypeOK, CallsOK
  <1>2. CASE awaited = id
    <2>1. cur # 0 /\ Fails
      BY <1>2 DEF Inv, TypeOK, CallsOK, Rejects
    <2> QED BY <1>1, <2>1, FailsMoves DEF Rejects
  <1>3. CASE awaited # id
    BY <1>1, <1>3, StayMoves DEF Rejects, callVars, CallsOK
  <1> QED BY <1>2, <1>3

(* The same, of a step that names the group of variables.                   *)
LEMMA StayedMoves ==
  ASSUME Inv, UNCHANGED callVars, handles' = handles
  PROVE  Moves
  BY StayMoves DEF Inv, TypeOK, CallsOK, callVars

(* The error of a socket or of a task: the context closes, its task is rejected. *)
LEMMA OnErrorOfMoves ==
  ASSUME Inv, NEW id \in Nat \ {0}, OnErrorOf(id), handles' = handles
  PROVE  /\ Moves /\ TaskStays /\ (client.state = "open" => task' = NoTask)
         /\ data' \in Nat /\ pipe' \in Seq(Chunk)
  <1>0. data \in Nat /\ handles \in Nat /\ pipe \in Seq(Chunk)
    BY DEF Inv, TypeOK, CallsOK, DataOK
  <1>1. data \in Nat /\ 0 \in 0 .. handles' /\ pipe \in Seq(Chunk) /\ <<>> \in Seq(Chunk)
    BY <1>0
  <1>2. CASE OnError(id)
    BY <1>1, <1>2, RejectsMoves DEF OnError, TaskStays
  <1>3. CASE client.state # "open" /\ UNCHANGED <<callVars, task, data, pipe>>
    BY <1>1, <1>3, StayedMoves DEF TaskStays, callVars
  <1> QED BY <1>2, <1>3 DEF OnErrorOf, OnErrorGone

(* A transfer is over when its data and its answer are there.               *)
LEMMA TryResolveMoves ==
  ASSUME Inv, cur # 0, NEW r \in Resolvers, TryResolve(r), handles' = handles
  PROVE  /\ Moves /\ TaskStays /\ resolver' \in Resolvers
         /\ data' \in Nat /\ pipe' \in Seq(Chunk)
  <1>0. data \in Nat /\ handles \in Nat /\ pipe \in Seq(Chunk)
    BY DEF Inv, TypeOK, CallsOK, DataOK
  <1>1. data \in Nat /\ 0 \in 0 .. handles' /\ pipe \in Seq(Chunk) /\ <<>> \in Seq(Chunk)
    BY <1>0
  <1>2. CallsOK /\ handles' \in Nat
    BY <1>0 DEF Inv, TypeOK
  <1>3. CASE CanResolve(r)
    <2>1. ASSUME NotFound PROVE Moves
      <3> DEFINE told == IF ops[cur].kind = "info" THEN "missing" ELSE "failed"
      <3>1. Over(told)
        BY <2>1 DEF NotFound
      <3>2. told \in {"ok", "failed", "missing"} /\ (told = "missing" => ops[cur].kind = "info")
        OBVIOUS
      <3> QED BY <1>2, <3>1, <3>2, OverMoves
    <2>2. ASSUME Succeeds PROVE Moves
      BY <1>2, <2>2, SucceedsMoves
    <2>3. ASSUME Outdated PROVE Moves
      <3>1. Over("failed")
        BY <2>3 DEF Outdated
      <3> QED BY <1>2, <3>1, OverMoves
    <2> QED BY <1>1, <1>3, <2>1, <2>2, <2>3 DEF TryResolve, TaskStays
  <1>4. CASE ~CanResolve(r)
    BY <1>1, <1>4, StayedMoves DEF TryResolve, TaskStays, callVars
  <1> QED BY <1>3, <1>4

-----------------------------------------------------------------------------
(* The steps.                                                               *)

(* The initial state is sound, and is one of the queue.                     *)
THEOREM InitOK == Init => Inv /\ Queue!Init
  <1> SUFFICES ASSUME Init PROVE Inv /\ Queue!Init
    OBVIOUS
  <1>1. CallsOK
    <2>1. <<>> \in Plans
      BY DEF Plans
    <2>2. /\ ops = <<>> /\ cur = 0 /\ plan = <<>> /\ awaited = 0 /\ handles = 0
          /\ ops \in Seq(Operation) /\ Len(ops) = 0 /\ DOMAIN ops = {}
      BY DEF Init
    <2> QED BY <2>1, <2>2, BoundAssumption DEF CallsOK
  <1>2. ContextOK
    <2>1. task = NoTask /\ handles = 0
      BY DEF Init
    <2>2. task \in [id : 0 .. handles, cmd : Requests \cup Transfers \cup {""}]
      BY <2>1, NoTaskTyped
    <2>3. client \in [gen : Nat, state : States] /\ mode \in {"any", "EPSV", "PASV"}
      BY DEF Init, States
    <2>4. resolver \in Resolvers
      BY DEF Init, NoAnswers, Resolvers
    <2> QED BY <2>1, <2>2, <2>3, <2>4 DEF ContextOK
  <1>3. DataOK
    <2>1. up \in BOOLEAN /\ errInfo \in BOOLEAN
      BY Zenon DEF Init
    <2>2. data \in Nat /\ cache \in Seq(Chunk) /\ pipe \in Seq(Chunk)
      BY DEF Init
    <2> QED BY <2>1, <2>2 DEF DataOK, Init
  <1>4. ServerOK
    <2>0. xfer \in Transferring
      BY NoTransferTyped DEF Init
    <2>1. wire \in Seq(Replies) /\ listener \in Nat
      BY DEF Init
    <2>2. remote \in Seq(Chunk)
      BY ContentTyped, BoundAssumption DEF Init
    <2>3. faults \in 0 .. MaxFaults
      BY BoundAssumption DEF Init
    <2>4. hit \in BOOLEAN
      BY Zenon DEF Init
    <2> QED BY <2>0, <2>1, <2>2, <2>3, <2>4 DEF ServerOK
  <1>5. AnswersAwaited
    BY DEF Init, AnswersAwaited
  <1>6. Queue!Init
    BY DEF Init, Queue!Init
  <1> QED BY <1>1, <1>2, <1>3, <1>4, <1>5, <1>6 DEF Inv, TypeOK

(* A task that stays, or is dropped, is in its range.                       *)
LEMMA TaskStaysOK ==
  ASSUME Inv, TaskStays, handles' = handles, client' \in [gen : Nat, state : States],
         mode' \in {"any", "EPSV", "PASV"}, resolver' \in Resolvers
  PROVE  ContextOK'
  <1>1. /\ handles \in Nat /\ task \in [id : 0 .. handles, cmd : Requests \cup Transfers \cup {""}]
        /\ task = NoTask \/ (task.id # 0 /\ task.cmd # "")
    BY DEF Inv, TypeOK, ContextOK, CallsOK
  <1>2. task' \in [id : 0 .. handles', cmd : Requests \cup Transfers \cup {""}]
    BY <1>1, NoTaskTyped DEF TaskStays
  <1> QED BY <1>1, <1>2 DEF ContextOK, TaskStays

(* An answer still comes only to the task waited for.                       *)
LEMMA TaskStaysAwaited ==
  ASSUME Inv, TaskStays, client'.state = client.state \/ client'.state \in {"none", "closing", "closed"},
         client.state = "dead" => wire' = <<>> /\ xfer' = NoTransfer
  PROVE  AnswersAwaited'
  BY DEF Inv, AnswersAwaited, TaskStays

(* A client that closes, or that failed to log in, is well typed.           *)
LEMMA ClosingOK ==
  ASSUME NEW c \in [gen : Nat, state : States]
  PROVE  /\ Closing(c) \in [gen : Nat, state : States]
         /\ Closing(c).state = c.state \/ Closing(c).state = "closing"
         /\ AfterFailure(c) \in [gen : Nat, state : States]
         /\ AfterFailure(c).state \in {c.state, "none"}
  BY DEF Closing, AfterFailure, States

(* A call of a method of the storage.                                       *)
LEMMA BeginKeeps ==
  ASSUME Inv, NEW kind \in Kinds, NEW again \in BOOLEAN, Begin(kind, again)
  PROVE  Inv' /\ Moves
  <1> DEFINE before == IF again THEN ops[Len(ops)].local ELSE <<>>
             o == [kind |-> kind, before |-> before, local |-> before,
                   size |-> 0, want |-> <<>>, stored |-> FALSE, told |-> ""]
  <1>1. /\ ops \in Seq(Operation) /\ cur = 0 /\ Len(ops) < MaxOps
        /\ \A i \in DOMAIN ops : ops[i].told = "" <=> i = cur
    BY DEF Inv, TypeOK, CallsOK, Begin, Free
  <1>2. before \in Seq(Chunk)
    <2>1. CASE again
      <3>1. ops # <<>>
        BY <2>1 DEF Begin
      <3>2. Len(ops) \in Nat \ {0}
        BY <1>1, <3>1, EmptySeq
      <3>3. Len(ops) \in 1 .. Len(ops)
        BY <3>2
      <3>4. ops[Len(ops)] \in Operation
        BY <1>1, <3>3, ElementOfSeq
      <3> QED BY <2>1, <3>4 DEF Operation
    <2>2. CASE ~again
      BY <2>2
    <2> QED BY <2>1, <2>2
  <1>3. o \in Operation /\ o.told = "" /\ o.kind = kind
    <2> HIDE DEF before
    <2>1. <<>> \in Seq(Chunk) /\ FALSE \in BOOLEAN
      OBVIOUS
    <2> QED BY <1>2, <2>1 DEF Operation, Told
  <1>4. ops' = Append(ops, o) /\ cur' = Len(ops) + 1 /\ plan' = Plan(kind) /\ UNCHANGED <<awaited, handles>>
    BY DEF Begin, contextVars
  <1> HIDE DEF o
  <1>5. /\ ops' \in Seq(Operation) /\ Len(ops') = Len(ops) + 1 /\ Len(ops) \in Nat
        /\ DOMAIN ops = 1 .. Len(ops) /\ DOMAIN ops' = 1 .. Len(ops) + 1
        /\ ops'[Len(ops) + 1] = o
        /\ \A i \in 1 .. Len(ops) : ops'[i] = ops[i]
    <2>1. ops \in Seq(Operation) /\ o \in Operation
      BY <1>1, <1>3
    <2>2. /\ Append(ops, o) \in Seq(Operation) /\ Len(Append(ops, o)) = Len(ops) + 1
          /\ Len(ops) \in Nat /\ DOMAIN ops = 1 .. Len(ops)
          /\ DOMAIN Append(ops, o) = 1 .. Len(ops) + 1
          /\ Append(ops, o)[Len(ops) + 1] = o
          /\ \A i \in 1 .. Len(ops) : Append(ops, o)[i] = ops[i]
      BY <2>1, Appended
    <2> QED BY <1>4, <2>2
  <1>6. \A i \in DOMAIN ops' : ops'[i].told = "" <=> i = cur'
    <2> SUFFICES ASSUME NEW i \in 1 .. Len(ops) + 1
                 PROVE  ops'[i].told = "" <=> i = Len(ops) + 1
      BY <1>4, <1>5
    <2>1. CASE i = Len(ops) + 1
      BY <1>3, <1>5, <2>1
    <2>2. CASE i \in 1 .. Len(ops)
      <3>1. i # 0 /\ i # Len(ops) + 1
        BY <1>5, <2>2
      <3> QED BY <1>1, <1>5, <2>2, <3>1
    <2>3. Len(ops) \in Nat
      BY <1>5
    <2>4. i = Len(ops) + 1 \/ i \in 1 .. Len(ops)
      BY <2>3
    <2> QED BY <2>1, <2>2, <2>4
  <1>7. CallsOK'
    <2>1. handles \in Nat /\ awaited \in 0 .. handles /\ awaited = 0
      BY <1>1 DEF Inv, TypeOK, CallsOK
    <2>2. Len(ops') <= MaxOps /\ cur' = Len(ops') /\ cur' # 0
      <3>1. Len(ops) \in Nat /\ MaxOps \in Nat /\ Len(ops) < MaxOps
        BY <1>1, <1>5, BoundAssumption
      <3>2. Len(ops') = Len(ops) + 1 /\ cur' = Len(ops) + 1
        BY <1>4, <1>5
      <3> QED BY <3>1, <3>2
    <2> QED BY <1>4, <1>5, <1>6, <2>1, <2>2, PlanTyped DEF CallsOK
  <1>8. Queue!Begin(kind)
    <2> DEFINE view(s) == [i \in DOMAIN s |-> [kind |-> s[i].kind, told |-> s[i].told]]
    <2>0. Len(ops) \in Nat /\ DOMAIN ops = 1 .. Len(ops) /\ DOMAIN ops' = 1 .. Len(ops) + 1
      BY <1>5
    <2>2. Len(view(ops)) = Len(ops) /\ view(ops) \in Seq([kind : Kinds, told : Told])
      <3>1. \A i \in 1 .. Len(ops) : view(ops)[i] \in [kind : Kinds, told : Told]
        <4>1. \A i \in 1 .. Len(ops) : ops[i] \in Operation
          BY <1>1, ElementOfSeq
        <4>2. \A i \in 1 .. Len(ops) : view(ops)[i] = [kind |-> ops[i].kind, told |-> ops[i].told]
          BY <2>0
        <4> QED BY <4>1, <4>2 DEF Operation
      <3> QED BY <2>0, <3>1
    <2>1. view(ops') = Append(view(ops), [kind |-> kind, told |-> ""])
      <3> DEFINE e == [kind |-> kind, told |-> ""]
      <3>1. e \in [kind : Kinds, told : Told]
        BY DEF Told
      <3> HIDE DEF e
      <3>2. /\ Append(view(ops), e) \in Seq([kind : Kinds, told : Told])
            /\ DOMAIN Append(view(ops), e) = 1 .. Len(ops) + 1
            /\ Append(view(ops), e)[Len(ops) + 1] = e
            /\ \A i \in 1 .. Len(ops) : Append(view(ops), e)[i] = view(ops)[i]
        BY <2>2, <3>1, Appended
      <3>3. Append(view(ops), e) = [i \in 1 .. Len(ops) + 1 |-> Append(view(ops), e)[i]]
        BY <3>2
      <3>4. \A i \in 1 .. Len(ops) + 1 : view(ops')[i] = Append(view(ops), e)[i]
        <4> SUFFICES ASSUME NEW i \in 1 .. Len(ops) + 1
                     PROVE  view(ops')[i] = Append(view(ops), e)[i]
          OBVIOUS
        <4>1. i = Len(ops) + 1 \/ i \in 1 .. Len(ops)
          BY <2>0
        <4>2. view(ops')[i] = [kind |-> ops'[i].kind, told |-> ops'[i].told]
          BY <2>0
        <4>3. CASE i = Len(ops) + 1
          BY <1>3, <1>5, <3>2, <4>2, <4>3 DEF e
        <4>4. CASE i \in 1 .. Len(ops)
          BY <1>5, <2>0, <3>2, <4>2, <4>4
        <4> QED BY <4>1, <4>3, <4>4
      <3>5. view(ops') = [i \in 1 .. Len(ops) + 1 |-> view(ops')[i]]
        BY <2>0
      <3> HIDE DEF view
      <3>6. view(ops') = Append(view(ops), e)
        BY <3>3, <3>4, <3>5
      <3> QED BY <3>6 DEF e
    <2> QED BY <1>1, <1>4, <2>1, <2>2 DEF Queue!Begin
  <1>9. ContextOK' /\ DataOK' /\ ServerOK' /\ AnswersAwaited'
    <2>1. UNCHANGED <<contextVars, dataVars, jobVars, serverVars, faultVars, awaited>>
      BY DEF Begin
    <2> QED BY <2>1 DEF Inv, TypeOK, ContextOK, DataOK, ServerOK, AnswersAwaited,
              contextVars, dataVars, jobVars, serverVars, faultVars
  <1> QED BY <1>7, <1>8, <1>9 DEF Inv, TypeOK, Moves, Queue!Next

(* Most actions leave most of the state alone.                              *)
LEMMA ContextFrame ==
  ASSUME Inv, UNCHANGED contextVars
  PROVE  ContextOK'
  BY DEF Inv, TypeOK, ContextOK, contextVars

(* The same of the data connection, the pollers and the loops.              *)
LEMMA DataFrame ==
  ASSUME Inv, UNCHANGED <<handles, dataVars, jobVars>>
  PROVE  DataOK'
  BY DEF Inv, TypeOK, DataOK, dataVars, jobVars

(* The same of the server.                                                  *)
LEMMA ServerFrame ==
  ASSUME Inv, UNCHANGED <<serverVars, faultVars>>
  PROVE  ServerOK'
  BY DEF Inv, TypeOK, ServerOK, serverVars, faultVars

(* Faults are counted up to their bound.                                    *)
LEMMA FaultOK ==
  ASSUME Inv, NEW kind, Fault(kind)
  PROVE  faults' \in 0 .. MaxFaults
  BY BoundAssumption DEF Inv, TypeOK, ServerOK, Fault

(* The handler asks for a client: a new one, or the one it has.             *)
LEMMA EnsureKeeps ==
  ASSUME Inv, Ensure
  PROVE  Inv' /\ Moves
  <1>1. CallsOK /\ plan # <<>> /\ cur # 0 /\ Head(plan) = "ENSURE"
    BY DEF Ensure, Step, Inv, TypeOK, CallsOK
  <1>0. Len(plan) # 1
    BY <1>1, NextStep DEF Transfers
  <1>2. UNCHANGED <<ops, cur, awaited, handles>>
    BY DEF Ensure
  <1>3. Login \in Seq(Steps)
    BY DEF Login, Steps, Requests, Access
  <1>4. CASE client.state \in {"none", "closing", "closed"}
    <2>1. /\ client' = [gen |-> client.gen + 1, state |-> "new"]
          /\ plan' = Login \o Tail(plan)
          /\ mode' = "any" /\ task' = NoTask
          /\ data' = 0 /\ up' = FALSE /\ pipe' = <<>>
          /\ wire' = <<>> /\ listener' = 0 /\ xfer' = NoTransfer
      BY <1>4 DEF Ensure
    <2>2. plan' \in Plans /\ plan' # <<>>
      BY <1>0, <1>1, <1>3, <2>1, NextStep
    <2>3. Moves
      BY <1>1, <1>2, <2>2, StayMoves DEF CallsOK
    <2>4. ContextOK'
      <3>0. handles \in Nat /\ client \in [gen : Nat, state : States]
        BY DEF Inv, TypeOK, CallsOK, ContextOK
      <3>1. handles' \in Nat /\ client' \in [gen : Nat, state : States]
        BY <1>2, <2>1, <3>0 DEF States
      <3>2. resolver' \in Resolvers /\ mode' \in {"any", "EPSV", "PASV"}
        BY <2>1 DEF Ensure, Inv, TypeOK, ContextOK
      <3> QED BY <2>1, <3>1, <3>2, NoTaskTyped DEF ContextOK
    <2>5. DataOK'
      <3>1. UNCHANGED <<cache, errInfo, jobVars>>
        BY DEF Ensure
      <3>2. up' \in BOOLEAN
        BY Zenon, <2>1
      <3>0. handles' \in Nat
        BY <1>2 DEF Inv, TypeOK, CallsOK
      <3>3. data' \in Nat /\ pipe' \in Seq(Chunk)
        BY <2>1, <3>0
      <3> QED BY <3>1, <3>2, <3>3 DEF Inv, TypeOK, DataOK, jobVars
    <2>6. ServerOK'
      <3>1. UNCHANGED <<remote, faultVars>>
        BY DEF Ensure
      <3> QED BY <2>1, <3>1, NoTransferTyped DEF Inv, TypeOK, ServerOK, faultVars
    <2>7. AnswersAwaited'
      BY <2>1 DEF AnswersAwaited
    <2> QED BY <2>3, <2>4, <2>5, <2>6, <2>7 DEF Inv, TypeOK, Moves
  <1>5. CASE client.state \notin {"none", "closing", "closed"}
    <2>1. /\ plan' = Tail(plan)
          /\ UNCHANGED <<client, mode, task, data, up, pipe, wire, listener, xfer>>
      BY <1>5 DEF Ensure
    <2>2. plan' \in Plans /\ plan' # <<>>
      BY <1>0, <1>1, <2>1, NextStep
    <2>3. Moves
      BY <1>1, <1>2, <2>2, StayMoves DEF CallsOK
    <2>4. ContextOK'
      BY <1>2, <2>1, ContextFrame DEF Ensure, contextVars
    <2>5. DataOK'
      BY <1>2, <2>1, DataFrame DEF Ensure, dataVars
    <2>6. ServerOK'
      BY <2>1, ServerFrame DEF Ensure, serverVars
    <2>7. AnswersAwaited'
      BY <1>2, <2>1 DEF Inv, AnswersAwaited
    <2> QED BY <2>3, <2>4, <2>5, <2>6, <2>7 DEF Inv, TypeOK, Moves
  <1> QED BY <1>4, <1>5

(* The control connection reports that it is closed.                        *)
LEMMA ControlClosedKeeps ==
  ASSUME Inv, ControlClosed
  PROVE  Inv' /\ Moves
  <1>1. client' = Closing(client) /\ client \in [gen : Nat, state : States]
    BY DEF ControlClosed, Inv, TypeOK, ContextOK
  <1>2. UNCHANGED <<callVars, task, handles, mode, resolver, dataVars, jobVars, serverVars, faultVars>>
    BY DEF ControlClosed
  <1>3. Moves
    BY <1>2, StayedMoves
  <1>4. TaskStays
    BY <1>2 DEF TaskStays, callVars
  <1>5. ContextOK'
    BY <1>1, <1>2, <1>4, ClosingOK, TaskStaysOK DEF Inv, TypeOK, ContextOK
  <1>6. DataOK' /\ ServerOK'
    BY <1>2, DataFrame, ServerFrame
  <1>7. AnswersAwaited'
    BY <1>1, <1>2, <1>4, ClosingOK, TaskStaysAwaited DEF Inv, AnswersAwaited, serverVars
  <1> QED BY <1>3, <1>5, <1>6, <1>7 DEF Inv, TypeOK, Moves

(* The promises of close() come back.                                       *)
LEMMA FinishCloseKeeps ==
  ASSUME Inv, FinishClose
  PROVE  Inv' /\ Moves
  <1> DEFINE closed == [client EXCEPT !.state = "closed"]
  <1>0. client \in [gen : Nat, state : States]
    BY DEF Inv, TypeOK, ContextOK
  <1>a. task # NoTask => task.id # 0
    BY DEF Inv, TypeOK, ContextOK
  <1>1. /\ closed \in [gen : Nat, state : States] /\ closed.state = "closed"
        /\ task # NoTask => task.id # 0
    BY <1>0, <1>a DEF States
  <1>2. /\ UNCHANGED <<handles, mode, resolver, up, cache, errInfo, jobVars, serverVars, faultVars>>
        /\ task' = NoTask /\ data' = 0 /\ pipe' = <<>>
    BY DEF FinishClose
  <1> HIDE DEF closed
  <1>3. /\ Moves
        /\ client' = closed \/ client' = AfterFailure(closed)
    <2>1. CASE task # NoTask /\ awaited = task.id /\ Fails /\ client' = AfterFailure(closed)
      <3>1. CallsOK /\ cur # 0 /\ handles' \in Nat
        BY <1>1, <1>2, <2>1 DEF Inv, TypeOK, CallsOK
      <3> QED BY <1>2, <2>1, <3>1, FailsMoves
    <2>2. CASE client' = closed /\ UNCHANGED callVars
      BY <1>2, <2>2, StayedMoves
    <2> QED BY <2>1, <2>2 DEF FinishClose, closed
  <1>4. client' \in [gen : Nat, state : States] /\ client'.state \in {"closed", "none"}
    BY <1>1, <1>3, ClosingOK
  <1>5. TaskStays
    BY <1>2 DEF TaskStays
  <1>6. ContextOK'
    BY <1>2, <1>4, <1>5, TaskStaysOK DEF Inv, TypeOK, ContextOK
  <1>7. DataOK'
    <2>1. handles' \in Nat
      BY <1>2 DEF Inv, TypeOK, CallsOK
    <2>2. data' \in Nat /\ pipe' \in Seq(Chunk)
      BY <1>2, <2>1
    <2> QED BY <1>2, <2>2 DEF Inv, TypeOK, DataOK, jobVars
  <1>8. ServerOK'
    BY <1>2, ServerFrame
  <1>9. AnswersAwaited'
    BY <1>2, <1>4 DEF AnswersAwaited
  <1> QED BY <1>3, <1>6, <1>7, <1>8, <1>9 DEF Inv, TypeOK, Moves

(* A chunk arrives at the data socket.                                      *)
LEMMA DeliverKeeps ==
  ASSUME Inv, Deliver
  PROVE  Inv' /\ Moves
  <1>1. UNCHANGED <<callVars, contextVars, data, up, jobVars, serverVars, faultVars>>
    BY DEF Deliver
  <1>2. Moves
    BY <1>1, StayedMoves DEF contextVars
  <1>3. ContextOK' /\ ServerOK'
    BY <1>1, ContextFrame, ServerFrame
  <1>4. cache \in Seq(Chunk) /\ pipe \in Seq(Chunk) /\ pipe # <<>>
    BY DEF Inv, TypeOK, DataOK, Deliver
  <1>5. cache' \in Seq(Chunk) /\ pipe' \in Seq(Chunk)
    BY <1>4 DEF Deliver
  <1>6. errInfo' \in BOOLEAN
    BY Zenon DEF Deliver
  <1>7. DataOK'
    BY <1>1, <1>5, <1>6 DEF Inv, TypeOK, DataOK, contextVars, jobVars
  <1>8. AnswersAwaited'
    BY <1>1 DEF Inv, AnswersAwaited, contextVars, callVars, serverVars
  <1> QED BY <1>2, <1>3, <1>7, <1>8 DEF Inv, TypeOK, Moves

-----------------------------------------------------------------------------
(* The server and the faults.                                               *)

(* The transfer the server is in.                                           *)
LEMMA TransferTyped ==
  ASSUME Inv
  PROVE  /\ xfer \in Transferring /\ xfer.op \in 0 .. MaxOps /\ xfer.id \in Nat
         /\ xfer.cmd \in Transfers \cup {""} /\ xfer.todo \in Seq(Chunk)
  <1>1. xfer \in Transferring
    BY DEF Inv, TypeOK, ServerOK
  <1> QED BY <1>1 DEF Transferring

(* An answer more is under way.                                             *)
LEMMA AnswerTyped ==
  ASSUME Inv, NEW id \in Nat, NEW cmd \in Requests \cup Transfers \cup {"", "PASS"}, NEW code \in {"ok", "mark", "more", "err"},
         NEW rest \in Seq(Replies)
  PROVE  Append(rest, Answer(id, cmd, code)) \in Seq(Replies)
  <1>1. Answer(id, cmd, code) \in Replies
    BY DEF Answer, Replies
  <1> QED BY <1>1, AppendProperties

(* What the client has left open ends with an answer.                       *)
LEMMA BeforeTyped ==
  ASSUME Inv
  PROVE  /\ Before \in Seq(Replies)
         /\ xfer = NoTransfer => Before = wire
         /\ xfer # NoTransfer => \E code \in {"ok", "err"} :
              Before = Append(wire, Answer(xfer.id, xfer.cmd, code))
  <1> DEFINE code == IF xfer.cmd # "STOR" /\ xfer.todo = <<>> THEN "ok" ELSE "err"
  <1>1. code \in {"ok", "err"}
    OBVIOUS
  <1>2. Before = IF xfer = NoTransfer THEN wire ELSE Append(wire, Answer(xfer.id, xfer.cmd, code))
    BY DEF Before
  <1>3. wire \in Seq(Replies)
    BY DEF Inv, TypeOK, ServerOK
  <1> HIDE DEF code
  <1>4. Append(wire, Answer(xfer.id, xfer.cmd, code)) \in Seq(Replies)
    BY <1>1, <1>3, TransferTyped, AnswerTyped
  <1> QED BY <1>1, <1>2, <1>3, <1>4

(* The server sends a chunk of a download.                                  *)
LEMMA ServerSendsKeeps ==
  ASSUME Inv, ServerSends
  PROVE  Inv' /\ Moves
  <1>1. UNCHANGED <<callVars, contextVars, data, up, cache, errInfo, jobVars,
                    wire, listener, remote, faultVars>>
    BY DEF ServerSends
  <1>2. Moves
    BY <1>1, StayedMoves DEF contextVars
  <1>3. ContextOK'
    BY <1>1, ContextFrame
  <1>4. pipe \in Seq(Chunk) /\ xfer.todo \in Seq(Chunk) /\ xfer.todo # <<>>
    BY TransferTyped DEF Inv, TypeOK, DataOK, ServerSends
  <1>5. Head(xfer.todo) \in Chunk /\ Tail(xfer.todo) \in Seq(Chunk)
    BY <1>4
  <1>6. pipe' \in Seq(Chunk)
    BY <1>4, <1>5 DEF ServerSends
  <1>7. xfer' \in Transferring
    <2>1. xfer' = [xfer EXCEPT !.todo = Tail(xfer.todo)]
      BY DEF ServerSends
    <2> QED BY <1>5, <2>1, TransferTyped DEF Transferring
  <1>8. DataOK' /\ ServerOK'
    BY <1>1, <1>6, <1>7 DEF Inv, TypeOK, DataOK, ServerOK, contextVars, jobVars, faultVars
  <1>9. AnswersAwaited'
    <2>0. NoTransfer.todo = <<>>
      BY DEF NoTransfer
    <2>1. client.state # "dead"
      BY <1>4, <2>0 DEF Inv, AnswersAwaited
    <2> QED BY <1>1, <2>1 DEF Inv, AnswersAwaited, contextVars, callVars
  <1> QED BY <1>2, <1>3, <1>8, <1>9 DEF Inv, TypeOK, Moves

(* The server has seen the end of a transfer.                               *)
LEMMA ServerConfirmsKeeps ==
  ASSUME Inv, ServerConfirms
  PROVE  Inv' /\ Moves
  <1>1. UNCHANGED <<cur, plan, awaited, contextVars, dataVars, jobVars, listener, remote, faultVars>>
    BY DEF ServerConfirms
  <1>2. /\ wire' = Append(wire, Answer(xfer.id, xfer.cmd, "ok")) /\ wire \in Seq(Replies)
        /\ xfer # NoTransfer /\ xfer' = NoTransfer
    BY DEF ServerConfirms, Inv, TypeOK, ServerOK
  <1>3. wire' \in Seq(Replies)
    BY <1>2, TransferTyped, AnswerTyped
  <1>4. handles' \in Nat /\ awaited' \in 0 .. handles' /\ (awaited' # 0 => cur # 0)
    BY <1>1 DEF Inv, TypeOK, CallsOK, contextVars
  <1>5. Moves
    <2> DEFINE n == xfer.op
               o == [ops[n] EXCEPT !.stored = TRUE]
    <2>1. CallsOK /\ ops \in Seq(Operation)
      BY DEF Inv, TypeOK, CallsOK
    <2>2. CASE UNCHANGED ops
      BY <1>1, <1>4, <2>1, <2>2, StayMoves DEF CallsOK
    <2>3. CASE ops' = [ops EXCEPT ![n] = o] /\ n \in DOMAIN ops
      <3>1. n \in 1 .. Len(ops)
        BY <2>1, <2>3, LenProperties
      <3>2. ops[n] \in Operation
        BY <2>1, <3>1, ElementOfSeq
      <3>3. o \in Operation /\ o.kind = ops[n].kind /\ o.told = ops[n].told
        BY <3>2 DEF Operation
      <3> HIDE DEF o
      <3> QED BY <1>1, <1>4, <2>1, <2>3, <3>3, NotedMoves
    <2>4. UNCHANGED ops \/ ops' = [ops EXCEPT ![n] = o]
      BY DEF ServerConfirms
    <2>5. n \notin DOMAIN ops => [ops EXCEPT ![n] = o] = ops
      <3>1. ops = [i \in DOMAIN ops |-> ops[i]]
        BY <2>1, LenProperties
      <3> QED BY <3>1
    <2> HIDE DEF n, o
    <2> QED BY <2>2, <2>3, <2>4, <2>5
  <1>6. ContextOK' /\ DataOK'
    BY <1>1, ContextFrame, DataFrame DEF contextVars
  <1>7. ServerOK'
    BY <1>1, <1>2, <1>3, NoTransferTyped DEF Inv, TypeOK, ServerOK, faultVars
  <1>8. AnswersAwaited'
    BY <1>1, <1>2 DEF Inv, AnswersAwaited, contextVars
  <1> QED BY <1>5, <1>6, <1>7, <1>8 DEF Inv, TypeOK, Moves

(* The server ends a transfer it cannot go on with.                         *)
LEMMA ServerGivesUpKeeps ==
  ASSUME Inv, ServerGivesUp, faults' \in 0 .. MaxFaults, hit' \in BOOLEAN
  PROVE  Inv' /\ Moves
  <1>1. UNCHANGED <<callVars, contextVars, dataVars, jobVars, listener, remote>>
    BY DEF ServerGivesUp
  <1>2. /\ wire' = Append(wire, Answer(xfer.id, xfer.cmd, "err")) /\ wire \in Seq(Replies)
        /\ xfer # NoTransfer /\ xfer' = NoTransfer
    BY DEF ServerGivesUp, Inv, TypeOK, ServerOK
  <1>3. wire' \in Seq(Replies)
    BY <1>2, TransferTyped, AnswerTyped
  <1>4. Moves
    BY <1>1, StayedMoves DEF contextVars
  <1>5. ContextOK' /\ DataOK'
    BY <1>1, ContextFrame, DataFrame DEF contextVars
  <1>6. ServerOK'
    BY <1>1, <1>2, <1>3, NoTransferTyped DEF Inv, TypeOK, ServerOK
  <1>7. AnswersAwaited'
    BY <1>1, <1>2 DEF Inv, AnswersAwaited, contextVars, callVars
  <1> QED BY <1>4, <1>5, <1>6, <1>7 DEF Inv, TypeOK, Moves

(* The server notices that the data connection is gone.                     *)
LEMMA ServerNoticesKeeps ==
  ASSUME Inv, ServerNotices
  PROVE  Inv' /\ Moves
  <1>1. faults' \in 0 .. MaxFaults /\ hit' \in BOOLEAN
    BY DEF ServerNotices, faultVars, Inv, TypeOK, ServerOK
  <1> QED BY <1>1, ServerGivesUpKeeps DEF ServerNotices

(* The server breaks off a transfer.                                        *)
LEMMA AbortKeeps ==
  ASSUME Inv, Abort
  PROVE  Inv' /\ Moves
  <1>1. hit' \in BOOLEAN
    BY Zenon DEF Abort
  <1> QED BY <1>1, FaultOK, ServerGivesUpKeeps DEF Abort

(* The data connection breaks.                                              *)
LEMMA DropKeeps ==
  ASSUME Inv, Drop
  PROVE  Inv' /\ Moves
  <1>1. UNCHANGED <<callVars, contextVars, data, cache, errInfo, jobVars, serverVars>>
    BY DEF Drop
  <1>2. hit' \in BOOLEAN /\ up' \in BOOLEAN
    BY Zenon DEF Drop
  <1>3. faults' \in 0 .. MaxFaults /\ pipe' = <<>> /\ <<>> \in Seq(Chunk)
    BY FaultOK DEF Drop
  <1>4. Moves
    BY <1>1, StayedMoves DEF contextVars
  <1>5. ContextOK'
    BY <1>1, ContextFrame
  <1>6. DataOK'
    BY <1>1, <1>2, <1>3 DEF Inv, TypeOK, DataOK, contextVars, jobVars
  <1>7. ServerOK'
    BY <1>1, <1>2, <1>3 DEF Inv, TypeOK, ServerOK, serverVars
  <1>8. AnswersAwaited'
    BY <1>1 DEF Inv, AnswersAwaited, contextVars, callVars, serverVars
  <1> QED BY <1>4, <1>5, <1>6, <1>7, <1>8 DEF Inv, TypeOK, Moves

(* The control connection is lost.                                          *)
LEMMA LoseKeeps ==
  ASSUME Inv, Lose
  PROVE  Inv' /\ Moves
  <1>1. UNCHANGED <<callVars, task, handles, mode, resolver, dataVars, jobVars, listener, remote>>
    BY DEF Lose
  <1>2. hit' \in BOOLEAN
    BY Zenon DEF Lose, InTransfer, Inv, TypeOK, ServerOK
  <1>3. /\ client \in [gen : Nat, state : States]
        /\ client' = [client EXCEPT !.state = "dead"] /\ wire' = <<>> /\ xfer' = NoTransfer
    BY DEF Lose, Inv, TypeOK, ContextOK
  <1>4. client' \in [gen : Nat, state : States] /\ client'.state = "dead"
    BY <1>3 DEF States
  <1>5. Moves
    BY <1>1, StayedMoves
  <1>6. ContextOK'
    BY <1>1, <1>4, TaskStaysOK DEF Inv, TypeOK, ContextOK, TaskStays, callVars
  <1>7. DataOK'
    BY <1>1, DataFrame
  <1>8. ServerOK'
    <2>1. wire' \in Seq(Replies) /\ faults' \in 0 .. MaxFaults
      BY <1>3, FaultOK DEF Lose
    <2> QED BY <1>1, <1>2, <1>3, <2>1, NoTransferTyped DEF Inv, TypeOK, ServerOK
  <1>9. AnswersAwaited'
    BY <1>3, <1>4 DEF AnswersAwaited
  <1> QED BY <1>5, <1>6, <1>7, <1>8, <1>9 DEF Inv, TypeOK, Moves

(* The configuration is switched to another server.                         *)
LEMMA SwitchKeeps ==
  ASSUME Inv, Switch
  PROVE  Inv' /\ Moves
  <1>1. UNCHANGED <<callVars, task, handles, mode, resolver, dataVars, jobVars, serverVars>>
    BY DEF Switch
  <1>2. hit' \in BOOLEAN
    BY Zenon DEF Switch, InTransfer, Inv, TypeOK, ServerOK
  <1>3. client \in [gen : Nat, state : States] /\ client' = Closing(client)
    BY DEF Switch, Inv, TypeOK, ContextOK
  <1>4. TaskStays
    BY <1>1 DEF TaskStays, callVars
  <1>5. Moves
    BY <1>1, StayedMoves
  <1>6. ContextOK'
    BY <1>1, <1>3, <1>4, ClosingOK, TaskStaysOK DEF Inv, TypeOK, ContextOK
  <1>7. DataOK'
    BY <1>1, DataFrame
  <1>8. ServerOK'
    BY <1>1, <1>2, FaultOK DEF Switch, Inv, TypeOK, ServerOK, serverVars
  <1>9. AnswersAwaited'
    BY <1>1, <1>3, <1>4, ClosingOK, TaskStaysAwaited DEF Inv, AnswersAwaited, serverVars
  <1> QED BY <1>5, <1>6, <1>7, <1>8, <1>9 DEF Inv, TypeOK, Moves

(* Another writer replaces the file.                                        *)
LEMMA ResizeKeeps ==
  ASSUME Inv, Resize
  PROVE  Inv' /\ Moves
  <1>1. UNCHANGED <<callVars, contextVars, dataVars, jobVars, wire, listener, xfer>>
    BY DEF Resize
  <1>2. hit' \in BOOLEAN
    BY Zenon DEF Resize, Inv, TypeOK, ServerOK
  <1>3. faults' \in 0 .. MaxFaults
    BY FaultOK DEF Resize
  <1>4. remote' \in Seq(Chunk)
    BY ContentTyped, BoundAssumption DEF Resize
  <1>5. Moves
    BY <1>1, StayedMoves DEF contextVars
  <1>6. ContextOK' /\ DataOK'
    BY <1>1, ContextFrame, DataFrame DEF contextVars
  <1>7. ServerOK'
    BY <1>1, <1>2, <1>3, <1>4 DEF Inv, TypeOK, ServerOK
  <1>8. AnswersAwaited'
    BY <1>1 DEF Inv, AnswersAwaited, contextVars, callVars
  <1> QED BY <1>5, <1>6, <1>7, <1>8 DEF Inv, TypeOK, Moves

-----------------------------------------------------------------------------
(* Commands, and the answers to them.                                       *)

(* The step under way is a step of the running operation.                   *)
LEMMA Stepping ==
  ASSUME Inv, Step \in Requests \cup Transfers
  PROVE  /\ CallsOK /\ cur # 0
         /\ Command \in Requests \cup Transfers /\ Command # ""
  <1>1. "" \notin Requests \cup Transfers /\ "PASV" \in Requests
    BY DEF Requests, Access, Transfers
  <1>2. CallsOK /\ plan # <<>>
    BY <1>1 DEF Inv, TypeOK, Step
  <1> QED BY <1>1, <1>2 DEF CallsOK, Command

(* The number of the next task.                                             *)
LEMMA OneMore ==
  ASSUME NEW n \in Nat
  PROVE  /\ n + 1 \in Nat /\ n + 1 \in 0 .. n + 1 /\ n + 1 # 0 /\ 0 \in 0 .. n + 1
         /\ \A i \in 0 .. n : i \in 0 .. n + 1
  OBVIOUS

(* A new task is tracked and waited for.                                    *)
LEMMA NewTask ==
  ASSUME Inv, NEW id, id = handles + 1, NEW cmd \in Requests \cup Transfers, cmd # "",
         handles' = id, task' = [id |-> id, cmd |-> cmd]
  PROVE  /\ handles \in Nat /\ handles' \in Nat /\ id \in 0 .. handles' /\ id # 0 /\ 0 \in 0 .. handles'
         /\ \A n \in 0 .. handles : n \in 0 .. handles'
         /\ task' \in [id : 0 .. handles', cmd : Requests \cup Transfers \cup {""}]
         /\ task'.id = id /\ task'.cmd = cmd
  <1>1. handles \in Nat
    BY DEF Inv, TypeOK, CallsOK
  <1>a. handles' = handles + 1 /\ id = handles'
    OBVIOUS
  <1>2. handles' \in Nat /\ handles' \in 0 .. handles' /\ handles' # 0 /\ 0 \in 0 .. handles'
    BY <1>1, <1>a, OneMore
  <1>3. \A n \in 0 .. handles : n \in 0 .. handles'
    BY <1>1, <1>a, OneMore
  <1>4. task' \in [id : 0 .. handles', cmd : Requests \cup Transfers \cup {""}]
    BY <1>2, <1>a
  <1> QED BY <1>1, <1>a, <1>2, <1>3, <1>4

(* What the server makes of a command.                                      *)
LEMMA ServesTyped ==
  ASSUME Inv, Step \in Requests \cup Transfers, NEW id \in Nat, Serves(id, Command)
  PROVE  /\ wire' \in Seq(Replies) /\ listener' \in Nat
         /\ xfer' \in Transferring /\ remote' \in Seq(Chunk)
  <1> DEFINE cmd == Command
             connected == data # 0 /\ data = listener /\ up
             begins == cmd \in Transfers /\ connected
             code == CASE cmd = "USER" -> "more"
                       [] cmd \in Transfers -> IF connected THEN "mark" ELSE "err"
                       [] OTHER -> "ok"
             todo == CASE cmd = "RETR" -> remote
                       [] cmd = "LIST" -> Listing
                       [] cmd = "STOR" -> <<>>
             begun == [op |-> cur, id |-> id, cmd |-> cmd, socket |-> data, ended |-> FALSE,
                       todo |-> todo]
  <1>1. cmd \in Requests \cup Transfers
    BY Stepping
  <1>2. /\ wire \in Seq(Replies) /\ listener \in Nat /\ xfer \in Transferring
        /\ remote \in Seq(Chunk) /\ data \in Nat
    <2>1. /\ wire \in Seq(Replies) /\ listener \in Nat /\ xfer \in Transferring
          /\ remote \in Seq(Chunk)
      BY DEF Inv, TypeOK, ServerOK
    <2>2. data \in Nat /\ handles \in Nat
      BY DEF Inv, TypeOK, DataOK, CallsOK
    <2> QED BY <2>1, <2>2
  <1>3. code \in {"ok", "mark", "more", "err"}
    BY Zenon DEF Transfers
  <1>4. wire' \in Seq(Replies)
    <2>1. wire' = Append(Before, Answer(id, cmd, code)) /\ Before \in Seq(Replies)
      BY BeforeTyped DEF Serves
    <2> HIDE DEF code, cmd
    <2> QED BY <1>1, <1>3, <2>1, AnswerTyped
  <1>5. listener' \in Nat
    BY <1>2 DEF Serves
  <1>6. begins => begun \in Transferring
    <2> SUFFICES ASSUME begins PROVE begun \in Transferring
      OBVIOUS
    <2>1. todo \in Seq(Chunk)
      BY <1>2, ListingTyped DEF Transfers
    <2>2. cur \in 0 .. MaxOps
      <3>1. cur \in {0, Len(ops)} /\ Len(ops) <= MaxOps /\ ops \in Seq(Operation)
        BY DEF Inv, TypeOK, CallsOK
      <3>2. Len(ops) \in Nat
        BY <3>1
      <3> QED BY <3>1, <3>2, BoundAssumption
    <2> HIDE DEF todo, cmd
    <2>3. cmd \in Transfers /\ FALSE \in BOOLEAN
      OBVIOUS
    <2> QED BY <1>2, <2>1, <2>2, <2>3 DEF Transferring
  <1>7. xfer' \in Transferring
    <2>1. xfer' = IF ~begins THEN NoTransfer ELSE begun
      BY DEF Serves
    <2> HIDE DEF begins, begun
    <2> QED BY <1>6, <2>1, NoTransferTyped
  <1>8. remote' \in Seq(Chunk)
    BY <1>2 DEF Serves
  <1> QED BY <1>4, <1>5, <1>7, <1>8

(* It notes what a file was like when it was asked for it.                  *)
LEMMA ServesMoves ==
  ASSUME Inv, Step \in Requests \cup Transfers, NEW id, Serves(id, Command),
         UNCHANGED <<cur, plan>>, handles' \in Nat, awaited' \in 0 .. handles'
  PROVE  Moves
  <1>1. /\ CallsOK /\ cur # 0 /\ ops[cur] \in Operation /\ cur \in DOMAIN ops
        /\ remote \in Seq(Chunk) /\ Len(remote) \in Nat
    <2>1. CallsOK /\ cur # 0
      BY Stepping
    <2>2. remote \in Seq(Chunk)
      BY DEF Inv, TypeOK, ServerOK
    <2>3. Len(remote) \in Nat
      BY <2>2
    <2>4. ops[cur] \in Operation /\ cur \in DOMAIN ops
      BY <2>1, Running
    <2> QED BY <2>1, <2>2, <2>3, <2>4
  <1>2. CASE UNCHANGED ops
    BY <1>1, <1>2, StayMoves DEF CallsOK
  <1>3. CASE ops' = [ops EXCEPT ![cur].want = remote]
    <2> DEFINE o == [ops[cur] EXCEPT !.want = remote]
    <2>1. o \in Operation /\ o.kind = ops[cur].kind /\ o.told = ops[cur].told
      BY <1>1 DEF Operation
    <2>2. ops' = [ops EXCEPT ![cur] = o]
      BY <1>3
    <2> HIDE DEF o
    <2> QED BY <1>1, <2>1, <2>2, NotedMoves
  <1>4. CASE ops' = [ops EXCEPT ![cur].size = Len(remote)]
    <2> DEFINE o == [ops[cur] EXCEPT !.size = Len(remote)]
    <2>1. o \in Operation /\ o.kind = ops[cur].kind /\ o.told = ops[cur].told
      BY <1>1 DEF Operation
    <2>2. ops' = [ops EXCEPT ![cur] = o]
      BY <1>4
    <2> HIDE DEF o
    <2> QED BY <1>1, <2>1, <2>2, NotedMoves
  <1> QED BY <1>2, <1>3, <1>4 DEF Serves

(* The sending of a command.  The operation waits for its task, has failed, *)
(* or has moved on: never is an answer to come for nobody.                  *)
LEMMA SendsKeeps ==
  ASSUME Inv, Step \in Requests \cup Transfers, handles' = handles + 1,
         Sends(handles + 1, Command), UNCHANGED <<jobVars, hit>>
  PROVE  Inv' /\ Moves
  <1> DEFINE id == handles + 1
  <1>1. /\ task' = [id |-> id, cmd |-> Command] /\ awaited' = id
        /\ UNCHANGED <<cur, plan, mode, dataVars>>
        /\ client' = IF Command = "CONNECT" THEN [client EXCEPT !.state = "open"] ELSE client
        /\ client.state \in {"new", "open", "dead"}
    BY DEF Sends, Opened
  <1>2. /\ CallsOK /\ cur # 0 /\ Command \in Requests \cup Transfers /\ Command # ""
    BY Stepping
  <1>3. /\ handles \in Nat /\ handles' \in Nat /\ id \in 0 .. handles' /\ id # 0
        /\ \A n \in 0 .. handles : n \in 0 .. handles'
        /\ task' \in [id : 0 .. handles', cmd : Requests \cup Transfers \cup {""}]
        /\ task'.id = id /\ task'.cmd = Command
    BY <1>1, <1>2, NewTask
  <1>4. \/ client.state = "dead" /\ UNCHANGED <<ops, serverVars, faults>>
        \/ client.state # "dead" /\ Serves(id, Command) /\ UNCHANGED faults
        \/ client.state # "dead" /\ Refuses(id, Command)
    BY DEF Sends
  <1>5. Moves
    <2>1. CASE UNCHANGED ops
      BY <1>1, <1>2, <1>3, <2>1, StayMoves DEF CallsOK
    <2>2. CASE Serves(id, Command)
      BY <1>1, <1>3, <2>2, ServesMoves
    <2> QED BY <1>4, <2>1, <2>2 DEF Refuses
  <1>6. client' \in [gen : Nat, state : States] /\ client'.state \in {client.state, "open"}
    <2>1. client \in [gen : Nat, state : States]
      BY DEF Inv, TypeOK, ContextOK
    <2> QED BY <1>1, <2>1 DEF States
  <1>7. ContextOK'
    <2>1. resolver' \in Resolvers
      <3>1. NoAnswers \in Resolvers
        BY DEF NoAnswers, Resolvers
      <3> QED BY <3>1 DEF Sends, Inv, TypeOK, ContextOK
    <2>2. mode' \in {"any", "EPSV", "PASV"}
      BY <1>1 DEF Inv, TypeOK, ContextOK
    <2> QED BY <1>2, <1>3, <1>6, <2>1, <2>2 DEF ContextOK
  <1>8. DataOK'
    BY <1>1, <1>3 DEF Inv, TypeOK, DataOK, dataVars, jobVars
  <1>9. ServerOK'
    <2>1. CASE UNCHANGED <<serverVars, faults>>
      BY <2>1 DEF Inv, TypeOK, ServerOK, serverVars
    <2>2. CASE Serves(id, Command) /\ UNCHANGED faults
      BY <1>3, <2>2, ServesTyped DEF Inv, TypeOK, ServerOK
    <2>3. CASE Refuses(id, Command)
      <3>1. /\ wire' = Append(Before, Answer(id, Command, "err")) /\ Before \in Seq(Replies)
            /\ xfer' \in Transferring
        BY <2>3, BeforeTyped, NoTransferTyped DEF Refuses
      <3>2. wire' \in Seq(Replies)
        BY <1>2, <1>3, <3>1, AnswerTyped
      <3>3. faults' \in 0 .. MaxFaults
        BY <2>3, FaultOK DEF Refuses
      <3> QED BY <2>3, <3>1, <3>2, <3>3 DEF Refuses, Inv, TypeOK, ServerOK
    <2> QED BY <1>4, <2>1, <2>2, <2>3
  <1>10. AnswersAwaited'
    <2>1. client.state = "dead" => client'.state = "dead" \/ client'.state = "open"
      BY <1>6
    <2> QED BY <1>1, <1>3, <1>4, <1>6, <2>1 DEF Inv, AnswersAwaited, serverVars
  <1> QED BY <1>5, <1>7, <1>8, <1>9, <1>10 DEF Inv, TypeOK, Moves

(* A command to a context that is closed.                                   *)
LEMMA SendsClosedKeeps ==
  ASSUME Inv, Step \in Requests \cup Transfers, handles' = handles + 1,
         SendsClosed(handles + 1, Command), UNCHANGED <<jobVars, hit>>
  PROVE  Inv' /\ Moves
  <1> DEFINE id == handles + 1
  <1>1. /\ client' = AfterFailure(Closing(client))
        /\ client.state \in {"closing", "closed"} \/ task # NoTask
        /\ UNCHANGED <<mode, resolver, up, cache, errInfo, pipe, serverVars, faults>>
    BY DEF SendsClosed
  <1>2. CallsOK /\ cur # 0 /\ Command \in Requests \cup Transfers /\ Command # ""
    BY Stepping
  <1>3. /\ handles \in Nat /\ handles' \in Nat /\ 0 \in 0 .. handles' /\ id \in 0 .. handles'
        /\ \A n \in 0 .. handles : n \in 0 .. handles'
    BY OneMore DEF Inv, TypeOK, CallsOK
  <1>4. /\ client \in [gen : Nat, state : States] /\ client' \in [gen : Nat, state : States]
        /\ client'.state \in {"none", "new", "closing", "closed"}
    <2>1. client \in [gen : Nat, state : States] /\ client.state \in States
      BY DEF Inv, TypeOK, ContextOK
    <2>2. /\ Closing(client) \in [gen : Nat, state : States]
          /\ Closing(client).state \in {"none", "new", "closing", "closed"}
      BY <2>1 DEF Closing, States
    <2> QED BY <1>1, <2>1, <2>2, ClosingOK
  <1>5. CASE data' \in {0, data} /\ task' = NoTask /\ Fails
    <2>1. Moves
      BY <1>2, <1>3, <1>5, FailsMoves
    <2>2. ContextOK'
      BY <1>1, <1>3, <1>4, <1>5, NoTaskTyped DEF Inv, TypeOK, ContextOK
    <2>3. DataOK'
      BY <1>1, <1>3, <1>5 DEF Inv, TypeOK, DataOK, jobVars
    <2>4. AnswersAwaited'
      BY <1>4, <1>5 DEF AnswersAwaited
    <2> QED BY <1>1, <2>1, <2>2, <2>3, <2>4, ServerFrame DEF Inv, TypeOK, Moves, faultVars
  <1>6. CASE task' = [id |-> id, cmd |-> Command] /\ awaited' = id /\ UNCHANGED <<data, ops, cur, plan>>
    <2>1. /\ task' \in [id : 0 .. handles', cmd : Requests \cup Transfers \cup {""}]
          /\ task'.id = id /\ task'.cmd = Command /\ id # 0
      BY <1>2, <1>6, NewTask
    <2>2. Moves
      BY <1>2, <1>3, <1>6, StayMoves DEF CallsOK
    <2>3. ContextOK'
      BY <1>1, <1>2, <1>4, <2>1 DEF Inv, TypeOK, ContextOK
    <2>4. DataOK'
      BY <1>1, <1>3, <1>6 DEF Inv, TypeOK, DataOK, jobVars
    <2>5. AnswersAwaited'
      BY <1>4 DEF AnswersAwaited
    <2> QED BY <1>1, <2>2, <2>3, <2>4, <2>5, ServerFrame DEF Inv, TypeOK, Moves, faultVars
  <1> QED BY <1>5, <1>6 DEF SendsClosed

(* A command to a connection that is gone.                                  *)
LEMMA SendsDeadKeeps ==
  ASSUME Inv, Step \in Requests \cup Transfers, handles' = handles + 1,
         SendsDead(handles + 1, Command), UNCHANGED <<jobVars, hit>>
  PROVE  Inv' /\ Moves
  <1> DEFINE id == handles + 1
  <1>1. /\ client.state = "dead" /\ client' = AfterFailure(client) /\ Fails
        /\ task' = [id |-> id, cmd |-> Command]
        /\ UNCHANGED <<mode, resolver, dataVars, serverVars, faults>>
    BY DEF SendsDead
  <1>2. CallsOK /\ cur # 0 /\ Command \in Requests \cup Transfers /\ Command # ""
    BY Stepping
  <1>3. /\ handles \in Nat /\ handles' \in Nat /\ 0 \in 0 .. handles' /\ id \in 0 .. handles'
        /\ \A n \in 0 .. handles : n \in 0 .. handles'
        /\ task' \in [id : 0 .. handles', cmd : Requests \cup Transfers \cup {""}]
        /\ task'.id = id /\ task'.cmd = Command /\ id # 0
    BY <1>1, <1>2, NewTask
  <1>4. /\ client \in [gen : Nat, state : States] /\ client' \in [gen : Nat, state : States]
        /\ client'.state \in {"none", "dead"}
    BY <1>1, ClosingOK DEF Inv, TypeOK, ContextOK
  <1>5. Moves
    BY <1>1, <1>2, <1>3, FailsMoves
  <1>6. ContextOK'
    BY <1>1, <1>2, <1>3, <1>4 DEF Inv, TypeOK, ContextOK
  <1>7. DataOK'
    BY <1>1, <1>3 DEF Inv, TypeOK, DataOK, dataVars, jobVars
  <1>8. AnswersAwaited'
    BY <1>1, <1>4 DEF Inv, AnswersAwaited, serverVars
  <1> QED BY <1>1, <1>5, <1>6, <1>7, <1>8, ServerFrame DEF Inv, TypeOK, Moves, faultVars

(* A step that sends no command.                                            *)
LEMMA SendsNothingKeeps ==
  ASSUME Inv, awaited = 0, Step \in Requests \cup Transfers, SendsNothing(Command),
         UNCHANGED <<jobVars, hit>>
  PROVE  Inv' /\ Moves
  <1>1. Fails /\ UNCHANGED <<contextVars, dataVars, serverVars, faults>>
    BY DEF SendsNothing
  <1>2. CallsOK /\ cur # 0
    BY Stepping
  <1>3. Moves /\ awaited' = 0
    <2>1. handles' \in Nat
      BY <1>1, <1>2 DEF CallsOK, contextVars
    <2> QED BY <1>1, <1>2, <2>1, FailsMoves
  <1>4. ContextOK' /\ DataOK' /\ ServerOK'
    BY <1>1, ContextFrame, DataFrame, ServerFrame DEF contextVars, faultVars
  <1>5. AnswersAwaited'
    <2>1. task # NoTask => task.id # 0
      BY DEF Inv, TypeOK, ContextOK
    <2> QED BY <1>1, <2>1 DEF Inv, AnswersAwaited, contextVars, serverVars
  <1> QED BY <1>3, <1>4, <1>5 DEF Inv, TypeOK, Moves

(* A step of the plan starts its task.                                      *)
LEMMA HandleKeeps ==
  ASSUME Inv, Handle
  PROVE  Inv' /\ Moves
  <1>1. awaited = 0 /\ Step \in Requests \cup Transfers /\ UNCHANGED <<jobVars, hit>>
    BY DEF Handle
  <1>2. CASE handles' = handles + 1 /\ Sends(handles + 1, Command)
    BY <1>1, <1>2, SendsKeeps
  <1>3. CASE handles' = handles + 1 /\ SendsClosed(handles + 1, Command)
    BY <1>1, <1>3, SendsClosedKeeps
  <1>4. CASE handles' = handles + 1 /\ SendsDead(handles + 1, Command)
    BY <1>1, <1>4, SendsDeadKeeps
  <1>5. CASE SendsNothing(Command)
    BY <1>1, <1>5, SendsNothingKeeps
  <1> QED BY <1>2, <1>3, <1>4, <1>5 DEF Handle

(* The answers under way.                                                   *)
LEMMA WireTyped ==
  ASSUME Inv, wire # <<>>
  PROVE  /\ Head(wire) \in Replies /\ Tail(wire) \in Seq(Replies)
         /\ Head(wire).id \in Nat
  <1>1. wire \in Seq(Replies)
    BY DEF Inv, TypeOK, ServerOK
  <1>2. Head(wire) \in Replies /\ Tail(wire) \in Seq(Replies)
    BY <1>1
  <1> QED BY <1>2 DEF Replies

(* An answer on an open connection that finds a task finds the operation    *)
(* that waits for it.                                                       *)
LEMMA Awaited ==
  ASSUME Inv, wire # <<>>, client.state \in {"open", "dead"}, task # NoTask
  PROVE  /\ client.state = "open" /\ awaited = task.id /\ task.id \in Nat \ {0}
         /\ CallsOK /\ cur # 0 /\ handles \in Nat
         /\ task.cmd \in Requests \cup Transfers
  <1>1. client.state = "open" /\ awaited = task.id
    BY DEF Inv, AnswersAwaited
  <1>2. task \in [id : 0 .. handles, cmd : Requests \cup Transfers \cup {""}] /\ handles \in Nat
    BY DEF Inv, TypeOK, ContextOK, CallsOK
  <1>3. task.id # 0 /\ task.cmd # ""
    BY DEF Inv, TypeOK, ContextOK
  <1>4. task.id \in 0 .. handles /\ task.cmd \in Requests \cup Transfers \cup {""}
    BY <1>2
  <1>5. CallsOK /\ cur # 0
    BY <1>1, <1>3 DEF Inv, TypeOK, CallsOK
  <1>6. task.id \in Nat \ {0}
    <2>1. handles \in Nat /\ task.id \in 0 .. handles /\ task.id # 0
      BY <1>2, <1>3, <1>4
    <2> QED BY <2>1
  <1>7. task.cmd \in Requests \cup Transfers
    BY <1>3, <1>4
  <1> QED BY <1>1, <1>2, <1>5, <1>6, <1>7

(* The answer to a request.                                                 *)
LEMMA AnsweredKeeps ==
  ASSUME Inv, wire # <<>>, client.state \in {"open", "dead"}, task # NoTask,
         task.cmd \in Requests, Answered(Head(wire)),
         UNCHANGED <<handles, listener, xfer, remote, hit>>
  PROVE  Inv' /\ Moves
  <1> DEFINE r == Head(wire)
  <1>1. /\ client.state = "open" /\ awaited = task.id /\ task.id \in Nat \ {0}
        /\ CallsOK /\ cur # 0 /\ handles' \in Nat /\ handles \in Nat
    BY Awaited
  <1>2. UNCHANGED <<resolver, jobVars>>
    BY DEF Answered
  <1>3. CASE task.cmd = "USER" /\ r.code = "more"
    <2>1. UNCHANGED <<callVars, task, client, mode, dataVars>>
      BY <1>3 DEF Answered
    <2>2. /\ wire' \in {Append(Tail(wire), Answer(task.id, "PASS", "ok")),
                        Append(Tail(wire), Answer(task.id, "PASS", "err"))}
          /\ faults' \in 0 .. MaxFaults
      <3>1. faults \in 0 .. MaxFaults
        BY DEF Inv, TypeOK, ServerOK
      <3> QED BY <1>3, <3>1, FaultOK DEF Answered
    <2>3. wire' \in Seq(Replies)
      <3> DEFINE w == Tail(wire)
      <3>1. w \in Seq(Replies) /\ task.id \in Nat
        BY <1>1, WireTyped
      <3> HIDE DEF w
      <3>2. /\ Append(w, Answer(task.id, "PASS", "ok")) \in Seq(Replies)
            /\ Append(w, Answer(task.id, "PASS", "err")) \in Seq(Replies)
        BY <3>1, AnswerTyped
      <3> QED BY <2>2, <3>2 DEF w
    <2>4. Moves
      BY <2>1, StayedMoves
    <2>5. ContextOK' /\ DataOK'
      BY <1>2, <2>1, ContextFrame, DataFrame DEF contextVars
    <2>6. ServerOK'
      BY <2>2, <2>3 DEF Inv, TypeOK, ServerOK
    <2>7. AnswersAwaited'
      BY <1>1, <2>1 DEF Inv, AnswersAwaited, callVars
    <2> QED BY <2>4, <2>5, <2>6, <2>7 DEF Inv, TypeOK, Moves
  <1>4. CASE ~(task.cmd = "USER" /\ r.code = "more")
    <2>1. wire' = Tail(wire) /\ task' = NoTask /\ UNCHANGED faults
      BY <1>4 DEF Answered
    <2>2. ServerOK'
      BY <2>1, WireTyped DEF Inv, TypeOK, ServerOK
    <2>3. client \in [gen : Nat, state : States]
      BY DEF Inv, TypeOK, ContextOK
    <2>4. /\ client' \in [gen : Nat, state : States]
          /\ client'.state \in {"open", "none"}
      BY <1>1, <1>4, <2>3, ClosingOK DEF Answered
    <2>5. AnswersAwaited'
      BY <2>1, <2>4 DEF AnswersAwaited
    <2>6. Moves /\ mode' \in {"any", "EPSV", "PASV"} /\ DataOK'
      <3>1. mode \in {"any", "EPSV", "PASV"}
        BY DEF Inv, TypeOK, ContextOK
      <3>2. CASE Accepts(r) /\ task.cmd \in {"EPSV", "PASV"} /\ Connects(r.id)
        <4>1. CASE r.id = listener /\ client.state = "open"
          <5>1. /\ data' = r.id /\ up' = TRUE /\ pipe' = <<>>
                /\ cache' = <<>> /\ errInfo' = FALSE
                /\ mode' = task.cmd /\ Succeeds
            BY <3>2, <4>1 DEF Connects
          <5>2. Moves
            BY <1>1, <5>1, SucceedsMoves
          <5>3. data' \in Nat /\ cache' \in Seq(Chunk) /\ pipe' \in Seq(Chunk)
            BY <5>1, WireTyped
          <5>4. up' \in BOOLEAN /\ errInfo' \in BOOLEAN
            BY Zenon, <5>1
          <5>5. mode' \in {"any", "EPSV", "PASV"}
            BY <3>2, <5>1
          <5>6. DataOK'
            BY <1>2, <5>3, <5>4 DEF Inv, TypeOK, DataOK, jobVars
          <5> QED BY <5>2, <5>5, <5>6
        <4>2. CASE ~(r.id = listener /\ client.state = "open")
          <5>1. /\ errInfo' \in {errInfo, TRUE} /\ cache' \in {<<>>, cache}
                /\ Fails /\ UNCHANGED <<data, up, pipe, mode>>
            BY <3>2, <4>2 DEF Connects
          <5>2. Moves
            BY <1>1, <5>1, FailsMoves
          <5>3. errInfo' \in BOOLEAN
            BY Zenon, <5>1 DEF Inv, TypeOK, DataOK
          <5>4. cache' \in Seq(Chunk)
            <6>1. cache \in Seq(Chunk) /\ <<>> \in Seq(Chunk)
              BY DEF Inv, TypeOK, DataOK
            <6> QED BY <5>1, <6>1
          <5> QED BY <1>2, <3>1, <5>1, <5>2, <5>3, <5>4 DEF Inv, TypeOK, DataOK, jobVars
        <4> QED BY <4>1, <4>2
      <3>3. CASE (Succeeds \/ Fails) /\ UNCHANGED <<mode, dataVars>>
        <4>1. Moves
          BY <1>1, <3>3, SucceedsMoves, FailsMoves
        <4> QED BY <1>2, <3>1, <3>3, <4>1, DataFrame
      <3> QED BY <1>4, <3>2, <3>3 DEF Answered
    <2>7. ContextOK'
      BY <1>1, <1>2, <2>1, <2>4, <2>6, NoTaskTyped DEF Inv, TypeOK, ContextOK
    <2> QED BY <2>2, <2>5, <2>6, <2>7 DEF Inv, TypeOK, Moves
  <1> QED BY <1>3, <1>4

(* The poller or the loop that starts with a transfer.                      *)
LEMMA StartsTyped ==
  ASSUME Inv, task.id \in Nat \ {0}, cur # 0, Starts
  PROVE  pollers' \subseteq Pollers /\ loops' \subseteq Loops
  <1>1. /\ client.gen \in Nat /\ data \in Nat /\ ops[cur].size \in Nat
        /\ pollers \subseteq Pollers /\ loops \subseteq Loops
    <2>1. ops[cur] \in Operation
      BY Running DEF Inv, TypeOK
    <2>2. client \in [gen : Nat, state : States]
      BY DEF Inv, TypeOK, ContextOK
    <2> QED BY <2>1, <2>2 DEF Inv, TypeOK, DataOK, Operation
  <1>2. Poller \in Pollers
    BY <1>1 DEF Poller, Pollers
  <1>3. Loop \in Loops
    <2>1. FileSize \in 0 .. FileSize
      BY BoundAssumption
    <2> QED BY <1>1, <2>1 DEF Loop, Loops
  <1> QED BY <1>1, <1>2, <1>3 DEF Starts

(* The answers to a transfer: it starts, or it is over.                     *)
LEMMA TransferredKeeps ==
  ASSUME Inv, wire # <<>>, client.state \in {"open", "dead"}, task # NoTask,
         task.cmd \in Transfers, Transferred(Head(wire)),
         UNCHANGED <<handles, listener, xfer, remote, hit>>
  PROVE  Inv' /\ Moves
  <1> DEFINE r == Head(wire)
  <1>1. /\ client.state = "open" /\ awaited = task.id /\ task.id \in Nat \ {0} /\ cur # 0
    BY Awaited
  <1>2. wire' = Tail(wire) /\ UNCHANGED <<client, mode, up, cache, errInfo, faults>>
    BY DEF Transferred
  <1>3. /\ Moves /\ TaskStays /\ resolver' \in Resolvers
        /\ data' \in Nat /\ pipe' \in Seq(Chunk)
        /\ pollers' \subseteq Pollers /\ loops' \subseteq Loops
    <2>0. /\ resolver \in Resolvers /\ data \in Nat /\ pipe \in Seq(Chunk)
          /\ pollers \subseteq Pollers /\ loops \subseteq Loops
      BY DEF Inv, TypeOK, ContextOK, DataOK
    <2>1. CASE OnErrorOf(task.id) /\ UNCHANGED <<resolver, jobVars>>
      BY <1>1, <2>0, <2>1, OnErrorOfMoves DEF jobVars
    <2>2. CASE Starts /\ UNCHANGED <<callVars, task, data, pipe, resolver>>
      <3>1. Moves /\ TaskStays
        BY <2>2, StayedMoves DEF TaskStays, callVars
      <3> QED BY <1>1, <2>0, <2>2, <3>1, StartsTyped
    <2>3. CASE TryResolve([resolver EXCEPT !.answered = TRUE]) /\ UNCHANGED jobVars
      <3> DEFINE t == [resolver EXCEPT !.answered = TRUE]
      <3>1. t \in Resolvers
        BY <2>0 DEF Resolvers
      <3> HIDE DEF t
      <3>2. TryResolve(t)
        BY <2>3 DEF t
      <3> QED BY <1>1, <2>0, <2>3, <3>1, <3>2, TryResolveMoves DEF jobVars
    <2> QED BY <2>1, <2>2, <2>3 DEF Transferred
  <1>4. ContextOK'
    BY <1>2, <1>3, TaskStaysOK DEF Inv, TypeOK, ContextOK
  <1>5. DataOK'
    BY <1>2, <1>3 DEF Inv, TypeOK, DataOK
  <1>6. ServerOK'
    BY <1>2, WireTyped DEF Inv, TypeOK, ServerOK
  <1>7. AnswersAwaited'
    BY <1>1, <1>2, <1>3, TaskStaysAwaited
  <1> QED BY <1>3, <1>4, <1>5, <1>6, <1>7 DEF Inv, TypeOK, Moves

(* The control socket receives an answer.                                   *)
LEMMA ReceiveKeeps ==
  ASSUME Inv, Receive
  PROVE  Inv' /\ Moves
  <1>1. /\ wire # <<>> /\ client.state \in {"open", "dead"}
        /\ UNCHANGED <<handles, listener, xfer, remote, hit>>
    BY DEF Receive
  <1>2. CASE task = NoTask
    <2>1. NoTask.cmd \notin Requests \cup Transfers
      BY DEF NoTask, Requests, Access, Transfers
    <2>2. /\ wire' = Tail(wire)
          /\ UNCHANGED <<callVars, task, client, mode, resolver, dataVars, jobVars, faults>>
      BY <1>2, <2>1 DEF Receive
    <2>3. Moves
      BY <1>1, <2>2, StayedMoves
    <2>4. ContextOK' /\ DataOK'
      BY <1>1, <2>2, ContextFrame, DataFrame DEF contextVars
    <2>5. ServerOK'
      BY <1>1, <2>2, WireTyped DEF Inv, TypeOK, ServerOK
    <2>6. AnswersAwaited'
      BY <1>1, <1>2, <2>2 DEF Inv, AnswersAwaited
    <2> QED BY <2>3, <2>4, <2>5, <2>6 DEF Inv, TypeOK, Moves
  <1>3. CASE task # NoTask /\ task.cmd \in Requests
    <2>1. "RETR" \notin Requests /\ "LIST" \notin Requests /\ "STOR" \notin Requests
      BY DEF Requests, Access
    <2>2. Answered(Head(wire))
      BY <1>3, <2>1 DEF Receive, Transfers
    <2> QED BY <1>1, <1>3, <2>2, AnsweredKeeps
  <1>4. CASE task # NoTask /\ task.cmd \in Transfers
    <2>1. "RETR" \notin Requests /\ "LIST" \notin Requests /\ "STOR" \notin Requests
      BY DEF Requests, Access
    <2>2. Transferred(Head(wire))
      BY <1>4, <2>1 DEF Receive, Transfers
    <2> QED BY <1>1, <1>4, <2>2, TransferredKeeps
  <1>5. task = NoTask \/ task.cmd \in Requests \/ task.cmd \in Transfers
    BY <1>1, Awaited
  <1> QED BY <1>2, <1>3, <1>4, <1>5

-----------------------------------------------------------------------------
(* The pollers and the loops.                                               *)

(* An interval of a download looks at what arrived.                         *)
LEMMA PollKeeps ==
  ASSUME Inv, Poll
  PROVE  Inv' /\ Moves
  <1>1. UNCHANGED <<handles, mode, up, errInfo, loops, serverVars>>
    BY DEF Poll
  <1>2. PICK p \in pollers : PollError(p) \/ PollTakes(p) \/ PollWaits(p) \/ PollEnds(p)
    BY DEF Poll
  <1>3. /\ p \in Pollers /\ p.id \in Nat \ {0} /\ p.got \in Nat /\ p.idle \in Nat
        /\ pollers \subseteq Pollers
    <2>1. p \in Pollers /\ pollers \subseteq Pollers
      BY <1>2 DEF Inv, TypeOK, DataOK
    <2> QED BY <2>1 DEF Pollers
  <1>4. /\ client \in [gen : Nat, state : States] /\ mode \in {"any", "EPSV", "PASV"}
        /\ resolver \in Resolvers /\ data \in Nat /\ pipe \in Seq(Chunk) /\ cache \in Seq(Chunk)
        /\ up \in BOOLEAN /\ errInfo \in BOOLEAN /\ loops \subseteq Loops
        /\ faults \in 0 .. MaxFaults /\ hit \in BOOLEAN
    BY DEF Inv, TypeOK, ContextOK, DataOK, ServerOK
  <1>5. ASSUME Moves, TaskStays, client' = client \/ client' = Closing(client),
               resolver' \in Resolvers, data' \in Nat, pipe' \in Seq(Chunk),
               cache' \in Seq(Chunk), pollers' \subseteq Pollers,
               faults' \in 0 .. MaxFaults, hit' \in BOOLEAN
        PROVE  Inv' /\ Moves
    <2>1. /\ client' \in [gen : Nat, state : States]
          /\ client'.state = client.state \/ client'.state \in {"none", "closing", "closed"}
      BY <1>4, <1>5, ClosingOK
    <2>2. ContextOK'
      BY <1>1, <1>4, <1>5, <2>1, TaskStaysOK
    <2>3. DataOK'
      BY <1>1, <1>4, <1>5 DEF DataOK
    <2>4. ServerOK'
      BY <1>1, <1>5 DEF Inv, TypeOK, ServerOK, serverVars
    <2>5. AnswersAwaited'
      BY <1>1, <1>5, <2>1, TaskStaysAwaited DEF Inv, AnswersAwaited, serverVars
    <2> QED BY <1>5, <2>2, <2>3, <2>4, <2>5 DEF Inv, TypeOK, Moves
  <1>6. CASE PollError(p)
    <2>1. pollers' = pollers \ {p} /\ UNCHANGED <<resolver, cache, faults, hit>>
      BY <1>6 DEF PollError
    <2>2. CASE OnErrorOf(p.id) /\ client' = Closing(client)
      <3>1. Moves /\ TaskStays /\ data' \in Nat /\ pipe' \in Seq(Chunk)
        BY <1>1, <1>3, <2>2, OnErrorOfMoves
      <3> QED BY <1>3, <1>4, <1>5, <2>1, <2>2, <3>1
    <2>3. CASE UNCHANGED <<callVars, task, data, pipe, client>>
      <3>1. Moves /\ TaskStays
        BY <1>1, <2>3, StayedMoves DEF TaskStays, callVars
      <3> QED BY <1>3, <1>4, <1>5, <2>1, <2>3, <3>1
    <2> QED BY <1>6, <2>2, <2>3 DEF PollError
  <1>7. CASE PollTakes(p)
    <2> DEFINE taken == IF Alive(p) THEN cache ELSE <<Head(cache)>>
    <2>1. /\ UNCHANGED <<cur, plan, awaited, task, resolver, data, pipe, client, faults, hit>>
          /\ cache # <<>>
          /\ cache' \in {<<>>, Tail(cache)}
          /\ pollers' = (pollers \ {p}) \cup {[p EXCEPT !.got = p.got + Len(taken), !.idle = 0]}
          /\ ops' = IF Alive(p) /\ Step = "RETR"
                    THEN [ops EXCEPT ![cur].local = ops[cur].local \o taken] ELSE ops
      BY <1>7 DEF PollTakes
    <2>2. taken \in Seq(Chunk) /\ Len(taken) \in Nat /\ cache' \in Seq(Chunk)
      <3>1. Head(cache) \in Chunk /\ Tail(cache) \in Seq(Chunk) /\ <<>> \in Seq(Chunk)
        BY <1>4, <2>1
      <3>2. taken \in Seq(Chunk)
        BY <1>4, <3>1
      <3> HIDE DEF taken
      <3>3. Len(taken) \in Nat
        BY <3>2, LenProperties
      <3>4. cache' \in Seq(Chunk)
        BY <2>1, <3>1
      <3> QED BY <3>2, <3>3, <3>4
    <2> HIDE DEF taken
    <2>3. pollers' \subseteq Pollers
      <3>1. [p EXCEPT !.got = p.got + Len(taken), !.idle = 0] \in Pollers
        <4>1. p.got + Len(taken) \in Nat
          BY <1>3, <2>2
        <4> QED BY <1>3, <4>1 DEF Pollers
      <3> QED BY <1>3, <2>1, <3>1
    <2>4. Moves
      <3>1. handles' \in Nat /\ awaited' \in 0 .. handles' /\ (awaited' # 0 => cur # 0) /\ CallsOK
        BY <1>1, <2>1 DEF Inv, TypeOK, CallsOK
      <3>2. CASE Alive(p) /\ Step = "RETR"
        <4> DEFINE o == [ops[cur] EXCEPT !.local = ops[cur].local \o taken]
        <4>1. cur # 0
          BY <1>3, <3>1, <3>2, <2>1 DEF Alive
        <4>2. ops[cur] \in Operation /\ cur \in DOMAIN ops
          BY <3>1, <4>1, Running
        <4>3. ops[cur].local \o taken \in Seq(Chunk)
          BY <2>2, <4>2 DEF Operation
        <4>4. o \in Operation /\ o.kind = ops[cur].kind /\ o.told = ops[cur].told
          BY <4>2, <4>3 DEF Operation
        <4>5. ops' = [ops EXCEPT ![cur] = o]
          BY <2>1, <3>2
        <4> HIDE DEF o
        <4> QED BY <2>1, <3>1, <4>2, <4>4, <4>5, NotedMoves
      <3>3. CASE ~(Alive(p) /\ Step = "RETR")
        <4>1. UNCHANGED ops
          BY <2>1, <3>3
        <4> QED BY <2>1, <3>1, <4>1, StayMoves DEF CallsOK
      <3> QED BY <3>2, <3>3
    <2> QED BY <1>4, <1>5, <2>1, <2>2, <2>3, <2>4 DEF TaskStays
  <1>8. CASE PollWaits(p)
    <2>1. UNCHANGED <<callVars, task, resolver, data, pipe, client, cache>>
      BY <1>8 DEF PollWaits
    <2>2. Moves /\ TaskStays
      BY <1>1, <2>1, StayedMoves DEF TaskStays, callVars
    <2>3. pollers' \subseteq Pollers /\ faults' \in 0 .. MaxFaults /\ hit' \in BOOLEAN
      <3>1. CASE pollers' = (pollers \ {p}) \cup {[p EXCEPT !.idle = p.idle + 1]} /\ UNCHANGED <<faults, hit>>
        <4>1. [p EXCEPT !.idle = p.idle + 1] \in Pollers
          BY <1>3 DEF Pollers
        <4> QED BY <1>3, <1>4, <3>1, <4>1
      <3>2. CASE /\ Fault("slow") /\ hit' = TRUE
                 /\ pollers' = (pollers \ {p}) \cup {[p EXCEPT !.idle = Patience + 1]}
        <4>1. [p EXCEPT !.idle = Patience + 1] \in Pollers
          BY <1>3, BoundAssumption DEF Pollers
        <4>2. hit' \in BOOLEAN
          BY Zenon, <3>2
        <4> QED BY <1>3, <3>2, <4>1, <4>2, FaultOK
      <3> QED BY <1>8, <3>1, <3>2 DEF PollWaits
    <2> QED BY <1>4, <1>5, <2>1, <2>2, <2>3
  <1>9. CASE PollEnds(p)
    <2>1. pollers' = pollers \ {p} /\ DownloadDone(p) /\ UNCHANGED <<client, cache, faults, hit>>
      BY <1>9 DEF PollEnds
    <2>2. CASE Alive(p) /\ client.state = "open"
      <3> DEFINE t == [resolver EXCEPT !.done = TRUE, !.got = p.got]
      <3>1. t \in Resolvers
        BY <1>3, <1>4 DEF Resolvers
      <3>2. TryResolve(t)
        BY <2>1, <2>2 DEF DownloadDone
      <3> HIDE DEF t
      <3>3. cur # 0
        BY <1>3, <2>2 DEF Alive, Inv, TypeOK, CallsOK
      <3>4. /\ Moves /\ TaskStays /\ resolver' \in Resolvers
            /\ data' \in Nat /\ pipe' \in Seq(Chunk)
        BY <1>1, <3>1, <3>2, <3>3, TryResolveMoves
      <3> QED BY <1>3, <1>4, <1>5, <2>1, <3>4
    <2>3. CASE ~(Alive(p) /\ client.state = "open")
      <3>1. UNCHANGED <<resolver, data, pipe, task, callVars>>
        BY <2>1, <2>3 DEF DownloadDone
      <3>2. Moves /\ TaskStays
        BY <1>1, <3>1, StayedMoves DEF TaskStays, callVars
      <3> QED BY <1>3, <1>4, <1>5, <2>1, <3>1, <3>2
    <2> QED BY <2>2, <2>3
  <1> QED BY <1>2, <1>6, <1>7, <1>8, <1>9

(* A read-and-send loop of an upload goes on.                               *)
LEMMA SendKeeps ==
  ASSUME Inv, Send
  PROVE  Inv' /\ Moves
  <1>1. UNCHANGED <<handles, mode, cache, errInfo, pollers, wire, listener, faultVars>>
    BY DEF Send
  <1>2. PICK l \in loops : LoopSends(l) \/ LoopFails(l) \/ LoopEnds(l)
    BY DEF Send
  <1>3. l \in Loops /\ l.id \in Nat \ {0} /\ l.left \in 0 .. FileSize /\ loops \subseteq Loops
    <2>1. l \in Loops /\ loops \subseteq Loops
      BY <1>2 DEF Inv, TypeOK, DataOK
    <2> QED BY <2>1 DEF Loops
  <1>4. /\ client \in [gen : Nat, state : States] /\ mode \in {"any", "EPSV", "PASV"}
        /\ resolver \in Resolvers /\ data \in Nat /\ pipe \in Seq(Chunk) /\ cache \in Seq(Chunk)
        /\ up \in BOOLEAN /\ errInfo \in BOOLEAN /\ pollers \subseteq Pollers
        /\ xfer \in Transferring /\ remote \in Seq(Chunk)
    BY DEF Inv, TypeOK, ContextOK, DataOK, ServerOK
  <1>5. ASSUME Moves, TaskStays, client' = client \/ client' = Closing(client),
               resolver' \in Resolvers, data' \in Nat, pipe' \in Seq(Chunk), up' \in BOOLEAN,
               loops' \subseteq Loops, remote' \in Seq(Chunk),
               xfer' \in Transferring, xfer = NoTransfer => xfer' = NoTransfer
        PROVE  Inv' /\ Moves
    <2>1. /\ client' \in [gen : Nat, state : States]
          /\ client'.state = client.state \/ client'.state \in {"none", "closing", "closed"}
      BY <1>4, <1>5, ClosingOK
    <2>2. ContextOK'
      BY <1>1, <1>4, <1>5, <2>1, TaskStaysOK
    <2>3. DataOK'
      BY <1>1, <1>4, <1>5 DEF DataOK
    <2>4. ServerOK'
      BY <1>1, <1>5 DEF Inv, TypeOK, ServerOK, faultVars
    <2>5. AnswersAwaited'
      BY <1>1, <1>5, <2>1, TaskStaysAwaited DEF Inv, AnswersAwaited
    <2> QED BY <1>5, <2>2, <2>3, <2>4, <2>5 DEF Inv, TypeOK, Moves
  <1>6. CASE LoopSends(l)
    <2>1. /\ UNCHANGED <<callVars, task, client, data, pipe, up, resolver, xfer>>
          /\ loops' = (loops \ {l}) \cup {[l EXCEPT !.left = l.left - 1]} /\ l.left > 0
          /\ remote' \in {remote, Append(remote, [of |-> xfer.op, n |-> FileSize - l.left + 1])}
      BY <1>6 DEF LoopSends
    <2>2. l.left - 1 \in 0 .. FileSize /\ FileSize - l.left + 1 \in 1 .. FileSize
      <3>1. FileSize \in Nat /\ l.left \in 0 .. FileSize /\ l.left > 0
        BY <1>3, <2>1, BoundAssumption
      <3> QED BY <3>1
    <2>3. loops' \subseteq Loops
      <3>1. [l EXCEPT !.left = l.left - 1] \in Loops
        BY <1>3, <2>2 DEF Loops
      <3> QED BY <1>3, <2>1, <3>1
    <2>4. remote' \in Seq(Chunk)
      <3> DEFINE c == [of |-> xfer.op, n |-> FileSize - l.left + 1]
      <3>1. xfer.op \in 0 .. MaxOps + 1
        <4>1. xfer.op \in 0 .. MaxOps /\ MaxOps \in Nat
          BY TransferTyped, BoundAssumption
        <4> QED BY <4>1
      <3>2. c \in Chunk
        BY <2>2, <3>1 DEF Chunk
      <3> HIDE DEF c
      <3>3. Append(remote, c) \in Seq(Chunk)
        BY <1>4, <3>2, AppendProperties
      <3> QED BY <1>4, <2>1, <3>3 DEF c
    <2>5. Moves /\ TaskStays
      BY <1>1, <2>1, StayedMoves DEF TaskStays, callVars
    <2> QED BY <1>4, <1>5, <2>1, <2>3, <2>4, <2>5
  <1>7. CASE LoopFails(l)
    <2>1. loops' = loops \ {l} /\ UNCHANGED <<up, resolver, xfer, remote>>
      BY <1>7 DEF LoopFails
    <2>2. CASE OnErrorOf(l.id) /\ client' \in {client, Closing(client)}
      <3>1. Moves /\ TaskStays /\ data' \in Nat /\ pipe' \in Seq(Chunk)
        BY <1>1, <1>3, <2>2, OnErrorOfMoves
      <3> QED BY <1>3, <1>4, <1>5, <2>1, <2>2, <3>1
    <2>3. CASE UNCHANGED <<callVars, task, data, pipe, client>>
      <3>1. Moves /\ TaskStays
        BY <1>1, <2>3, StayedMoves DEF TaskStays, callVars
      <3> QED BY <1>3, <1>4, <1>5, <2>1, <2>3, <3>1
    <2> QED BY <1>7, <2>2, <2>3 DEF LoopFails
  <1>8. CASE LoopEnds(l)
    <2>1. /\ loops' = loops \ {l} /\ up' = FALSE /\ UNCHANGED <<client, remote>>
          /\ xfer' = IF xfer.id = l.id THEN [xfer EXCEPT !.ended = TRUE] ELSE xfer
      BY <1>8 DEF LoopEnds
    <2>2. up' \in BOOLEAN
      BY Zenon, <2>1
    <2>3. xfer' \in Transferring /\ (xfer = NoTransfer => xfer' = NoTransfer)
      <3>1. [xfer EXCEPT !.ended = TRUE] \in Transferring
        BY <1>4 DEF Transferring
      <3>2. NoTransfer.id = 0 /\ l.id # 0
        BY <1>3 DEF NoTransfer
      <3> QED BY <1>4, <2>1, <3>1, <3>2
    <2>4. CASE client.state = "open" /\ Alive(l)
      <3> DEFINE t == [resolver EXCEPT !.done = TRUE]
      <3>1. t \in Resolvers
        BY <1>4 DEF Resolvers
      <3>2. TryResolve(t)
        BY <1>8, <2>4 DEF LoopEnds
      <3> HIDE DEF t
      <3>3. cur # 0
        BY <1>3, <2>4 DEF Alive, Inv, TypeOK, CallsOK
      <3>4. /\ Moves /\ TaskStays /\ resolver' \in Resolvers
            /\ data' \in Nat /\ pipe' \in Seq(Chunk)
        BY <1>1, <3>1, <3>2, <3>3, TryResolveMoves
      <3> QED BY <1>3, <1>4, <1>5, <2>1, <2>2, <2>3, <3>4
    <2>5. CASE ~(client.state = "open" /\ Alive(l))
      <3>1. OnErrorOf(l.id) /\ UNCHANGED resolver
        BY <1>8, <2>5 DEF LoopEnds
      <3>2. Moves /\ TaskStays /\ data' \in Nat /\ pipe' \in Seq(Chunk)
        BY <1>1, <1>3, <3>1, OnErrorOfMoves
      <3> QED BY <1>3, <1>4, <1>5, <2>1, <2>2, <2>3, <3>1, <3>2
    <2> QED BY <2>4, <2>5
  <1> QED BY <1>2, <1>6, <1>7, <1>8

-----------------------------------------------------------------------------
(* The specification.                                                       *)

(* Every step keeps the invariant and is a step of the queue or none.       *)
LEMMA NextKeeps ==
  ASSUME Inv, [Next]_vars
  PROVE  Inv' /\ Moves
  <1>1. CASE UNCHANGED vars
    <2>1. UNCHANGED <<callVars, contextVars, dataVars, jobVars, serverVars, faultVars>>
      BY <1>1 DEF vars
    <2>2. Moves
      BY <2>1, StayedMoves DEF contextVars
    <2>3. ContextOK' /\ DataOK' /\ ServerOK'
      BY <2>1, ContextFrame, DataFrame, ServerFrame DEF contextVars
    <2>4. AnswersAwaited'
      BY <2>1 DEF Inv, AnswersAwaited, contextVars, callVars, serverVars
    <2> QED BY <2>2, <2>3, <2>4 DEF Inv, TypeOK, Moves
  <1>2. CASE \E kind \in Kinds, again \in BOOLEAN : Begin(kind, again)
    BY <1>2, BeginKeeps
  <1>3. CASE Program
    BY <1>3, EnsureKeeps, HandleKeeps, ReceiveKeeps, ControlClosedKeeps, FinishCloseKeeps DEF Program
  <1>4. CASE Poll
    BY <1>4, PollKeeps
  <1>5. CASE Send
    BY <1>5, SendKeeps
  <1>6. CASE Network
    BY <1>6, DeliverKeeps, ServerSendsKeeps, ServerConfirmsKeeps, ServerNoticesKeeps DEF Network
  <1>7. CASE Abort \/ Drop \/ Lose \/ Switch \/ Resize
    BY <1>7, AbortKeeps, DropKeeps, LoseKeeps, SwitchKeeps, ResizeKeeps
  <1> QED BY <1>1, <1>2, <1>3, <1>4, <1>5, <1>6, <1>7 DEF Next

(* The types and ranges of the state; the queue runs the last operation or  *)
(* none, that one and no other waits for its answer, and only the code of a *)
(* running operation waits for a task.                                      *)
THEOREM TypeCorrect == Spec => []TypeOK
  <1>1. Init => Inv
    BY InitOK
  <1>2. Inv /\ [Next]_vars => Inv'
    BY NextKeeps
  <1>3. Inv => TypeOK
    BY DEF Inv
  <1> QED BY <1>1, <1>2, <1>3, PTL DEF Spec

(* On a connection that stands, an answer finds no task, or the one that    *)
(* the operation waits for, whatever failed before.                         *)
THEOREM OnlyAwaitedAnswered == Spec => []AnswersAwaited
  <1>1. Init => Inv
    BY InitOK
  <1>2. Inv /\ [Next]_vars => Inv'
    BY NextKeeps
  <1>3. Inv => AnswersAwaited
    BY DEF Inv
  <1> QED BY <1>1, <1>2, <1>3, PTL DEF Spec

(* The storage implements the queue: one operation at a time, answered once *)
(* each, for all kinds of faults in any number.                             *)
THEOREM QueueImplemented == Spec => ImplementsQueue
  <1>1. Init => Inv /\ Queue!Init
    BY InitOK
  <1>2. Inv /\ [Next]_vars => Inv' /\ [Queue!Next]_(Queue!vars)
    BY NextKeeps DEF Moves
  <1> QED BY <1>1, <1>2, PTL DEF Spec, ImplementsQueue, Queue!Spec
=============================================================================
